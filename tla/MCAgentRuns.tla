---------------------------- MODULE MCAgentRuns -----------------------------
(***************************************************************************)
(* AgentRuns on small instances.  Workers, requests and texts are          *)
(* interchangeable, which the safety runs use as symmetry.                 *)
(***************************************************************************)
EXTENDS AgentRuns, TLC

Symmetry == Permutations(Workers) \cup Permutations(Requests) \cup Permutations(Messages)
=============================================================================
