----------------------------- MODULE MCMemories -----------------------------
(* Memories on small instances: what a value, a wording or a request is does *)
(* not matter, only which are the same.                                      *)
EXTENDS Memories, TLC

Interchangeable ==
  Permutations(Values) \cup Permutations(Wordings) \cup Permutations(Requests)
=============================================================================
