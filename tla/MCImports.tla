------------------------------ MODULE MCImports ------------------------------
(* What comes in from other services, on small instances: a behaviour plays *)
(* either the connection to Granola or the import of a ChatGPT export.      *)
(* Syncs, requests and contents are interchangeable, importers and starts   *)
(* share the model values of syncs.                                         *)
EXTENDS Connectors, ChatGPTImport, TLC

VARIABLE scene

ImportsInit ==
  /\ scene \in {"connector", "export"}
  /\ Init /\ ImportInit

ConnectorScene ==
  /\ scene = "connector" /\ Next
  /\ UNCHANGED <<scene, importVars>>
ExportScene ==
  /\ scene = "export" /\ ImportNext
  /\ UNCHANGED <<scene, vars>>

ImportsNext == ConnectorScene \/ ExportScene

ImportsSpec == ImportsInit /\ [][ImportsNext]_<<scene, vars, importVars>>

Symmetry == Permutations(Syncs) \cup Permutations(Requests) \cup Permutations(Texts)
=============================================================================
