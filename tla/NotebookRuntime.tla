--------------------------- MODULE NotebookRuntime ---------------------------
(***************************************************************************)
(* What docs/runtime-model.md promises of a notebook's runtime: "Hypernote *)
(* and JupyterLab share one notebook session and one kernel."  A kernel is *)
(* started only for a notebook that has none, and a kernel that has ended  *)
(* never serves again.                                                     *)
(***************************************************************************)
CONSTANTS Notebooks, Kernels

VARIABLE kernels    \* the kernels that serve each notebook

TypeOK == kernels \in [Notebooks -> SUBSET Kernels]

Init == kernels = [n \in Notebooks |-> {}]

Start(n, k) ==
  /\ kernels[n] = {}
  /\ \A m \in Notebooks : k \notin kernels[m]
  /\ kernels' = [kernels EXCEPT ![n] = {k}]

End(n) ==
  /\ kernels[n] # {}
  /\ kernels' = [kernels EXCEPT ![n] = {}]

Next == \E n \in Notebooks : End(n) \/ \E k \in Kernels : Start(n, k)

Spec == Init /\ [][Next]_kernels

=============================================================================
