--------------------------- MODULE MCJobExecution ---------------------------
(* Instances of JobExecution for TLC. *)
EXTENDS JobExecution, TLC

(* Job, room and kernel ids are taken in one order (NextJob, NextRoom,      *)
(* NextKernel), so only the calls are interchangeable.                      *)
Symmetry == Permutations(Callers) \cup Permutations(Senders)

=============================================================================
