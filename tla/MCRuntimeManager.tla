-------------------------- MODULE MCRuntimeManager --------------------------
(* Instances of RuntimeManager for TLC. *)
EXTENDS RuntimeManager, TLC

(* Room and session ids are taken in one order (NextRoom, NextSession), so  *)
(* only the handlers are interchangeable.                                   *)
Symmetry == Permutations(Tasks)

=============================================================================
