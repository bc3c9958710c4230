----------------------------- MODULE MCSubshell -----------------------------
(* Instances of Subshell for TLC.  Client and subshell ids are taken in one *)
(* order (CHOOSE), so no set of model values is declared symmetric.         *)
EXTENDS Subshell

=============================================================================
