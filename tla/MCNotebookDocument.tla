------------------------- MODULE MCNotebookDocument -------------------------
(* NotebookDocument on small instances *)
EXTENDS NotebookDocument

CONSTANTS h1, h2, a, b

TwoCells == <<a, b>>

=============================================================================
