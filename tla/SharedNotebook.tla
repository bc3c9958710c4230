--------------------------- MODULE SharedNotebook ---------------------------
(***************************************************************************)
(* What the shared document promises its editors: one sequence of cells,   *)
(* which changes by one whole edit of one cell at a time.  The exception   *)
(* is a move, which writes the document as it was when the move began,     *)
(* with its cell at another place.                                         *)
(***************************************************************************)
EXTENDS Integers, Sequences, SequencesExt

CONSTANTS
  CellIds, Writers,
  Start,     \* the cells there may be at first
  NoMove

VARIABLES
  cells,   \* each with its id, who wrote its source, whether it has outputs
  moves    \* the document each writer is about to write, or NoMove

Cell == [id : CellIds, src : Writers, out : BOOLEAN]
IdsOf(s) == {s[i].id : i \in DOMAIN s}

(* The rest stays as it is, in its order. *)
Insert ==
  \E i \in DOMAIN cells' :
    /\ cells = RemoveAt(cells', i)
    /\ cells'[i].id \notin IdsOf(cells) /\ ~cells'[i].out
Delete == \E i \in DOMAIN cells : cells' = RemoveAt(cells, i)
Replace == \E i \in DOMAIN cells, w \in Writers : cells' = [cells EXCEPT ![i] = [@ EXCEPT !.src = w]]
SetOutputs == \E i \in DOMAIN cells, o \in BOOLEAN : cells' = [cells EXCEPT ![i] = [@ EXCEPT !.out = o]]

Moved(s) == {InsertAt(RemoveAt(s, i), j, s[i]) : i \in DOMAIN s, j \in DOMAIN s}

Edit == Insert \/ Delete \/ Replace \/ SetOutputs \/ cells' \in Moved(cells)

BeginMove(w) ==
  /\ moves[w] = NoMove
  /\ \E s \in Moved(cells) : moves' = [moves EXCEPT ![w] = s]
  /\ UNCHANGED cells

EndMove(w) ==
  /\ moves[w] # NoMove
  /\ cells' = moves[w]
  /\ moves' = [moves EXCEPT ![w] = NoMove]

Init == cells \in Start /\ moves = [w \in Writers |-> NoMove]

Next == (UNCHANGED moves /\ Edit) \/ \E w \in Writers : BeginMove(w) \/ EndMove(w)

Spec == Init /\ [][Next]_<<cells, moves>>

=============================================================================
