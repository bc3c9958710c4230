---------------------------- MODULE NotebookDiff ----------------------------
(***************************************************************************)
(* What the SDK says has changed since a snapshot, src/hypernote/sdk.py.   *)
(* A snapshot token holds an entry per cell: its id, its place, and hashes *)
(* of its source and outputs, which tell contents apart as the contents    *)
(* themselves do.                                                          *)
(***************************************************************************)
EXTENDS Integers, Sequences

CONSTANT NoKey   \* a cell whose metadata has no position_key

IndexIn(cells, c) == CHOOSE i \in DOMAIN cells : cells[i].id = c
Ids(cells) == {cells[i].id : i \in DOMAIN cells}

(* _snapshot_cells: the place of a cell is its position key, or its index   *)
(* when it has none.                                                        *)
SnapshotCell(cells, i) ==
  [id |-> cells[i].id, src |-> cells[i].src, out |-> cells[i].out,
   order |-> IF cells[i].key = NoKey THEN i ELSE cells[i].key]

Snapshot(cells) == [i \in DOMAIN cells |-> SnapshotCell(cells, i)]

ChangeKinds == {"added", "deleted", "moved", "source", "outputs"}

(* An execution count changes with the outputs, and is one with them here. *)
EntryChanges(old, new) ==
  {k \in ChangeKinds : \/ k = "moved" /\ old.order # new.order
                       \/ k = "source" /\ old.src # new.src
                       \/ k = "outputs" /\ old.out # new.out}

(* Notebook.diff: the kinds of change of each cell, none if it is not listed *)
Diff(token, cells) ==
  LET now == Snapshot(cells)
  IN [c \in Ids(token) \cup Ids(now) |->
        IF c \notin Ids(token) THEN {"added"}
        ELSE IF c \notin Ids(now) THEN {"deleted"}
        ELSE EntryChanges(token[IndexIn(token, c)], now[IndexIn(now, c)])]

(* What has changed from "was" to "is", told from the cells themselves: a   *)
(* cell has moved when it stands at another index.                          *)
Changed(was, is) ==
  [c \in Ids(was) \cup Ids(is) |->
     IF c \notin Ids(was) THEN {"added"}
     ELSE IF c \notin Ids(is) THEN {"deleted"}
     ELSE LET i == IndexIn(was, c)
              j == IndexIn(is, c)
          IN {k \in ChangeKinds : \/ k = "moved" /\ i # j
                                  \/ k = "source" /\ was[i].src # is[j].src
                                  \/ k = "outputs" /\ was[i].out # is[j].out}]

=============================================================================
