----------------------- MODULE DocumentContents_proofs -----------------------
(* What the documents of NotebookDocument hold, for every value of its      *)
(* constants: its types, the exactness of a diff, and the refinement of     *)
(* SharedNotebook.                                                          *)
EXTENDS NotebookDocument_proofs, SequenceTheorems
LOCAL INSTANCE SequencesExt

-----------------------------------------------------------------------------
(* Sequences *)

LEMMA InsertAtProperties ==
  ASSUME NEW S, NEW s \in Seq(S), NEW i \in 1..Len(s)+1, NEW e \in S
  PROVE  /\ InsertAt(s, i, e) \in Seq(S)
         /\ Len(InsertAt(s, i, e)) = Len(s) + 1
         /\ \A j \in 1..Len(s)+1 : InsertAt(s, i, e)[j] =
              IF j < i THEN s[j] ELSE IF j = i THEN e ELSE s[j-1]
<1> DEFINE left == SubSeq(s, 1, i-1)
           right == SubSeq(s, i, Len(s))
           front == left \o <<e>>
<1>1. /\ left \in Seq(S) /\ Len(left) = i-1
      /\ \A j \in 1..i-1 : left[j] = s[j]
  BY SubSeqProperties
<1>2. /\ right \in Seq(S) /\ Len(right) = Len(s)+1-i
      /\ \A j \in 1..Len(s)+1-i : right[j] = s[i+j-1]
  BY SubSeqProperties
<1>3. <<e>> \in Seq(S) /\ Len(<<e>>) = 1 /\ <<e>>[1] = e
  OBVIOUS
<1>4. InsertAt(s, i, e) = front \o right
  BY DEF InsertAt
<1> HIDE DEF left, right
<1>5. /\ front \in Seq(S) /\ Len(front) = i
      /\ \A j \in 1..i : front[j] = IF j < i THEN s[j] ELSE e
  BY <1>1, <1>3, ConcatProperties
<1> HIDE DEF front
<1>6. /\ front \o right \in Seq(S) /\ Len(front \o right) = Len(s)+1
      /\ \A j \in 1..Len(s)+1 :
           (front \o right)[j] = IF j <= i THEN front[j] ELSE right[j-i]
  BY <1>2, <1>5, ConcatProperties
<1>7. \A j \in 1..Len(s)+1 : j > i => right[j-i] = s[j-1]
  BY <1>2
<1>8. QED
  BY <1>4, <1>5, <1>6, <1>7

LEMMA RemoveAtProperties ==
  ASSUME NEW S, NEW s \in Seq(S), NEW i \in 1..Len(s)
  PROVE  /\ RemoveAt(s, i) \in Seq(S)
         /\ Len(RemoveAt(s, i)) = Len(s) - 1
         /\ \A j \in 1..Len(s)-1 : RemoveAt(s, i)[j] = IF j < i THEN s[j] ELSE s[j+1]
<1> DEFINE left == SubSeq(s, 1, i-1)
           right == SubSeq(s, i+1, Len(s))
<1>1. /\ left \in Seq(S) /\ Len(left) = i-1
      /\ \A j \in 1..i-1 : left[j] = s[j]
  BY SubSeqProperties
<1>2. /\ right \in Seq(S) /\ Len(right) = Len(s)-i
      /\ \A j \in 1..Len(s)-i : right[j] = s[i+j]
  BY SubSeqProperties
<1>3. RemoveAt(s, i) = left \o right
  BY DEF RemoveAt
<1> HIDE DEF left, right
<1>4. /\ left \o right \in Seq(S) /\ Len(left \o right) = Len(s)-1
      /\ \A j \in 1..Len(s)-1 :
           (left \o right)[j] = IF j < i THEN left[j] ELSE right[j-i+1]
  BY <1>1, <1>2, ConcatProperties
<1>5. \A j \in 1..Len(s)-1 : j >= i => right[j-i+1] = s[j+1]
  BY <1>2
<1>6. QED
  BY <1>1, <1>3, <1>4, <1>5

(* Putting back what was taken out, and taking out what was put in *)
LEMMA RemoveInserted ==
  ASSUME NEW S, NEW s \in Seq(S), NEW i \in 1..Len(s)+1, NEW e \in S
  PROVE  RemoveAt(InsertAt(s, i, e), i) = s
<1> DEFINE t == InsertAt(s, i, e)
<1>1. /\ t \in Seq(S) /\ Len(t) = Len(s)+1
      /\ \A j \in 1..Len(s)+1 : t[j] = IF j < i THEN s[j] ELSE IF j = i THEN e ELSE s[j-1]
  BY InsertAtProperties
<1> HIDE DEF t
<1>2. /\ RemoveAt(t, i) \in Seq(S) /\ Len(RemoveAt(t, i)) = Len(s)
      /\ \A j \in 1..Len(s) : RemoveAt(t, i)[j] = IF j < i THEN t[j] ELSE t[j+1]
  BY <1>1, RemoveAtProperties
<1>3. \A j \in 1..Len(s) : RemoveAt(t, i)[j] = s[j]
  BY <1>1, <1>2
<1>4. QED
  BY <1>2, <1>3, SeqEqual DEF t

-----------------------------------------------------------------------------
(* Cells *)

PlainCell == [id : CellIds, src : Writers, out : BOOLEAN]
PlainOf(cell) == [id |-> cell.id, src |-> cell.src, out |-> cell.out]

(* A cell with one of its fields written *)
Sourced(cell, w) == [cell EXCEPT !.src = w]
WithOutputs(cell, o) == [cell EXCEPT !.out = o]
At(cell, k) == [cell EXCEPT !.key = k]

LEMMA CellFields ==
  ASSUME NEW cell \in Cell
  PROVE  /\ cell.id \in CellIds /\ cell.src \in Writers /\ cell.out \in BOOLEAN
         /\ cell.key \in Nat \cup {NoKey}
         /\ PlainOf(cell) \in PlainCell
BY DEF Cell, PlainOf, PlainCell

LEMMA SourcedCell ==
  ASSUME NEW cell \in Cell, NEW w \in Writers
  PROVE  /\ Sourced(cell, w) \in Cell
         /\ PlainOf(Sourced(cell, w)) = [PlainOf(cell) EXCEPT !.src = w]
         /\ Sourced(cell, w).id = cell.id /\ Sourced(cell, w).key = cell.key
BY DEF Cell, PlainOf, Sourced

LEMMA CellWithOutputs ==
  ASSUME NEW cell \in Cell, NEW o \in BOOLEAN
  PROVE  /\ WithOutputs(cell, o) \in Cell
         /\ PlainOf(WithOutputs(cell, o)) = [PlainOf(cell) EXCEPT !.out = o]
         /\ WithOutputs(cell, o).id = cell.id /\ WithOutputs(cell, o).key = cell.key
BY DEF Cell, PlainOf, WithOutputs

LEMMA CellAt ==
  ASSUME NEW cell \in Cell, NEW k \in Nat
  PROVE  /\ At(cell, k) \in Cell /\ PlainOf(At(cell, k)) = PlainOf(cell)
         /\ At(cell, k).id = cell.id /\ At(cell, k).key = k
BY DEF Cell, PlainOf, At

LEMMA NewCellTyped ==
  ASSUME NEW c \in CellIds, NEW w \in Writers
  PROVE  /\ NewCell(c, w) \in Cell /\ NewCell(c, w).id = c
         /\ NewCell(c, w).key = NoKey /\ NewCell(c, w).out = FALSE
BY DEF NewCell, Cell

LEMMA KeyedProperties ==
  ASSUME NEW s \in Seq(Cell)
  PROVE  /\ Keyed(s) \in Seq(Cell) /\ Len(Keyed(s)) = Len(s)
         /\ \A i \in 1..Len(s) :
              Keyed(s)[i].id = s[i].id /\ Keyed(s)[i].key = i /\ PlainOf(Keyed(s)[i]) = PlainOf(s[i])
<1>1. DOMAIN s = 1..Len(s) /\ Len(s) \in Nat
  OBVIOUS
<1>2. \A i \in 1..Len(s) : s[i] \in Cell /\ i \in Nat
  OBVIOUS
<1>3. \A i \in 1..Len(s) : Keyed(s)[i] = At(s[i], i)
  BY <1>1 DEF Keyed, At
<1>4. \A i \in 1..Len(s) : Keyed(s)[i] \in Cell
  BY <1>2, <1>3, CellAt
<1>5. DOMAIN Keyed(s) = 1..Len(s)
  BY <1>1 DEF Keyed
<1>6. Keyed(s) = [i \in 1..Len(s) |-> Keyed(s)[i]]
  BY <1>1 DEF Keyed
<1>7. Keyed(s) \in [1..Len(s) -> Cell]
  BY <1>4, <1>6
<1>8. Keyed(s) \in Seq(Cell) /\ Len(Keyed(s)) = Len(s)
  BY <1>1, <1>7
<1>9. QED
  <2>1. ASSUME NEW i \in 1..Len(s)
        PROVE  /\ At(s[i], i).id = s[i].id /\ At(s[i], i).key = i
               /\ PlainOf(At(s[i], i)) = PlainOf(s[i])
    BY <1>2, CellAt
  <2>2. QED
    BY <1>3, <1>8, <2>1

LEMMA PlainProperties ==
  ASSUME NEW s \in Seq(Cell)
  PROVE  /\ Plain(s) \in Seq(PlainCell) /\ Len(Plain(s)) = Len(s)
         /\ \A i \in 1..Len(s) : Plain(s)[i] = PlainOf(s[i])
<1>1. DOMAIN s = 1..Len(s) /\ Len(s) \in Nat
  OBVIOUS
<1>2. \A i \in 1..Len(s) : Plain(s)[i] = PlainOf(s[i])
  BY <1>1 DEF Plain, PlainOf
<1>3. \A i \in 1..Len(s) : PlainOf(s[i]) \in PlainCell
  BY CellFields
<1>4. Plain(s) = [i \in 1..Len(s) |-> PlainOf(s[i])]
  BY <1>1 DEF Plain, PlainOf
<1>5. Plain(s) \in [1..Len(s) -> PlainCell]
  BY <1>3, <1>4
<1>6. QED
  BY <1>1, <1>2, <1>5

(* Keys are nothing an editor sees. *)
LEMMA PlainKeyed ==
  ASSUME NEW s \in Seq(Cell)
  PROVE  Plain(Keyed(s)) = Plain(s)
<1> DEFINE t == Keyed(s)
<1>1. /\ t \in Seq(Cell) /\ Len(t) = Len(s)
      /\ \A i \in 1..Len(s) : PlainOf(t[i]) = PlainOf(s[i])
  BY KeyedProperties
<1> HIDE DEF t
<1>2. Plain(t) \in Seq(PlainCell) /\ Len(Plain(t)) = Len(s)
  BY <1>1, PlainProperties
<1>3. \A i \in 1..Len(s) : Plain(t)[i] = PlainOf(t[i])
  BY <1>1, PlainProperties
<1>4. QED
  BY <1>1, <1>2, <1>3, PlainProperties, SeqEqual DEF t

(* What is done to cells is done to what an editor sees of them. *)
LEMMA PlainInsertAt ==
  ASSUME NEW s \in Seq(Cell), NEW i \in 1..Len(s)+1, NEW e \in Cell
  PROVE  Plain(InsertAt(s, i, e)) = InsertAt(Plain(s), i, PlainOf(e))
<1> DEFINE t == InsertAt(s, i, e)
<1> DEFINE u == InsertAt(Plain(s), i, PlainOf(e))
<1> HIDE DEF t, u
<1>0. Len(s) \in Nat /\ i \in Nat
  OBVIOUS
<1>1. /\ t \in Seq(Cell) /\ Len(t) = Len(s)+1
      /\ \A j \in 1..Len(s)+1 : t[j] = IF j < i THEN s[j] ELSE IF j = i THEN e ELSE s[j-1]
  <2>1. t \in Seq(Cell)
    BY InsertAtProperties DEF t
  <2>2. Len(t) = Len(s)+1
    BY InsertAtProperties DEF t
  <2>3. \A j \in 1..Len(s)+1 : t[j] = IF j < i THEN s[j] ELSE IF j = i THEN e ELSE s[j-1]
    BY InsertAtProperties DEF t
  <2>4. QED
    BY <2>1, <2>2, <2>3
<1>2. /\ Plain(s) \in Seq(PlainCell) /\ Len(Plain(s)) = Len(s)
      /\ \A j \in 1..Len(s) : Plain(s)[j] = PlainOf(s[j])
  BY PlainProperties
<1>3. PlainOf(e) \in PlainCell
  BY CellFields
<1>4. /\ u \in Seq(PlainCell) /\ Len(u) = Len(s)+1
      /\ \A j \in 1..Len(s)+1 :
           u[j] = IF j < i THEN Plain(s)[j] ELSE IF j = i THEN PlainOf(e) ELSE Plain(s)[j-1]
  BY <1>2, <1>3, InsertAtProperties DEF u
<1> HIDE DEF t
<1>5. /\ Plain(t) \in Seq(PlainCell) /\ Len(Plain(t)) = Len(s)+1
      /\ \A j \in 1..Len(s)+1 : Plain(t)[j] = PlainOf(t[j])
  BY <1>1, PlainProperties
<1>6. ASSUME NEW j \in 1..Len(s)+1 PROVE Plain(t)[j] = u[j]
  <2>1. CASE j < i
    BY <1>0, <1>1, <1>2, <1>4, <1>5, <2>1
  <2>2. CASE j = i
    BY <1>1, <1>4, <1>5, <2>2
  <2>3. CASE j > i
    <3>1. j-1 \in 1..Len(s) /\ ~(j < i) /\ j # i
      BY <1>0, <2>3
    <3>2. t[j] = s[j-1] /\ u[j] = Plain(s)[j-1] /\ Plain(t)[j] = PlainOf(t[j])
      BY <1>1, <1>4, <1>5, <3>1
    <3>3. QED
      BY <1>2, <3>1, <3>2
  <2>4. QED
    BY <1>0, <2>1, <2>2, <2>3
<1>7. QED
  BY <1>4, <1>5, <1>6, SeqEqual DEF t, u

LEMMA PlainRemoveAt ==
  ASSUME NEW s \in Seq(Cell), NEW i \in 1..Len(s)
  PROVE  Plain(RemoveAt(s, i)) = RemoveAt(Plain(s), i)
<1> DEFINE t == RemoveAt(s, i)
<1> DEFINE u == RemoveAt(Plain(s), i)
<1>0. Len(s) \in Nat /\ i \in Nat
  OBVIOUS
<1>1. /\ t \in Seq(Cell) /\ Len(t) = Len(s)-1
      /\ \A j \in 1..Len(s)-1 : t[j] = IF j < i THEN s[j] ELSE s[j+1]
  BY RemoveAtProperties
<1>2. /\ Plain(s) \in Seq(PlainCell) /\ Len(Plain(s)) = Len(s)
      /\ \A j \in 1..Len(s) : Plain(s)[j] = PlainOf(s[j])
  BY PlainProperties
<1>3. /\ u \in Seq(PlainCell) /\ Len(u) = Len(s)-1
      /\ \A j \in 1..Len(s)-1 : u[j] = IF j < i THEN Plain(s)[j] ELSE Plain(s)[j+1]
  BY <1>2, RemoveAtProperties
<1> HIDE DEF t, u
<1>4. /\ Plain(t) \in Seq(PlainCell) /\ Len(Plain(t)) = Len(s)-1
      /\ \A j \in 1..Len(s)-1 : Plain(t)[j] = PlainOf(t[j])
  BY <1>1, PlainProperties
<1>5. ASSUME NEW j \in 1..Len(s)-1 PROVE Plain(t)[j] = u[j]
  <2>1. j \in 1..Len(s) /\ j+1 \in 1..Len(s)
    BY <1>0
  <2>2. CASE j < i
    BY <1>1, <1>2, <1>3, <1>4, <2>1, <2>2
  <2>3. CASE ~(j < i)
    BY <1>1, <1>2, <1>3, <1>4, <2>1, <2>3
  <2>4. QED
    BY <2>2, <2>3
<1>6. QED
  BY <1>3, <1>4, <1>5, SeqEqual DEF t, u

LEMMA PlainExcept ==
  ASSUME NEW s \in Seq(Cell), NEW i \in 1..Len(s), NEW e \in Cell
  PROVE  Plain([s EXCEPT ![i] = e]) = [Plain(s) EXCEPT ![i] = PlainOf(e)]
<1> DEFINE t == [s EXCEPT ![i] = e]
           u == [Plain(s) EXCEPT ![i] = PlainOf(e)]
<1>1. /\ t \in Seq(Cell) /\ Len(t) = Len(s)
      /\ \A j \in 1..Len(s) : t[j] = IF j = i THEN e ELSE s[j]
  BY ExceptSeq
<1>2. /\ Plain(s) \in Seq(PlainCell) /\ Len(Plain(s)) = Len(s)
      /\ \A j \in 1..Len(s) : Plain(s)[j] = PlainOf(s[j])
  BY PlainProperties
<1>3. PlainOf(e) \in PlainCell
  BY CellFields
<1>4. /\ u \in Seq(PlainCell) /\ Len(u) = Len(s)
      /\ \A j \in 1..Len(s) : u[j] = IF j = i THEN PlainOf(e) ELSE Plain(s)[j]
  BY <1>2, <1>3, ExceptSeq
<1> HIDE DEF t, u
<1>5. /\ Plain(t) \in Seq(PlainCell) /\ Len(Plain(t)) = Len(s)
      /\ \A j \in 1..Len(s) : Plain(t)[j] = PlainOf(t[j])
  BY <1>1, PlainProperties
<1>6. \A j \in 1..Len(s) : Plain(t)[j] = u[j]
  BY <1>1, <1>2, <1>4, <1>5
<1>7. QED
  BY <1>4, <1>5, <1>6, SeqEqual DEF t, u

-----------------------------------------------------------------------------
(* What the operations make of a document *)

(* A key is the place of its cell, or it has none. *)
OwnKeys(s) == \A i \in DOMAIN s : s[i].key \in {i, NoKey}

(* A document whose cells are cells, none of which is one of those that are *)
(* still to be made; its keys are its own if they are to be.                *)
Sound(s, fresh, keyed) ==
  /\ s \in Seq(Cell)
  /\ \A i \in DOMAIN s : s[i].id \notin fresh
  /\ keyed => OwnKeys(s)

LEMMA SoundLess ==
  ASSUME NEW s, NEW fresh, NEW keyed, Sound(s, fresh, keyed),
         NEW less \in SUBSET fresh, NEW k, k => keyed
  PROVE  Sound(s, less, k)
BY DEF Sound

LEMMA SoundSeq ==
  ASSUME NEW s \in Seq(Cell), NEW fresh, NEW keyed
  PROVE  /\ DOMAIN s = 1..Len(s) /\ Len(s) \in Nat
         /\ Sound(s, fresh, keyed) <=>
              /\ \A i \in 1..Len(s) : s[i].id \notin fresh
              /\ keyed => \A i \in 1..Len(s) : s[i].key \in {i, NoKey}
<1>1. DOMAIN s = 1..Len(s) /\ Len(s) \in Nat
  OBVIOUS
<1>2. QED
  BY <1>1 DEF Sound, OwnKeys

LEMMA SoundKeyed ==
  ASSUME NEW s, NEW fresh, Sound(s, fresh, FALSE), NEW keyed
  PROVE  Sound(Keyed(s), fresh, keyed)
<1>1. s \in Seq(Cell)
  BY DEF Sound
<1> DEFINE t == Keyed(s)
<1>2. /\ t \in Seq(Cell) /\ Len(t) = Len(s)
      /\ \A i \in 1..Len(s) : t[i].id = s[i].id /\ t[i].key = i
  BY <1>1, KeyedProperties
<1> HIDE DEF t
<1>3. \A i \in 1..Len(s) : s[i].id \notin fresh
  BY <1>1, SoundSeq
<1>4. Sound(t, fresh, keyed)
  BY <1>2, <1>3, SoundSeq
<1>5. QED
  BY <1>4 DEF t

LEMMA SoundInsertAt ==
  ASSUME NEW s, NEW fresh, Sound(s, fresh, FALSE), NEW i \in 1..Len(s)+1,
         NEW e \in Cell, e.id \notin fresh
  PROVE  Sound(InsertAt(s, i, e), fresh, FALSE)
<1>1. s \in Seq(Cell)
  BY DEF Sound
<1> DEFINE t == InsertAt(s, i, e)
<1>2. t \in Seq(Cell) /\ Len(t) = Len(s)+1
  BY <1>1, InsertAtProperties
<1>3. \A j \in 1..Len(s)+1 : t[j] = IF j < i THEN s[j] ELSE IF j = i THEN e ELSE s[j-1]
  BY <1>1, InsertAtProperties
<1> HIDE DEF t
<1>4. Len(s) \in Nat /\ \A j \in 1..Len(s) : s[j].id \notin fresh
  BY <1>1, SoundSeq
<1>5. ASSUME NEW j \in 1..Len(s)+1 PROVE t[j].id \notin fresh
  <2>1. j < i => j \in 1..Len(s)
    BY <1>4
  <2>2. ~(j < i) /\ j # i => j-1 \in 1..Len(s)
    BY <1>4
  <2>3. QED
    BY <1>3, <1>4, <2>1, <2>2
<1>6. Sound(t, fresh, FALSE)
  BY <1>2, <1>5, SoundSeq
<1>7. QED
  BY <1>6 DEF t

LEMMA SoundRemoveAt ==
  ASSUME NEW s, NEW fresh, Sound(s, fresh, FALSE), NEW i \in 1..Len(s)
  PROVE  Sound(RemoveAt(s, i), fresh, FALSE)
<1>1. s \in Seq(Cell)
  BY DEF Sound
<1> DEFINE t == RemoveAt(s, i)
<1>2. /\ t \in Seq(Cell) /\ Len(t) = Len(s)-1
      /\ \A j \in 1..Len(s)-1 : t[j] = IF j < i THEN s[j] ELSE s[j+1]
  BY <1>1, RemoveAtProperties
<1> HIDE DEF t
<1>3. Len(s) \in Nat /\ \A j \in 1..Len(s) : s[j].id \notin fresh
  BY <1>1, SoundSeq
<1>4. ASSUME NEW j \in 1..Len(s)-1 PROVE t[j].id \notin fresh
  <2>1. j \in 1..Len(s) /\ j+1 \in 1..Len(s)
    BY <1>3
  <2>2. QED
    BY <1>2, <1>3, <2>1
<1>5. Sound(t, fresh, FALSE)
  BY <1>2, <1>4, SoundSeq
<1>6. QED
  BY <1>5 DEF t

LEMMA SoundExcept ==
  ASSUME NEW s, NEW fresh, NEW keyed, Sound(s, fresh, keyed), NEW i \in 1..Len(s),
         NEW e \in Cell, e.id = s[i].id, e.key = s[i].key
  PROVE  Sound([s EXCEPT ![i] = e], fresh, keyed)
<1>1. s \in Seq(Cell)
  BY DEF Sound
<1> DEFINE t == [s EXCEPT ![i] = e]
<1>2. /\ t \in Seq(Cell) /\ Len(t) = Len(s)
      /\ \A j \in 1..Len(s) : t[j] = IF j = i THEN e ELSE s[j]
  BY <1>1, ExceptSeq
<1> HIDE DEF t
<1>3. /\ \A j \in 1..Len(s) : s[j].id \notin fresh
      /\ keyed => \A j \in 1..Len(s) : s[j].key \in {j, NoKey}
  BY <1>1, SoundSeq
<1>4. \A j \in 1..Len(s) : t[j].id = s[j].id /\ t[j].key = s[j].key
  BY <1>2
<1>5. Sound(t, fresh, keyed)
  BY <1>2, <1>3, <1>4, SoundSeq
<1>6. QED
  BY <1>5 DEF t

(* Where a cell is found, and where one is put *)
LEMMA IndexInFound ==
  ASSUME NEW s \in Seq(Cell), NEW c \in Ids(s)
  PROVE  IndexIn(s, c) \in 1..Len(s) /\ s[IndexIn(s, c)].id = c
<1>1. \E i \in DOMAIN s : s[i].id = c
  BY DEF Ids
<1>2. IndexIn(s, c) \in DOMAIN s /\ s[IndexIn(s, c)].id = c
  BY <1>1 DEF IndexIn
<1>3. QED
  BY <1>2

LEMMA InsertIndexInRange ==
  ASSUME NEW s \in Seq(Cell), NEW place, place.side # "end" => place.at \in Ids(s)
  PROVE  InsertIndex(s, place) \in 1..Len(s)+1
<1>1. Len(s) \in Nat
  OBVIOUS
<1>2. place.side \in {"before", "after"} => IndexIn(s, place.at) \in 1..Len(s)
  BY IndexInFound
<1>3. CASE place.side = "before"
  BY <1>1, <1>2, <1>3 DEF InsertIndex
<1>4. CASE place.side = "after"
  BY <1>1, <1>2, <1>4 DEF InsertIndex
<1>5. CASE place.side \notin {"before", "after"}
  <2>1. InsertIndex(s, place) = Len(s) + 1
    BY <1>5 DEF InsertIndex
  <2>2. QED
    BY <1>1, <2>1
<1>6. QED
  BY <1>3, <1>4, <1>5

(* The whole edits of a document that a writer can make, each a new cell of *)
(* its own, a cell less, a source, outputs, or a cell at another place      *)
MovesOf(s) == {InsertAt(RemoveAt(s, p[1]), p[2], s[p[1]]) : p \in (1..Len(s)) \X (1..Len(s))}
EditsBy(s, w) ==
  {InsertAt(s, i, NewCell(w, w)) : i \in {j \in 1..Len(s)+1 : w \notin Ids(s)}}
    \cup {RemoveAt(s, i) : i \in 1..Len(s)}
    \cup {[s EXCEPT ![i] = Sourced(s[i], w)] : i \in 1..Len(s)}
    \cup {[s EXCEPT ![p[1]] = WithOutputs(s[p[1]], p[2])] : p \in (1..Len(s)) \X BOOLEAN}
    \cup MovesOf(s)

LEMMA SoundMove ==
  ASSUME NEW s, NEW fresh, Sound(s, fresh, FALSE), NEW t \in MovesOf(s)
  PROVE  Sound(t, fresh, FALSE)
<1>1. PICK i \in 1..Len(s), j \in 1..Len(s) : t = InsertAt(RemoveAt(s, i), j, s[i])
  BY DEF MovesOf
<1>2. s \in Seq(Cell)
  BY DEF Sound
<1>3. s[i] \in Cell /\ s[i].id \notin fresh
  <2>1. s[i] \in Cell /\ i \in DOMAIN s
    BY <1>2
  <2>2. QED
    BY <2>1 DEF Sound
<1>4. Sound(RemoveAt(s, i), fresh, FALSE)
  BY SoundRemoveAt
<1>5. Len(RemoveAt(s, i)) = Len(s)-1 /\ Len(s) \in Nat
  BY <1>2, RemoveAtProperties
<1>6. j \in 1..Len(RemoveAt(s, i))+1
  BY <1>5
<1>7. QED
  BY <1>1, <1>3, <1>4, <1>6, SoundInsertAt

LEMMA SoundEdit ==
  ASSUME NEW s, NEW fresh, Sound(s, fresh, FALSE),
         NEW w \in Requests \cup {Lab}, w \notin fresh, NEW t \in EditsBy(s, w)
  PROVE  Sound(t, fresh, FALSE)
<1>1. s \in Seq(Cell) /\ w \in CellIds /\ w \in Writers
  BY DEF Sound, CellIds, Writers
<1>2. CASE \E i \in 1..Len(s)+1 : t = InsertAt(s, i, NewCell(w, w))
  BY <1>1, <1>2, NewCellTyped, SoundInsertAt, ZenonT(30)
<1>3. CASE \E i \in 1..Len(s) : t = RemoveAt(s, i)
  BY <1>3, SoundRemoveAt
<1>4. CASE \E i \in 1..Len(s) : t = [s EXCEPT ![i] = Sourced(s[i], w)]
  <2>1. PICK i \in 1..Len(s) : t = [s EXCEPT ![i] = Sourced(s[i], w)]
    BY <1>4
  <2>2. s[i] \in Cell
    BY <1>1
  <2>3. /\ Sourced(s[i], w) \in Cell
        /\ Sourced(s[i], w).id = s[i].id /\ Sourced(s[i], w).key = s[i].key
    BY <1>1, <2>2, SourcedCell
  <2>4. QED
    BY <2>1, <2>3, SoundExcept
<1>5. CASE \E i \in 1..Len(s), o \in BOOLEAN : t = [s EXCEPT ![i] = WithOutputs(s[i], o)]
  <2>1. PICK i \in 1..Len(s), o \in BOOLEAN : t = [s EXCEPT ![i] = WithOutputs(s[i], o)]
    BY <1>5
  <2>2. s[i] \in Cell
    BY <1>1
  <2>3. /\ WithOutputs(s[i], o) \in Cell
        /\ WithOutputs(s[i], o).id = s[i].id /\ WithOutputs(s[i], o).key = s[i].key
    BY <2>2, CellWithOutputs
  <2>4. QED
    BY <2>1, <2>3, SoundExcept
<1>6. CASE t \in MovesOf(s)
  BY <1>6, SoundMove
<1>7. QED
  BY <1>2, <1>3, <1>4, <1>5, <1>6 DEF EditsBy

(* A handler makes one of them, and Hypernote's keys with it. *)
LEMMA EditedIsEdit ==
  ASSUME NEW s \in Seq(Cell), NEW h \in Requests, h \notin Ids(s),
         NEW q, q.op \in CellOps \ {"move"}, ~NotFound(s, q)
  PROVE  \E t \in EditsBy(s, h) : Edited(s, q, h) = Keyed(t)
<1>1. CASE q.op = "insert"
  <2>1. q.place.side # "end" => q.place.at \in Ids(s)
    BY <1>1 DEF NotFound
  <2>2. InsertIndex(s, q.place) \in 1..Len(s)+1
    BY <2>1, InsertIndexInRange
  <2>3. InsertAt(s, InsertIndex(s, q.place), NewCell(h, h)) \in EditsBy(s, h)
    BY <2>2 DEF EditsBy
  <2>4. Edited(s, q, h) = Keyed(InsertAt(s, InsertIndex(s, q.place), NewCell(h, h)))
    BY <1>1 DEF Edited, Inserted
  <2>5. QED
    BY <2>3, <2>4
<1>2. CASE q.op # "insert"
  <2> DEFINE i == IndexIn(s, q.cell)
  <2>1. i \in 1..Len(s)
    BY <1>2, IndexInFound DEF NotFound
  <2>2. DOMAIN s = 1..Len(s)
    OBVIOUS
  <2>3. CASE q.op = "replace"
    <3>1. Edited(s, q, h) = Keyed([s EXCEPT ![i] = Sourced(s[i], h)])
      BY <2>3 DEF Edited, Replaced, Sourced
    <3>2. QED
      BY <2>1, <3>1 DEF EditsBy
  <2>4. CASE q.op = "delete"
    <3>1. Edited(s, q, h) = Keyed(RemoveAt(s, i))
      BY <2>4 DEF Edited, Deleted
    <3>2. QED
      BY <2>1, <3>1 DEF EditsBy
  <2>5. CASE q.op = "clear"
    <3>1. Edited(s, q, h) = Keyed([s EXCEPT ![i] = WithOutputs(s[i], FALSE)])
      BY <2>5 DEF Edited, Cleared, WithOutputs
    <3>2. [s EXCEPT ![i] = WithOutputs(s[i], FALSE)] \in EditsBy(s, h)
      <4>1. <<i, FALSE>> \in (1..Len(s)) \X BOOLEAN
        BY <2>1
      <4>2. QED
        BY <4>1 DEF EditsBy
    <3>3. QED
      BY <3>1, <3>2
  <2>6. QED
    BY <1>2, <2>3, <2>4, <2>5 DEF CellOps
<1>3. QED
  BY <1>1, <1>2

LEMMA MovedIsMove ==
  ASSUME NEW s \in Seq(Cell), NEW q, q.op = "move", ~NotFound(s, q)
  PROVE  Moved(s, q.cell, q.place) \in MovesOf(s)
<1> DEFINE i == IndexIn(s, q.cell)
           rest == RemoveAt(s, i)
           j == InsertIndex(rest, q.place)
<1>1. i \in 1..Len(s) /\ s[i].id = q.cell
  BY IndexInFound DEF NotFound, CellOps
<1> HIDE DEF i
<1>2. Len(s) \in Nat /\ DOMAIN s = 1..Len(s)
  OBVIOUS
<1>3. /\ rest \in Seq(Cell) /\ Len(rest) = Len(s)-1
      /\ \A k \in 1..Len(s)-1 : rest[k] = IF k < i THEN s[k] ELSE s[k+1]
  BY <1>1, RemoveAtProperties
<1> HIDE DEF rest
<1>4. q.place.side # "end" => q.place.at \in Ids(rest)
  <2>1. SUFFICES ASSUME q.place.side # "end" PROVE q.place.at \in Ids(rest)
    OBVIOUS
  <2>2. q.place.at \in Ids(s) /\ q.place.at # q.cell
    BY <2>1 DEF NotFound
  <2>3. PICK m \in 1..Len(s) : s[m].id = q.place.at
    BY <1>2, <2>2 DEF Ids
  <2>4. m # i
    BY <1>1, <2>2, <2>3
  <2>5. CASE m < i
    <3>1. m \in 1..Len(s)-1
      BY <1>1, <1>2, <2>5
    <3>2. rest[m] = s[m] /\ m \in DOMAIN rest
      BY <1>3, <2>5, <3>1
    <3>3. QED
      BY <2>3, <3>2 DEF Ids
  <2>6. CASE m > i
    <3>1. m-1 \in 1..Len(s)-1 /\ ~(m-1 < i) /\ (m-1)+1 = m
      BY <1>1, <1>2, <2>6
    <3>2. rest[m-1] = s[m] /\ m-1 \in DOMAIN rest
      BY <1>3, <3>1
    <3>3. QED
      BY <2>3, <3>2 DEF Ids
  <2>7. QED
    BY <1>1, <1>2, <2>4, <2>5, <2>6
<1>5. j \in 1..Len(rest)+1
  BY <1>3, <1>4, InsertIndexInRange
<1> HIDE DEF j
<1>6. j \in 1..Len(s)
  BY <1>2, <1>3, <1>5
<1>7. Moved(s, q.cell, q.place) = InsertAt(RemoveAt(s, i), j, s[i])
  BY DEF Moved, i, rest, j
<1>8. <<i, j>> \in (1..Len(s)) \X (1..Len(s))
  BY <1>1, <1>6
<1>9. QED
  BY <1>7, <1>8 DEF MovesOf

(* JupyterLab makes one of them, and leaves the keys alone. *)
LEMMA LabEditedIsEdit ==
  ASSUME NEW s \in Seq(Cell)
  PROVE  LabEdited(s) \subseteq EditsBy(s, Lab)
<1>1. DOMAIN s = 1..Len(s)
  OBVIOUS
<1>2. SUFFICES ASSUME NEW t \in LabEdited(s) PROVE t \in EditsBy(s, Lab)
  OBVIOUS
<1>3. CASE \E i \in IF Lab \in Ids(s) THEN {} ELSE 1..Len(s)+1 : t = InsertAt(s, i, NewCell(Lab, Lab))
  BY <1>3 DEF EditsBy
<1>4. CASE \E i \in DOMAIN s : t = [s EXCEPT ![i] = [@ EXCEPT !.src = Lab]]
  <2>1. PICK i \in 1..Len(s) : t = [s EXCEPT ![i] = Sourced(s[i], Lab)]
    BY <1>1, <1>4 DEF Sourced
  <2>2. QED
    BY <2>1 DEF EditsBy
<1>5. CASE \E i \in DOMAIN s : t = RemoveAt(s, i)
  BY <1>1, <1>5 DEF EditsBy
<1>6. CASE \E i \in DOMAIN s, j \in DOMAIN s : t = InsertAt(RemoveAt(s, i), j, s[i])
  <2>1. PICK i \in 1..Len(s), j \in 1..Len(s) : t = InsertAt(RemoveAt(s, i), j, s[i])
    BY <1>1, <1>6
  <2>2. <<i, j>> \in (1..Len(s)) \X (1..Len(s))
    OBVIOUS
  <2>3. QED
    BY <2>1, <2>2 DEF EditsBy, MovesOf
<1>7. QED
  BY <1>2, <1>3, <1>4, <1>5, <1>6 DEF LabEdited

-----------------------------------------------------------------------------
(* What requests are *)

LEMMA NewRequestTyped == NewRequest \in Request /\ AtEnd \in Place
<1>1. AtEnd \in Place
  BY DEF AtEnd, Place
<1>2. "none" \in Ops \cup {"none"}
  OBVIOUS
<1>3. QED
  BY <1>1, <1>2 DEF NewRequest, Request

LEMMA CallTyped ==
  ASSUME NEW op \in Ops, NEW c \in CellIds \cup {NoCell}, NEW place \in Place
  PROVE  Call(op, c, place) \in Request
<1> DEFINE q == NewRequest
<1>1. q \in Request
  BY NewRequestTyped
<1> HIDE DEF q
<1>2. [q EXCEPT !.op = op, !.cell = c, !.place = place] \in Request
  BY <1>1 DEF Request
<1>3. QED
  BY <1>2 DEF Call, q

LEMMA CallsTyped ==
  ASSUME NEW h \in Requests, NEW q \in Calls(h)
  PROVE  q \in Request
<1>1. Places \subseteq Place
  BY NewRequestTyped, DocumentAssumption DEF Places, Place
<1>2. h \in CellIds /\ Targets \subseteq CellIds
  BY DocumentAssumption DEF CellIds
<1>3. {"insert", "move", "replace", "delete", "clear", "read", "flush"} \subseteq Ops
  BY DEF Ops, CellOps
<1>4. PICK op \in Ops, c \in CellIds \cup {NoCell}, place \in Place : q = Call(op, c, place)
  <2>1. CASE \E p \in Places : q = Call("insert", h, p)
    BY <1>1, <1>2, <1>3, <2>1
  <2>2. CASE \E c \in Targets, p \in Places : q = Call("move", c, p)
    BY <1>1, <1>2, <1>3, <2>2
  <2>3. CASE \E o \in {"replace", "delete", "clear"}, c \in Targets : q = Call(o, c, AtEnd)
    BY <1>2, <1>3, <2>3, NewRequestTyped
  <2>4. CASE \E o \in {"read", "flush"} : q = Call(o, NoCell, AtEnd)
    BY <1>3, <2>4, NewRequestTyped
  <2>5. QED
    BY <2>1, <2>2, <2>3, <2>4 DEF Calls
<1>5. QED
  BY <1>4, CallTyped

LEMMA AnsweredTyped ==
  ASSUME NEW q \in Request, NEW ok \in BOOLEAN
  PROVE  Answered(q, ok) \in Request
<1> DEFINE n == NewRequest
<1>1. n \in Request
  BY NewRequestTyped
<1> HIDE DEF n
<1>2. q.op \in Ops \cup {"none"} /\ q.room \in DocRooms \cup {NoRoom}
  BY DEF Request
<1>3. [n EXCEPT !.pc = "answered", !.op = q.op, !.room = q.room, !.ok = ok] \in Request
  BY <1>1, <1>2 DEF Request
<1>4. QED
  BY <1>3 DEF Answered, n

LEMMA AfterSaveTyped ==
  ASSUME NEW h \in Requests, req[h] \in Request, NEW skipped \in BOOLEAN, AfterSave(h, skipped)
  PROVE  \E q \in Request : req' = [req EXCEPT ![h] = q] /\ q.pc = "answered"
<1> DEFINE a == Answered(req[h], FoundAgain(req[h]))
           q == [a EXCEPT !.skipped = skipped]
<1>1. FoundAgain(req[h]) \in BOOLEAN
  BY DEF FoundAgain
<1>2. a \in Request /\ a.pc = "answered"
  BY <1>1, AnsweredTyped, AnsweredShape
<1>3. req' = [req EXCEPT ![h] = q]
  BY DEF AfterSave
<1> HIDE DEF a
<1>4. q \in Request /\ q.pc = "answered"
  BY <1>2 DEF Request
<1> HIDE DEF q
<1>5. QED
  BY <1>3, <1>4

-----------------------------------------------------------------------------
(* What the documents hold *)

(* The requests that have put no cell anywhere yet *)
EarlyStages == {"new", "untitled", "renamed", "starting", "loading"}
Early == {h \in Requests : req[h].pc \in EarlyStages}

(* Every document there is: of a room, of the file, of a move on its way,   *)
(* and the one a snapshot was taken of, which the snapshot tells of.        *)
ContentInv ==
  /\ \A r \in DocRooms : Sound(docs[r].cells, Early, lab = 0)
  /\ disk # NoFile => Sound(disk, Early, lab = 0)
  /\ \A h \in Requests : req[h].pc = "setting" => Sound(req[h].cells, Early, lab = 0)
  /\ token # NoToken =>
       /\ Sound(token.cells, Early, lab = 0)
       /\ token.snap = Snapshot(token.cells)
       /\ served \in DocRooms

(* Nothing is opened before there is a file. *)
FileInv ==
  /\ disk = NoFile =>
       /\ served = NoRoom
       /\ \A h \in Requests : req[h].pc \in {"new", "untitled", "answered"}
  /\ \A h \in Requests : req[h].pc \in Working => served \in DocRooms

(* The types, but for the extension's *)
DocumentTyped ==
  /\ docs \in [DocRooms -> DocRoom]
  /\ served \in DocRooms \cup {NoRoom}
  /\ disk \in Seq(Cell) \cup {NoFile}
  /\ untitled \subseteq Requests
  /\ req \in [Requests -> Request]
  /\ editor \in [CellIds -> Requests \cup {Nobody}]
  /\ lab \in 0..MaxLab
  /\ token = NoToken \/ token.cells \in Seq(Cell)

DocumentInv == DocumentTyped /\ ContentInv /\ FileInv

(* What a step must show that changes one request *)
LEMMA HandlerKeeps ==
  ASSUME DocumentInv, NEW h \in Requests, NEW q \in Request, req' = [req EXCEPT ![h] = q],
         req[h].pc \in EarlyStages \/ q.pc \notin EarlyStages,
         q.pc = "setting" => Sound(q.cells, Early', lab = 0),
         docs' \in [DocRooms -> DocRoom],
         \A r \in DocRooms : docs'[r].cells = docs[r].cells \/ Sound(docs'[r].cells, Early', lab = 0),
         disk' = disk \/ Sound(disk', Early', lab = 0),
         disk' = NoFile => disk = NoFile /\ served' = NoRoom /\ q.pc \in {"new", "untitled", "answered"},
         served' = served \/ served' \in DocRooms,
         q.pc \in Working => served' \in DocRooms,
         untitled' \subseteq Requests, editor' \in [CellIds -> Requests \cup {Nobody}],
         UNCHANGED lab,
         token' = token \/ /\ Sound(token'.cells, Early', lab = 0)
                           /\ token'.snap = Snapshot(token'.cells)
                           /\ served' \in DocRooms
  PROVE  DocumentInv'
<1> USE DEF DocumentInv
<1>1. req' \in [Requests -> Request] /\ req'[h] = q /\ \A g \in Requests \ {h} : req'[g] = req[g]
  BY DEF DocumentTyped
<1>2. Early' \subseteq Early
  BY <1>1 DEF Early
<1>3. \A s : Sound(s, Early, lab = 0) => Sound(s, Early', lab' = 0)
  BY <1>2, SoundLess
<1>4. \A s : Sound(s, Early', lab = 0) => Sound(s, Early', lab' = 0)
  OBVIOUS
<1>5. \A s : Sound(s, Early', lab = 0) => s \in Seq(Cell)
  BY DEF Sound
<1>6. DocumentTyped'
  BY <1>1, <1>5 DEF DocumentTyped
<1>7. ContentInv'
  <2>1. \A r \in DocRooms : Sound(docs'[r].cells, Early', lab' = 0)
    BY <1>3, <1>4 DEF ContentInv
  <2>2. disk' # NoFile => Sound(disk', Early', lab' = 0)
    BY <1>3, <1>4 DEF ContentInv
  <2>3. \A g \in Requests : req'[g].pc = "setting" => Sound(req'[g].cells, Early', lab' = 0)
    BY <1>1, <1>3, <1>4 DEF ContentInv
  <2>4. token' # NoToken =>
          /\ Sound(token'.cells, Early', lab' = 0)
          /\ token'.snap = Snapshot(token'.cells) /\ served' \in DocRooms
    BY <1>3, <1>4 DEF ContentInv
  <2>5. QED
    BY <2>1, <2>2, <2>3, <2>4 DEF ContentInv
<1>8. FileInv'
  BY <1>1 DEF FileInv
<1>9. QED
  BY <1>6, <1>7, <1>8

LEMMA HoldingTyped ==
  ASSUME docs \in [DocRooms -> DocRoom], NEW r \in DocRooms, NEW cells \in Seq(Cell),
         NEW unsaved \in SUBSET Writers, docs' = Holding(r, cells, unsaved)
  PROVE  /\ docs' \in [DocRooms -> DocRoom]
         /\ docs'[r].cells = cells /\ docs'[r].loaded = TRUE /\ docs'[r].status = docs[r].status
         /\ \A s \in DocRooms \ {r} : docs'[s] = docs[s]
<1> DEFINE d == docs[r]
           e == [d EXCEPT !.loaded = TRUE, !.cells = cells, !.unsaved = unsaved]
<1>1. d \in DocRoom
  OBVIOUS
<1>2. docs' = [docs EXCEPT ![r] = e]
  BY DEF Holding
<1> HIDE DEF d
<1>3. e \in DocRoom /\ e.cells = cells /\ e.loaded = TRUE /\ e.status = d.status
  BY <1>1 DEF DocRoom
<1> HIDE DEF e
<1>4. /\ docs' \in [DocRooms -> DocRoom] /\ docs'[r] = e
      /\ \A s \in DocRooms \ {r} : docs'[s] = docs[s]
  BY <1>2, <1>3
<1>5. QED
  BY <1>3, <1>4 DEF d

LEMMA StatusTyped ==
  ASSUME docs \in [DocRooms -> DocRoom], NEW r \in DocRooms,
         NEW status \in {"unused", "starting", "open"},
         docs' = [docs EXCEPT ![r] = [@ EXCEPT !.status = status]]
  PROVE  /\ docs' \in [DocRooms -> DocRoom] /\ docs'[r].status = status
         /\ \A s \in DocRooms : docs'[s].cells = docs[s].cells /\ docs'[s].loaded = docs[s].loaded
         /\ \A s \in DocRooms \ {r} : docs'[s] = docs[s]
<1> DEFINE d == docs[r]
           e == [d EXCEPT !.status = status]
<1>1. d \in DocRoom
  OBVIOUS
<1>2. docs' = [docs EXCEPT ![r] = e]
  OBVIOUS
<1> HIDE DEF d
<1>3. e \in DocRoom /\ e.cells = d.cells /\ e.loaded = d.loaded /\ e.status = status
  BY <1>1 DEF DocRoom
<1> HIDE DEF e
<1>4. /\ docs' \in [DocRooms -> DocRoom] /\ docs'[r] = e
      /\ \A s \in DocRooms \ {r} : docs'[s] = docs[s]
  BY <1>2, <1>3
<1>5. QED
  BY <1>3, <1>4 DEF d

(* The document a handler finds in its room *)
LEMMA ContentSound ==
  ASSUME Shape, DocumentInv, NEW h \in Requests, req[h].pc = "loading"
  PROVE  /\ req[h].room \in DocRooms /\ req[h] \in Request /\ disk # NoFile
         /\ docs[req[h].room].unsaved \in SUBSET Writers
         /\ Content(req[h].room) \in Seq(Cell)
         /\ Sound(Content(req[h].room), Early, lab = 0)
<1>1. req[h].room \in DocRooms
  BY DEF Shape
<1>2. disk # NoFile
  BY DEF DocumentInv, FileInv
<1>3. Sound(Content(req[h].room), Early, lab = 0)
  BY <1>1, <1>2 DEF DocumentInv, ContentInv, Content
<1>4. docs[req[h].room] \in DocRoom /\ req[h] \in Request
  BY <1>1 DEF DocumentInv, DocumentTyped
<1>5. docs[req[h].room].unsaved \in SUBSET Writers
  BY <1>4 DEF DocRoom
<1>6. QED
  BY <1>1, <1>2, <1>3, <1>4, <1>5 DEF Sound

(* A request that gets a room, of a notebook that is there *)
LEMMA GetsRoomKept ==
  ASSUME DocumentInv, NEW h \in Requests, req[h].pc \in EarlyStages, NEW q \in Request,
         GetsRoom(h, q), disk' = disk \/ Sound(disk', Early, lab = 0), disk' # NoFile,
         UNCHANGED <<served, untitled, editor, lab, token>>
  PROVE  DocumentInv'
<1>1. served \in DocRooms \cup {NoRoom} /\ docs \in [DocRooms -> DocRoom]
  BY DEF DocumentInv, DocumentTyped
<1>3. PICK s \in Request :
        /\ req' = [req EXCEPT ![h] = s] /\ s.pc \in {"loading", "starting"}
        /\ s.pc = "loading" => served \in DocRooms
        /\ docs' \in [DocRooms -> DocRoom]
        /\ \A r \in DocRooms : docs'[r].cells = docs[r].cells
  <2>1. CASE served # NoRoom /\ UNCHANGED docs
             /\ req' = [req EXCEPT ![h] = [q EXCEPT !.pc = "loading", !.room = served]]
    <3>1. /\ [q EXCEPT !.pc = "loading", !.room = served] \in Request
          /\ [q EXCEPT !.pc = "loading", !.room = served].pc = "loading"
      BY <1>1 DEF Request
    <3>2. QED
      BY <1>1, <2>1, <3>1
  <2>2. CASE MayOpen /\ req' = [req EXCEPT ![h] = [q EXCEPT !.pc = "starting", !.room = FreshRoom]]
             /\ docs' = [docs EXCEPT ![FreshRoom] = [@ EXCEPT !.status = "starting"]]
    <3>1. FreshRoom \in DocRooms
      BY <2>2, FreshRoomUnused
    <3>2. /\ [q EXCEPT !.pc = "starting", !.room = FreshRoom] \in Request
          /\ [q EXCEPT !.pc = "starting", !.room = FreshRoom].pc = "starting"
      BY <3>1 DEF Request
    <3>3. docs' \in [DocRooms -> DocRoom] /\ \A r \in DocRooms : docs'[r].cells = docs[r].cells
      BY <1>1, <2>2, <3>1, StatusTyped
    <3>4. QED
      BY <2>2, <3>2, <3>3
  <2>3. QED
    BY <2>1, <2>2 DEF GetsRoom
<1>4. Early' \subseteq Early
  BY <1>3 DEF Early, DocumentInv, DocumentTyped
<1>5. disk' = disk \/ Sound(disk', Early', lab = 0)
  BY <1>4, SoundLess
<1>6. untitled' \subseteq Requests /\ editor' \in [CellIds -> Requests \cup {Nobody}]
  BY DEF DocumentInv, DocumentTyped
<1>7. s.pc \in Working => served' \in DocRooms
  BY <1>3 DEF Working
<1>8. QED
  BY <1>3, <1>5, <1>6, <1>7, HandlerKeeps

(* A handler that has its document: what it writes is sound. *)
LEMMA HoldingKept ==
  ASSUME Shape, DocumentInv, NEW h \in Requests, req[h].pc \in {"loading", "setting"},
         NEW cells, Sound(cells, Early', lab = 0),
         NEW unsaved, unsaved \subseteq docs[req[h].room].unsaved \cup {h},
         docs' = Holding(req[h].room, cells, unsaved),
         NEW q \in Request, req' = [req EXCEPT ![h] = q],
         q.pc \in {"setting", "saving", "answered"},
         q.pc = "setting" => Sound(q.cells, Early', lab = 0),
         UNCHANGED <<served, disk, untitled, editor, lab>>,
         \/ token' = token
         \/ /\ Sound(token'.cells, Early', lab = 0)
            /\ token'.snap = Snapshot(token'.cells)
  PROVE  DocumentInv'
<1>1. req[h].room \in DocRooms /\ served \in DocRooms /\ disk # NoFile
  BY DEF Shape, DocumentInv, FileInv, Working
<1>2. docs \in [DocRooms -> DocRoom]
  BY DEF DocumentInv, DocumentTyped
<1>3. cells \in Seq(Cell)
  BY DEF Sound
<1>4. unsaved \in SUBSET Writers
  BY <1>1, <1>2 DEF DocRoom, Writers
<1>5. /\ docs' \in [DocRooms -> DocRoom]
      /\ \A r \in DocRooms : docs'[r].cells = docs[r].cells \/ Sound(docs'[r].cells, Early', lab = 0)
  BY <1>1, <1>2, <1>3, <1>4, HoldingTyped, ZenonT(30)
<1>6. q.pc \notin EarlyStages
  BY DEF EarlyStages
<1>7. untitled' \subseteq Requests /\ editor' \in [CellIds -> Requests \cup {Nobody}]
  BY DEF DocumentInv, DocumentTyped
<1>8. QED
  BY <1>1, <1>5, <1>6, <1>7, HandlerKeeps

(* A handler that touches no document *)
LEMMA RequestKept ==
  ASSUME DocumentInv, NEW h \in Requests, NEW q \in Request, req' = [req EXCEPT ![h] = q],
         req[h].pc \in EarlyStages \/ q.pc \notin EarlyStages,
         q.pc \in {"untitled", "answered"},
         untitled' \subseteq Requests, UNCHANGED <<docs, served, disk, editor, lab, token>>
  PROVE  DocumentInv'
<1>1. docs' \in [DocRooms -> DocRoom] /\ editor' \in [CellIds -> Requests \cup {Nobody}]
  BY DEF DocumentInv, DocumentTyped
<1>2. disk' = NoFile => disk = NoFile /\ served' = NoRoom
  BY DEF DocumentInv, FileInv
<1>3. q.pc # "setting" /\ q.pc \notin Working
  BY DEF Working
<1>4. QED
  BY <1>1, <1>2, <1>3, HandlerKeeps

LEMMA EarlyLeft ==
  ASSUME DocumentInv, NEW h \in Requests, NEW q, req' = [req EXCEPT ![h] = q],
         q.pc \in {"setting", "saving", "answered"}
  PROVE  Early' = Early \ {h}
<1>1. \A g \in Requests : req'[g] = IF g = h THEN q ELSE req[g]
  BY DEF DocumentInv, DocumentTyped
<1>2. q.pc \notin EarlyStages
  BY DEF EarlyStages
<1>3. QED
  BY <1>1, <1>2 DEF Early

(* A handler's edit: what it makes of the document it finds is sound, its   *)
(* new cell being nowhere yet.                                              *)
LEMMA EditsSound ==
  ASSUME Shape, DocumentInv, NEW h \in Requests, req[h].pc = "loading",
         req[h].op \in CellOps \ {"move"}, ~NotFound(Content(req[h].room), req[h])
  PROVE  Sound(Edited(Content(req[h].room), req[h], h), Early \ {h}, lab = 0)
<1> DEFINE s == Content(req[h].room)
<1>1. s \in Seq(Cell) /\ Sound(s, Early, lab = 0)
  BY ContentSound
<1>2. h \in Early
  BY DEF Early, EarlyStages
<1>3. h \notin Ids(s)
  BY <1>1, <1>2 DEF Sound, Ids
<1>4. ~NotFound(s, req[h])
  OBVIOUS
<1> HIDE DEF s
<1>5. PICK t \in EditsBy(s, h) : Edited(s, req[h], h) = Keyed(t)
  BY <1>1, <1>3, <1>4, EditedIsEdit
<1>6. Sound(s, Early \ {h}, FALSE)
  BY <1>1, SoundLess
<1>7. Sound(t, Early \ {h}, FALSE)
  BY <1>6, SoundEdit
<1>8. Sound(Keyed(t), Early \ {h}, lab = 0)
  BY <1>7, SoundKeyed
<1>9. QED
  BY <1>5, <1>8 DEF s

LEMMA MovedSound ==
  ASSUME NEW s, NEW fresh, NEW keyed, Sound(s, fresh, keyed), NEW q, q.op = "move",
         ~NotFound(s, q)
  PROVE  Sound(Keyed(Moved(s, q.cell, q.place)), fresh, keyed)
<1>1. s \in Seq(Cell) /\ Sound(s, fresh, FALSE)
  BY DEF Sound
<1>2. Moved(s, q.cell, q.place) \in MovesOf(s)
  BY <1>1, MovedIsMove
<1>3. QED
  BY <1>1, <1>2, SoundMove, SoundKeyed

LEMMA DocumentInvContinues ==
  ASSUME Shape, DocumentInv, NEW h \in Requests, Continues(h)
  PROVE  DocumentInv'
<1>0. /\ req[h] \in Request /\ docs \in [DocRooms -> DocRoom]
      /\ untitled \subseteq Requests /\ editor \in [CellIds -> Requests \cup {Nobody}]
  BY DEF DocumentInv, DocumentTyped
<1>1. CASE Begins(h)
  <2>1. PICK q \in Calls(h) : IF q.place.side = "both"
                             THEN req' = [req EXCEPT ![h] = Answered(q, FALSE)] /\ UNCHANGED docs
                             ELSE GetsRoom(h, q)
    BY <1>1 DEF Begins
  <2>2. q \in Request
    BY CallsTyped
  <2>3. CASE GetsRoom(h, q)
    BY <1>1, <2>2, <2>3, GetsRoomKept DEF Begins, EarlyStages
  <2>4. CASE req' = [req EXCEPT ![h] = Answered(q, FALSE)] /\ UNCHANGED docs
    <3>1. PICK s \in Request : req' = [req EXCEPT ![h] = s] /\ s.pc = "answered"
      <4>1. Answered(q, FALSE) \in Request /\ Answered(q, FALSE).pc = "answered"
        BY <2>2, AnsweredTyped, AnsweredShape
      <4>2. QED
        BY <2>4, <4>1
    <3>2. /\ untitled' \subseteq Requests /\ "answered" \notin EarlyStages
          /\ UNCHANGED <<docs, served, disk, editor, lab, token>>
      BY <1>0, <1>1, <2>4 DEF Begins, EarlyStages
    <3>3. QED
      BY <3>1, <3>2, RequestKept
  <2>5. QED
    BY <2>1, <2>3, <2>4
<1>2. CASE CallsCreate(h)
  <2>1. /\ [req[h] EXCEPT !.op = "create", !.pc = "untitled"] \in Request
        /\ [req[h] EXCEPT !.op = "create", !.pc = "untitled"].pc = "untitled"
    BY <1>0 DEF Request, Ops
  <2>2. req[h].pc \in EarlyStages /\ untitled' \subseteq Requests
    BY <1>0, <1>2 DEF CallsCreate, EarlyStages
  <2>3. /\ req' = [req EXCEPT ![h] = [req[h] EXCEPT !.op = "create", !.pc = "untitled"]]
        /\ UNCHANGED <<docs, served, disk, editor, lab, token>>
    BY <1>0, <1>2 DEF CallsCreate
  <2>4. QED
    BY <2>1, <2>2, <2>3, RequestKept
<1>3. CASE Renames(h)
  <2>1. CASE disk = NoFile
    <3>1. /\ [req[h] EXCEPT !.pc = "renamed"] \in Request
          /\ [req[h] EXCEPT !.pc = "renamed"].pc = "renamed"
      BY <1>0 DEF Request
    <3>2. disk' = <<>> /\ Sound(disk', Early', lab = 0) /\ disk' # NoFile
      <4>1. disk' = <<>>
        BY <1>3, <2>1 DEF Renames
      <4>2. <<>> \in Seq(Cell)
        BY EmptySeq
      <4>3. Sound(<<>>, Early', lab = 0)
        BY <4>2 DEF Sound, OwnKeys
      <4>4. QED
        BY <4>1, <4>2, <4>3, DocumentAssumption
    <3>3. req[h].pc \in EarlyStages /\ untitled' \subseteq Requests
      BY <1>0, <1>3, <2>1 DEF Renames, EarlyStages
    <3>4. /\ req' = [req EXCEPT ![h] = [req[h] EXCEPT !.pc = "renamed"]]
          /\ UNCHANGED <<docs, served, editor, lab, token>>
      BY <1>0, <1>3, <2>1 DEF Renames
    <3>5. "renamed" \notin Working /\ "renamed" # "setting"
      BY DEF Working
    <3>6. QED
      BY <1>0, <3>1, <3>2, <3>3, <3>4, <3>5, HandlerKeeps
  <2>2. CASE disk # NoFile
    <3>1. PICK s \in Request : req' = [req EXCEPT ![h] = s] /\ s.pc = "answered"
      <4>1. Answered(req[h], FALSE) \in Request /\ Answered(req[h], FALSE).pc = "answered"
        BY <1>0, AnsweredTyped, AnsweredShape
      <4>2. QED
        BY <1>0, <1>3, <2>2, <4>1 DEF Renames
    <3>2. /\ untitled' \subseteq Requests /\ "answered" \notin EarlyStages
          /\ UNCHANGED <<docs, served, disk, editor, lab, token>>
      BY <1>0, <1>3, <2>2 DEF Renames, EarlyStages
    <3>3. QED
      BY <3>1, <3>2, RequestKept
  <2>3. QED
    BY <2>1, <2>2
<1>4. CASE Stores(h)
  <2>1. <<>> \in Seq(Cell)
    BY EmptySeq
  <2>2. disk' = <<>> /\ Sound(disk', Early, lab = 0)
    BY <1>4, <2>1 DEF Stores, Sound, OwnKeys
  <2>3. disk' # NoFile
    BY <2>1, <2>2, DocumentAssumption
  <2>4. QED
    BY <1>0, <1>4, <2>2, <2>3, GetsRoomKept DEF Stores, EarlyStages
<1>5. CASE Starts(h)
  <2>1. /\ [req[h] EXCEPT !.pc = "loading"] \in Request
        /\ [req[h] EXCEPT !.pc = "loading"].pc = "loading"
    BY <1>0 DEF Request
  <2>2. req[h].room \in DocRooms /\ req[h].pc \in EarlyStages
    BY <1>5 DEF Starts, Shape, EarlyStages
  <2>3. /\ docs' = [docs EXCEPT ![req[h].room] = [@ EXCEPT !.status = "open"]]
        /\ req' = [req EXCEPT ![h] = [req[h] EXCEPT !.pc = "loading"]]
        /\ served' \in DocRooms /\ UNCHANGED <<disk, untitled, editor, lab, token>>
    BY <1>0, <1>5, <2>2 DEF Starts
  <2>4. docs' \in [DocRooms -> DocRoom] /\ \A r \in DocRooms : docs'[r].cells = docs[r].cells
    BY <1>0, <2>2, <2>3, StatusTyped
  <2>5. disk # NoFile
    BY <1>5 DEF Starts, DocumentInv, FileInv
  <2>6. QED
    BY <1>0, <2>1, <2>2, <2>3, <2>4, <2>5, HandlerKeeps
<1>6. CASE Edits(h)
  <2>1. /\ [req[h] EXCEPT !.pc = "saving"] \in Request
        /\ [req[h] EXCEPT !.pc = "saving"].pc = "saving"
    BY <1>0 DEF Request
  <2>2. PICK q \in Request : req' = [req EXCEPT ![h] = q] /\ q.pc = "saving"
    BY <1>0, <1>6, <2>1 DEF Edits
  <2>3. Early' = Early \ {h}
    BY <2>2, EarlyLeft
  <2>4. Sound(Edited(Content(req[h].room), req[h], h), Early', lab = 0)
    BY <1>6, <2>3, EditsSound DEF Edits
  <2>5. /\ docs' = Holding(req[h].room, Edited(Content(req[h].room), req[h], h),
                           docs[req[h].room].unsaved \cup {h})
        /\ req[h].pc = "loading" /\ UNCHANGED <<served, disk, untitled, editor, lab, token>>
    BY <1>6 DEF Edits
  <2>6. QED
    BY <2>2, <2>4, <2>5, HoldingKept
<1>7. CASE PlansMove(h)
  <2> DEFINE cells == Content(req[h].room)
             plan == Keyed(Moved(cells, req[h].cell, req[h].place))
  <2>1. /\ req[h].pc = "loading" /\ req[h].op = "move" /\ ~NotFound(cells, req[h])
        /\ docs' = Holding(req[h].room, cells, docs[req[h].room].unsaved)
        /\ req' = [req EXCEPT ![h] = [req[h] EXCEPT !.pc = "setting", !.cells = plan]]
        /\ UNCHANGED <<served, disk, untitled, editor, lab, token>>
    BY <1>0, <1>7 DEF PlansMove
  <2>2. Sound(cells, Early, lab = 0)
    BY <2>1, ContentSound
  <2> HIDE DEF cells
  <2>3. Sound(plan, Early, lab = 0)
    BY <2>1, <2>2, MovedSound
  <2> HIDE DEF plan
  <2>4. /\ [req[h] EXCEPT !.pc = "setting", !.cells = plan] \in Request
        /\ [req[h] EXCEPT !.pc = "setting", !.cells = plan].pc = "setting"
        /\ [req[h] EXCEPT !.pc = "setting", !.cells = plan].cells = plan
    BY <1>0, <2>3 DEF Request, Sound
  <2>5. PICK q \in Request : req' = [req EXCEPT ![h] = q] /\ q.pc = "setting" /\ q.cells = plan
    BY <2>1, <2>4
  <2>6. Early' = Early \ {h}
    BY <2>5, EarlyLeft
  <2>7. Sound(cells, Early', lab = 0) /\ Sound(plan, Early', lab = 0)
    BY <2>2, <2>3, <2>6, SoundLess
  <2>8. QED
    BY <2>1, <2>5, <2>7, HoldingKept
<1>8. CASE Sets(h)
  <2> DEFINE cells == req[h].cells
  <2>1. /\ req[h].pc = "setting"
        /\ docs' = Holding(req[h].room, cells, docs[req[h].room].unsaved \cup {h})
        /\ req' = [req EXCEPT ![h] = [req[h] EXCEPT !.pc = "saving", !.cells = NoMove]]
        /\ UNCHANGED <<served, disk, untitled, editor, lab, token>>
    BY <1>0, <1>8 DEF Sets
  <2>2. Sound(cells, Early, lab = 0)
    BY <2>1 DEF DocumentInv, ContentInv
  <2> HIDE DEF cells
  <2>3. /\ [req[h] EXCEPT !.pc = "saving", !.cells = NoMove] \in Request
        /\ [req[h] EXCEPT !.pc = "saving", !.cells = NoMove].pc = "saving"
    BY <1>0 DEF Request
  <2>4. PICK q \in Request : req' = [req EXCEPT ![h] = q] /\ q.pc = "saving"
    BY <2>1, <2>3
  <2>5. Early' = Early \ {h}
    BY <2>4, EarlyLeft
  <2>6. Sound(cells, Early', lab = 0)
    BY <2>2, <2>5, SoundLess
  <2>7. QED
    BY <2>1, <2>4, <2>6, HoldingKept
<1>9. CASE Misses(h) \/ Reads(h) \/ Flushes(h)
  <2> DEFINE cells == Content(req[h].room)
  <2>1. /\ req[h].pc = "loading"
        /\ docs' = Holding(req[h].room, cells, docs[req[h].room].unsaved)
        /\ UNCHANGED <<served, disk, untitled, editor, lab>>
        /\ \/ token' = token
           \/ token'.cells = cells /\ token'.snap = Snapshot(cells)
    <3>1. CASE Misses(h)
      BY <3>1 DEF Misses
    <3>2. CASE Reads(h)
      BY <3>2 DEF Reads
    <3>3. CASE Flushes(h)
      BY <3>3 DEF Flushes
    <3>4. QED
      BY <1>9, <3>1, <3>2, <3>3
  <2>2. Sound(cells, Early, lab = 0)
    BY <2>1, ContentSound
  <2> HIDE DEF cells
  <2>3. PICK q \in Request : req' = [req EXCEPT ![h] = q] /\ q.pc \in {"saving", "answered"}
    <3>1. CASE Misses(h) \/ Reads(h)
      <4>1. \E ok \in BOOLEAN : req' = [req EXCEPT ![h] = Answered(req[h], ok)]
        BY <1>0, <3>1 DEF Misses, Reads
      <4>2. \A ok \in BOOLEAN :
              Answered(req[h], ok) \in Request /\ Answered(req[h], ok).pc = "answered"
        BY <1>0, AnsweredTyped, AnsweredShape
      <4>3. QED
        BY <4>1, <4>2
    <3>2. CASE Flushes(h)
      <4>1. /\ [req[h] EXCEPT !.pc = "saving"] \in Request
            /\ [req[h] EXCEPT !.pc = "saving"].pc = "saving"
        BY <1>0 DEF Request
      <4>2. QED
        BY <1>0, <3>2, <4>1 DEF Flushes
    <3>3. QED
      BY <1>9, <3>1, <3>2
  <2>4. Early' = Early \ {h}
    BY <2>3, EarlyLeft
  <2>5. Sound(cells, Early', lab = 0)
    BY <2>2, <2>4, SoundLess
  <2>6. \/ token' = token
        \/ /\ Sound(token'.cells, Early', lab = 0)
           /\ token'.snap = Snapshot(token'.cells)
    BY <2>1, <2>5
  <2>7. QED
    BY <2>1, <2>3, <2>5, <2>6, HoldingKept
<1>10. CASE Saves(h) \/ SkipsSave(h)
  <2> DEFINE r == req[h].room
  <2>1. PICK skipped \in BOOLEAN : AfterSave(h, skipped)
    BY <1>10 DEF Saves, SkipsSave
  <2>2. /\ req[h].pc = "saving"
        /\ UNCHANGED <<served, untitled, lab, token>>
        /\ editor' = editor \/ editor' = [editor EXCEPT ![req[h].cell] = h]
    BY <1>10 DEF Saves, SkipsSave, AfterSave, WithEditor
  <2>3. r \in DocRooms /\ served \in DocRooms /\ disk # NoFile
    BY <2>2 DEF Shape, DocumentInv, FileInv, Working
  <2>4. PICK q \in Request : req' = [req EXCEPT ![h] = q] /\ q.pc = "answered"
    BY <1>0, <2>1, AfterSaveTyped
  <2>5. docs' \in [DocRooms -> DocRoom] /\ \A s \in DocRooms : docs'[s].cells = docs[s].cells
    <3>1. docs[r] \in DocRoom
      BY <1>0, <2>3
    <3>2. /\ [docs[r] EXCEPT !.unsaved = {}] \in DocRoom
          /\ [docs[r] EXCEPT !.unsaved = {}].cells = docs[r].cells
      BY <3>1 DEF DocRoom
    <3>3. \/ docs' = [docs EXCEPT ![r] = [docs[r] EXCEPT !.unsaved = {}]]
          \/ docs' = docs
      BY <1>0, <1>10 DEF Saves, SkipsSave
    <3>4. QED
      BY <1>0, <2>3, <3>2, <3>3
  <2>6. Early' = Early \ {h}
    BY <2>4, EarlyLeft
  <2>7. disk' \in {disk, docs[r].cells}
    BY <1>10 DEF Saves, SkipsSave
  <2>8. Sound(disk', Early', lab = 0)
    BY <2>3, <2>6, <2>7, SoundLess DEF DocumentInv, ContentInv
  <2>9. disk' # NoFile
    BY <2>8, DocumentAssumption DEF Sound
  <2>10. editor' \in [CellIds -> Requests \cup {Nobody}]
    BY <1>0, <2>2
  <2>11. "answered" \notin EarlyStages
    BY DEF EarlyStages
  <2>12. QED
    BY <1>0, <2>2, <2>3, <2>4, <2>5, <2>8, <2>9, <2>10, <2>11, HandlerKeeps
<1>11. CASE SaveFails(h) \/ Refused(h)
  <2>1. /\ req' = [req EXCEPT ![h] = Answered(req[h], FALSE)]
        /\ UNCHANGED <<docs, served, disk, untitled, editor, lab, token>>
    BY <1>0, <1>11 DEF SaveFails, Refused
  <2>2. Answered(req[h], FALSE) \in Request /\ Answered(req[h], FALSE).pc = "answered"
    BY <1>0, AnsweredTyped, AnsweredShape
  <2>3. "answered" \notin EarlyStages
    BY DEF EarlyStages
  <2>4. QED
    BY <1>0, <2>1, <2>2, <2>3, RequestKept
<1>12. QED
  BY <1>1, <1>2, <1>3, <1>4, <1>5, <1>6, <1>7, <1>8, <1>9, <1>10, <1>11 DEF Continues

(* What a step must show that changes no request *)
LEMMA RoomsKept ==
  ASSUME DocumentInv, UNCHANGED <<req, disk, untitled, editor, token>>,
         docs' \in [DocRooms -> DocRoom], served' \in DocRooms, disk # NoFile,
         lab' \in 0..MaxLab, lab' = 0 => lab = 0,
         \A r \in DocRooms : docs'[r].cells = docs[r].cells \/ Sound(docs'[r].cells, Early, lab' = 0)
  PROVE  DocumentInv'
<1> USE DEF DocumentInv
<1>1. Early' = Early
  BY DEF Early
<1>2. \A s : Sound(s, Early, lab = 0) => Sound(s, Early', lab' = 0)
  BY <1>1, SoundLess
<1>3. \A s : Sound(s, Early, lab' = 0) => Sound(s, Early', lab' = 0)
  BY <1>1
<1>4. DocumentTyped'
  BY DEF DocumentTyped
<1>5. ContentInv'
  <2>1. \A r \in DocRooms : Sound(docs'[r].cells, Early', lab' = 0)
    BY <1>2, <1>3 DEF ContentInv
  <2>2. Sound(disk', Early', lab' = 0)
    BY <1>2 DEF ContentInv
  <2>3. \A g \in Requests : req'[g].pc = "setting" => Sound(req'[g].cells, Early', lab' = 0)
    BY <1>2 DEF ContentInv
  <2>4. token' # NoToken =>
          /\ Sound(token'.cells, Early', lab' = 0)
          /\ token'.snap = Snapshot(token'.cells) /\ served' \in DocRooms
    BY <1>2 DEF ContentInv
  <2>5. QED
    BY <2>1, <2>2, <2>3, <2>4 DEF ContentInv
<1>6. FileInv'
  BY DEF FileInv
<1>7. QED
  BY <1>4, <1>5, <1>6

(* JupyterLab opens the document. *)
LEMMA LabOpensKept ==
  ASSUME DocumentInv, LabOpens
  PROVE  DocumentInv'
<1> DEFINE r == FreshRoom
           e == [docs[r] EXCEPT !.status = "open", !.loaded = TRUE, !.cells = disk]
<1>1. r \in DocRooms
  BY FreshRoomUnused DEF LabOpens
<1> HIDE DEF r
<1>2. docs \in [DocRooms -> DocRoom] /\ disk # NoFile /\ lab \in 0..MaxLab
  BY DEF DocumentInv, DocumentTyped, LabOpens
<1>3. Sound(disk, Early, lab = 0)
  BY <1>2 DEF DocumentInv, ContentInv
<1>4. disk \in Seq(Cell)
  BY <1>3 DEF Sound
<1>5. docs[r] \in DocRoom
  BY <1>1, <1>2
<1>6. e \in DocRoom /\ e.cells = disk
  BY <1>4, <1>5 DEF DocRoom
<1>7. /\ docs' = [docs EXCEPT ![r] = e] /\ served' = r
      /\ UNCHANGED <<disk, untitled, req, editor, lab, token>>
  BY <1>1, <1>2 DEF LabOpens, r
<1> HIDE DEF e
<1>8. docs' \in [DocRooms -> DocRoom]
  BY <1>1, <1>2, <1>6, <1>7
<1>9. Sound(docs'[r].cells, Early, lab' = 0)
  BY <1>1, <1>2, <1>3, <1>6, <1>7
<1>10. \A s \in DocRooms : s # r => docs'[s].cells = docs[s].cells
  BY <1>2, <1>7
<1>11. \A s \in DocRooms : docs'[s].cells = docs[s].cells \/ Sound(docs'[s].cells, Early, lab' = 0)
  BY <1>9, <1>10
<1>12. QED
  BY <1>1, <1>2, <1>7, <1>8, <1>11, RoomsKept

(* Something is written into the document that is served. *)
LEMMA WrittenKept ==
  ASSUME DocumentInv, served \in DocRooms, disk # NoFile,
         UNCHANGED <<served, req, disk, untitled, editor, token>>,
         lab' \in 0..MaxLab, lab' = 0 => lab = 0,
         NEW cells, Sound(cells, Early, lab' = 0),
         NEW unsaved \in SUBSET Writers, docs' = Holding(served, cells, unsaved)
  PROVE  DocumentInv'
<1>1. docs \in [DocRooms -> DocRoom]
  BY DEF DocumentInv, DocumentTyped
<1>2. cells \in Seq(Cell)
  BY DEF Sound
<1>3. /\ docs' \in [DocRooms -> DocRoom]
      /\ \A r \in DocRooms : docs'[r].cells = docs[r].cells \/ Sound(docs'[r].cells, Early, lab' = 0)
  BY <1>1, <1>2, HoldingTyped
<1>4. QED
  BY <1>3, RoomsKept

(* The document that is shown to JupyterLab *)
LEMMA ShowingSound ==
  ASSUME DocumentInv, Showing
  PROVE  /\ served \in DocRooms /\ disk # NoFile
         /\ docs[served].unsaved \in SUBSET Writers
         /\ docs[served].cells \in Seq(Cell)
         /\ Sound(docs[served].cells, Early, lab = 0)
<1>1. served \in DocRooms /\ disk # NoFile /\ docs \in [DocRooms -> DocRoom]
  BY DEF DocumentInv, DocumentTyped, FileInv, Showing
<1>2. docs[served] \in DocRoom
  BY <1>1
<1>3. Sound(docs[served].cells, Early, lab = 0)
  BY <1>1 DEF DocumentInv, ContentInv
<1>4. QED
  BY <1>1, <1>2, <1>3 DEF DocRoom

LEMMA LabEditsKept ==
  ASSUME DocumentInv, LabEdits
  PROVE  DocumentInv'
<1> DEFINE cells == docs[served].cells
<1>1. PICK s \in LabEdited(cells) : docs' = Holding(served, s, docs[served].unsaved \cup {Lab})
  BY DEF LabEdits
<1>2. /\ served \in DocRooms /\ disk # NoFile /\ docs[served].unsaved \in SUBSET Writers
      /\ cells \in Seq(Cell) /\ Sound(cells, Early, lab = 0)
  BY ShowingSound DEF LabEdits
<1> HIDE DEF cells
<1>3. s \in EditsBy(cells, Lab)
  BY <1>1, <1>2, LabEditedIsEdit
<1>4. Sound(cells, Early, FALSE)
  BY <1>2, SoundLess
<1>5. Lab \notin Early
  BY DocumentAssumption DEF Early
<1>6. Sound(s, Early, FALSE)
  BY <1>3, <1>4, <1>5, SoundEdit
<1>7. lab \in 0..MaxLab /\ lab < MaxLab /\ lab' = lab + 1
  BY DEF LabEdits, DocumentInv, DocumentTyped
<1>8. lab' \in 0..MaxLab /\ lab' # 0
  BY <1>7, DocumentAssumption
<1>9. Sound(s, Early, lab' = 0)
  BY <1>6, <1>8, SoundLess
<1>10. docs[served].unsaved \cup {Lab} \in SUBSET Writers
  BY <1>2 DEF Writers
<1>11. UNCHANGED <<served, req, disk, untitled, editor, token>>
  BY DEF LabEdits
<1>12. QED
  BY <1>1, <1>2, <1>8, <1>9, <1>10, <1>11, WrittenKept

LEMMA OutputArrivesKept ==
  ASSUME DocumentInv, OutputArrives
  PROVE  DocumentInv'
<1> DEFINE cells == docs[served].cells
<1>1. PICK i \in DOMAIN cells :
        docs' = Holding(served, [cells EXCEPT ![i] = WithOutputs(cells[i], TRUE)],
                        docs[served].unsaved)
  BY DEF OutputArrives, WithOutputs
<1>2. /\ served \in DocRooms /\ disk # NoFile /\ docs[served].unsaved \in SUBSET Writers
      /\ cells \in Seq(Cell) /\ Sound(cells, Early, lab = 0)
  BY ShowingSound DEF OutputArrives
<1> HIDE DEF cells
<1>3. i \in 1..Len(cells) /\ cells[i] \in Cell
  BY <1>2
<1>4. /\ WithOutputs(cells[i], TRUE) \in Cell
      /\ WithOutputs(cells[i], TRUE).id = cells[i].id
      /\ WithOutputs(cells[i], TRUE).key = cells[i].key
  BY <1>3, CellWithOutputs
<1>5. Sound([cells EXCEPT ![i] = WithOutputs(cells[i], TRUE)], Early, lab = 0)
  BY <1>2, <1>3, <1>4, SoundExcept
<1>6. UNCHANGED <<served, disk, untitled, req, editor, lab, token>>
  BY DEF OutputArrives
<1>7. lab' \in 0..MaxLab
  BY <1>6 DEF DocumentInv, DocumentTyped
<1>8. Sound([cells EXCEPT ![i] = WithOutputs(cells[i], TRUE)], Early, lab' = 0)
  BY <1>5, <1>6
<1>9. QED
  BY <1>1, <1>2, <1>6, <1>7, <1>8, WrittenKept

LEMMA FileCellsSound ==
  Sound(FileCells, Requests, TRUE) /\ Sound(Keyed(FileCells), Requests, TRUE)
<1>1. OldCells \in Seq({OldCells[i] : i \in DOMAIN OldCells})
  BY DocumentAssumption
<1>2. DOMAIN OldCells = 1..Len(OldCells) /\ Len(OldCells) \in Nat
  BY <1>1
<1>3. ASSUME NEW i \in 1..Len(OldCells)
      PROVE  /\ FileCells[i] \in Cell /\ FileCells[i].id \notin Requests
             /\ FileCells[i].key = NoKey
  <2>1. OldCells[i] \in CellIds /\ OldCells[i] \notin Requests
    BY <1>2, DocumentAssumption DEF CellIds
  <2>2. Nobody \in Writers
    BY DEF Writers
  <2>3. FileCells[i] = NewCell(OldCells[i], Nobody)
    BY <1>2 DEF FileCells
  <2>4. QED
    <3>1. /\ NewCell(OldCells[i], Nobody) \in Cell
          /\ NewCell(OldCells[i], Nobody).id = OldCells[i]
          /\ NewCell(OldCells[i], Nobody).key = NoKey
      BY <2>1, <2>2, NewCellTyped
    <3>2. QED
      BY <2>1, <2>3, <3>1
<1>4. FileCells = [i \in 1..Len(OldCells) |-> FileCells[i]]
  BY <1>2 DEF FileCells
<1>5. FileCells \in [1..Len(OldCells) -> Cell]
  BY <1>3, <1>4
<1>6. FileCells \in Seq(Cell) /\ DOMAIN FileCells = 1..Len(OldCells)
  BY <1>2, <1>5
<1>7. Sound(FileCells, Requests, TRUE)
  BY <1>3, <1>6 DEF Sound, OwnKeys
<1>8. Sound(FileCells, Requests, FALSE)
  BY <1>7, SoundLess
<1>9. QED
  BY <1>7, <1>8, SoundKeyed

LEMMA DocumentInvInit == Init => DocumentInv
<1> SUFFICES ASSUME Init PROVE DocumentInv
  OBVIOUS
<1>1. <<>> \in Seq(Cell)
  BY EmptySeq
<1>2. Early = Requests
  BY DEF Init, Early, EarlyStages, NewRequest
<1>3. \A r \in DocRooms : docs[r].cells = <<>> /\ docs[r] \in DocRoom
  BY <1>1 DEF Init, DocRoom
<1>4. Sound(<<>>, Early, lab = 0)
  BY <1>1 DEF Sound, OwnKeys
<1>5. Sound(disk, Requests, TRUE) \/ disk = NoFile
  BY FileCellsSound DEF Init
<1>6. Sound(disk, Early, lab = 0) \/ disk = NoFile
  BY <1>2, <1>5, SoundLess
<1>7. disk \in Seq(Cell) \cup {NoFile}
  BY <1>6 DEF Sound
<1>8. NewRequest \in Request /\ NewRequest.pc = "new"
  BY NewRequestTyped DEF NewRequest
<1>9. DocumentTyped
  BY <1>3, <1>7, <1>8, DocumentAssumption DEF Init, DocumentTyped
<1>10. ContentInv
  BY <1>3, <1>4, <1>6, <1>8 DEF Init, ContentInv
<1>11. FileInv
  BY <1>8 DEF Init, FileInv, Working
<1>12. QED
  BY <1>9, <1>10, <1>11 DEF DocumentInv

LEMMA DocumentInvAlways == Spec => []DocumentInv
<1>1. ASSUME Shape, DocumentInv, [Next]_vars PROVE DocumentInv'
  <2>1. CASE (\E h \in Requests : Enters(h)) \/ UNCHANGED vars
    BY <1>1, <2>1 DEF Enters, documentVars, vars, DocumentInv, DocumentTyped, ContentInv, FileInv,
                      Early
  <2>2. CASE \E h \in Requests : Continues(h)
    BY <1>1, <2>2, DocumentInvContinues
  <2>3. CASE LabOpens \/ LabEdits \/ OutputArrives
    BY <1>1, <2>3, LabOpensKept, LabEditsKept, OutputArrivesKept
  <2>4. QED
    BY <1>1, <2>1, <2>2, <2>3 DEF Next
<1>2. QED
  BY <1>1, DocumentInvInit, ShapeAlways, PTL DEF Spec

(* The extension's attributes are what the type says. *)
LEMMA ExtensionTypedAlways == Spec => []ExtensionTypeOK
<1>1. Init => ExtensionTypeOK
  BY DEF Init, ExtensionInit, ExtensionTypeOK, Extension, Gate
<1>2. ASSUME GateInv, ExtensionTypeOK, [Next]_vars PROVE ExtensionTypeOK'
  <2>1. ASSUME NEW h \in Requests, GateStep(h) PROVE ExtensionTypeOK'
    <3>1. gate' \in [Requests -> Gate]
      BY <1>2, <2>1, GateInvStep DEF GateInv
    <3>2. CASE Arrives(h) \/ Wakes(h)
      BY <1>2, <3>1, <3>2 DEF ExtensionTypeOK, Extension, Arrives, Wakes
    <3>3. CASE Initializes(h) \/ InstallFails(h)
      <4>1. ext.loops = 0
        BY <1>2, <3>3 DEF GateInv, Initializes, InstallFails
      <4>2. ext.loops + 1 \in 0..2
        BY <4>1
      <4>3. \A error \in BOOLEAN, routes \in BOOLEAN :
              [orch |-> TRUE, manager |-> TRUE, error |-> error, event |-> "set",
               routes |-> routes, loops |-> ext.loops + 1] \in Extension
        BY <4>2 DEF Extension
      <4>4. ext' \in Extension
        BY <3>3, <4>3 DEF Initializes, InstallFails
      <4>5. QED
        BY <3>1, <4>4 DEF ExtensionTypeOK
    <3>4. CASE InitializationFails(h)
      BY <1>2, <3>1, <3>4 DEF ExtensionTypeOK, Extension, InitializationFails
    <3>5. QED
      BY <2>1, <3>2, <3>3, <3>4 DEF GateStep
  <2>2. CASE \E h \in Requests : Enters(h)
    BY <2>1, <2>2 DEF Enters
  <2>3. CASE \/ \E h \in Requests : Continues(h)
             \/ LabOpens \/ LabEdits \/ OutputArrives
             \/ UNCHANGED vars
    BY <1>2, <2>3, OthersLeaveExtension DEF ExtensionTypeOK, extensionVars
  <2>4. QED
    BY <1>2, <2>2, <2>3 DEF Next
<1>3. QED
  BY <1>1, <1>2, GateInvAlways, PTL DEF Spec

(* Whatever handlers, JupyterLab and the kernel do to it, the document is a *)
(* sequence of cells in every place that keeps one.                         *)
THEOREM TypeOKAlways == Spec => []TypeOK
<1>1. ExtensionTypeOK /\ DocumentInv => TypeOK
  BY DEF DocumentInv, DocumentTyped, TypeOK
<1>2. QED
  BY <1>1, ExtensionTypedAlways, DocumentInvAlways, PTL

-----------------------------------------------------------------------------
(* Diffs *)

LEMMA SnapshotProperties ==
  ASSUME NEW s
  PROVE  /\ DOMAIN Snapshot(s) = DOMAIN s
         /\ \A i \in DOMAIN s :
              /\ Snapshot(s)[i].id = s[i].id
              /\ Snapshot(s)[i].src = s[i].src /\ Snapshot(s)[i].out = s[i].out
              /\ OwnKeys(s) => Snapshot(s)[i].order = i
BY DEF Snapshot, SnapshotCell, OwnKeys

(* A cell is found where another sequence of the same ids has it. *)
LEMMA IndexInIds ==
  ASSUME NEW s, NEW t, DOMAIN s = DOMAIN t, \A i \in DOMAIN s : s[i].id = t[i].id
  PROVE  Ids(s) = Ids(t) /\ \A c : IndexIn(s, c) = IndexIn(t, c)
<1>1. Ids(s) = Ids(t)
  BY DEF Ids
<1>2. ASSUME NEW c PROVE IndexIn(s, c) = IndexIn(t, c)
  BY DEF IndexIn
<1>3. QED
  BY <1>1, <1>2

(* What has changed of a cell that was at one index and is at another *)
ExactChanges(was, is, i, j) ==
  {k \in ChangeKinds : \/ k = "moved" /\ i # j
                       \/ k = "source" /\ was[i].src # is[j].src
                       \/ k = "outputs" /\ was[i].out # is[j].out}

LEMMA EntryIsExact ==
  ASSUME NEW was, NEW is, NEW i \in DOMAIN was, NEW j \in DOMAIN is
  PROVE  /\ EntryChanges(Snapshot(was)[i], Snapshot(is)[j]) \ {"moved"}
              = ExactChanges(was, is, i, j) \ {"moved"}
         /\ OwnKeys(was) /\ OwnKeys(is)
              => EntryChanges(Snapshot(was)[i], Snapshot(is)[j]) = ExactChanges(was, is, i, j)
<1> DEFINE a == Snapshot(was)[i]
           b == Snapshot(is)[j]
<1>1. a.src = was[i].src /\ a.out = was[i].out /\ (OwnKeys(was) => a.order = i)
  BY SnapshotProperties
<1>2. b.src = is[j].src /\ b.out = is[j].out /\ (OwnKeys(is) => b.order = j)
  BY SnapshotProperties
<1> HIDE DEF a, b
<1>3. EntryChanges(a, b) \ {"moved"} = ExactChanges(was, is, i, j) \ {"moved"}
  BY <1>1, <1>2 DEF EntryChanges, ExactChanges
<1>4. OwnKeys(was) /\ OwnKeys(is) => EntryChanges(a, b) = ExactChanges(was, is, i, j)
  BY <1>1, <1>2 DEF EntryChanges, ExactChanges
<1>5. QED
  BY <1>3, <1>4 DEF a, b

LEMMA DiffExact ==
  ASSUME NEW was, NEW is
  PROVE  LET said == Diff(Snapshot(was), is)
             true == Changed(was, is)
         IN /\ DOMAIN said = DOMAIN true
            /\ \A c \in DOMAIN true : said[c] \ {"moved"} = true[c] \ {"moved"}
            /\ OwnKeys(was) /\ OwnKeys(is) => said = true
<1> DEFINE old == Snapshot(was)
           now == Snapshot(is)
           said == Diff(old, is)
           true == Changed(was, is)
<1>1. Ids(old) = Ids(was) /\ \A c : IndexIn(old, c) = IndexIn(was, c)
  <2>1. DOMAIN old = DOMAIN was /\ \A i \in DOMAIN old : old[i].id = was[i].id
    BY SnapshotProperties
  <2>2. QED
    BY <2>1, IndexInIds
<1>2. Ids(now) = Ids(is) /\ \A c : IndexIn(now, c) = IndexIn(is, c)
  <2>1. DOMAIN now = DOMAIN is /\ \A i \in DOMAIN now : now[i].id = is[i].id
    BY SnapshotProperties
  <2>2. QED
    BY <2>1, IndexInIds
<1>3. DOMAIN said = Ids(was) \cup Ids(is) /\ DOMAIN true = Ids(was) \cup Ids(is)
  BY <1>1, <1>2 DEF Diff, Changed
<1>4. ASSUME NEW c \in Ids(was) \cup Ids(is)
      PROVE  /\ said[c] \ {"moved"} = true[c] \ {"moved"}
             /\ OwnKeys(was) /\ OwnKeys(is) => said[c] = true[c]
  <2>1. CASE c \notin Ids(was)
    BY <1>1, <1>2, <2>1 DEF Diff, Changed
  <2>2. CASE c \in Ids(was) /\ c \notin Ids(is)
    BY <1>1, <1>2, <2>2 DEF Diff, Changed
  <2>3. CASE c \in Ids(was) /\ c \in Ids(is)
    <3> DEFINE i == IndexIn(was, c)
               j == IndexIn(is, c)
    <3>1. i \in DOMAIN was /\ j \in DOMAIN is
      BY <2>3 DEF Ids, IndexIn
    <3>2. said[c] = EntryChanges(old[i], now[j])
      BY <1>1, <1>2, <2>3 DEF Diff
    <3>3. true[c] = ExactChanges(was, is, i, j)
      BY <2>3 DEF Changed, ExactChanges
    <3> HIDE DEF i, j, said, true
    <3>4. EntryChanges(old[i], now[j]) \ {"moved"} = ExactChanges(was, is, i, j) \ {"moved"}
      BY <3>1, EntryIsExact
    <3>5. OwnKeys(was) /\ OwnKeys(is)
            => EntryChanges(old[i], now[j]) = ExactChanges(was, is, i, j)
      BY <3>1, EntryIsExact
    <3>6. QED
      BY <3>2, <3>3, <3>4, <3>5
  <2>4. QED
    BY <2>1, <2>2, <2>3
<1>5. OwnKeys(was) /\ OwnKeys(is) => said = true
  <2>1. said = [c \in DOMAIN said |-> said[c]] /\ true = [c \in DOMAIN true |-> true[c]]
    BY DEF Diff, Changed
  <2> HIDE DEF said, true
  <2>2. QED
    BY <1>3, <1>4, <2>1
<1> HIDE DEF said, true
<1>6. /\ DOMAIN said = DOMAIN true
      /\ \A c \in DOMAIN true : said[c] \ {"moved"} = true[c] \ {"moved"}
      /\ OwnKeys(was) /\ OwnKeys(is) => said = true
  BY <1>3, <1>4, <1>5
<1>7. QED
  BY <1>6 DEF said, true

(* However the document is edited after a snapshot was taken, by handlers,  *)
(* stale moves, JupyterLab and outputs, the diff says exactly what was      *)
(* added, deleted, edited and run; and what moved while the keys are        *)
(* Hypernote's own.                                                         *)
THEOREM DiffIsExactAlways == Spec => []DiffIsExact
<1>1. ASSUME DocumentInv PROVE DiffIsExact
  <2>1. SUFFICES ASSUME token # NoToken PROVE
          LET said == Diff(token.snap, docs[served].cells)
              true == Changed(token.cells, docs[served].cells)
          IN /\ DOMAIN said = DOMAIN true
             /\ \A c \in DOMAIN true : said[c] \ {"moved"} = true[c] \ {"moved"}
             /\ lab = 0 => said = true
    BY DEF DiffIsExact
  <2>2. /\ token.snap = Snapshot(token.cells) /\ served \in DocRooms
        /\ Sound(token.cells, Early, lab = 0)
    BY <1>1, <2>1 DEF DocumentInv, ContentInv
  <2>3. Sound(docs[served].cells, Early, lab = 0)
    BY <1>1, <2>2 DEF DocumentInv, ContentInv
  <2>4. lab = 0 => OwnKeys(token.cells) /\ OwnKeys(docs[served].cells)
    BY <2>2, <2>3 DEF Sound
  <2>5. QED
    BY <2>2, <2>4, DiffExact
<1>2. QED
  BY <1>1, DocumentInvAlways, PTL

-----------------------------------------------------------------------------
(* Rooms that are loaded *)

(* A room is loaded once it is open, and before it is edited or saved; and  *)
(* until a room that is served has read it, the file of a notebook that is  *)
(* being created stays empty.                                               *)
LoadedInv ==
  /\ \A r \in DocRooms : docs[r].loaded => docs[r].status = "open"
  /\ \A h \in Requests : req[h].pc \in {"setting", "saving"} => docs[req[h].room].loaded
  /\ \A h \in Requests :
       req[h].pc = "renamed" /\ (served = NoRoom \/ ~docs[served].loaded) => disk = <<>>

LEMMA HoldingLoaded ==
  ASSUME Shape, NEW r, NEW cells, NEW unsaved, docs' = Holding(r, cells, unsaved)
  PROVE  \A s \in DocRooms :
           /\ docs'[s].loaded = IF s = r THEN TRUE ELSE docs[s].loaded
           /\ docs'[s].cells = IF s = r THEN cells ELSE docs[s].cells
           /\ docs'[s].status = docs[s].status
<1>1. ASSUME NEW s \in DocRooms, s = r
      PROVE  docs'[s].loaded = TRUE /\ docs'[s].cells = cells /\ docs'[s].status = docs[s].status
  BY <1>1 DEF Holding, Shape, RoomFields
<1>2. ASSUME NEW s \in DocRooms, s # r
      PROVE  docs'[s] = docs[s]
  BY <1>2 DEF Holding, Shape, RoomFields
<1>3. QED
  BY <1>1, <1>2

(* What a handler's step does to the rooms besides their cells: it gets one *)
(* of them, works in the one that is served, or leaves them alone.          *)
LEMMA GetsRoomLoaded ==
  ASSUME Shape, RoomInv, LoadedInv, NEW h \in Requests, NEW q, DOMAIN q = RequestFields,
         GetsRoom(h, q), UNCHANGED served, disk' = disk \/ disk' = <<>>
  PROVE  LoadedInv'
<1>1. PICK s : req' = [req EXCEPT ![h] = s] /\ s.pc \in {"loading", "starting"}
  <2>1. [q EXCEPT !.pc = "loading", !.room = served].pc = "loading"
    BY DEF RequestFields
  <2>2. [q EXCEPT !.pc = "starting", !.room = FreshRoom].pc = "starting"
    BY DEF RequestFields
  <2>3. QED
    BY <2>1, <2>2 DEF GetsRoom
<1>2. \A r \in DocRooms : docs'[r].loaded = docs[r].loaded
  BY FreshRoomUnused DEF GetsRoom, Shape, RoomFields
<1>3. \A r \in DocRooms : docs[r].status = "open" => docs'[r].status = "open"
  BY FreshRoomUnused DEF GetsRoom, Shape, RoomFields
<1>4. \A g \in Requests : req'[g] = IF g = h THEN s ELSE req[g]
  BY <1>1 DEF Shape
<1>5. QED
  BY <1>1, <1>2, <1>3, <1>4 DEF LoadedInv, Shape

LEMMA HoldingKeepsLoaded ==
  ASSUME Shape, RoomInv, LoadedInv, NEW cells, NEW unsaved, served \in DocRooms,
         docs' = Holding(served, cells, unsaved), UNCHANGED <<served, disk>>,
         \/ UNCHANGED req
         \/ \E h \in Requests : \E q :
              /\ req' = [req EXCEPT ![h] = q] /\ req[h].pc \in Working
              /\ q.pc \in {"setting", "saving", "answered"}
              /\ q.pc = "answered" \/ q.room = req[h].room
  PROVE  LoadedInv'
<1>1. \A s \in DocRooms :
        /\ docs'[s].loaded = IF s = served THEN TRUE ELSE docs[s].loaded
        /\ docs'[s].status = docs[s].status
  BY HoldingLoaded
<1>2. docs[served].status = "open"
  BY DEF RoomInv
<1>3. \A h \in Requests : req[h].pc \in Working => req[h].room = served
  BY DEF RoomInv
<1>4. \A r \in DocRooms : docs'[r].loaded => docs'[r].status = "open"
  BY <1>1, <1>2 DEF LoadedInv
<1>5. docs'[served'].loaded /\ served' # NoRoom
  BY <1>1, DocumentAssumption
<1>6. \A g \in Requests : req'[g].pc \in {"setting", "saving"} => docs'[req'[g].room].loaded
  <2>1. CASE UNCHANGED req
    BY <1>1, <1>3, <2>1 DEF Shape, Working
  <2>2. CASE \E h \in Requests : \E q :
               /\ req' = [req EXCEPT ![h] = q] /\ req[h].pc \in Working
               /\ q.pc \in {"setting", "saving", "answered"}
               /\ q.pc = "answered" \/ q.room = req[h].room
    <3>1. PICK h \in Requests : \E q :
               /\ req' = [req EXCEPT ![h] = q] /\ req[h].pc \in Working
               /\ q.pc \in {"setting", "saving", "answered"}
               /\ q.pc = "answered" \/ q.room = req[h].room
      BY <2>2
    <3>2. PICK q :
               /\ req' = [req EXCEPT ![h] = q] /\ req[h].pc \in Working
               /\ q.pc \in {"setting", "saving", "answered"}
               /\ q.pc = "answered" \/ q.room = req[h].room
      BY <3>1
    <3>3. \A g \in Requests : req'[g] = IF g = h THEN q ELSE req[g]
      BY <3>2 DEF Shape
    <3>4. docs'[served].loaded /\ req[h].room = served
      BY <1>1, <1>3, <3>2
    <3>5. ASSUME NEW g \in Requests, req'[g].pc \in {"setting", "saving"}
          PROVE  req'[g].room = served
      BY <1>3, <3>2, <3>3, <3>4, <3>5 DEF Working
    <3>6. QED
      BY <3>4, <3>5
  <2>3. QED
    BY <2>1, <2>2
<1>7. QED
  BY <1>4, <1>5, <1>6 DEF LoadedInv

LEMMA LoadedInvContinues ==
  ASSUME ~OpensOverlap, Shape, RoomInv, DocumentInv, LoadedInv, NEW h \in Requests, Continues(h)
  PROVE  LoadedInv'
<1>1. CASE Begins(h)
  <2>1. PICK q \in Calls(h) : IF q.place.side = "both"
                             THEN req' = [req EXCEPT ![h] = Answered(q, FALSE)] /\ UNCHANGED docs
                             ELSE GetsRoom(h, q)
    BY <1>1 DEF Begins
  <2>2. CASE GetsRoom(h, q)
    BY <1>1, <2>2, CallsShape, GetsRoomLoaded DEF Begins
  <2>3. CASE req' = [req EXCEPT ![h] = Answered(q, FALSE)] /\ UNCHANGED docs
    BY <1>1, <2>3, AnsweredShape DEF Begins, LoadedInv, Shape
  <2>4. QED
    BY <2>1, <2>2, <2>3
<1>2. CASE CallsCreate(h)
  <2>1. [req[h] EXCEPT !.op = "create", !.pc = "untitled"].pc = "untitled"
    BY DEF Shape, RequestFields
  <2>2. QED
    BY <1>2, <2>1 DEF CallsCreate, LoadedInv, Shape
<1>3. CASE Renames(h)
  <2>1. CASE disk = NoFile
    <3>1. [req[h] EXCEPT !.pc = "renamed"].pc = "renamed"
      BY DEF Shape, RequestFields
    <3>2. QED
      BY <1>3, <2>1, <3>1 DEF Renames, LoadedInv, Shape
  <2>2. CASE disk # NoFile
    <3>1. req' = [req EXCEPT ![h] = Answered(@, FALSE)] /\ UNCHANGED <<docs, served, disk>>
      BY <1>3, <2>2 DEF Renames
    <3>2. QED
      BY <3>1, AnsweredShape DEF LoadedInv, Shape
  <2>3. QED
    BY <2>1, <2>2
<1>4. CASE Stores(h)
  BY <1>4, GetsRoomLoaded DEF Stores, Shape
<1>5. CASE Starts(h)
  <2>1. /\ req'[h].pc = "loading" /\ \A g \in Requests \ {h} : req'[g] = req[g]
        /\ served = NoRoom /\ UNCHANGED disk
    BY <1>5 DEF Starts, Shape, RequestFields, RoomInv
  <2>2. \A r \in DocRooms : /\ docs'[r].loaded = docs[r].loaded
                            /\ docs[r].status = "open" => docs'[r].status = "open"
    BY <1>5 DEF Starts, Shape, RoomFields
  <2>3. QED
    BY <2>1, <2>2 DEF LoadedInv, Shape
<1>6. CASE Edits(h) \/ PlansMove(h) \/ Sets(h) \/ Flushes(h) \/ Misses(h) \/ Reads(h)
  <2>1. req[h].pc \in Working /\ UNCHANGED <<served, disk>>
    BY <1>6 DEF Edits, PlansMove, Sets, Flushes, Misses, Reads, Working
  <2>2. req[h].room = served /\ served \in DocRooms
    BY <2>1 DEF RoomInv, Shape, Working
  <2>3. \E cells, unsaved : docs' = Holding(served, cells, unsaved)
    BY <1>6, <2>2 DEF Edits, PlansMove, Sets, Flushes, Misses, Reads
  <2>4. \E q : /\ req' = [req EXCEPT ![h] = q]
               /\ q.pc \in {"setting", "saving", "answered"}
               /\ q.pc = "answered" \/ q.room = req[h].room
    <3>1. CASE Edits(h) \/ PlansMove(h) \/ Sets(h) \/ Flushes(h)
      BY <3>1 DEF Edits, PlansMove, Sets, Flushes, Shape, RequestFields
    <3>2. CASE Misses(h) \/ Reads(h)
      <4>1. \E ok : req' = [req EXCEPT ![h] = Answered(@, ok)]
        BY <3>2 DEF Misses, Reads
      <4>2. QED
        <5>1. \A ok : Answered(req[h], ok).pc = "answered"
          BY AnsweredShape
        <5>2. QED
          BY <4>1, <5>1 DEF Shape
    <3>3. QED
      BY <1>6, <3>1, <3>2
  <2>5. QED
    BY <2>1, <2>2, <2>3, <2>4, HoldingKeepsLoaded
<1>7. CASE Saves(h) \/ SkipsSave(h)
  <2>1. req[h].pc = "saving" /\ UNCHANGED served /\ disk' \in {disk, docs[req[h].room].cells}
    BY <1>7 DEF Saves, SkipsSave
  <2>2. req[h].room = served /\ served \in DocRooms /\ docs[served].loaded
    BY <2>1 DEF RoomInv, Shape, LoadedInv, Working
  <2>3. \/ docs' = [docs EXCEPT ![served] = [docs[served] EXCEPT !.unsaved = {}]]
        \/ docs' = docs
    BY <1>7, <2>2 DEF Saves, SkipsSave
  <2>4. [docs[served] EXCEPT !.unsaved = {}].loaded = docs[served].loaded
        /\ [docs[served] EXCEPT !.unsaved = {}].status = docs[served].status
    BY <2>2 DEF Shape, RoomFields
  <2>5. \A r \in DocRooms : docs'[r].loaded = docs[r].loaded /\ docs'[r].status = docs[r].status
    BY <2>2, <2>3, <2>4 DEF Shape
  <2>6. PICK q : \E skipped \in BOOLEAN : AnswersSave(q, h, skipped)
    BY <1>7, SaveShape
  <2>7. req'[h].pc = "answered" /\ \A g \in Requests \ {h} : req'[g] = req[g]
    BY <2>6 DEF AnswersSave, Shape
  <2>8. QED
    BY <2>1, <2>2, <2>5, <2>7, DocumentAssumption DEF LoadedInv, Shape
<1>8. CASE SaveFails(h) \/ Refused(h)
  <2>1. req' = [req EXCEPT ![h] = Answered(@, FALSE)] /\ UNCHANGED <<docs, served, disk>>
    BY <1>8 DEF SaveFails, Refused
  <2>2. QED
    BY <2>1, AnsweredShape DEF LoadedInv, Shape
<1>9. QED
  BY <1>1, <1>2, <1>3, <1>4, <1>5, <1>6, <1>7, <1>8 DEF Continues

LEMMA LoadedInvAlways ==
  ASSUME ~OpensOverlap
  PROVE  Spec => []LoadedInv
<1>1. Init => LoadedInv
  BY DEF Init, LoadedInv, NewRequest
<1>2. ASSUME Shape, RoomInv, DocumentInv, LoadedInv, [Next]_vars PROVE LoadedInv'
  <2>1. CASE (\E h \in Requests : Enters(h)) \/ UNCHANGED vars
    BY <1>2, <2>1 DEF Enters, documentVars, vars, LoadedInv
  <2>2. CASE \E h \in Requests : Continues(h)
    BY <1>2, <2>2, LoadedInvContinues
  <2>3. CASE LabOpens
    <3>1. \A r \in DocRooms : r = FreshRoom \/ docs'[r] = docs[r]
      BY <1>2, <2>3 DEF LabOpens, Shape
    <3>2. /\ docs'[FreshRoom].status = "open" /\ docs'[FreshRoom].loaded
          /\ FreshRoom \in DocRooms /\ served' = FreshRoom /\ UNCHANGED <<req, disk>>
      BY <1>2, <2>3, FreshRoomUnused DEF LabOpens, Shape, RoomFields
    <3>3. QED
      BY <1>2, <3>1, <3>2, DocumentAssumption DEF LoadedInv, Shape
  <2>4. CASE LabEdits \/ OutputArrives
    <3>1. \E cells, unsaved : docs' = Holding(served, cells, unsaved)
      BY <2>4 DEF LabEdits, OutputArrives
    <3>2. served \in DocRooms
      BY <1>2, <2>4 DEF LabEdits, OutputArrives, Showing, Shape
    <3>3. UNCHANGED <<req, served, disk>>
      BY <2>4 DEF LabEdits, OutputArrives
    <3>4. QED
      BY <1>2, <3>1, <3>2, <3>3, HoldingKeepsLoaded
  <2>5. QED
    BY <1>2, <2>1, <2>2, <2>3, <2>4 DEF Next
<1>3. QED
  BY <1>1, <1>2, ShapeAlways, RoomInvAlways, DocumentInvAlways, PTL DEF Spec

-----------------------------------------------------------------------------
(* The refinement of SharedNotebook *)

(* What it takes for the cells and the moves of the shared notebook *)
SharedCells == IF Visible = NoFile THEN <<>> ELSE Plain(Visible)
SharedMoves ==
  [w \in Writers |-> IF w \in Requests /\ req[w].pc = "setting" THEN Plain(req[w].cells) ELSE NoMove]

(* One whole edit of a sequence, as SharedNotebook has it *)
PlainEdit(s, t) ==
  \/ \E i \in DOMAIN t : s = RemoveAt(t, i) /\ t[i].id \notin Shared!IdsOf(s) /\ ~t[i].out
  \/ \E i \in DOMAIN s : t = RemoveAt(s, i)
  \/ \E i \in DOMAIN s, w \in Writers : t = [s EXCEPT ![i] = [@ EXCEPT !.src = w]]
  \/ \E i \in DOMAIN s, o \in BOOLEAN : t = [s EXCEPT ![i] = [@ EXCEPT !.out = o]]
  \/ t \in Shared!Moved(s)

LEMMA PlainIds ==
  ASSUME NEW s \in Seq(Cell)
  PROVE  Shared!IdsOf(Plain(s)) = Ids(s)
<1>1. DOMAIN Plain(s) = DOMAIN s /\ \A i \in DOMAIN s : Plain(s)[i].id = s[i].id
  BY DEF Plain
<1>2. QED
  BY <1>1 DEF Shared!IdsOf, Ids

LEMMA SharedMoved ==
  ASSUME NEW s
  PROVE  Shared!Moved(s) = {InsertAt(RemoveAt(s, i), j, s[i]) : i \in DOMAIN s, j \in DOMAIN s}
BY DEF Shared!Moved, Shared!InsertAt, Shared!RemoveAt, InsertAt, RemoveAt

LEMMA PlainMove ==
  ASSUME NEW s \in Seq(Cell), NEW t \in MovesOf(s)
  PROVE  Plain(t) \in Shared!Moved(Plain(s))
<1>1. PICK i \in 1..Len(s), j \in 1..Len(s) : t = InsertAt(RemoveAt(s, i), j, s[i])
  BY DEF MovesOf
<1> DEFINE rest == RemoveAt(s, i)
<1>2. Len(s) \in Nat /\ s[i] \in Cell
  OBVIOUS
<1>3. rest \in Seq(Cell) /\ Len(rest) = Len(s)-1
  BY RemoveAtProperties
<1>4. Plain(rest) = RemoveAt(Plain(s), i)
  BY PlainRemoveAt
<1> HIDE DEF rest
<1>5. j \in 1..Len(rest)+1
  BY <1>2, <1>3
<1>6. Plain(InsertAt(rest, j, s[i])) = InsertAt(Plain(rest), j, PlainOf(s[i]))
  BY <1>2, <1>3, <1>5, PlainInsertAt
<1>7. t = InsertAt(rest, j, s[i])
  BY <1>1 DEF rest
<1>8. /\ Plain(s)[i] = PlainOf(s[i])
      /\ Plain(s) \in Seq(PlainCell) /\ Len(Plain(s)) = Len(s)
  BY PlainProperties
<1>9. Plain(t) = InsertAt(RemoveAt(Plain(s), i), j, Plain(s)[i])
  BY <1>4, <1>6, <1>7, <1>8
<1>10. DOMAIN Plain(s) = 1..Len(s)
  BY <1>8
<1>11. QED
  BY <1>9, <1>10, SharedMoved

LEMMA EditIsPlainEdit ==
  ASSUME NEW s \in Seq(Cell), NEW w \in Requests \cup {Lab}, NEW t \in EditsBy(s, w)
  PROVE  PlainEdit(Plain(s), Plain(t))
<1>1. w \in CellIds /\ w \in Writers
  BY DEF CellIds, Writers
<1>2. /\ Plain(s) \in Seq(PlainCell) /\ Len(Plain(s)) = Len(s) /\ Len(s) \in Nat
      /\ \A i \in 1..Len(s) : Plain(s)[i] = PlainOf(s[i])
  BY PlainProperties
<1>3. DOMAIN Plain(s) = 1..Len(s)
  BY <1>2
<1>4. \A i \in 1..Len(s) : s[i] \in Cell
  OBVIOUS
<1>5. CASE \E i \in {j \in 1..Len(s)+1 : w \notin Ids(s)} : t = InsertAt(s, i, NewCell(w, w))
  <2> DEFINE e == NewCell(w, w)
  <2>1. PICK i \in 1..Len(s)+1 : w \notin Ids(s) /\ t = InsertAt(s, i, e)
    BY <1>5
  <2>2. /\ e \in Cell /\ PlainOf(e) \in PlainCell
        /\ PlainOf(e).id = w /\ PlainOf(e).out = FALSE
    BY <1>1, NewCellTyped, CellFields DEF PlainOf
  <2> HIDE DEF e
  <2>3. Plain(t) = InsertAt(Plain(s), i, PlainOf(e))
    BY <2>1, <2>2, PlainInsertAt
  <2>4. i \in 1..Len(Plain(s))+1
    BY <1>2
  <2>5. RemoveAt(Plain(t), i) = Plain(s)
    BY <1>2, <2>2, <2>3, <2>4, RemoveInserted
  <2>6. /\ Plain(t) \in Seq(PlainCell) /\ Len(Plain(t)) = Len(s)+1
        /\ Plain(t)[i] = PlainOf(e)
    <3>1. Plain(t) \in Seq(PlainCell)
      BY <1>2, <2>2, <2>3, <2>4, InsertAtProperties
    <3>2. Len(Plain(t)) = Len(s)+1
      BY <1>2, <2>2, <2>3, <2>4, InsertAtProperties
    <3>3. InsertAt(Plain(s), i, PlainOf(e))[i]
            = IF i < i THEN Plain(s)[i] ELSE IF i = i THEN PlainOf(e) ELSE Plain(s)[i-1]
      BY <1>2, <2>2, <2>4, InsertAtProperties
    <3>4. QED
      BY <2>3, <3>1, <3>2, <3>3
  <2>7. i \in DOMAIN Plain(t)
    BY <1>2, <2>6
  <2>8. Plain(t)[i].id \notin Shared!IdsOf(Plain(s)) /\ ~Plain(t)[i].out
    BY <2>1, <2>2, <2>6, PlainIds
  <2>9. QED
    BY <2>5, <2>7, <2>8 DEF PlainEdit
<1>6. CASE \E i \in 1..Len(s) : t = RemoveAt(s, i)
  BY <1>3, <1>6, PlainRemoveAt DEF PlainEdit
<1>7. CASE \E i \in 1..Len(s) : t = [s EXCEPT ![i] = Sourced(s[i], w)]
  <2>1. PICK i \in 1..Len(s) : t = [s EXCEPT ![i] = Sourced(s[i], w)]
    BY <1>7
  <2>2. /\ Sourced(s[i], w) \in Cell
        /\ PlainOf(Sourced(s[i], w)) = [PlainOf(s[i]) EXCEPT !.src = w]
    BY <1>1, <1>4, SourcedCell
  <2>3. Plain(t) = [Plain(s) EXCEPT ![i] = PlainOf(Sourced(s[i], w))]
    BY <2>1, <2>2, PlainExcept, ZenonT(30)
  <2>4. Plain(t) = [Plain(s) EXCEPT ![i] = [@ EXCEPT !.src = w]]
    BY <1>2, <2>2, <2>3
  <2>5. QED
    BY <1>1, <1>3, <2>4 DEF PlainEdit
<1>8. CASE \E i \in 1..Len(s), o \in BOOLEAN : t = [s EXCEPT ![i] = WithOutputs(s[i], o)]
  <2>1. PICK i \in 1..Len(s), o \in BOOLEAN : t = [s EXCEPT ![i] = WithOutputs(s[i], o)]
    BY <1>8
  <2>2. /\ WithOutputs(s[i], o) \in Cell
        /\ PlainOf(WithOutputs(s[i], o)) = [PlainOf(s[i]) EXCEPT !.out = o]
    BY <1>4, CellWithOutputs
  <2>3. Plain(t) = [Plain(s) EXCEPT ![i] = PlainOf(WithOutputs(s[i], o))]
    BY <2>1, <2>2, PlainExcept
  <2>4. Plain(t) = [Plain(s) EXCEPT ![i] = [@ EXCEPT !.out = o]]
    BY <1>2, <2>2, <2>3
  <2>5. QED
    BY <1>3, <2>4 DEF PlainEdit
<1>9. CASE t \in MovesOf(s)
  BY <1>9, PlainMove DEF PlainEdit
<1>10. QED
  BY <1>5, <1>6, <1>7, <1>8, <1>9 DEF EditsBy

LEMMA PlainEditStep ==
  ASSUME PlainEdit(SharedCells, SharedCells'), UNCHANGED SharedMoves
  PROVE  [Shared!Next]_<<SharedCells, SharedMoves>>
BY DEF PlainEdit, Shared!Next, Shared!Edit, Shared!Insert, Shared!Delete, Shared!Replace,
       Shared!SetOutputs, Shared!RemoveAt, RemoveAt, SharedCells, SharedMoves

(* The document that is seen *)
LEMMA VisibleSeq ==
  ASSUME DocumentInv
  PROVE  /\ Visible = NoFile \/ Visible \in Seq(Cell)
         /\ served # NoRoom => Visible \in Seq(Cell)
         /\ Visible \in Seq(Cell) => SharedCells = Plain(Visible)
<1>1. disk = NoFile \/ disk \in Seq(Cell)
  BY DEF DocumentInv, DocumentTyped
<1>2. served # NoRoom => disk # NoFile /\ Content(served) \in Seq(Cell)
  BY <1>1 DEF DocumentInv, DocumentTyped, ContentInv, FileInv, Content, Sound
<1>3. QED
  BY <1>1, <1>2, DocumentAssumption DEF Visible, SharedCells

LEMMA VisibleHolding ==
  ASSUME Shape, served \in DocRooms, NEW cells, NEW unsaved,
         docs' = Holding(served, cells, unsaved), UNCHANGED served
  PROVE  Visible' = cells /\ Visible = Content(served)
BY HoldingLoaded, DocumentAssumption DEF Visible, Content

LEMMA MovesUnchanged ==
  ASSUME Shape, NEW h \in Requests, NEW q, req' = [req EXCEPT ![h] = q],
         req[h].pc # "setting", q.pc # "setting"
  PROVE  UNCHANGED SharedMoves
<1>1. \A g \in Requests : req'[g] = IF g = h THEN q ELSE req[g]
  BY DEF Shape
<1>2. ASSUME NEW w \in Writers
      PROVE  (IF w \in Requests /\ req'[w].pc = "setting" THEN Plain(req'[w].cells) ELSE NoMove)
               = (IF w \in Requests /\ req[w].pc = "setting" THEN Plain(req[w].cells) ELSE NoMove)
  BY <1>1
<1>3. QED
  BY <1>2 DEF SharedMoves

LEMMA GetsRoomVisible ==
  ASSUME NEW h \in Requests, NEW q, DOMAIN q = RequestFields, GetsRoom(h, q)
  PROVE  /\ served # NoRoom => UNCHANGED docs
         /\ \E s : req' = [req EXCEPT ![h] = s] /\ s.pc \in {"loading", "starting"}
<1>1. [q EXCEPT !.pc = "loading", !.room = served].pc = "loading"
  BY DEF RequestFields
<1>2. [q EXCEPT !.pc = "starting", !.room = FreshRoom].pc = "starting"
  BY DEF RequestFields
<1>3. QED
  BY <1>1, <1>2 DEF GetsRoom

(* A handler that creates the notebook, gets its room, saves it, looks at   *)
(* it or fails leaves the cells that are seen as they are.                  *)
LEMMA HandlerStutters ==
  ASSUME ~OpensOverlap, Shape, RoomInv, DocumentInv, LoadedInv, NEW h \in Requests,
         \/ Begins(h) \/ CallsCreate(h) \/ Renames(h) \/ Stores(h) \/ Starts(h)
         \/ Misses(h) \/ Reads(h) \/ Flushes(h) \/ Saves(h) \/ SkipsSave(h)
         \/ SaveFails(h) \/ Refused(h)
  PROVE  UNCHANGED <<SharedCells, SharedMoves>>
<1>1. CASE Begins(h)
  <2>1. PICK q \in Calls(h) : IF q.place.side = "both"
                             THEN req' = [req EXCEPT ![h] = Answered(q, FALSE)] /\ UNCHANGED docs
                             ELSE GetsRoom(h, q)
    BY <1>1 DEF Begins
  <2>2. PICK s : /\ req' = [req EXCEPT ![h] = s] /\ s.pc # "setting"
                 /\ served # NoRoom => UNCHANGED docs
    <3>1. CASE GetsRoom(h, q)
      BY <3>1, CallsShape, GetsRoomVisible
    <3>2. CASE req' = [req EXCEPT ![h] = Answered(q, FALSE)] /\ UNCHANGED docs
      BY <3>2, AnsweredShape
    <3>3. QED
      BY <2>1, <3>1, <3>2
  <2>3. UNCHANGED SharedMoves
    BY <1>1, <2>2, MovesUnchanged DEF Begins
  <2>4. UNCHANGED <<served, disk>>
    BY <1>1 DEF Begins
  <2>5. Visible' = Visible
    BY <2>2, <2>4 DEF Visible, Content
  <2>6. QED
    BY <2>3, <2>5 DEF SharedCells
<1>2. CASE CallsCreate(h)
  <2>1. [req[h] EXCEPT !.op = "create", !.pc = "untitled"].pc = "untitled"
    BY DEF Shape, RequestFields
  <2>2. UNCHANGED SharedMoves
    BY <1>2, <2>1, MovesUnchanged DEF CallsCreate
  <2>3. QED
    BY <1>2, <2>2 DEF CallsCreate, SharedCells, Visible, Content
<1>3. CASE Renames(h)
  <2>1. CASE disk = NoFile
    <3>1. [req[h] EXCEPT !.pc = "renamed"].pc = "renamed"
      BY DEF Shape, RequestFields
    <3>2. UNCHANGED SharedMoves
      BY <1>3, <2>1, <3>1, MovesUnchanged DEF Renames
    <3>3. served = NoRoom /\ UNCHANGED served /\ disk' = <<>>
      BY <1>3, <2>1 DEF Renames, DocumentInv, FileInv
    <3>4. Visible = NoFile /\ Visible' = <<>>
      BY <2>1, <3>3 DEF Visible
    <3>5. Plain(<<>>) = <<>>
      <4>1. <<>> \in Seq(Cell) /\ Len(<<>>) = 0
        OBVIOUS
      <4>2. Plain(<<>>) \in Seq(PlainCell) /\ Len(Plain(<<>>)) = 0
        BY <4>1, PlainProperties
      <4>3. QED
        BY <4>2
    <3>6. QED
      BY <3>2, <3>4, <3>5 DEF SharedCells
  <2>2. CASE disk # NoFile
    <3>1. req' = [req EXCEPT ![h] = Answered(@, FALSE)] /\ UNCHANGED <<docs, served, disk>>
      BY <1>3, <2>2 DEF Renames
    <3>2. UNCHANGED SharedMoves
      BY <1>3, <3>1, AnsweredShape, MovesUnchanged DEF Renames
    <3>3. QED
      BY <3>1, <3>2 DEF SharedCells, Visible, Content
  <2>3. QED
    BY <2>1, <2>2
<1>4. CASE Stores(h)
  <2>1. PICK s : /\ req' = [req EXCEPT ![h] = s] /\ s.pc # "setting"
                 /\ served # NoRoom => UNCHANGED docs
    BY <1>4, GetsRoomVisible DEF Stores, Shape
  <2>2. UNCHANGED SharedMoves
    BY <1>4, <2>1, MovesUnchanged DEF Stores
  <2>3. req[h].pc = "renamed" /\ UNCHANGED served /\ disk' = <<>>
    BY <1>4 DEF Stores
  <2>4. served = NoRoom \/ ~docs[served].loaded => disk = <<>>
    BY <2>3 DEF LoadedInv
  <2>5. Visible' = Visible
    BY <2>1, <2>3, <2>4 DEF Visible, Content
  <2>6. QED
    BY <2>2, <2>5 DEF SharedCells
<1>5. CASE Starts(h)
  <2> DEFINE r == req[h].room
  <2>1. [req[h] EXCEPT !.pc = "loading"].pc = "loading"
    BY DEF Shape, RequestFields
  <2>2. UNCHANGED SharedMoves
    BY <1>5, <2>1, MovesUnchanged DEF Starts
  <2>3. r \in DocRooms /\ served = NoRoom /\ docs[r].status = "starting"
    BY <1>5 DEF Starts, Shape, RoomInv
  <2>4. ~docs[r].loaded
    BY <2>3 DEF LoadedInv
  <2>5. docs'[r].loaded = docs[r].loaded /\ served' = r /\ UNCHANGED disk
    BY <1>5, <2>3 DEF Starts, Shape, RoomFields
  <2>6. Visible' = Visible
    BY <2>3, <2>4, <2>5, DocumentAssumption DEF Visible, Content
  <2>7. QED
    BY <2>2, <2>6 DEF SharedCells
<1>6. CASE Misses(h) \/ Reads(h) \/ Flushes(h)
  <2>1. req[h].pc = "loading" /\ UNCHANGED served
    BY <1>6 DEF Misses, Reads, Flushes
  <2>2. req[h].room = served /\ served \in DocRooms
    BY <2>1 DEF RoomInv, Shape, Working
  <2>3. docs' = Holding(served, Content(served), docs[served].unsaved)
    BY <1>6, <2>2 DEF Misses, Reads, Flushes
  <2>4. Visible' = Visible
    BY <2>1, <2>2, <2>3, VisibleHolding
  <2>5. PICK q : req' = [req EXCEPT ![h] = q] /\ q.pc # "setting"
    <3>1. CASE Misses(h) \/ Reads(h)
      <4>1. \E ok : req' = [req EXCEPT ![h] = Answered(@, ok)]
        BY <3>1 DEF Misses, Reads
      <4>2. \A ok : Answered(req[h], ok).pc = "answered"
        BY AnsweredShape
      <4>3. QED
        BY <4>1, <4>2 DEF Shape
    <3>2. CASE Flushes(h)
      <4>1. [req[h] EXCEPT !.pc = "saving"].pc = "saving"
        BY DEF Shape, RequestFields
      <4>2. QED
        BY <3>2, <4>1 DEF Flushes, Shape
    <3>3. QED
      BY <1>6, <3>1, <3>2
  <2>6. UNCHANGED SharedMoves
    BY <2>1, <2>5, MovesUnchanged
  <2>7. QED
    BY <2>4, <2>6 DEF SharedCells
<1>7. CASE Saves(h) \/ SkipsSave(h)
  <2>1. req[h].pc = "saving" /\ UNCHANGED served
    BY <1>7 DEF Saves, SkipsSave
  <2>2. req[h].room = served /\ served \in DocRooms /\ docs[served].loaded
    BY <2>1 DEF RoomInv, Shape, LoadedInv, Working
  <2>3. docs'[served].loaded = docs[served].loaded /\ docs'[served].cells = docs[served].cells
    BY <1>7, <2>2 DEF Saves, SkipsSave, Shape, RoomFields
  <2>4. Visible' = Visible
    BY <2>1, <2>2, <2>3, DocumentAssumption DEF Visible, Content
  <2>5. PICK q : \E skipped \in BOOLEAN : AnswersSave(q, h, skipped)
    BY <1>7, SaveShape
  <2>6. UNCHANGED SharedMoves
    BY <2>1, <2>5, MovesUnchanged DEF AnswersSave
  <2>7. QED
    BY <2>4, <2>6 DEF SharedCells
<1>8. CASE SaveFails(h) \/ Refused(h)
  <2>1. /\ req' = [req EXCEPT ![h] = Answered(@, FALSE)] /\ UNCHANGED <<docs, served, disk>>
        /\ req[h].pc # "setting"
    BY <1>8 DEF SaveFails, Refused
  <2>2. UNCHANGED SharedMoves
    BY <2>1, AnsweredShape, MovesUnchanged
  <2>3. QED
    BY <2>1, <2>2 DEF SharedCells, Visible, Content
<1>9. QED
  BY <1>1, <1>2, <1>3, <1>4, <1>5, <1>6, <1>7, <1>8

(* A write into the document that is served *)
LEMMA WritesPlainEdit ==
  ASSUME Shape, DocumentInv, served \in DocRooms, NEW t \in Seq(Cell), NEW unsaved,
         docs' = Holding(served, t, unsaved), UNCHANGED served,
         PlainEdit(Plain(Content(served)), Plain(t)), UNCHANGED SharedMoves
  PROVE  [Shared!Next]_<<SharedCells, SharedMoves>>
<1>1. Visible' = t /\ Visible = Content(served) /\ Visible \in Seq(Cell)
  BY VisibleHolding, VisibleSeq, DocumentAssumption
<1>2. SharedCells = Plain(Content(served)) /\ SharedCells' = Plain(t)
  BY <1>1, DocumentAssumption DEF SharedCells
<1>3. QED
  BY <1>2, PlainEditStep

LEMMA EditsRefine ==
  ASSUME ~OpensOverlap, Shape, RoomInv, DocumentInv, NEW h \in Requests, Edits(h)
  PROVE  [Shared!Next]_<<SharedCells, SharedMoves>>
<1> DEFINE s == Content(req[h].room)
           t == Edited(s, req[h], h)
<1>1. /\ req[h].pc = "loading" /\ req[h].op \in CellOps \ {"move"} /\ ~NotFound(s, req[h])
      /\ docs' = Holding(req[h].room, t, docs[req[h].room].unsaved \cup {h})
      /\ UNCHANGED served
  BY DEF Edits
<1>2. req[h].room = served /\ served \in DocRooms
  BY <1>1 DEF RoomInv, Shape, Working
<1>3. s \in Seq(Cell) /\ Sound(s, Early, lab = 0) /\ h \in Early
  BY <1>1, ContentSound DEF Early, EarlyStages
<1>4. h \notin Ids(s)
  BY <1>3 DEF Sound, Ids
<1> HIDE DEF s
<1>5. PICK u \in EditsBy(s, h) : t = Keyed(u)
  BY <1>1, <1>3, <1>4, EditedIsEdit
<1>6. Sound(s, Early \ {h}, FALSE)
  BY <1>3, SoundLess
<1>7. Sound(u, Early \ {h}, FALSE)
  BY <1>6, SoundEdit
<1>8. u \in Seq(Cell)
  BY <1>7 DEF Sound
<1>9. t \in Seq(Cell) /\ Plain(t) = Plain(u)
  BY <1>5, <1>8, KeyedProperties, PlainKeyed
<1>10. PlainEdit(Plain(s), Plain(t))
  BY <1>3, <1>9, EditIsPlainEdit
<1>11. UNCHANGED SharedMoves
  <2>1. [req[h] EXCEPT !.pc = "saving"].pc = "saving"
    BY DEF Shape, RequestFields
  <2>2. req' = [req EXCEPT ![h] = [req[h] EXCEPT !.pc = "saving"]]
    BY DEF Edits, Shape
  <2>3. QED
    BY <1>1, <2>1, <2>2, MovesUnchanged
<1>12. s = Content(served)
  BY <1>2 DEF s
<1> HIDE DEF t
<1>13. QED
  BY <1>1, <1>2, <1>9, <1>10, <1>11, <1>12, WritesPlainEdit

(* A move begins: its writer has the document it is about to write. *)
LEMMA PlansMoveRefines ==
  ASSUME ~OpensOverlap, Shape, RoomInv, DocumentInv, NEW h \in Requests, PlansMove(h)
  PROVE  [Shared!Next]_<<SharedCells, SharedMoves>>
<1> DEFINE s == Content(req[h].room)
           m == Moved(s, req[h].cell, req[h].place)
           q == [req[h] EXCEPT !.pc = "setting", !.cells = Keyed(m)]
<1>1. /\ req[h].pc = "loading" /\ req[h].op = "move" /\ ~NotFound(s, req[h])
      /\ docs' = Holding(req[h].room, s, docs[req[h].room].unsaved)
      /\ req' = [req EXCEPT ![h] = q] /\ UNCHANGED served
  BY DEF PlansMove, Shape
<1>2. req[h].room = served /\ served \in DocRooms /\ h \in Writers
  BY <1>1 DEF RoomInv, Shape, Working, Writers
<1>3. s \in Seq(Cell) /\ Sound(s, Early, FALSE)
  BY <1>1, ContentSound, SoundLess
<1>4. s = Content(served)
  BY <1>2
<1>5. q.pc = "setting" /\ q.cells = Keyed(m)
  BY DEF Shape, RequestFields
<1> HIDE DEF q, s
<1>6. m \in MovesOf(s)
  BY <1>1, <1>3, MovedIsMove
<1> HIDE DEF m
<1>7. Sound(m, Early, FALSE)
  BY <1>3, <1>6, SoundMove
<1>8. Plain(Keyed(m)) = Plain(m)
  BY <1>7, PlainKeyed DEF Sound
<1>9. Plain(m) \in Shared!Moved(Plain(s))
  BY <1>3, <1>6, PlainMove
<1>10. Visible' = s /\ Visible = s
  BY <1>1, <1>2, <1>4, VisibleHolding
<1>11. SharedCells = Plain(s) /\ UNCHANGED SharedCells
  BY <1>3, <1>10, DocumentAssumption DEF SharedCells
<1>12. \A g \in Requests : req'[g] = IF g = h THEN q ELSE req[g]
  BY <1>1 DEF Shape
<1>13. SharedMoves[h] = NoMove
  BY <1>1, <1>2 DEF SharedMoves
<1>14. SharedMoves' = [SharedMoves EXCEPT ![h] = Plain(m)]
  <2>1. ASSUME NEW w \in Writers
        PROVE  (IF w \in Requests /\ req'[w].pc = "setting" THEN Plain(req'[w].cells) ELSE NoMove)
                 = IF w = h THEN Plain(m) ELSE SharedMoves[w]
    BY <1>5, <1>8, <1>12 DEF SharedMoves
  <2>2. DOMAIN SharedMoves = Writers
    BY DEF SharedMoves
  <2>3. SharedMoves' = [w \in Writers |-> IF w = h THEN Plain(m) ELSE SharedMoves[w]]
    BY <2>1 DEF SharedMoves
  <2>4. SharedMoves = [w \in Writers |-> SharedMoves[w]]
    BY DEF SharedMoves
  <2> HIDE DEF m
  <2>5. QED
    BY <1>2, <2>2, <2>3, <2>4
<1>15. /\ SharedMoves[h] = NoMove
       /\ \E c \in Shared!Moved(SharedCells) : SharedMoves' = [SharedMoves EXCEPT ![h] = c]
       /\ UNCHANGED SharedCells
  BY <1>9, <1>11, <1>13, <1>14
<1>16. Shared!BeginMove(h)
  BY <1>15 DEF Shared!BeginMove, SharedCells, SharedMoves
<1>17. QED
  BY <1>2, <1>16 DEF Shared!Next, SharedCells, SharedMoves

(* A move ends: the document is what its writer had. *)
LEMMA SetsRefines ==
  ASSUME ~OpensOverlap, Shape, RoomInv, DocumentInv, NEW h \in Requests, Sets(h)
  PROVE  [Shared!Next]_<<SharedCells, SharedMoves>>
<1> DEFINE m == req[h].cells
           q == [req[h] EXCEPT !.pc = "saving", !.cells = NoMove]
<1>1. /\ req[h].pc = "setting"
      /\ docs' = Holding(req[h].room, m, docs[req[h].room].unsaved \cup {h})
      /\ req' = [req EXCEPT ![h] = q] /\ UNCHANGED served
  BY DEF Sets, Shape
<1>2. req[h].room = served /\ served \in DocRooms /\ h \in Writers
  BY <1>1 DEF RoomInv, Shape, Working, Writers
<1>3. m \in Seq(Cell)
  BY <1>1 DEF DocumentInv, ContentInv, Sound
<1>4. q.pc = "saving"
  BY DEF Shape, RequestFields
<1> HIDE DEF q
<1>5. SharedMoves[h] = Plain(m)
  BY <1>1, <1>2 DEF SharedMoves
<1> HIDE DEF m
<1>6. Plain(m) # NoMove
  BY <1>3, PlainProperties, DocumentAssumption DEF PlainCell
<1>7. Visible' = m
  BY <1>1, <1>2, VisibleHolding
<1>8. SharedCells' = Plain(m)
  BY <1>3, <1>7, DocumentAssumption DEF SharedCells
<1>9. \A g \in Requests : req'[g] = IF g = h THEN q ELSE req[g]
  BY <1>1 DEF Shape
<1>10. SharedMoves' = [SharedMoves EXCEPT ![h] = NoMove]
  <2>1. ASSUME NEW w \in Writers
        PROVE  (IF w \in Requests /\ req'[w].pc = "setting" THEN Plain(req'[w].cells) ELSE NoMove)
                 = IF w = h THEN NoMove ELSE SharedMoves[w]
    BY <1>4, <1>9 DEF SharedMoves
  <2>2. DOMAIN SharedMoves = Writers
    BY DEF SharedMoves
  <2>3. SharedMoves' = [w \in Writers |-> IF w = h THEN NoMove ELSE SharedMoves[w]]
    BY <2>1 DEF SharedMoves
  <2>4. SharedMoves = [w \in Writers |-> SharedMoves[w]]
    BY DEF SharedMoves
  <2>5. QED
    BY <1>2, <2>2, <2>3, <2>4
<1>11. /\ SharedMoves[h] # NoMove /\ SharedCells' = SharedMoves[h]
       /\ SharedMoves' = [SharedMoves EXCEPT ![h] = NoMove]
  BY <1>5, <1>6, <1>8, <1>10
<1>12. Shared!EndMove(h)
  BY <1>11 DEF Shared!EndMove, SharedCells, SharedMoves
<1>13. QED
  BY <1>2, <1>12 DEF Shared!Next, SharedCells, SharedMoves

LEMMA OthersRefine ==
  ASSUME ~OpensOverlap, Shape, RoomInv, DocumentInv, LoadedInv,
         LabOpens \/ LabEdits \/ OutputArrives
  PROVE  [Shared!Next]_<<SharedCells, SharedMoves>>
<1>1. UNCHANGED req
  BY DEF LabOpens, LabEdits, OutputArrives
<1>2. UNCHANGED SharedMoves
  BY <1>1 DEF SharedMoves
<1>3. CASE LabOpens
  <2>1. FreshRoom \in DocRooms /\ served = NoRoom /\ served' = FreshRoom
    BY <1>3, FreshRoomUnused DEF LabOpens
  <2>2. docs'[FreshRoom].loaded /\ docs'[FreshRoom].cells = disk
    BY <1>3, <2>1 DEF LabOpens, Shape, RoomFields
  <2>3. Visible' = Visible
    BY <2>1, <2>2, DocumentAssumption DEF Visible, Content
  <2>4. QED
    BY <1>2, <2>3 DEF SharedCells
<1>4. CASE LabEdits
  <2> DEFINE s == docs[served].cells
  <2>1. PICK t \in LabEdited(s) : docs' = Holding(served, t, docs[served].unsaved \cup {Lab})
    BY <1>4 DEF LabEdits
  <2>2. served \in DocRooms /\ s \in Seq(Cell) /\ Sound(s, {}, FALSE)
    BY <1>4, ShowingSound, SoundLess DEF LabEdits
  <2>3. s = Content(served) /\ UNCHANGED served
    BY <1>4 DEF LabEdits, Showing, Content
  <2> HIDE DEF s
  <2>4. t \in EditsBy(s, Lab)
    BY <2>1, <2>2, LabEditedIsEdit
  <2>5. t \in Seq(Cell)
    <3>1. Sound(t, {}, FALSE)
      BY <2>2, <2>4, SoundEdit
    <3>2. QED
      BY <3>1 DEF Sound
  <2>6. PlainEdit(Plain(s), Plain(t))
    BY <2>2, <2>4, EditIsPlainEdit
  <2>7. QED
    BY <1>2, <2>1, <2>2, <2>3, <2>5, <2>6, WritesPlainEdit
<1>5. CASE OutputArrives
  <2> DEFINE s == docs[served].cells
  <2>1. PICK i \in DOMAIN s :
          docs' = Holding(served, [s EXCEPT ![i] = WithOutputs(s[i], TRUE)], docs[served].unsaved)
    BY <1>5 DEF OutputArrives, WithOutputs
  <2> DEFINE t == [s EXCEPT ![i] = WithOutputs(s[i], TRUE)]
  <2>2. served \in DocRooms /\ s \in Seq(Cell) /\ Sound(s, {}, FALSE)
    BY <1>5, ShowingSound, SoundLess DEF OutputArrives
  <2>3. s = Content(served) /\ UNCHANGED served
    BY <1>5 DEF OutputArrives, Showing, Content
  <2> HIDE DEF s
  <2>4. <<i, TRUE>> \in (1..Len(s)) \X BOOLEAN
    <3>1. DOMAIN s = 1..Len(s)
      BY <2>2
    <3>2. i \in 1..Len(s)
      BY <2>1, <3>1
    <3>3. QED
      BY <3>2, Zenon
  <2>5. t \in EditsBy(s, Lab)
    BY <2>4 DEF EditsBy
  <2>6. docs' = Holding(served, t, docs[served].unsaved)
    BY <2>1
  <2> HIDE DEF t
  <2>7. t \in Seq(Cell)
    <3>1. Sound(t, {}, FALSE)
      BY <2>2, <2>5, SoundEdit
    <3>2. QED
      BY <3>1 DEF Sound
  <2>8. PlainEdit(Plain(s), Plain(t))
    BY <2>2, <2>5, EditIsPlainEdit
  <2>9. QED
    BY <1>2, <2>2, <2>3, <2>6, <2>7, <2>8, WritesPlainEdit
<1>6. QED
  BY <1>3, <1>4, <1>5

(* As long as no two callers open the document at once, the document that   *)
(* is served is one shared sequence of cells: every step of every handler,  *)
(* of JupyterLab and of the kernel is one whole edit of it or none, but for *)
(* a move, which writes the document it began with.                         *)
THEOREM SharedNotebookImplemented ==
  ASSUME ~OpensOverlap
  PROVE  Spec => ImplementsSharedNotebook
<1>1. Init => Shared!Init
  <2> SUFFICES ASSUME Init PROVE Shared!Init
    OBVIOUS
  <2>1. FileCells \in Seq(Cell)
    BY FileCellsSound DEF Sound
  <2>2. Plain(Keyed(FileCells)) = Plain(FileCells)
    BY <2>1, PlainKeyed
  <2>3. Visible = disk /\ disk \in {NoFile, FileCells, Keyed(FileCells)}
    BY DEF Init, Visible
  <2>4. SharedCells \in {<<>>, Plain(FileCells)}
    BY <2>2, <2>3 DEF SharedCells
  <2>5. \A h \in Requests : req[h].pc = "new"
    BY DEF Init, NewRequest
  <2>6. SharedMoves = [w \in Writers |-> NoMove]
    BY <2>5 DEF SharedMoves
  <2>7. QED
    BY <2>4, <2>6 DEF Shared!Init, SharedCells, SharedMoves
<1>2. ASSUME Shape, RoomInv, DocumentInv, LoadedInv, [Next]_vars
      PROVE  [Shared!Next]_<<SharedCells, SharedMoves>>
  <2>1. CASE (\E h \in Requests : Enters(h)) \/ UNCHANGED vars
    BY <2>1 DEF Enters, documentVars, vars, SharedCells, SharedMoves, Visible, Content
  <2>2. ASSUME NEW h \in Requests, Continues(h)
        PROVE  [Shared!Next]_<<SharedCells, SharedMoves>>
    <3>1. CASE Edits(h)
      BY <1>2, <3>1, EditsRefine
    <3>2. CASE PlansMove(h)
      BY <1>2, <3>2, PlansMoveRefines
    <3>3. CASE Sets(h)
      BY <1>2, <3>3, SetsRefines
    <3>4. CASE \/ Begins(h) \/ CallsCreate(h) \/ Renames(h) \/ Stores(h) \/ Starts(h)
               \/ Misses(h) \/ Reads(h) \/ Flushes(h) \/ Saves(h) \/ SkipsSave(h)
               \/ SaveFails(h) \/ Refused(h)
      BY <1>2, <3>4, HandlerStutters
    <3>5. QED
      BY <2>2, <3>1, <3>2, <3>3, <3>4 DEF Continues
  <2>3. CASE LabOpens \/ LabEdits \/ OutputArrives
    BY <1>2, <2>3, OthersRefine
  <2>4. QED
    BY <1>2, <2>1, <2>2, <2>3 DEF Next
<1>3. QED
  BY <1>1, <1>2, ShapeAlways, RoomInvAlways, DocumentInvAlways, LoadedInvAlways, PTL
  DEF Spec, ImplementsSharedNotebook, Shared!Spec, SharedCells, SharedMoves

=============================================================================
