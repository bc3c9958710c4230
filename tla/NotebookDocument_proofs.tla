---------------------- MODULE NotebookDocument_proofs ----------------------
(* Theorems about NotebookDocument, for every value of its constants. *)
EXTENDS NotebookDocument, TLAPS

-----------------------------------------------------------------------------
(* The initialisation *)

(* Whoever initialises is alone, and before it has ended there is nothing   *)
(* of the control plane; the event tells which of the two it is.            *)
GateInv ==
  /\ gate \in [Requests -> Gate]
  /\ ext.orch \in BOOLEAN /\ ext.error \in BOOLEAN /\ ext.event \in {"none", "unset", "set"}
  /\ ext.loops \in {0, 1}
  /\ DOMAIN ext = {"orch", "manager", "error", "event", "routes", "loops"}
  /\ ext.loops = 1 => ext.manager
  /\ ext.orch => ext.manager /\ ext.event = "set"
  /\ ext.event # "set" => ext.loops = 0 /\ ~ext.error
  /\ \A h \in Requests : gate[h] = "initializing" => ext.event = "unset"
  /\ \A h, g \in Requests : gate[h] = "initializing" /\ gate[g] = "initializing" => h = g
  /\ \A h \in Requests : gate[h] = "ready" => ext.orch

LEMMA GateInvInit == ExtensionInit => GateInv
BY DEF ExtensionInit, GateInv, Gate

(* One step of the gate keeps it. *)
LEMMA GateInvStep ==
  ASSUME GateInv, NEW h \in Requests, GateStep(h)
  PROVE  GateInv'
<1>1. CASE Arrives(h)
  BY <1>1 DEF GateInv, Arrives, Passes, Gate
<1>2. CASE Initializes(h)
  BY <1>2 DEF GateInv, Initializes, Passes, Gate
<1>3. CASE InitializationFails(h)
  BY <1>3 DEF GateInv, InitializationFails, Passes, Gate
<1>4. CASE InstallFails(h)
  BY <1>4 DEF GateInv, InstallFails, Passes, Gate
<1>5. CASE Wakes(h)
  BY <1>5 DEF GateInv, Wakes, Passes, Gate
<1>6. QED
  BY <1>1, <1>2, <1>3, <1>4, <1>5, GateStep(h) DEF GateStep

(* Nothing but Enters touches the extension. *)
LEMMA OthersLeaveExtension ==
  ASSUME \/ \E h \in Requests : Continues(h)
         \/ LabOpens \/ LabEdits \/ OutputArrives \/ UNCHANGED vars
  PROVE  UNCHANGED extensionVars
BY DEF Continues, Begins, CallsCreate, Renames, Stores, Starts, Edits, PlansMove, Sets, Misses,
       Reads, Flushes, Saves, SkipsSave, SaveFails, Refused, LabOpens, LabEdits, OutputArrives,
       extensionVars, vars

LEMMA GateInvAlways == Spec => []GateInv
<1>1. Init => GateInv
  BY GateInvInit DEF Init
<1>2. ASSUME GateInv, [Next]_vars PROVE GateInv'
  <2>1. CASE \E h \in Requests : Enters(h)
    BY <1>2, <2>1, GateInvStep DEF Enters
  <2>2. CASE \/ \E h \in Requests : Continues(h)
             \/ LabOpens \/ LabEdits \/ OutputArrives
             \/ UNCHANGED vars
    BY <1>2, <2>2, OthersLeaveExtension DEF GateInv, extensionVars
  <2>3. QED
    BY <1>2, <2>1, <2>2 DEF Next
<1>3. QED
  BY <1>1, <1>2, PTL DEF Spec

(* However the first requests overlap and whatever fails on the way, the    *)
(* extension makes one control plane and no request goes on without it.     *)
THEOREM OneControlPlaneAlways == Spec => []OneControlPlane
<1>1. GateInv => OneControlPlane
  BY DEF GateInv, OneControlPlane
<1>2. QED
  BY <1>1, GateInvAlways, PTL

-----------------------------------------------------------------------------
(* Requests and rooms *)

RequestFields == {"pc", "op", "cell", "place", "room", "cells", "ok", "skipped"}
RoomFields == {"status", "loaded", "cells", "unsaved"}

(* What the invariants below need of the types *)
Shape ==
  /\ DOMAIN docs = DocRooms /\ \A r \in DocRooms : DOMAIN docs[r] = RoomFields
  /\ DOMAIN req = Requests /\ \A h \in Requests : DOMAIN req[h] = RequestFields
  /\ \A h \in Requests :
       req[h].pc \in {"starting", "loading", "setting", "saving"} => req[h].room \in DocRooms
  /\ served \in DocRooms \cup {NoRoom}

LEMMA CallsShape ==
  ASSUME NEW h \in Requests, NEW q \in Calls(h)
  PROVE  DOMAIN q = RequestFields /\ q.pc = "new"
<1>1. \A op, c, place :
        DOMAIN Call(op, c, place) = RequestFields /\ Call(op, c, place).pc = "new"
  BY DEF Call, NewRequest, RequestFields
<1>2. \E op, c, place : q = Call(op, c, place)
  BY DEF Calls
<1>3. QED
  BY <1>1, <1>2

LEMMA AnsweredShape ==
  ASSUME NEW q, NEW ok
  PROVE  /\ DOMAIN Answered(q, ok) = RequestFields
         /\ Answered(q, ok).pc = "answered" /\ Answered(q, ok).ok = ok
         /\ Answered(q, ok).op = q.op /\ Answered(q, ok).room = q.room
BY DEF Answered, NewRequest, RequestFields

(* What follows a save: the answer tells whether the cell was found again,  *)
(* and the history whether there was something to await.                    *)
AnswersSave(q, h, skipped) ==
  /\ req' = [req EXCEPT ![h] = q]
  /\ DOMAIN q = RequestFields /\ q.pc = "answered"
  /\ q.ok = FoundAgain(req[h]) /\ q.skipped = skipped
  /\ q.op = req[h].op /\ q.room = req[h].room

LEMMA AfterSaveShape ==
  ASSUME NEW h \in Requests, NEW skipped, AfterSave(h, skipped)
  PROVE  \E q : AnswersSave(q, h, skipped)
<1> DEFINE a == Answered(req[h], FoundAgain(req[h]))
           q == [a EXCEPT !.skipped = skipped]
<1>1. /\ DOMAIN a = RequestFields /\ a.pc = "answered" /\ a.ok = FoundAgain(req[h])
      /\ a.op = req[h].op /\ a.room = req[h].room
  BY AnsweredShape
<1>2. req' = [req EXCEPT ![h] = q]
  BY DEF AfterSave
<1> HIDE DEF a
<1>3. /\ DOMAIN q = RequestFields /\ q.pc = a.pc /\ q.ok = a.ok /\ q.skipped = skipped
      /\ q.op = a.op /\ q.room = a.room
  BY <1>1 DEF RequestFields
<1> HIDE DEF q
<1>4. AnswersSave(q, h, skipped)
  BY <1>1, <1>2, <1>3 DEF AnswersSave
<1>5. QED
  BY <1>4

LEMMA SaveShape ==
  ASSUME NEW h \in Requests, Saves(h) \/ SkipsSave(h)
  PROVE  \E q : \E skipped \in BOOLEAN : AnswersSave(q, h, skipped)
<1>1. PICK skipped \in BOOLEAN : AfterSave(h, skipped)
  BY DEF Saves, SkipsSave
<1>2. QED
  BY <1>1, AfterSaveShape

LEMMA FreshRoomUnused ==
  ASSUME MayOpen
  PROVE  FreshRoom \in DocRooms /\ docs[FreshRoom].status = "unused"
BY DEF MayOpen, UnusedRooms, FreshRoom

(* A request that gets a room has one of its own that starts, or the one    *)
(* that is served.                                                          *)
LEMMA GetsRoomShape ==
  ASSUME Shape, NEW h \in Requests, NEW q, DOMAIN q = RequestFields, GetsRoom(h, q),
         UNCHANGED served
  PROVE  Shape'
<1>1. CASE served # NoRoom /\ UNCHANGED docs
           /\ req' = [req EXCEPT ![h] = [q EXCEPT !.pc = "loading", !.room = served]]
  BY <1>1 DEF Shape, RequestFields
<1>2. CASE MayOpen
           /\ req' = [req EXCEPT ![h] = [q EXCEPT !.pc = "starting", !.room = FreshRoom]]
           /\ docs' = [docs EXCEPT ![FreshRoom] = [@ EXCEPT !.status = "starting"]]
  BY <1>2, FreshRoomUnused DEF Shape, RequestFields, RoomFields
<1>3. QED
  BY <1>1, <1>2 DEF GetsRoom

LEMMA ShapeInit == Init => Shape
BY DEF Init, Shape, NewRequest, RequestFields, RoomFields

(* A handler's step keeps the shape. *)
LEMMA ShapeContinues ==
  ASSUME Shape, NEW h \in Requests, Continues(h)
  PROVE  Shape'
<1> USE DEF Shape
<1>1. CASE Begins(h)
  <2>1. PICK q \in Calls(h) : IF q.place.side = "both"
                             THEN req' = [req EXCEPT ![h] = Answered(q, FALSE)] /\ UNCHANGED docs
                             ELSE GetsRoom(h, q)
    BY <1>1 DEF Begins
  <2>2. DOMAIN q = RequestFields
    BY CallsShape
  <2>3. CASE GetsRoom(h, q)
    BY <1>1, <2>2, <2>3, GetsRoomShape DEF Begins
  <2>4. CASE req' = [req EXCEPT ![h] = Answered(q, FALSE)] /\ UNCHANGED docs
    <3>1. DOMAIN Answered(q, FALSE) = RequestFields /\ Answered(q, FALSE).pc = "answered"
      BY AnsweredShape
    <3>2. UNCHANGED served
      BY <1>1 DEF Begins
    <3>3. QED
      BY <2>4, <3>1, <3>2
  <2>5. QED
    BY <2>1, <2>3, <2>4
<1>2. CASE CallsCreate(h)
  BY <1>2 DEF CallsCreate, RequestFields
<1>3. CASE Renames(h)
  <2>1. CASE req' = [req EXCEPT ![h] = [@ EXCEPT !.pc = "renamed"]]
    BY <1>3, <2>1 DEF Renames, RequestFields
  <2>2. CASE req' = [req EXCEPT ![h] = Answered(@, FALSE)]
    BY <1>3, <2>2, AnsweredShape DEF Renames
  <2>3. QED
    BY <1>3, <2>1, <2>2 DEF Renames
<1>4. CASE Stores(h)
  BY <1>4, GetsRoomShape DEF Stores
<1>5. CASE Starts(h)
  BY <1>5 DEF Starts, RequestFields, RoomFields
<1>6. CASE Edits(h)
  BY <1>6 DEF Edits, Holding, RequestFields, RoomFields
<1>7. CASE PlansMove(h)
  BY <1>7 DEF PlansMove, Holding, RequestFields, RoomFields
<1>8. CASE Sets(h)
  BY <1>8 DEF Sets, Holding, RequestFields, RoomFields
<1>9. CASE Misses(h)
  BY <1>9, AnsweredShape DEF Misses, Holding, RoomFields
<1>10. CASE Reads(h)
  BY <1>10, AnsweredShape DEF Reads, Holding, RoomFields
<1>11. CASE Flushes(h)
  BY <1>11 DEF Flushes, Holding, RequestFields, RoomFields
<1>12. CASE Saves(h) \/ SkipsSave(h)
  <2>0. PICK q : \E skipped \in BOOLEAN : AnswersSave(q, h, skipped)
    BY <1>12, SaveShape
  <2>1. req' = [req EXCEPT ![h] = q] /\ DOMAIN q = RequestFields /\ q.pc = "answered"
    BY <2>0 DEF AnswersSave
  <2>2. CASE Saves(h)
    BY <2>1, <2>2 DEF Saves, RoomFields
  <2>3. CASE SkipsSave(h)
    BY <2>1, <2>3 DEF SkipsSave
  <2>4. QED
    BY <1>12, <2>2, <2>3
<1>13. CASE SaveFails(h) \/ Refused(h)
  <2>1. /\ req' = [req EXCEPT ![h] = Answered(@, FALSE)]
        /\ UNCHANGED <<docs, served>>
    BY <1>13 DEF SaveFails, Refused
  <2>2. QED
    BY <2>1, AnsweredShape
<1>14. QED
  BY <1>1, <1>2, <1>3, <1>4, <1>5, <1>6, <1>7, <1>8, <1>9, <1>10, <1>11, <1>12, <1>13
  DEF Continues

LEMMA ShapeAlways == Spec => []Shape
<1>1. ASSUME Shape, [Next]_vars PROVE Shape'
  <2>1. CASE (\E h \in Requests : Enters(h)) \/ UNCHANGED vars
    BY <1>1, <2>1 DEF Enters, documentVars, vars, Shape
  <2>2. CASE \E h \in Requests : Continues(h)
    BY <1>1, <2>2, ShapeContinues
  <2>3. CASE LabOpens
    BY <1>1, <2>3, FreshRoomUnused DEF LabOpens, Shape, RoomFields
  <2>4. CASE LabEdits \/ OutputArrives
    BY <1>1, <2>4 DEF LabEdits, OutputArrives, Holding, Shape, RoomFields
  <2>5. QED
    BY <1>1, <2>1, <2>2, <2>3, <2>4 DEF Next
<1>2. QED
  BY <1>1, ShapeInit, PTL DEF Spec

-----------------------------------------------------------------------------
(* Saves *)

SavedInv ==
  \A h \in Requests :
    req[h].pc = "answered" /\ req[h].ok /\ req[h].op \in CellOps
      => req[h].room \in DocRooms /\ (h \notin docs[req[h].room].unsaved \/ req[h].skipped)

(* A step of a handler that leaves no other's edit unsaved and does not     *)
(* answer an edit with success keeps the invariant.                         *)
LEMMA SavedByOthers ==
  ASSUME Shape, SavedInv, NEW h \in Requests, NEW q,
         req[h].pc # "answered", req' = [req EXCEPT ![h] = q],
         q.pc # "answered" \/ ~q.ok \/ q.op \notin CellOps,
         \A r \in DocRooms : docs'[r].unsaved \subseteq docs[r].unsaved \cup {h}
  PROVE  SavedInv'
BY DEF Shape, SavedInv

LEMMA GetsRoomUnsaved ==
  ASSUME Shape, NEW h \in Requests, NEW q, GetsRoom(h, q)
  PROVE  \A r \in DocRooms : docs'[r].unsaved = docs[r].unsaved
BY FreshRoomUnused DEF GetsRoom, Shape, RoomFields

LEMMA GetsRoomRequest ==
  ASSUME NEW h \in Requests, NEW q, DOMAIN q = RequestFields, GetsRoom(h, q)
  PROVE  \E s : req' = [req EXCEPT ![h] = s] /\ s.pc # "answered"
<1>1. [q EXCEPT !.pc = "loading", !.room = served].pc # "answered"
  BY DEF RequestFields
<1>2. [q EXCEPT !.pc = "starting", !.room = FreshRoom].pc # "answered"
  BY DEF RequestFields
<1>3. QED
  BY <1>1, <1>2 DEF GetsRoom

LEMMA HoldingUnsaved ==
  ASSUME Shape, NEW r, NEW cells, NEW unsaved, docs' = Holding(r, cells, unsaved)
  PROVE  \A s \in DocRooms : docs'[s].unsaved = IF s = r THEN unsaved ELSE docs[s].unsaved
BY DEF Holding, Shape, RoomFields

LEMMA SavedInvContinues ==
  ASSUME Shape, SavedInv, NEW h \in Requests, Continues(h)
  PROVE  SavedInv'
<1>1. CASE Begins(h)
  <2>1. PICK q \in Calls(h) : IF q.place.side = "both"
                             THEN req' = [req EXCEPT ![h] = Answered(q, FALSE)] /\ UNCHANGED docs
                             ELSE GetsRoom(h, q)
    BY <1>1 DEF Begins
  <2>2. CASE GetsRoom(h, q)
    <3>1. PICK s : req' = [req EXCEPT ![h] = s] /\ s.pc # "answered"
      BY <2>2, CallsShape, GetsRoomRequest
    <3>2. QED
      BY <1>1, <2>2, <3>1, GetsRoomUnsaved, SavedByOthers DEF Begins
  <2>3. CASE req' = [req EXCEPT ![h] = Answered(q, FALSE)] /\ UNCHANGED docs
    BY <1>1, <2>3, AnsweredShape, SavedByOthers DEF Begins
  <2>4. QED
    BY <2>1, <2>2, <2>3
<1>2. CASE CallsCreate(h) \/ Starts(h)
  <2>1. PICK s : req' = [req EXCEPT ![h] = s] /\ s.pc # "answered"
    BY <1>2 DEF CallsCreate, Starts, Shape, RequestFields
  <2>2. \A r \in DocRooms : docs'[r].unsaved = docs[r].unsaved
    BY <1>2 DEF CallsCreate, Starts, Shape, RoomFields
  <2>3. QED
    BY <1>2, <2>1, <2>2, SavedByOthers DEF CallsCreate, Starts
<1>3. CASE Renames(h)
  <2>1. PICK s : req' = [req EXCEPT ![h] = s] /\ (s.pc # "answered" \/ ~s.ok)
    <3>1. CASE req' = [req EXCEPT ![h] = [@ EXCEPT !.pc = "renamed"]]
      <4>1. [req[h] EXCEPT !.pc = "renamed"].pc # "answered"
        BY DEF Shape, RequestFields
      <4>2. QED
        BY <3>1, <4>1
    <3>2. CASE req' = [req EXCEPT ![h] = Answered(@, FALSE)]
      BY <3>2, AnsweredShape DEF Shape
    <3>3. QED
      BY <1>3, <3>1, <3>2 DEF Renames
  <2>2. QED
    BY <1>3, <2>1, SavedByOthers DEF Renames
<1>4. CASE Stores(h)
  <2>1. PICK s : req' = [req EXCEPT ![h] = s] /\ s.pc # "answered"
    BY <1>4, GetsRoomRequest DEF Stores, Shape
  <2>2. QED
    BY <1>4, <2>1, GetsRoomUnsaved, SavedByOthers DEF Stores
<1>5. CASE Edits(h) \/ PlansMove(h) \/ Sets(h) \/ Flushes(h)
  <2>1. PICK s : req' = [req EXCEPT ![h] = s] /\ s.pc # "answered"
    BY <1>5, ZenonT(30) DEF Edits, PlansMove, Sets, Flushes, Shape, RequestFields
  <2>2. \A r \in DocRooms : docs'[r].unsaved \subseteq docs[r].unsaved \cup {h}
    BY <1>5, HoldingUnsaved DEF Edits, PlansMove, Sets, Flushes
  <2>3. QED
    BY <1>5, <2>1, <2>2, SavedByOthers DEF Edits, PlansMove, Sets, Flushes
<1>6. CASE Misses(h)
  <2>1. \A r \in DocRooms : docs'[r].unsaved = docs[r].unsaved
    BY <1>6 DEF Misses, Holding, Shape, RoomFields
  <2>2. QED
    BY <1>6, <2>1, AnsweredShape, SavedByOthers DEF Misses, Shape
<1>7. CASE Reads(h)
  <2>1. \A r \in DocRooms : docs'[r].unsaved = docs[r].unsaved
    BY <1>7 DEF Reads, Holding, Shape, RoomFields
  <2>2. req[h].op \notin CellOps
    BY <1>7 DEF Reads, CellOps
  <2>3. QED
    BY <1>7, <2>1, <2>2, AnsweredShape, SavedByOthers, ZenonT(30) DEF Reads, Shape
<1>8. CASE Saves(h)
  <2>1. docs'[req[h].room].unsaved = {} /\ req[h].room \in DocRooms
    BY <1>8 DEF Saves, Shape, RoomFields
  <2>2. \A r \in DocRooms : docs'[r].unsaved \subseteq docs[r].unsaved
    BY <1>8, <2>1 DEF Saves, Shape, RoomFields
  <2>3. PICK q : \E skipped \in BOOLEAN : AnswersSave(q, h, skipped)
    BY <1>8, SaveShape
  <2>4. req' = [req EXCEPT ![h] = q] /\ q.room = req[h].room
    BY <2>3 DEF AnswersSave
  <2>5. req'[h].room = req[h].room
    BY <2>4 DEF Shape
  <2>6. \A g \in Requests \ {h} : req'[g] = req[g]
    BY <2>4 DEF Shape
  <2>7. QED
    BY <2>1, <2>2, <2>5, <2>6 DEF SavedInv
<1>9. CASE SaveFails(h) \/ Refused(h)
  <2>1. /\ req' = [req EXCEPT ![h] = Answered(@, FALSE)]
        /\ UNCHANGED docs /\ req[h].pc # "answered"
    BY <1>9 DEF SaveFails, Refused
  <2>2. Answered(req[h], FALSE).ok = FALSE
    BY AnsweredShape
  <2>3. QED
    BY <2>1, <2>2, SavedByOthers
<1>10. CASE SkipsSave(h)
  <2>0. PICK q : AnswersSave(q, h, TRUE)
    BY <1>10, AfterSaveShape DEF SkipsSave
  <2>1. req' = [req EXCEPT ![h] = q] /\ q.skipped = TRUE /\ q.room = req[h].room
    BY <2>0 DEF AnswersSave
  <2>2. req'[h].room \in DocRooms /\ req'[h].skipped = TRUE /\ UNCHANGED docs
    BY <1>10, <2>1 DEF SkipsSave, Shape
  <2>3. \A g \in Requests \ {h} : req'[g] = req[g]
    BY <2>1 DEF Shape
  <2>4. QED
    BY <2>2, <2>3 DEF SavedInv
<1>11. QED
  BY <1>1, <1>2, <1>3, <1>4, <1>5, <1>6, <1>7, <1>8, <1>9, <1>10 DEF Continues

(* A cell operation that was answered with success is on disk, in whatever  *)
(* order the saves of the room end and whatever else edits it, unless its   *)
(* own _save_to_disc answered None and the room was not saved since.        *)
THEOREM SavedBeforeAnsweredAlways == Spec => []SavedBeforeAnswered
<1>1. Init => SavedInv
  BY DEF Init, SavedInv, NewRequest
<1>2. ASSUME Shape, SavedInv, [Next]_vars PROVE SavedInv'
  <2>1. CASE (\E h \in Requests : Enters(h)) \/ UNCHANGED vars
    BY <1>2, <2>1 DEF Enters, documentVars, vars, SavedInv
  <2>2. CASE \E h \in Requests : Continues(h)
    BY <1>2, <2>2, SavedInvContinues
  <2>3. CASE LabOpens \/ LabEdits \/ OutputArrives
    <3>1. UNCHANGED req
      BY <2>3 DEF LabOpens, LabEdits, OutputArrives
    <3>2. \A r \in DocRooms : docs'[r].unsaved \subseteq docs[r].unsaved \cup {Lab}
      <4>1. CASE LabOpens
        BY <1>2, <4>1, FreshRoomUnused DEF LabOpens, Shape, RoomFields
      <4>2. CASE LabEdits \/ OutputArrives
        <5>1. \E cells : \/ docs' = Holding(served, cells, docs[served].unsaved \cup {Lab})
                         \/ docs' = Holding(served, cells, docs[served].unsaved)
          BY <4>2 DEF LabEdits, OutputArrives
        <5>2. QED
          BY <1>2, <5>1, HoldingUnsaved
      <4>3. QED
        BY <2>3, <4>1, <4>2
    <3>3. Lab \notin Requests
      BY DocumentAssumption
    <3>4. QED
      BY <1>2, <3>1, <3>2, <3>3 DEF SavedInv
  <2>4. QED
    BY <1>2, <2>1, <2>2, <2>3 DEF Next
<1>3. SavedInv => SavedBeforeAnswered
  BY DEF SavedInv, SavedBeforeAnswered
<1>4. QED
  BY <1>1, <1>2, <1>3, ShapeAlways, PTL DEF Spec

-----------------------------------------------------------------------------
(* Rooms *)

Working == {"loading", "setting", "saving"}

RoomInv ==
  /\ \A r \in DocRooms : docs[r].status = "open" <=> r = served
  /\ \A h \in Requests :
       req[h].pc = "starting" => served = NoRoom /\ docs[req[h].room].status = "starting"
  /\ \A h, g \in Requests : req[h].pc = "starting" /\ req[g].pc = "starting" => h = g
  /\ \A h \in Requests : req[h].pc \in Working => req[h].room = served

(* A step that opens no room, and whose request works on in the room it     *)
(* has or in none                                                           *)
LEMMA RoomKept ==
  ASSUME Shape, RoomInv, UNCHANGED served, NEW h \in Requests, NEW q,
         \A r \in DocRooms : docs'[r].status = docs[r].status,
         req' = [req EXCEPT ![h] = q],
         \/ q.pc \notin Working \cup {"starting"}
         \/ req[h].pc \in Working /\ q.pc \in Working /\ q.room = req[h].room
  PROVE  RoomInv'
<1>1. q.pc # "starting"
  BY DEF Working
<1>2. \A g \in Requests : req'[g] = IF g = h THEN q ELSE req[g]
  BY DEF Shape
<1>3. QED
  BY <1>1, <1>2 DEF Shape, RoomInv, Working

LEMMA HoldingStatus ==
  ASSUME Shape, NEW r, NEW cells, NEW unsaved, docs' = Holding(r, cells, unsaved)
  PROVE  \A s \in DocRooms : docs'[s].status = docs[s].status
BY DEF Holding, Shape, RoomFields

LEMMA GetsRoomKeeps ==
  ASSUME ~OpensOverlap, Shape, RoomInv, NEW h \in Requests, NEW q, DOMAIN q = RequestFields,
         GetsRoom(h, q), UNCHANGED served
  PROVE  RoomInv'
<1>1. CASE /\ served # NoRoom /\ UNCHANGED docs
           /\ req' = [req EXCEPT ![h] = [q EXCEPT !.pc = "loading", !.room = served]]
  <2>1. /\ [q EXCEPT !.pc = "loading", !.room = served].pc = "loading"
        /\ [q EXCEPT !.pc = "loading", !.room = served].room = served
    BY DEF RequestFields
  <2>2. /\ req'[h].pc = "loading" /\ req'[h].room = served
        /\ \A g \in Requests \ {h} : req'[g] = req[g]
    BY <1>1, <2>1 DEF Shape
  <2>3. QED
    BY <1>1, <2>2 DEF RoomInv, Working
<1>2. CASE /\ served = NoRoom /\ MayOpen
           /\ req' = [req EXCEPT ![h] = [q EXCEPT !.pc = "starting", !.room = FreshRoom]]
           /\ docs' = [docs EXCEPT ![FreshRoom] = [@ EXCEPT !.status = "starting"]]
  <2>1. /\ [q EXCEPT !.pc = "starting", !.room = FreshRoom].pc = "starting"
        /\ [q EXCEPT !.pc = "starting", !.room = FreshRoom].room = FreshRoom
    BY DEF RequestFields
  <2>2. /\ req'[h].pc = "starting" /\ req'[h].room = FreshRoom
        /\ \A g \in Requests \ {h} : req'[g] = req[g]
    BY <1>2, <2>1 DEF Shape
  <2>3. \A g \in Requests : req[g].pc # "starting"
    BY <1>2 DEF MayOpen, Opening
  <2>4. /\ docs'[FreshRoom].status = "starting"
        /\ \A r \in DocRooms \ {FreshRoom} : docs'[r].status = docs[r].status
    BY <1>2, FreshRoomUnused DEF Shape, RoomFields
  <2>5. QED
    BY <1>2, <2>2, <2>3, <2>4, FreshRoomUnused, DocumentAssumption DEF RoomInv, Working
<1>3. QED
  BY <1>1, <1>2 DEF GetsRoom

LEMMA RoomInvContinues ==
  ASSUME ~OpensOverlap, Shape, RoomInv, NEW h \in Requests, Continues(h)
  PROVE  RoomInv'
<1>1. CASE Begins(h)
  <2>1. PICK q \in Calls(h) : IF q.place.side = "both"
                             THEN req' = [req EXCEPT ![h] = Answered(q, FALSE)] /\ UNCHANGED docs
                             ELSE GetsRoom(h, q)
    BY <1>1 DEF Begins
  <2>2. CASE GetsRoom(h, q)
    BY <1>1, <2>2, CallsShape, GetsRoomKeeps DEF Begins
  <2>3. CASE req' = [req EXCEPT ![h] = Answered(q, FALSE)] /\ UNCHANGED docs
    BY <1>1, <2>3, AnsweredShape, RoomKept DEF Begins, Working
  <2>4. QED
    BY <2>1, <2>2, <2>3
<1>2. CASE CallsCreate(h)
  <2>1. [req[h] EXCEPT !.op = "create", !.pc = "untitled"].pc = "untitled"
    BY DEF Shape, RequestFields
  <2>2. QED
    BY <1>2, <2>1, RoomKept DEF CallsCreate, Working
<1>3. CASE Renames(h)
  <2>1. CASE req' = [req EXCEPT ![h] = [@ EXCEPT !.pc = "renamed"]]
    <3>1. [req[h] EXCEPT !.pc = "renamed"].pc = "renamed"
      BY DEF Shape, RequestFields
    <3>2. QED
      BY <1>3, <2>1, <3>1, RoomKept DEF Renames, Working
  <2>2. CASE req' = [req EXCEPT ![h] = Answered(@, FALSE)]
    BY <1>3, <2>2, AnsweredShape, RoomKept DEF Renames, Working
  <2>3. QED
    BY <1>3, <2>1, <2>2 DEF Renames
<1>4. CASE Stores(h)
  BY <1>4, GetsRoomKeeps DEF Stores, Shape
<1>5. CASE Starts(h)
  <2>1. /\ req'[h].pc = "loading" /\ req'[h].room = req[h].room
        /\ \A g \in Requests \ {h} : req'[g] = req[g]
    BY <1>5 DEF Starts, Shape, RequestFields
  <2>2. /\ req[h].room \in DocRooms /\ docs'[req[h].room].status = "open"
        /\ \A r \in DocRooms \ {req[h].room} : docs'[r].status = docs[r].status
    BY <1>5 DEF Starts, Shape, RoomFields
  <2>3. served = NoRoom /\ served' = req[h].room
    BY <1>5 DEF Starts, RoomInv
  <2>4. \A g \in Requests \ {h} : req[g].pc # "starting" /\ req[g].pc \notin Working
    BY <1>5, <2>3, DocumentAssumption DEF Starts, RoomInv, Shape, Working
  <2>5. QED
    BY <2>1, <2>2, <2>3, <2>4, DocumentAssumption DEF RoomInv, Working
<1>6. CASE Edits(h) \/ PlansMove(h) \/ Sets(h) \/ Flushes(h)
  <2>1. \A r \in DocRooms : docs'[r].status = docs[r].status
    BY <1>6, HoldingStatus DEF Edits, PlansMove, Sets, Flushes
  <2>2. PICK s : /\ req' = [req EXCEPT ![h] = s]
                 /\ s.pc \in Working /\ s.room = req[h].room
    BY <1>6 DEF Edits, PlansMove, Sets, Flushes, Shape, RequestFields, Working
  <2>3. req[h].pc \in Working /\ UNCHANGED served
    BY <1>6 DEF Edits, PlansMove, Sets, Flushes, Working
  <2>4. QED
    BY <2>1, <2>2, <2>3, RoomKept
<1>7. CASE Misses(h) \/ Reads(h) \/ Saves(h) \/ SkipsSave(h) \/ SaveFails(h) \/ Refused(h)
  <2>1. PICK q : req' = [req EXCEPT ![h] = q] /\ q.pc = "answered"
    <3>1. CASE Saves(h) \/ SkipsSave(h)
      BY <3>1, SaveShape DEF AnswersSave
    <3>2. CASE Misses(h) \/ Reads(h) \/ SaveFails(h) \/ Refused(h)
      <4>1. PICK ok : req' = [req EXCEPT ![h] = Answered(@, ok)]
        BY <3>2 DEF Misses, Reads, SaveFails, Refused
      <4> DEFINE a == Answered(req[h], ok)
      <4>2. req' = [req EXCEPT ![h] = a]
        BY <4>1
      <4>3. a.pc = "answered"
        BY AnsweredShape
      <4> HIDE DEF a
      <4>4. QED
        BY <4>2, <4>3
    <3>3. QED
      BY <1>7, <3>1, <3>2
  <2>2. \A r \in DocRooms : docs'[r].status = docs[r].status
    <3>1. CASE Misses(h) \/ Reads(h)
      BY <3>1, HoldingStatus DEF Misses, Reads
    <3>2. CASE Saves(h)
      BY <3>2 DEF Saves, Shape, RoomFields
    <3>3. CASE SkipsSave(h) \/ SaveFails(h) \/ Refused(h)
      BY <3>3 DEF SkipsSave, SaveFails, Refused
    <3>4. QED
      BY <1>7, <3>1, <3>2, <3>3
  <2>3. UNCHANGED served
    BY <1>7 DEF Misses, Reads, Saves, SkipsSave, SaveFails, Refused
  <2>4. QED
    BY <2>1, <2>2, <2>3, RoomKept DEF Working
<1>8. QED
  BY <1>1, <1>2, <1>3, <1>4, <1>5, <1>6, <1>7 DEF Continues

LEMMA RoomInvAlways ==
  ASSUME ~OpensOverlap
  PROVE  Spec => []RoomInv
<1>1. Init => RoomInv
  BY DocumentAssumption DEF Init, RoomInv, NewRequest, Working
<1>2. ASSUME Shape, RoomInv, [Next]_vars PROVE RoomInv'
  <2>1. CASE (\E h \in Requests : Enters(h)) \/ UNCHANGED vars
    BY <1>2, <2>1 DEF Enters, documentVars, vars, RoomInv
  <2>2. CASE \E h \in Requests : Continues(h)
    BY <1>2, <2>2, RoomInvContinues
  <2>3. CASE LabOpens
    <3>1. \A h \in Requests : req[h].pc # "starting" /\ req[h].pc \notin Working
      BY <1>2, <2>3, DocumentAssumption DEF LabOpens, MayOpen, Opening, RoomInv, Shape, Working
    <3>2. /\ docs'[FreshRoom].status = "open"
          /\ \A r \in DocRooms \ {FreshRoom} : docs'[r].status = docs[r].status
      BY <1>2, <2>3, FreshRoomUnused DEF LabOpens, Shape, RoomFields
    <3>3. QED
      BY <1>2, <2>3, <3>1, <3>2, FreshRoomUnused, DocumentAssumption DEF LabOpens, RoomInv
  <2>4. CASE LabEdits \/ OutputArrives
    <3>1. \E cells, unsaved : docs' = Holding(served, cells, unsaved)
      BY <2>4 DEF LabEdits, OutputArrives
    <3>2. \A r \in DocRooms : docs'[r].status = docs[r].status
      BY <1>2, <3>1, HoldingStatus
    <3>3. UNCHANGED <<req, served>>
      BY <2>4 DEF LabEdits, OutputArrives
    <3>4. QED
      BY <1>2, <3>2, <3>3 DEF RoomInv, Shape, Working
  <2>5. QED
    BY <1>2, <2>1, <2>2, <2>3, <2>4 DEF Next
<1>3. QED
  BY <1>1, <1>2, ShapeAlways, PTL DEF Spec

=============================================================================
