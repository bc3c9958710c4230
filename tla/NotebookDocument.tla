-------------------------- MODULE NotebookDocument --------------------------
(***************************************************************************)
(* A notebook's shared document under concurrent requests and JupyterLab:  *)
(* SharedNotebookAccessor of src/hypernote/execution_orchestrator.py and   *)
(* the document and cell handlers of src/hypernote/server/handlers.py.     *)
(*                                                                         *)
(* A document room holds the cells while the notebook is open; the server  *)
(* of rooms (jupyter_server_ydoc, outside src/) has at most one by name.   *)
(* A handler gets the room, edits it without suspending, saves it to disk  *)
(* and reads the cell again.  One action is the code between two           *)
(* suspension points that matter: the awaits of a room that is open are    *)
(* one, and so are the save and the read behind it.                        *)
(*                                                                         *)
(* Each request serves one call.  A source is who wrote it, and a request  *)
(* that inserts gives its cell a fresh id, which is its own name here.     *)
(* MaxLab bounds JupyterLab's edits, DocRooms the rooms there are ids for. *)
(***************************************************************************)
EXTENDS ExtensionInit, NotebookDiff
LOCAL INSTANCE SequencesExt

CONSTANTS
  OldCells,      \* the cells of the file, as a sequence of ids
  Targets,       \* the cells calls are about
  Anchors,       \* the cells they name with before= or after=
  DocRooms,
  MaxLab,
  OpensOverlap,  \* whether two callers may open the document at once
  Lab, Nobody, NoRoom, NoFile, NoCell, NoMove, NoToken

VARIABLES
  docs,      \* the DocumentRoom objects
  served,    \* the room the server has for the notebook
  disk,      \* the file
  untitled,  \* the requests whose file of new_untitled is not renamed
  req,       \* the handlers
  editor,    \* last_editor_id of each cell
  lab,       \* how many edits JupyterLab has made
  token      \* the last snapshot a client took, and the cells it was taken of

documentVars == <<docs, served, disk, untitled, req, editor, lab, token>>
vars == <<ext, gate, docs, served, disk, untitled, req, editor, lab, token>>

Writers == Requests \cup {Lab, Nobody}
CellIds == {OldCells[i] : i \in DOMAIN OldCells} \cup Requests \cup {Lab}

(* key is the position_key, counted from 1. *)
Cell == [id : CellIds, src : Writers, out : BOOLEAN, key : Nat \cup {NoKey}]
NewCell(c, w) == [id |-> c, src |-> w, out |-> FALSE, key |-> NoKey]

(* The ids of new cells are fresh, and what stands for "none" is not a value. *)
ASSUME DocumentAssumption ==
  /\ Lab \notin Requests /\ Nobody \notin Requests \cup {Lab}
  /\ OldCells \in Seq({OldCells[i] : i \in DOMAIN OldCells})
  /\ \A i \in DOMAIN OldCells : OldCells[i] \notin Requests
  /\ Targets \subseteq CellIds /\ Anchors \subseteq CellIds
  /\ MaxLab \in Nat /\ OpensOverlap \in BOOLEAN
  /\ NoRoom \notin DocRooms /\ NoKey \notin Nat \ {0} /\ NoFile \notin Seq(Cell)
  /\ NoMove \notin Seq([id : CellIds, src : Writers, out : BOOLEAN])

(* _assign_position_keys, _assign_position_keys_ycells *)
Keyed(cells) == [i \in DOMAIN cells |-> [cells[i] EXCEPT !.key = i]]

(* A file as JupyterLab made it, or as Hypernote saved it *)
FileCells == [i \in DOMAIN OldCells |-> NewCell(OldCells[i], Nobody)]

(* unsaved: who has edited the room since it was last saved *)
DocRoom ==
  [status : {"unused", "starting", "open"}, loaded : BOOLEAN,
   cells : Seq(Cell), unsaved : SUBSET Writers]

CellOps == {"insert", "replace", "delete", "move", "clear"}
Ops == CellOps \cup {"read", "flush", "create"}
Place == [side : {"end", "before", "after", "both"}, at : CellIds \cup {NoCell}]
Request ==
  [pc : {"new", "untitled", "renamed", "starting", "loading", "setting", "saving", "answered"},
   op : Ops \cup {"none"}, cell : CellIds \cup {NoCell}, place : Place,
   room : DocRooms \cup {NoRoom}, cells : Seq(Cell) \cup {NoMove}, ok : BOOLEAN,
   skipped : BOOLEAN]   \* history: _save_to_disc answered None

TypeOK ==
  /\ ExtensionTypeOK
  /\ docs \in [DocRooms -> DocRoom]
  /\ served \in DocRooms \cup {NoRoom}
  /\ disk \in Seq(Cell) \cup {NoFile}
  /\ untitled \subseteq Requests
  /\ req \in [Requests -> Request]
  /\ editor \in [CellIds -> Requests \cup {Nobody}]
  /\ lab \in 0..MaxLab
  /\ token = NoToken \/ token.cells \in Seq(Cell)

AtEnd == [side |-> "end", at |-> NoCell]
NewRequest ==
  [pc |-> "new", op |-> "none", cell |-> NoCell, place |-> AtEnd,
   room |-> NoRoom, cells |-> NoMove, ok |-> FALSE, skipped |-> FALSE]

Init ==
  /\ ExtensionInit
  /\ docs = [r \in DocRooms |->
       [status |-> "unused", loaded |-> FALSE, cells |-> <<>>, unsaved |-> {}]]
  /\ served = NoRoom
  /\ disk \in {NoFile, FileCells, Keyed(FileCells)}
  /\ untitled = {}
  /\ req = [h \in Requests |-> NewRequest]
  /\ editor = [c \in CellIds |-> Nobody]
  /\ lab = 0
  /\ token = NoToken

-----------------------------------------------------------------------------
(* Documents as values *)

(* _resolve_insert_index; the anchor is there. *)
InsertIndex(cells, place) ==
  CASE place.side = "before" -> IndexIn(cells, place.at)
    [] place.side = "after"  -> IndexIn(cells, place.at) + 1
    [] OTHER                 -> Len(cells) + 1

(* The list manipulation of move_cell *)
Moved(cells, c, place) ==
  LET i == IndexIn(cells, c)
      rest == RemoveAt(cells, i)
  IN InsertAt(rest, InsertIndex(rest, place), cells[i])

(* Variant: a cell put before another takes its place. *)
InsertedOver(cells, place, h) ==
  LET at == InsertIndex(cells, place)
  IN Keyed(IF at > Len(cells) THEN Append(cells, NewCell(h, h))
           ELSE [cells EXCEPT ![at] = NewCell(h, h)])

(* What insert_cell, replace_cell_source, delete_cell and clear_outputs     *)
(* make of the cells                                                        *)
Inserted(cells, place, h) ==
  Keyed(InsertAt(cells, InsertIndex(cells, place), NewCell(h, h)))

Replaced(cells, c, h) == Keyed([cells EXCEPT ![IndexIn(cells, c)] = [@ EXCEPT !.src = h]])

(* Variant: the cells behind keep their keys. *)
DeletedKeepingKeys(cells, c) == RemoveAt(cells, IndexIn(cells, c))

Deleted(cells, c) == Keyed(RemoveAt(cells, IndexIn(cells, c)))

Cleared(cells, c) == Keyed([cells EXCEPT ![IndexIn(cells, c)] = [@ EXCEPT !.out = FALSE]])

(* The operation each handler calls *)
Edited(cells, q, h) ==
  CASE q.op = "insert"  -> Inserted(cells, q.place, h)
    [] q.op = "replace" -> Replaced(cells, q.cell, h)
    [] q.op = "delete"  -> Deleted(cells, q.cell)
    [] q.op = "clear"   -> Cleared(cells, q.cell)

(* ValueError: the cell, or the cell it is put next to, is not there. *)
NotFound(cells, q) ==
  \/ q.op \in CellOps \ {"insert"} /\ q.cell \notin Ids(cells)
  \/ q.op \in {"insert", "move"} /\ q.place.side # "end" /\ q.place.at \notin Ids(cells)
  \/ q.op = "move" /\ q.place.side # "end" /\ q.place.at = q.cell

-----------------------------------------------------------------------------
(* Rooms *)

UnusedRooms == {r \in DocRooms : docs[r].status = "unused"}
FreshRoom == CHOOSE r \in UnusedRooms : TRUE
Opening == {h \in Requests : req[h].pc = "starting"}
MayOpen == UnusedRooms # {} /\ (OpensOverlap \/ Opening = {})

(* room.initialize reads the file, the first time. *)
Content(r) == IF docs[r].loaded THEN docs[r].cells ELSE disk
Holding(r, cells, unsaved) ==
  [docs EXCEPT ![r] = [@ EXCEPT !.loaded = TRUE, !.cells = cells, !.unsaved = unsaved]]

(* get_document_room up to its first suspension, for the request q of h: a  *)
(* room that is served, or a new one that starts.                           *)
GetsRoom(h, q) ==
  \/ /\ served # NoRoom
     /\ req' = [req EXCEPT ![h] = [q EXCEPT !.pc = "loading", !.room = served]]
     /\ UNCHANGED docs
  \/ /\ served = NoRoom /\ MayOpen
     /\ req' = [req EXCEPT ![h] = [q EXCEPT !.pc = "starting", !.room = FreshRoom]]
     /\ docs' = [docs EXCEPT ![FreshRoom] = [@ EXCEPT !.status = "starting"]]

(* From start_room: add_room *)
Starts(h) ==
  /\ req[h].pc = "starting"
  /\ docs' = [docs EXCEPT ![req[h].room] = [@ EXCEPT !.status = "open"]]
  /\ served' = req[h].room
  /\ req' = [req EXCEPT ![h] = [@ EXCEPT !.pc = "loading"]]
  /\ UNCHANGED <<ext, gate, disk, untitled, editor, lab, token>>

-----------------------------------------------------------------------------
(* Handlers *)

Places == {AtEnd} \cup [side : {"before", "after"}, at : Anchors] \cup
          {[side |-> "both", at |-> NoCell]}
Call(op, c, place) == [NewRequest EXCEPT !.op = op, !.cell = c, !.place = place]
Calls(h) ==
  {Call("insert", h, p) : p \in Places}
    \cup {Call("move", c, p) : c \in Targets, p \in Places}
    \cup {Call(o, c, AtEnd) : o \in {"replace", "delete", "clear"}, c \in Targets}
    \cup {Call(o, NoCell, AtEnd) : o \in {"read", "flush"}}

Answered(q, ok) ==
  [NewRequest EXCEPT !.pc = "answered", !.op = q.op, !.room = q.room, !.ok = ok]

(* A handler that has its orchestrator; _validate_position refuses both     *)
(* before= and after=.  Clients make sure first that the notebook exists.   *)
Begins(h) ==
  /\ gate[h] = "ready" /\ req[h].pc = "new" /\ disk # NoFile
  /\ \E q \in Calls(h) :
       IF q.place.side = "both"
       THEN req' = [req EXCEPT ![h] = Answered(q, FALSE)] /\ UNCHANGED docs
       ELSE GetsRoom(h, q)
  /\ UNCHANGED <<ext, gate, served, disk, untitled, editor, lab, token>>

Refused(h) ==
  /\ gate[h] = "refused" /\ req[h].pc = "new"
  /\ req' = [req EXCEPT ![h] = Answered(@, FALSE)]
  /\ UNCHANGED <<ext, gate, docs, served, disk, untitled, editor, lab, token>>

(* create_notebook: new_untitled, *)
CallsCreate(h) ==
  /\ gate[h] = "ready" /\ req[h].pc = "new"
  /\ req' = [req EXCEPT ![h] = [@ EXCEPT !.op = "create", !.pc = "untitled"]]
  /\ untitled' = untitled \cup {h}
  /\ UNCHANGED <<ext, gate, docs, served, disk, editor, lab, token>>

(* rename_file, which fails if the path exists, *)
Renames(h) ==
  /\ req[h].pc = "untitled"
  /\ IF disk = NoFile
     THEN /\ disk' = <<>> /\ untitled' = untitled \ {h}
          /\ req' = [req EXCEPT ![h] = [@ EXCEPT !.pc = "renamed"]]
     ELSE /\ req' = [req EXCEPT ![h] = Answered(@, FALSE)]
          /\ UNCHANGED <<disk, untitled>>
  /\ UNCHANGED <<ext, gate, docs, served, editor, lab, token>>

(* save, whose model has no cells, and get_document_room *)
Stores(h) ==
  /\ req[h].pc = "renamed"
  /\ disk' = <<>>
  /\ GetsRoom(h, req[h])
  /\ UNCHANGED <<ext, gate, served, untitled, editor, lab, token>>

(* Variant: clear_outputs does not save. *)
EditsUnsaved(h) ==
  LET r == req[h].room
      cells == Content(r)
  IN /\ req[h].pc = "loading" /\ req[h].op \in CellOps \ {"move"}
     /\ ~NotFound(cells, req[h])
     /\ docs' = Holding(r, Edited(cells, req[h], h), docs[r].unsaved \cup {h})
     /\ IF req[h].op = "clear"
        THEN req' = [req EXCEPT ![h] = Answered(@, TRUE)]
        ELSE req' = [req EXCEPT ![h] = [@ EXCEPT !.pc = "saving"]]
     /\ UNCHANGED <<ext, gate, served, disk, untitled, editor, lab, token>>

(* From room.initialize to _save_room *)
Edits(h) ==
  LET r == req[h].room
      cells == Content(r)
  IN /\ req[h].pc = "loading" /\ req[h].op \in CellOps \ {"move"}
     /\ ~NotFound(cells, req[h])
     /\ docs' = Holding(r, Edited(cells, req[h], h), docs[r].unsaved \cup {h})
     /\ req' = [req EXCEPT ![h] = [@ EXCEPT !.pc = "saving"]]
     /\ UNCHANGED <<ext, gate, served, disk, untitled, editor, lab, token>>

(* move_cell up to aset: the document with the cell moved is a list of its  *)
(* own from here on.                                                        *)
PlansMove(h) ==
  LET r == req[h].room
      cells == Content(r)
  IN /\ req[h].pc = "loading" /\ req[h].op = "move"
     /\ ~NotFound(cells, req[h])
     /\ docs' = Holding(r, cells, docs[r].unsaved)
     /\ req' = [req EXCEPT ![h] = [@ EXCEPT !.pc = "setting",
                                            !.cells = Keyed(Moved(cells, req[h].cell, req[h].place))]]
     /\ UNCHANGED <<ext, gate, served, disk, untitled, editor, lab, token>>

(* aset has written the list. *)
Sets(h) ==
  LET r == req[h].room
  IN /\ req[h].pc = "setting"
     /\ docs' = Holding(r, req[h].cells, docs[r].unsaved \cup {h})
     /\ req' = [req EXCEPT ![h] = [@ EXCEPT !.pc = "saving", !.cells = NoMove]]
     /\ UNCHANGED <<ext, gate, served, disk, untitled, editor, lab, token>>

(* The cell or the anchor is not found: 400 or 404. *)
Misses(h) ==
  LET r == req[h].room
      cells == Content(r)
  IN /\ req[h].pc = "loading"
     /\ NotFound(cells, req[h])
     /\ docs' = Holding(r, cells, docs[r].unsaved)
     /\ req' = [req EXCEPT ![h] = Answered(@, FALSE)]
     /\ UNCHANGED <<ext, gate, served, disk, untitled, editor, lab, token>>

(* get_notebook_model, of which a client takes a snapshot *)
Reads(h) ==
  LET r == req[h].room
      cells == Content(r)
  IN /\ req[h].pc = "loading" /\ req[h].op = "read"
     /\ docs' = Holding(r, cells, docs[r].unsaved)
     /\ token' = [snap |-> Snapshot(cells), cells |-> cells]
     /\ req' = [req EXCEPT ![h] = Answered(@, TRUE)]
     /\ UNCHANGED <<ext, gate, served, disk, untitled, editor, lab>>

(* flush_document, and create_notebook once it has its room *)
Flushes(h) ==
  LET r == req[h].room
  IN /\ req[h].pc = "loading" /\ req[h].op \in {"flush", "create"}
     /\ docs' = Holding(r, Content(r), docs[r].unsaved)
     /\ req' = [req EXCEPT ![h] = [@ EXCEPT !.pc = "saving"]]
     /\ UNCHANGED <<ext, gate, served, disk, untitled, editor, lab, token>>

(* Variant: the cell and its editor change places. *)
WithEditorSwapped(c, h) == [editor EXCEPT ![h] = c]

(* update_cell_attribution with an editor *)
WithEditor(c, h) == [editor EXCEPT ![c] = h]

(* get_cell, from the room that is served by now *)
FoundAgain(q) == q.op \notin CellOps \ {"delete"} \/ q.cell \in Ids(Content(served))

(* The handler answers 400 if the cell it has edited is gone; otherwise it  *)
(* is attributed.                                                           *)
AfterSave(h, skipped) ==
  LET found == FoundAgain(req[h])
  IN /\ req' = [req EXCEPT ![h] = [Answered(req[h], found) EXCEPT !.skipped = skipped]]
     /\ editor' = IF found /\ req[h].op \in CellOps \ {"delete"}
                  THEN WithEditor(req[h].cell, h) ELSE editor

(* From the await of _save_room *)
Saves(h) ==
  LET r == req[h].room
  IN /\ req[h].pc = "saving"
     /\ disk' = docs[r].cells
     /\ docs' = [docs EXCEPT ![r] = [@ EXCEPT !.unsaved = {}]]
     /\ AfterSave(h, FALSE)
     /\ UNCHANGED <<ext, gate, served, untitled, lab, token>>

(* _save_to_disc answers None: there is nothing to await, and the edit goes *)
(* to disk with a later save of the room, if there is one.                  *)
SkipsSave(h) ==
  /\ req[h].pc = "saving"
  /\ AfterSave(h, TRUE)
  /\ UNCHANGED <<ext, gate, docs, served, disk, untitled, lab, token>>

(* _save_room raises, or its task is cancelled by a newer save. *)
SaveFails(h) ==
  /\ req[h].pc = "saving"
  /\ req' = [req EXCEPT ![h] = Answered(@, FALSE)]
  /\ UNCHANGED <<ext, gate, docs, served, disk, untitled, editor, lab, token>>

-----------------------------------------------------------------------------
(* JupyterLab and the kernel's outputs *)

LabOpens ==
  /\ served = NoRoom /\ disk # NoFile /\ MayOpen
  /\ served' = FreshRoom
  /\ docs' = [docs EXCEPT ![FreshRoom] =
       [@ EXCEPT !.status = "open", !.loaded = TRUE, !.cells = disk]]
  /\ UNCHANGED <<ext, gate, disk, untitled, req, editor, lab, token>>

Showing == served # NoRoom /\ docs[served].loaded

(* Lab's edits leave the position keys alone. *)
LabEdited(cells) ==
  {InsertAt(cells, i, NewCell(Lab, Lab)) : i \in IF Lab \in Ids(cells) THEN {} ELSE 1..Len(cells) + 1}
    \cup {[cells EXCEPT ![i] = [@ EXCEPT !.src = Lab]] : i \in DOMAIN cells}
    \cup {RemoveAt(cells, i) : i \in DOMAIN cells}
    \cup {InsertAt(RemoveAt(cells, i), j, cells[i]) : i \in DOMAIN cells, j \in DOMAIN cells}

LabEdits ==
  /\ Showing /\ lab < MaxLab
  /\ \E s \in LabEdited(docs[served].cells) :
       docs' = Holding(served, s, docs[served].unsaved \cup {Lab})
  /\ lab' = lab + 1
  /\ UNCHANGED <<ext, gate, served, disk, untitled, req, editor, token>>

(* The execution stack writes a cell's outputs into the served document. *)
OutputArrives ==
  /\ Showing
  /\ \E i \in DOMAIN docs[served].cells :
       /\ docs[served].cells[i].id \in Targets /\ ~docs[served].cells[i].out
       /\ docs' = Holding(served, [docs[served].cells EXCEPT ![i] = [@ EXCEPT !.out = TRUE]],
                          docs[served].unsaved)
  /\ UNCHANGED <<ext, gate, served, disk, untitled, req, editor, lab, token>>

-----------------------------------------------------------------------------
Enters(h) == GateStep(h) /\ UNCHANGED documentVars

Continues(h) ==
  \/ Begins(h) \/ CallsCreate(h) \/ Renames(h) \/ Stores(h) \/ Starts(h) \/ Edits(h) \/ PlansMove(h) \/ Sets(h)
  \/ Misses(h) \/ Reads(h) \/ Flushes(h) \/ Saves(h) \/ SkipsSave(h) \/ SaveFails(h)
  \/ Refused(h)

Next ==
  \/ \E h \in Requests : Enters(h) \/ Continues(h)
  \/ LabOpens \/ LabEdits \/ OutputArrives

Spec == Init /\ [][Next]_vars

(* Files, rooms and the ledger answer every call, and the event loop runs   *)
(* every coroutine that can go on.                                          *)
Fairness ==
  \A h \in Requests :
    WF_vars(GateContinues(h) /\ UNCHANGED documentVars) /\ WF_vars(Continues(h))

FairSpec == Spec /\ Fairness

-----------------------------------------------------------------------------
(* One logical document: at most one room is ever opened for the notebook,  *)
(* and every handler works on the one the server has.                       *)
OneDocument ==
  /\ \A r \in DocRooms : docs[r].status = "open" => r = served
  /\ \A h \in Requests :
       req[h].pc \in {"loading", "setting", "saving"} => req[h].room = served

(* An edit that was answered with success is on disk, or its own            *)
(* _save_to_disc answered None and no handler has saved the room since:     *)
(* _save_room awaits every save there is, and none that was overtaken hides *)
(* a later edit.                                                            *)
SavedBeforeAnswered ==
  \A h \in Requests :
    req[h].pc = "answered" /\ req[h].ok /\ req[h].op \in CellOps
      => h \notin docs[req[h].room].unsaved \/ req[h].skipped

(* A diff says exactly what was added, deleted, edited and run since its    *)
(* snapshot, through concurrent edits and stale moves; and what moved, as   *)
(* long as the position keys are Hypernote's own, JupyterLab having edited  *)
(* nothing.                                                                 *)
DiffIsExact ==
  token # NoToken =>
    LET said == Diff(token.snap, docs[served].cells)
        true == Changed(token.cells, docs[served].cells)
    IN /\ DOMAIN said = DOMAIN true
       /\ \A c \in DOMAIN true : said[c] \ {"moved"} = true[c] \ {"moved"}
       /\ lab = 0 => said = true

(* SharedNotebook is implemented by the document that is served: every step *)
(* of every handler is one whole edit, whatever it overlaps.                *)
Plain(cells) == [i \in DOMAIN cells |-> [id |-> cells[i].id, src |-> cells[i].src, out |-> cells[i].out]]
Visible == IF served # NoRoom THEN Content(served) ELSE disk
Shared == INSTANCE SharedNotebook WITH
  Start <- {<<>>, Plain(FileCells)},
  cells <- IF Visible = NoFile THEN <<>> ELSE Plain(Visible),
  moves <- [w \in Writers |->
              IF w \in Requests /\ req[w].pc = "setting" THEN Plain(req[w].cells) ELSE NoMove]
ImplementsSharedNotebook == Shared!Spec

(* Every request that arrives is answered, whatever fails on its way.       *)
EveryRequestAnswered ==
  \A h \in Requests : gate[h] # "away" ~> req[h].pc = "answered"

=============================================================================
