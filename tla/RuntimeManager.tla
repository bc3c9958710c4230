--------------------------- MODULE RuntimeManager ---------------------------
(***************************************************************************)
(* The registry of notebook runtimes, src/hypernote/runtime_manager.py.    *)
(*                                                                         *)
(* RuntimeManager runs on one asyncio event loop.  A coroutine keeps the   *)
(* loop until it awaits something that suspends, so an action below is the *)
(* code between two suspension points: the calls to Jupyter's session      *)
(* manager (get_session, create_session, delete_session), which is outside *)
(* src/ and is modelled by what this code may observe of it.  An actor is  *)
(* a coroutine: a request handler, or the garbage collector's loop.        *)
(*                                                                         *)
(* Abstractions.  A kernel is identified with the session that owns it,    *)
(* because a room's session_id and kernel_id are set together and once.    *)
(* Time is the flag "idle": the room was untouched for longer than         *)
(* idle_ttl_seconds.  The loops of gc_sweep and shutdown visit their rooms *)
(* in any order.  RoomIds and SessionIds bound how many rooms and sessions *)
(* a behaviour creates; no id is used twice.                               *)
(***************************************************************************)
EXTENDS FiniteSets, Naturals

CONSTANTS
  Notebooks,      \* notebook paths
  RoomIds,        \* ids NotebookRoom objects can get
  SessionIds,     \* ids Jupyter sessions (and their kernels) can get
  Clients,        \* client ids passed to open_runtime
  Jobs,           \* execution job ids
  KernelNames,    \* kernelspec names
  DefaultKernel,  \* "python3"
  Tasks,          \* request handlers that can be in flight at once
  Gc,             \* the task of start_gc_loop
  MaxInFlight,    \* at most this many actors are between call and return
  LabActs,        \* whether JupyterLab starts sessions of its own
  NoRoom, NoSession, NoKernel, NoClient, NoNotebook

Actors == Tasks \cup {Gc}

ASSUME ActorsAssumption == Gc \notin Tasks
ASSUME KernelAssumption == DefaultKernel \in KernelNames /\ NoKernel \notin KernelNames
ASSUME NullAssumption ==
  /\ NoRoom \notin RoomIds /\ NoSession \notin SessionIds
  /\ NoClient \notin Clients /\ NoNotebook \notin Notebooks
ASSUME BoundAssumption == MaxInFlight \in Nat /\ LabActs \in BOOLEAN

VARIABLES
  rooms,      \* every NotebookRoom object, in the registry or not
  registry,   \* keys of _rooms
  nbRoom,     \* _notebook_to_room
  sessions,   \* Jupyter's sessions and whether their kernel is up
  records,    \* the ledger's execute jobs: the runtime_id of each, or NoRoom
  act,        \* the actors
  removed,    \* history: how stop_runtime took a room out of the registry
  closing     \* stop_extension has been called

vars == <<rooms, registry, nbRoom, sessions, records, act, removed, closing>>

RuntimeState ==
  {"starting", "live-attached", "live-detached", "awaiting-input",
   "stopping", "stopped", "failed"}

LiveStates == {"live-attached", "live-detached", "awaiting-input"}

Room ==
  [nb      : Notebooks \cup {NoNotebook},
   session : SessionIds \cup {NoSession},
   kernel  : KernelNames \cup {NoKernel},
   state   : RuntimeState \cup {"absent"},
   clients : SUBSET Clients,
   jobs    : SUBSET Jobs,
   idle    : BOOLEAN]

Session ==
  [nb     : Notebooks \cup {NoNotebook},
   kernel : KernelNames \cup {NoKernel},
   status : {"unused", "up", "down"},
   by     : {"hypernote", "lab"}]

(* pc: where the coroutine is suspended.  In "returned" (ensure_room has    *)
(* returned and its caller goes on) and "sweep" (between two rooms of a     *)
(* loop) it is not suspended: it holds the event loop.                      *)
Actor ==
  [pc     : {"idle", "looking", "creating", "returned", "deleting", "sweep",
             "joining", "unwinding", "ended"},
   op     : {"none", "ensure", "status", "stop", "gc", "shutdown"},
   nb     : Notebooks \cup {NoNotebook},
   kernel : KernelNames \cup {NoKernel},
   client : Clients \cup {NoClient},
   room   : RoomIds \cup {NoRoom},
   todo   : SUBSET RoomIds]

TypeOK ==
  /\ rooms \in [RoomIds -> Room]
  /\ registry \subseteq RoomIds
  /\ nbRoom \in [Notebooks -> RoomIds \cup {NoRoom}]
  /\ sessions \in [SessionIds -> Session]
  /\ records \in [Jobs -> RoomIds \cup {NoRoom}]
  /\ act \in [Actors -> Actor]
  /\ removed \in [RoomIds -> {"no", "clean", "failed", "early", "cancelled"}]
  /\ closing \in BOOLEAN

AbsentRoom ==
  [nb |-> NoNotebook, session |-> NoSession, kernel |-> NoKernel,
   state |-> "absent", clients |-> {}, jobs |-> {}, idle |-> FALSE]

UnusedSession ==
  [nb |-> NoNotebook, kernel |-> NoKernel, status |-> "unused", by |-> "lab"]

IdleActor ==
  [pc |-> "idle", op |-> "none", nb |-> NoNotebook, kernel |-> NoKernel,
   client |-> NoClient, room |-> NoRoom, todo |-> {}]

Init ==
  /\ rooms = [r \in RoomIds |-> AbsentRoom]
  /\ registry = {}
  /\ nbRoom = [n \in Notebooks |-> NoRoom]
  /\ sessions = [s \in SessionIds |-> UnusedSession]
  /\ records = [j \in Jobs |-> NoRoom]
  /\ act = [a \in Actors |-> IdleActor]
  /\ removed = [r \in RoomIds |-> "no"]
  /\ closing = FALSE

-----------------------------------------------------------------------------
(* Helpers *)

IsLive(r) == rooms[r].state \in LiveStates

(* room.kernel_id and room.kernel_id in self._kernel_manager *)
KernelUp(r) == rooms[r].session # NoSession /\ sessions[rooms[r].session].status = "up"

(* get_room_for_notebook *)
Current(n) == IF nbRoom[n] \in registry THEN nbRoom[n] ELSE NoRoom

SessionsUp(n) == {s \in SessionIds : sessions[s].status = "up" /\ sessions[s].nb = n}

(* Variant: a stopped room object is recycled. *)
FreshRoomsRecycling == {r \in RoomIds : rooms[r].state \in {"absent", "stopped"}}

FreshRooms == {r \in RoomIds : rooms[r].state = "absent"}
FreshSessions == {s \in SessionIds : sessions[s].status = "unused"}

(* uuid4 and the session manager never give an id twice; which fresh one    *)
(* they give makes no difference.                                           *)
NextRoom == CHOOSE r \in RoomIds : r \in FreshRooms
NextSession == CHOOSE s \in SessionIds : s \in FreshSessions

(* No coroutine is running: another one may be resumed. *)
LoopFree == \A a \in Actors : act[a].pc \notin {"returned", "sweep"}

InFlight == {a \in Actors : act[a].pc \notin {"idle", "ended"}}

(* A handler starts.  The id bounds leave a room and a session to every     *)
(* lookup already suspended, so a bound never stops a call half way.        *)
CanCall(t) ==
  /\ LoopFree /\ ~closing
  /\ act[t].pc = "idle"
  /\ Cardinality(InFlight) < MaxInFlight

IdsLeft(fresh, waiting) ==
  Cardinality(fresh) > Cardinality({a \in Actors : act[a].pc \in waiting})

CanOpen(t) ==
  /\ CanCall(t)
  /\ IdsLeft(FreshRooms, {"looking"})
  /\ IdsLeft(FreshSessions, {"looking", "creating"})

(* Variant: a registered room is trusted without looking for its kernel. *)
UnrefreshedRoom(r) == rooms[r]

(* A room whose kernel has gone *)
Lost(room) == [room EXCEPT !.state = "stopped"]

(* _load_or_refresh_room when the notebook has a room: a room whose kernel  *)
(* is not in the kernel manager becomes STOPPED, also while it is STARTING. *)
Refreshed(r) ==
  IF KernelUp(r) \/ rooms[r].state \in {"stopped", "failed"}
  THEN rooms[r]
  ELSE Lost(rooms[r])

(* self._rooms[room.room_id] = room; self._notebook_to_room[...] = room.room_id *)
Register(r, room) ==
  /\ rooms' = [rooms EXCEPT ![r] = room]
  /\ registry' = registry \cup {r}
  /\ nbRoom' = [nbRoom EXCEPT ![room.nb] = r]

(* A call that begins; an actor about to wait, or to go on, with a room; a  *)
(* loop over rooms.                                                         *)
Call(op, n, k, c) ==
  [IdleActor EXCEPT !.op = op, !.nb = n, !.kernel = k, !.client = c]
At(actor, pc, r) == [actor EXCEPT !.pc = pc, !.room = r]
Visiting(actor, todo) == [actor EXCEPT !.pc = "sweep", !.todo = todo]
Plain(op, n) == Call(op, n, NoKernel, NoClient)
Ended == At(IdleActor, "ended", NoRoom)

(* A room written to *)
InState(room, state) == [room EXCEPT !.state = state, !.idle = FALSE]

Resume(t, pc, r) == act' = [act EXCEPT ![t] = At(act[t], pc, r)]
Finish(t) == act' = [act EXCEPT ![t] = IdleActor]

NewSession(n, k, by) == [nb |-> n, kernel |-> k, status |-> "up", by |-> by]
Down(session) == [session EXCEPT !.status = "down"]
WithSessionDown(s) == [sessions EXCEPT ![s] = Down(@)]

(* The kernel_name check of ensure_room *)
Mismatch(k, room) == k # NoKernel /\ room.kernel # k

-----------------------------------------------------------------------------
(* ensure_room, open_runtime and get_runtime_status *)

(* Variant: the room counts as live while its session is still starting. *)
NewRoomAlreadyLive(n) == [AbsentRoom EXCEPT !.nb = n, !.state = "live-detached"]

NewRoom(n) == [AbsentRoom EXCEPT !.nb = n, !.state = "starting"]

(* No live room: register a new one and await create_session. *)
CreateRoom(t, n) ==
  /\ FreshRooms # {}
  /\ Register(NextRoom, NewRoom(n))
  /\ Resume(t, "creating", NextRoom)

(* Called with no client it is ensure_room, with one it is open_runtime.    *)
EnsureCall(t, n, k, c) ==
  LET start == Call("ensure", n, k, c)
      r == Current(n)
      q == NextRoom
  IN
  /\ CanOpen(t)
  /\ \/ /\ r = NoRoom
        /\ act' = [act EXCEPT ![t] = At(start, "looking", NoRoom)]
        /\ UNCHANGED <<rooms, registry, nbRoom>>
     \/ /\ r # NoRoom
        /\ Refreshed(r).state \in LiveStates
        /\ ~Mismatch(k, rooms[r])
        /\ rooms' = [rooms EXCEPT ![r] = InState(@, @.state)]
        /\ act' = [act EXCEPT ![t] = At(start, "returned", r)]
        /\ UNCHANGED <<registry, nbRoom>>
     \/ /\ r # NoRoom
        /\ Refreshed(r).state \notin LiveStates
        /\ FreshRooms # {}
        /\ rooms' = [rooms EXCEPT ![r] = Refreshed(r), ![q] = NewRoom(n)]
        /\ registry' = registry \cup {q}
        /\ nbRoom' = [nbRoom EXCEPT ![n] = q]
        /\ act' = [act EXCEPT ![t] = At(start, "creating", q)]
  /\ UNCHANGED <<sessions, records, removed, closing>>

StatusCall(t, n) ==
  LET r == Current(n) IN
  /\ CanOpen(t)
  /\ \/ /\ r = NoRoom
        /\ act' = [act EXCEPT ![t] =
             At(Plain("status", n), "looking", NoRoom)]
        /\ UNCHANGED rooms
     \/ /\ r # NoRoom
        /\ rooms' = [rooms EXCEPT ![r] = Refreshed(r)]
        /\ UNCHANGED act
  /\ UNCHANGED <<registry, nbRoom, sessions, records, removed, closing>>

(* get_session answers with a session of the path: the room adopts it. *)
AdoptedRoom(n, s) ==
  [AbsentRoom EXCEPT !.nb = n, !.session = s, !.kernel = sessions[s].kernel,
                     !.state = "live-detached"]

LookupFinds(t) ==
  /\ LoopFree
  /\ act[t].pc = "looking"
  /\ FreshRooms # {}
  /\ \E s \in SessionsUp(act[t].nb) :
       LET room == AdoptedRoom(act[t].nb, s) IN
       /\ Register(NextRoom, room)
       /\ IF act[t].op = "status" \/ Mismatch(act[t].kernel, room)
          THEN Finish(t)
          ELSE Resume(t, "returned", NextRoom)
  /\ UNCHANGED <<sessions, records, removed, closing>>

(* Variant: whatever get_session answered, a new session is started. *)
LookupIgnored(t) ==
  /\ LoopFree
  /\ act[t].pc = "looking"
  /\ IF act[t].op = "status"
     THEN Finish(t) /\ UNCHANGED <<rooms, registry, nbRoom>>
     ELSE CreateRoom(t, act[t].nb)
  /\ UNCHANGED <<sessions, records, removed, closing>>

(* get_session raises HTTPError 404.  The registry is not read again. *)
LookupMisses(t) ==
  /\ LoopFree
  /\ act[t].pc = "looking"
  /\ SessionsUp(act[t].nb) = {}
  /\ IF act[t].op = "status"
     THEN Finish(t) /\ UNCHANGED <<rooms, registry, nbRoom>>
     ELSE CreateRoom(t, act[t].nb)
  /\ UNCHANGED <<sessions, records, removed, closing>>

WithSession(room, s, k) ==
  [room EXCEPT !.session = s, !.kernel = k, !.state = "live-detached", !.idle = FALSE]

(* create_session returns: the room object is filled in and becomes live,   *)
(* whatever happened to it meanwhile.                                       *)
CreateReturns(t) ==
  LET r == act[t].room
      s == NextSession
      k == IF act[t].kernel = NoKernel THEN DefaultKernel ELSE act[t].kernel
  IN
  /\ LoopFree
  /\ act[t].pc = "creating"
  /\ FreshSessions # {}
  /\ sessions' = [sessions EXCEPT ![s] =
       NewSession(act[t].nb, k, "hypernote")]
  /\ rooms' = [rooms EXCEPT ![r] = WithSession(@, s, k)]
  /\ Resume(t, "returned", r)
  /\ UNCHANGED <<registry, nbRoom, records, removed, closing>>

CreateFails(t) ==
  /\ LoopFree
  /\ act[t].pc = "creating"
  /\ rooms' = [rooms EXCEPT ![act[t].room] = InState(@, "failed")]
  /\ Finish(t)
  /\ UNCHANGED <<registry, nbRoom, sessions, records, removed, closing>>

Attached(room, c) ==
  [room EXCEPT !.clients = @ \cup {c}, !.state = "live-attached", !.idle = FALSE]

(* open_runtime attaches its client to the room ensure_room returned. *)
OpenReturns(t) ==
  /\ act[t].pc = "returned"
  /\ IF act[t].client = NoClient
     THEN UNCHANGED rooms
     ELSE rooms' = [rooms EXCEPT ![act[t].room] = Attached(@, act[t].client)]
  /\ Finish(t)
  /\ UNCHANGED <<registry, nbRoom, sessions, records, removed, closing>>

WithJobs(room, jobs) == [room EXCEPT !.jobs = jobs, !.idle = FALSE]

(* queue_execution creates the job's record with the room ensure_room       *)
(* returned, and marks it on the notebook's current room.                   *)
QueueReturns(t, j) ==
  LET cur == Current(act[t].nb) IN
  /\ act[t].pc = "returned"
  /\ act[t].client = NoClient /\ act[t].kernel # NoKernel
  /\ records[j] = NoRoom /\ \A r \in RoomIds : j \notin rooms[r].jobs
  /\ records' = [records EXCEPT ![j] = act[t].room]
  /\ rooms' = IF cur = NoRoom THEN rooms
              ELSE [rooms EXCEPT ![cur] = WithJobs(@, @.jobs \cup {j})]
  /\ Finish(t)
  /\ UNCHANGED <<registry, nbRoom, sessions, removed, closing>>

-----------------------------------------------------------------------------
(* Calls on a room that never suspend.  The execution path makes them with  *)
(* a room ensure_room gave it earlier, so they find the room in any state.  *)

AttachClient(r, c) ==
  /\ LoopFree
  /\ r \in registry /\ IsLive(r)
  /\ rooms' = [rooms EXCEPT ![r] = Attached(@, c)]
  /\ UNCHANGED <<registry, nbRoom, sessions, records, act, removed, closing>>

Detached(room, c) ==
  [room EXCEPT
     !.clients = @ \ {c},
     !.state = IF room.clients \ {c} = {} /\ @ = "live-attached"
               THEN "live-detached" ELSE @,
     !.idle = FALSE]

DetachClient(r, c) ==
  /\ LoopFree
  /\ r \in registry
  /\ rooms' = [rooms EXCEPT ![r] = Detached(@, c)]
  /\ UNCHANGED <<registry, nbRoom, sessions, records, act, removed, closing>>

(* set_runtime_state, as the three places of the execution path call it:    *)
(* a request waits for input; send_stdin resumes it; the job ends.          *)
InputStates(r) ==
  {"awaiting-input"}
  \cup {IF rooms[r].clients = {} THEN "live-detached" ELSE "live-attached"}
  \cup (IF rooms[r].state = "awaiting-input" THEN {"live-detached"} ELSE {})

(* Variant: the job's status is written where the runtime's belongs. *)
SetJobStatusAsState(r, state) ==
  /\ LoopFree
  /\ r \in registry /\ rooms[r].session # NoSession
  /\ rooms' = [rooms EXCEPT ![r] = InState(@, "awaiting_input")]
  /\ UNCHANGED <<registry, nbRoom, sessions, records, act, removed, closing>>

SetRuntimeState(r, state) ==
  /\ LoopFree
  /\ r \in registry /\ rooms[r].session # NoSession
  /\ state \in InputStates(r)
  /\ rooms' = [rooms EXCEPT ![r] = InState(@, state)]
  /\ UNCHANGED <<registry, nbRoom, sessions, records, act, removed, closing>>

(* touch_activity, and what interrupt_runtime leaves of its room *)
TouchActivity(r) ==
  /\ LoopFree
  /\ r \in registry
  /\ rooms' = [rooms EXCEPT ![r] = InState(@, @.state)]
  /\ UNCHANGED <<registry, nbRoom, sessions, records, act, removed, closing>>

(* mark_job_finished: on the room the notebook has now, whichever it is *)
MarkJobFinished(n, j) ==
  /\ LoopFree
  /\ Current(n) # NoRoom
  /\ \E r \in RoomIds : rooms[r].nb = n /\ j \in rooms[r].jobs
  /\ rooms' = [rooms EXCEPT ![Current(n)] = WithJobs(@, @.jobs \ {j})]
  /\ UNCHANGED <<registry, nbRoom, sessions, records, act, removed, closing>>

-----------------------------------------------------------------------------
(* stop_runtime *)

EvictedRecords(r) ==
  [j \in Jobs |->
     IF records[j] # NoRoom /\ rooms[records[j]].nb = rooms[r].nb THEN NoRoom
     ELSE records[j]]

Stopped(room) ==
  [room EXCEPT !.state = "stopped", !.clients = {}, !.jobs = {}, !.idle = FALSE]

StoppedRooms(r) == [rooms EXCEPT ![r] = Stopped(@)]

(* Variant: the notebook map keeps the stopped room. *)
RemoveRoomKeepingMap(r, how, notify) ==
  /\ rooms' = StoppedRooms(r)
  /\ registry' = registry \ {r}
  /\ removed' = [removed EXCEPT ![r] = how]
  /\ records' = IF notify THEN EvictedRecords(r) ELSE records
  /\ UNCHANGED nbRoom

(* Variant: the registry drops the room the notebook has now. *)
RemoveCurrentRoom(r, how, notify) ==
  /\ rooms' = StoppedRooms(r)
  /\ registry' = registry \ {Current(rooms[r].nb)}
  /\ nbRoom' = [nbRoom EXCEPT ![rooms[r].nb] = NoRoom]
  /\ removed' = [removed EXCEPT ![r] = how]
  /\ records' = IF notify THEN EvictedRecords(r) ELSE records

(* Its finally block; with notify, also _notify_notebook_stopped, which     *)
(* evicts every record of the notebook.  Nothing in it suspends.            *)
RemoveRoom(r, how, notify) ==
  /\ rooms' = StoppedRooms(r)
  /\ registry' = registry \ {r}
  /\ nbRoom' = [nbRoom EXCEPT ![rooms[r].nb] = NoRoom]
  /\ removed' = [removed EXCEPT ![r] = how]
  /\ records' = IF notify THEN EvictedRecords(r) ELSE records

Stoppable(r) == r \in registry /\ rooms[r].state \notin {"stopped", "stopping"}

(* Up to the await of delete_session; a room without a session has nothing  *)
(* to await and is removed at once, its create_session perhaps still out.   *)
BeginStop(t, actor, r) ==
  IF rooms[r].session # NoSession
  THEN /\ rooms' = [rooms EXCEPT ![r] = InState(@, "stopping")]
       /\ act' = [act EXCEPT ![t] = At(actor, "deleting", r)]
       /\ UNCHANGED <<registry, nbRoom, records, removed>>
  ELSE /\ RemoveRoom(r, "early", TRUE)
       /\ act' = [act EXCEPT ![t] = IF actor.op = "stop" THEN IdleActor ELSE actor]

(* RuntimeStopHandler: 404 without a room, and stop_runtime returns at once *)
(* from a room already stopped or stopping.                                 *)
StopCall(t, n) ==
  /\ CanCall(t)
  /\ Current(n) # NoRoom
  /\ Stoppable(Current(n))
  /\ BeginStop(t, Plain("stop", n), Current(n))
  /\ UNCHANGED <<sessions, closing>>

AfterStop(t) ==
  IF act[t].op = "stop" THEN IdleActor
  ELSE At(act[t], "sweep", NoRoom)

(* delete_session shut the kernel down. *)
DeleteReturns(t) ==
  LET r == act[t].room IN
  /\ LoopFree
  /\ act[t].pc = "deleting"
  /\ sessions[rooms[r].session].status = "up"
  /\ sessions' = WithSessionDown(rooms[r].session)
  /\ RemoveRoom(r, "clean", TRUE)
  /\ act' = [act EXCEPT ![t] = AfterStop(t)]
  /\ UNCHANGED closing

(* Variant: a failed delete skips the eviction. *)
DeleteFailsUnnotified(t) ==
  /\ LoopFree
  /\ act[t].pc = "deleting"
  /\ RemoveRoom(act[t].room, "failed", FALSE)
  /\ act' = [act EXCEPT ![t] = AfterStop(t)]
  /\ UNCHANGED <<sessions, closing>>

(* Variant: there is no finally; a failed delete leaves the room stopping. *)
DeleteFailsHalfway(t) ==
  /\ LoopFree
  /\ act[t].pc = "deleting"
  /\ act' = [act EXCEPT ![t] = AfterStop(t)]
  /\ UNCHANGED <<rooms, registry, nbRoom, sessions, records, removed, closing>>

(* delete_session raised: logged, and the room is removed all the same. *)
DeleteFails(t) ==
  LET r == act[t].room IN
  /\ LoopFree
  /\ act[t].pc = "deleting"
  /\ RemoveRoom(r, "failed", TRUE)
  /\ act' = [act EXCEPT ![t] = AfterStop(t)]
  /\ UNCHANGED <<sessions, closing>>

-----------------------------------------------------------------------------
(* gc_sweep and shutdown *)

(* The loop of start_gc_loop wakes and picks its rooms before it awaits.    *)
GcCandidates == {r \in registry : rooms[r].state = "live-detached" /\ rooms[r].idle}

GcWakes ==
  /\ LoopFree /\ ~closing
  /\ act[Gc].pc = "idle"
  /\ Cardinality(InFlight) < MaxInFlight
  /\ GcCandidates # {}
  /\ act' = [act EXCEPT ![Gc] =
       Visiting(Plain("gc", NoNotebook), GcCandidates)]
  /\ UNCHANGED <<rooms, registry, nbRoom, sessions, records, removed, closing>>

(* The next room of the loop: stop_runtime returns at once from one that is *)
(* stopping, and its ValueError for one that is gone is logged.             *)
SweepNext(t) ==
  /\ act[t].pc = "sweep"
  /\ \E r \in act[t].todo :
       LET left == Visiting(act[t], act[t].todo \ {r}) IN
       IF Stoppable(r)
       THEN BeginStop(t, left, r)
       ELSE /\ act' = [act EXCEPT ![t] = left]
            /\ UNCHANGED <<rooms, registry, nbRoom, records, removed>>
  /\ UNCHANGED <<sessions, closing>>

(* Variant: the GC loop ends with its first sweep. *)
SweepEndsLoop(t) ==
  /\ act[t].pc = "sweep"
  /\ act[t].todo = {}
  /\ act' = [act EXCEPT ![t] = Ended]
  /\ UNCHANGED <<rooms, registry, nbRoom, sessions, records, removed, closing>>

SweepEnds(t) ==
  /\ act[t].pc = "sweep"
  /\ act[t].todo = {}
  /\ act' = [act EXCEPT ![t] = IF act[t].op = "gc" THEN IdleActor
                               ELSE Ended]
  /\ UNCHANGED <<rooms, registry, nbRoom, sessions, records, removed, closing>>

Unwinding(actor) == [actor EXCEPT !.pc = "unwinding"]

(* stop_extension: cancel the GC task and wait for it *)
ShutdownCall(t) ==
  /\ CanCall(t)
  /\ closing' = TRUE
  /\ act' = [act EXCEPT ![t] = At(Plain("shutdown", NoNotebook), "joining", NoRoom),
                        ![Gc] = Unwinding(@)]
  /\ UNCHANGED <<rooms, registry, nbRoom, sessions, records, removed>>

(* Variant: the loop swallows the cancellation and sleeps again. *)
GcIgnoresCancel ==
  /\ LoopFree
  /\ act[Gc].pc = "unwinding"
  /\ act' = [act EXCEPT ![Gc] = IdleActor]
  /\ UNCHANGED <<rooms, registry, nbRoom, sessions, records, removed, closing>>

(* CancelledError in the GC task.  In the middle of a stop it runs the      *)
(* finally block, is caught by no except clause there and skips the notify. *)
GcUnwinds ==
  LET r == act[Gc].room IN
  /\ LoopFree
  /\ act[Gc].pc = "unwinding"
  /\ IF r = NoRoom
     THEN UNCHANGED <<rooms, registry, nbRoom, sessions, records, removed>>
     ELSE /\ \/ UNCHANGED sessions
             \/ sessions' = WithSessionDown(rooms[r].session)
          /\ RemoveRoom(r, "cancelled", FALSE)
  /\ act' = [act EXCEPT ![Gc] = Ended]
  /\ UNCHANGED closing

(* Variant: shutdown stops what the GC would stop. *)
ShutdownSweepsIdle(t) ==
  /\ LoopFree
  /\ act[t].pc = "joining"
  /\ act[Gc].pc = "ended"
  /\ act' = [act EXCEPT ![t] = Visiting(@, GcCandidates)]
  /\ UNCHANGED <<rooms, registry, nbRoom, sessions, records, removed, closing>>

ShutdownSweeps(t) ==
  /\ LoopFree
  /\ act[t].pc = "joining"
  /\ act[Gc].pc = "ended"
  /\ act' = [act EXCEPT ![t] = Visiting(@, registry)]
  /\ UNCHANGED <<rooms, registry, nbRoom, sessions, records, removed, closing>>

-----------------------------------------------------------------------------
(* Outside src/: time, and Jupyter's sessions as others use them *)

Idled(room) == [room EXCEPT !.idle = TRUE]

TimePasses(r) ==
  /\ r \in registry
  /\ rooms[r].state = "live-detached" /\ ~rooms[r].idle
  /\ LoopFree
  /\ rooms' = [rooms EXCEPT ![r] = Idled(@)]
  /\ UNCHANGED <<registry, nbRoom, sessions, records, act, removed, closing>>

(* A kernel dies, or JupyterLab's user shuts it down. *)
SessionEnds(s) ==
  /\ LoopFree
  /\ sessions[s].status = "up"
  /\ sessions' = WithSessionDown(s)
  /\ UNCHANGED <<rooms, registry, nbRoom, records, act, removed, closing>>

(* JupyterLab opens the notebook: it takes the session of the path, or      *)
(* starts one when there is none.  Its request counts as one in flight.     *)
LabOpens(n, k) ==
  /\ LabActs /\ LoopFree /\ ~closing
  /\ Cardinality(InFlight) < MaxInFlight
  /\ SessionsUp(n) = {}
  /\ IdsLeft(FreshSessions, {"looking", "creating"})
  /\ FreshSessions # {}
  /\ sessions' = [sessions EXCEPT ![NextSession] =
       NewSession(n, k, "lab")]
  /\ UNCHANGED <<rooms, registry, nbRoom, records, act, removed, closing>>

-----------------------------------------------------------------------------
Calls(t) ==
  \/ \E n \in Notebooks, k \in KernelNames \cup {NoKernel}, c \in Clients \cup {NoClient} :
       EnsureCall(t, n, k, c)
  \/ \E n \in Notebooks : StatusCall(t, n) \/ StopCall(t, n)
  \/ ShutdownCall(t)

(* What the code does next in a call once Jupyter has answered it *)
Continues(a) ==
  \/ LookupFinds(a) \/ LookupMisses(a) \/ CreateReturns(a) \/ CreateFails(a)
  \/ OpenReturns(a) \/ DeleteReturns(a) \/ DeleteFails(a)
  \/ SweepNext(a) \/ SweepEnds(a) \/ ShutdownSweeps(a)

RoomCalls ==
  \/ \E r \in RoomIds, c \in Clients : AttachClient(r, c) \/ DetachClient(r, c)
  \/ \E r \in RoomIds, s \in LiveStates : SetRuntimeState(r, s)
  \/ \E r \in RoomIds : TouchActivity(r)
  \/ \E n \in Notebooks, j \in Jobs : MarkJobFinished(n, j)

Environment ==
  \/ \E r \in RoomIds : TimePasses(r)
  \/ \E s \in SessionIds : SessionEnds(s)
  \/ \E n \in Notebooks, k \in KernelNames : LabOpens(n, k)

Next ==
  \/ \E t \in Tasks : Calls(t) \/ \E j \in Jobs : QueueReturns(t, j)
  \/ \E a \in Actors : Continues(a)
  \/ RoomCalls
  \/ GcWakes \/ GcUnwinds
  \/ Environment

Spec == Init /\ [][Next]_vars

(* Jupyter answers every call, and the GC loop wakes again and again.       *)
(* asyncio runs its ready coroutines in turn, so one that is ready again    *)
(* and again (whenever no other is running) is run: strong fairness.  No    *)
(* request need ever arrive.                                                *)
Fairness ==
  /\ \A a \in Actors : SF_vars(Continues(a))
  /\ SF_vars(GcWakes) /\ SF_vars(GcUnwinds)

FairSpec == Spec /\ Fairness

-----------------------------------------------------------------------------
(* What must hold, however the calls interleave *)

(* The notebook map never points at a room the registry has dropped or at   *)
(* another notebook's room: get_room_for_notebook relies on it when two     *)
(* stops of one notebook overlap an open (stop_runtime's two pops).         *)
MapConsistent ==
  \A n \in Notebooks : nbRoom[n] # NoRoom =>
    nbRoom[n] \in registry /\ rooms[nbRoom[n]].nb = n

UsableFor(call, r) ==
  /\ IsLive(r) /\ KernelUp(r) /\ rooms[r].nb = call.nb
  /\ ~Mismatch(call.kernel, rooms[r])

(* Whatever interleaving produced it, the room ensure_room hands to its     *)
(* caller is live, its kernel is in the kernel manager, and it runs the     *)
(* kernelspec the caller asked for.                                         *)
EnsuredRoomUsable ==
  \A a \in Actors : act[a].pc = "returned" => UsableFor(act[a], act[a].room)

(* A room describes the session it holds: same notebook, same kernel name,  *)
(* and a live room always has one.                                          *)
RoomMatchesSession ==
  \A r \in RoomIds :
    /\ rooms[r].session # NoSession =>
         /\ sessions[rooms[r].session].nb = rooms[r].nb
         /\ sessions[rooms[r].session].kernel = rooms[r].kernel
         /\ sessions[rooms[r].session].status # "unused"
    /\ IsLive(r) => rooms[r].session # NoSession

(* A kernel this code started is lost from the registry only in the ways    *)
(* stop_runtime allows: its delete_session failed or was cancelled, or the  *)
(* stop overtook create_session.  No overlap of opens, stops, adoptions and *)
(* sweeps strands one in any other way.                                     *)
KernelAccountedFor ==
  \A s \in SessionIds :
    sessions[s].status = "up" /\ sessions[s].by = "hypernote" =>
      \E r \in RoomIds :
        /\ rooms[r].session = s
        /\ r \in registry \/ removed[r] \in {"failed", "early", "cancelled"}

(* Stopping a runtime clears its control-plane state: once a stop of a room *)
(* has run to its end the ledger holds no record of a job that ran in it,   *)
(* and the room holds no client and no job.                                 *)
StopClearsControlPlane ==
  \A r \in RoomIds : removed[r] \in {"clean", "failed"} =>
    /\ \A j \in Jobs : records[j] # r
    /\ rooms[r].clients = {} /\ rooms[r].jobs = {}

(* A room keeps the kernel it got: whoever holds the object while it is     *)
(* refreshed, stopped or reopened never finds another kernel behind it.     *)
RoomKeepsKernel ==
  [][\A r \in RoomIds : rooms[r].session # NoSession =>
       rooms'[r].session = rooms[r].session /\ rooms'[r].kernel = rooms[r].kernel]_vars

(* At most one kernel serves a notebook (docs/runtime-model.md:65).  It     *)
(* holds for one call at a time and no session of JupyterLab's own; it      *)
(* fails with two calls in flight, and after JupyterLab replaces a kernel.  *)
OneKernelPerNotebook ==
  \A n \in Notebooks : \A s1, s2 \in SessionsUp(n) : s1 = s2

(* Serial calls implement the promise of one runtime per notebook, also     *)
(* over failed stops, failed starts, dead kernels, adoptions and sweeps.    *)
Promise == INSTANCE NotebookRuntime WITH
  Kernels <- SessionIds, kernels <- [n \in Notebooks |-> SessionsUp(n)]

ImplementsPromise == Promise!Spec

(* A shutdown with no other call in flight leaves no registered room with   *)
(* its kernel up, unless the kernel would not be shut down.                 *)
ShutdownLeavesNoKernel ==
  (\E t \in Tasks : act[t].pc = "ended") => \A r \in registry : ~KernelUp(r)

(* Every call returns, the GC's sweeps included. *)
EveryCallReturns ==
  \A a \in Actors : act[a].pc \notin {"idle", "ended"} ~> act[a].pc \in {"idle", "ended"}

(* An idle detached room is reaped, unless somebody uses it first. *)
IdleRoomIsReaped ==
  \A r \in RoomIds : r \in GcCandidates ~> (r \notin GcCandidates \/ closing)

(* A stop that has begun ends with the room out of the registry, whatever   *)
(* else writes the room's state meanwhile.                                  *)
StopRemovesRoom ==
  \A r \in RoomIds : rooms[r].state = "stopping" ~> r \notin registry

-----------------------------------------------------------------------------
(* The inductive invariant behind the safety properties *)

(* An id not yet given to a room occurs nowhere. *)
AbsentRoomsUnknown ==
  \A r \in RoomIds : rooms[r].state = "absent" =>
    /\ rooms[r].session = NoSession
    /\ rooms[r].clients = {} /\ rooms[r].jobs = {}
    /\ r \notin registry /\ removed[r] = "no"
    /\ \A a \in Actors : act[a].room # r
    /\ \A j \in Jobs : records[j] # r

(* A room is in the registry until stop_runtime takes it out, for good. *)
RegistryHistory ==
  \A r \in RoomIds : rooms[r].state # "absent" =>
    /\ rooms[r].nb \in Notebooks
    /\ r \in registry <=> removed[r] = "no"
    /\ removed[r] \in {"clean", "failed", "cancelled"} => rooms[r].session # NoSession
    /\ removed[r] = "clean" => sessions[rooms[r].session].status = "down"

(* What a call knows about its room, at each point where it is suspended *)
CallKnows(call) ==
  /\ call.pc \in {"looking", "creating"} =>
       call.nb \in Notebooks /\ call.op \in {"ensure", "status"}
  /\ call.pc \in {"looking", "idle", "ended", "sweep", "joining"} => call.room = NoRoom
  /\ call.pc = "creating" =>
       /\ call.op = "ensure" /\ call.room \in RoomIds
       /\ rooms[call.room].nb = call.nb /\ rooms[call.room].session = NoSession
  /\ call.pc \in {"deleting", "returned"} => call.room \in RoomIds
  /\ call.pc \in {"deleting", "unwinding", "returned"} /\ call.room # NoRoom =>
       rooms[call.room].session # NoSession
  /\ call.pc = "returned" => removed[call.room] \in {"no", "early"}

CallsConsistent == \A a \in Actors : CallKnows(act[a])

(* Two calls never start a session for one room, or hold the event loop. *)
CallsApart ==
  \A a, b \in Actors : a # b =>
    /\ act[a].pc = "creating" /\ act[b].pc = "creating" => act[a].room # act[b].room
    /\ ~(act[a].pc \in {"returned", "sweep"} /\ act[b].pc \in {"returned", "sweep"})

GcOnlySweeps == act[Gc].op \in {"none", "gc"}

UnusedSessionsUnknown ==
  \A s \in SessionIds : sessions[s].status = "unused" =>
    \A r \in RoomIds : rooms[r].session # s

IInv ==
  /\ TypeOK
  /\ MapConsistent
  /\ AbsentRoomsUnknown
  /\ RegistryHistory
  /\ CallsConsistent
  /\ CallsApart
  /\ GcOnlySweeps
  /\ UnusedSessionsUnknown
  /\ RoomMatchesSession
  /\ EnsuredRoomUsable
  /\ KernelAccountedFor
  /\ StopClearsControlPlane

=============================================================================
