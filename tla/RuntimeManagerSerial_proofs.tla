-------------------- MODULE RuntimeManagerSerial_proofs --------------------
(* What RuntimeManager promises when calls do not overlap, for every value  *)
(* of its other constants.                                                  *)
EXTENDS RuntimeManager_proofs, FiniteSetTheorems

-----------------------------------------------------------------------------
(* The states of rooms.  These invariants hold also when calls overlap.     *)

(* A room that is not live tells the truth: its kernel never started, or is *)
(* not up, or is being shut down by a stop.                                 *)
DownUnlessLive ==
  \A r \in RoomIds :
    /\ rooms[r].state \in {"starting", "failed"} => rooms[r].session = NoSession
    /\ r \in registry /\ rooms[r].state = "stopped" => ~KernelUp(r)

Stops(a, r) == act[a].pc \in {"deleting", "unwinding"} /\ act[a].room = r

StoppingIsStopped ==
  \A r \in registry : rooms[r].state = "stopping" => \E a \in Actors : Stops(a, r)

StatesInv == DownUnlessLive /\ StoppingIsStopped

(* What a step may do to the state of a room *)
StateMoves(r) ==
  \/ rooms'[r].state = rooms[r].state /\ rooms'[r].session = rooms[r].session
  \/ rooms'[r].state \in LiveStates \cup {"absent"}
  \/ rooms'[r].state = "stopped" /\ rooms'[r].session = rooms[r].session /\ ~KernelUp(r)
  \/ rooms'[r].state = "stopped" /\ r \notin registry'
  \/ rooms'[r].state \in {"starting", "failed"} /\ rooms'[r].session = NoSession
  \/ rooms'[r].state = "stopping" /\ \E a \in Actors : Stops(a, r)'

(* A kernel that is down stays down. *)
SessionsEnd ==
  \A s \in SessionIds : sessions[s].status # "unused" /\ sessions'[s].status = "up" =>
    sessions[s].status = "up"

(* A room enters the registry alive or starting. *)
RoomsEnter ==
  \A r \in registry' \ registry : rooms'[r].state \in LiveStates \cup {"starting"}

(* A stop goes on until its room has left the registry. *)
StopsGoOn ==
  \A a \in Actors, r \in registry \cap registry' : Stops(a, r) => Stops(a, r)'

LEMMA StatesStay ==
  ASSUME IInv, StatesInv, TypeOK',
         \A r \in RoomIds : StateMoves(r), SessionsEnd, RoomsEnter, StopsGoOn
  PROVE  StatesInv'
<1>1. ASSUME NEW r \in RoomIds, rooms'[r].session = rooms[r].session, ~KernelUp(r)
      PROVE  ~KernelUp(r)'
  <2>1. rooms[r].session # NoSession =>
          rooms[r].session \in SessionIds /\ sessions[rooms[r].session].status # "unused"
    BY DEF IInv, TypeOK, Room, UnusedSessionsUnknown
  <2>2. QED
    BY <1>1, <2>1 DEF KernelUp, SessionsEnd
<1>2. DownUnlessLive'
  <2> SUFFICES ASSUME NEW r \in RoomIds
               PROVE  /\ rooms'[r].state \in {"starting", "failed"} => rooms'[r].session = NoSession
                      /\ r \in registry' /\ rooms'[r].state = "stopped" => ~KernelUp(r)'
    BY DEF DownUnlessLive
  <2>1. StateMoves(r) /\ (r \in registry' /\ rooms'[r].state = "stopped" => r \in registry)
    BY DEF RoomsEnter, LiveStates
  <2>2. /\ rooms[r].state \in {"starting", "failed"} => rooms[r].session = NoSession
        /\ r \in registry /\ rooms[r].state = "stopped" => ~KernelUp(r)
    BY DEF StatesInv, DownUnlessLive
  <2>3. QED
    BY <1>1, <2>1, <2>2 DEF StateMoves, LiveStates
<1>3. StoppingIsStopped'
  <2> SUFFICES ASSUME NEW r \in registry', rooms'[r].state = "stopping"
               PROVE  \E a \in Actors : Stops(a, r)'
    BY DEF StoppingIsStopped
  <2>1. r \in RoomIds /\ StateMoves(r)
    BY DEF TypeOK
  <2>2. r \in registry
    BY DEF RoomsEnter, LiveStates
  <2>3. rooms[r].state = "stopping" \/ \E a \in Actors : Stops(a, r)'
    BY <2>1 DEF StateMoves, LiveStates
  <2>4. rooms[r].state = "stopping" => \E a \in Actors : Stops(a, r)
    BY <2>2 DEF StatesInv, StoppingIsStopped
  <2>5. QED
    BY <2>2, <2>3, <2>4 DEF StopsGoOn
<1>4. QED
  BY <1>2, <1>3 DEF StatesInv

StatesMove == (\A r \in RoomIds : StateMoves(r)) /\ SessionsEnd /\ RoomsEnter /\ StopsGoOn

(* A step of actor a *)
LEMMA MovesWith ==
  ASSUME NEW a \in Actors, \A b \in Actors \ {a} : act'[b] = act[b],
         \/ act[a].pc \notin {"deleting", "unwinding"}
         \/ act[a].room \notin registry'
         \/ act'[a].pc \in {"deleting", "unwinding"} /\ act'[a].room = act[a].room,
         SessionsEnd, RoomsEnter, \A r \in RoomIds : StateMoves(r)
  PROVE  StatesMove
<1>1. StopsGoOn
  BY DEF StopsGoOn, Stops
<1>2. QED
  BY <1>1 DEF StatesMove

LEMMA NothingEnds ==
  /\ UNCHANGED sessions => SessionsEnd
  /\ registry' \subseteq registry => RoomsEnter
  /\ UNCHANGED rooms => \A r \in RoomIds : StateMoves(r)
  /\ UNCHANGED act => StopsGoOn
BY DEF SessionsEnd, RoomsEnter, StateMoves, StopsGoOn, Stops

LEMMA WrittenStates ==
  ASSUME NEW room \in Room
  PROVE  /\ \A x : InState(room, x).state = x /\ InState(room, x).session = room.session
         /\ Lost(room).state = "stopped" /\ Lost(room).session = room.session
         /\ Stopped(room).state = "stopped" /\ Stopped(room).session = room.session
         /\ Idled(room).state = room.state /\ Idled(room).session = room.session
         /\ \A c : Attached(room, c).state \in LiveStates
         /\ \A c : /\ Detached(room, c).state = room.state \/ Detached(room, c).state \in LiveStates
                   /\ Detached(room, c).session = room.session
         /\ \A J : WithJobs(room, J).state = room.state /\ WithJobs(room, J).session = room.session
         /\ \A s, k : WithSession(room, s, k).state \in LiveStates /\ WithSession(room, s, k).session = s
BY DEF Room, InState, Lost, Stopped, Idled, Attached, Detached, WithJobs, WithSession, LiveStates

LEMMA NewStates ==
  /\ \A n : NewRoom(n).state = "starting" /\ NewRoom(n).session = NoSession
  /\ \A n, s : AdoptedRoom(n, s).state \in LiveStates /\ AdoptedRoom(n, s).session = s
BY DEF NewRoom, AdoptedRoom, AbsentRoom, LiveStates

(* An action that no call takes, writing one room *)
LEMMA RoomCallMoves ==
  ASSUME IInv, UNCHANGED <<registry, sessions, act>>,
         NEW q, NEW room, rooms' = [rooms EXCEPT ![q] = room],
         \/ room.state = rooms[q].state /\ room.session = rooms[q].session
         \/ room.state \in LiveStates
  PROVE  StatesMove
<1>1. \A r \in RoomIds : StateMoves(r)
  BY DEF IInv, TypeOK, StateMoves
<1>2. QED
  BY <1>1, NothingEnds DEF StatesMove

LEMMA RoomCallsMove ==
  ASSUME IInv, RoomCalls \/ \E r \in RoomIds : TimePasses(r)
  PROVE  StatesMove
<1>0. rooms \in [RoomIds -> Room] /\ registry \subseteq RoomIds
  BY DEF IInv, TypeOK
<1>1. ASSUME NEW r \in RoomIds, NEW c \in Clients, AttachClient(r, c)
      PROVE  StatesMove
  BY <1>0, <1>1, WrittenStates, RoomCallMoves DEF AttachClient
<1>2. ASSUME NEW r \in RoomIds, NEW c \in Clients, DetachClient(r, c)
      PROVE  StatesMove
  BY <1>0, <1>2, WrittenStates, RoomCallMoves DEF DetachClient
<1>3. ASSUME NEW r \in RoomIds, NEW x \in LiveStates, SetRuntimeState(r, x)
      PROVE  StatesMove
  BY <1>0, <1>3, WrittenStates, RoomCallMoves DEF SetRuntimeState
<1>4. ASSUME NEW r \in RoomIds, TouchActivity(r)
      PROVE  StatesMove
  BY <1>0, <1>4, WrittenStates, RoomCallMoves DEF TouchActivity
<1>5. ASSUME NEW n \in Notebooks, NEW j \in Jobs, MarkJobFinished(n, j)
      PROVE  StatesMove
  <2> DEFINE q == Current(n)
             room == WithJobs(rooms[q], rooms[q].jobs \ {j})
  <2>1. rooms' = [rooms EXCEPT ![q] = room] /\ UNCHANGED <<registry, sessions, act>>
    BY <1>5 DEF MarkJobFinished
  <2>2. rooms[q] \in Room
    BY <1>0, <1>5, RegisteredFacts DEF MarkJobFinished
  <2>3. room.state = rooms[q].state /\ room.session = rooms[q].session
    BY <2>2, WrittenStates
  <2> HIDE DEF q, room
  <2>4. QED
    BY <2>1, <2>3, RoomCallMoves
<1>6. ASSUME NEW r \in RoomIds, TimePasses(r)
      PROVE  StatesMove
  BY <1>0, <1>6, WrittenStates, RoomCallMoves DEF TimePasses
<1>7. QED
  BY <1>1, <1>2, <1>3, <1>4, <1>5, <1>6 DEF RoomCalls

LEMMA DownEnds ==
  ASSUME TypeOK, NEW s, sessions' = WithSessionDown(s)
  PROVE  SessionsEnd
BY DEF TypeOK, Session, WithSessionDown, Down, SessionsEnd

LEMMA SessionsMove ==
  ASSUME IInv, \/ \E s \in SessionIds : SessionEnds(s)
               \/ \E n \in Notebooks, k \in KernelNames : LabOpens(n, k)
  PROVE  StatesMove
<1>1. UNCHANGED <<rooms, registry, act>>
  BY DEF SessionEnds, LabOpens
<1>2. SessionsEnd
  <2>1. ASSUME NEW s \in SessionIds, SessionEnds(s) PROVE SessionsEnd
    BY <2>1, DownEnds DEF SessionEnds, IInv
  <2>2. ASSUME NEW n \in Notebooks, NEW k \in KernelNames, LabOpens(n, k) PROVE SessionsEnd
    BY <2>2, NextIdsTyped DEF LabOpens, SessionsEnd, IInv, TypeOK
  <2>3. QED
    BY <2>1, <2>2
<1>3. QED
  BY <1>1, <1>2, NothingEnds DEF StatesMove

LEMMA RemoveMoves ==
  ASSUME IInv, NEW r \in RoomIds, NEW how, NEW notify, RemoveRoom(r, how, notify)
  PROVE  /\ registry' = registry \ {r}
         /\ RoomsEnter /\ \A q \in RoomIds : StateMoves(q)
<1>1. registry' = registry \ {r} /\ rooms' = [rooms EXCEPT ![r] = Stopped(rooms[r])]
  BY DEF RemoveRoom, StoppedRooms
<1>2. rooms \in [RoomIds -> Room]
  BY DEF IInv, TypeOK
<1>3. \A q \in RoomIds : StateMoves(q)
  BY <1>1, <1>2, WrittenStates DEF StateMoves
<1>4. QED
  BY <1>1, <1>3, NothingEnds

LEMMA BeginStopMoves ==
  ASSUME IInv, NEW a \in Actors, act[a].pc \notin {"deleting", "unwinding"}, NEW actor \in Actor,
         NEW r \in RoomIds, BeginStop(a, actor, r), UNCHANGED sessions
  PROVE  StatesMove
<1>1. CASE rooms[r].session # NoSession
  <2>1. /\ rooms' = [rooms EXCEPT ![r] = InState(rooms[r], "stopping")]
        /\ act' = [act EXCEPT ![a] = At(actor, "deleting", r)] /\ UNCHANGED registry
    BY <1>1 DEF BeginStop
  <2>2. rooms \in [RoomIds -> Room] /\ act \in [Actors -> Actor]
    BY DEF IInv, TypeOK
  <2>3. Stops(a, r)'
    BY <2>1, <2>2, CallFields DEF Stops
  <2>4. \A q \in RoomIds : StateMoves(q)
    BY <2>1, <2>2, <2>3, WrittenStates DEF StateMoves
  <2>5. QED
    BY <2>1, <2>2, <2>4, MovesWith, NothingEnds
<1>2. CASE rooms[r].session = NoSession
  <2>1. /\ RemoveRoom(r, "early", TRUE)
        /\ act' = [act EXCEPT ![a] = IF actor.op = "stop" THEN IdleActor ELSE actor]
    BY <1>2 DEF BeginStop
  <2>2. QED
    BY <2>1, RemoveMoves, MovesWith, NothingEnds DEF IInv, TypeOK
<1>3. QED
  BY <1>1, <1>2

LEMMA EnsureMoves ==
  ASSUME IInv, NEW t \in Tasks, NEW n \in Notebooks, NEW k, NEW c, EnsureCall(t, n, k, c)
  PROVE  StatesMove
<1> DEFINE r == Current(n)
           start == Call("ensure", n, k, c)
<1>1. /\ t \in Actors /\ act[t].pc = "idle" /\ UNCHANGED sessions
      /\ \A b \in Actors \ {t} : act'[b] = act[b]
  BY DEF EnsureCall, CanOpen, CanCall, IInv, TypeOK, Actors
<1>2. rooms \in [RoomIds -> Room] /\ registry \subseteq RoomIds
  BY DEF IInv, TypeOK
<1>3. SessionsEnd
  BY <1>1, NothingEnds
<1>4. CASE r = NoRoom
  <2>1. UNCHANGED <<rooms, registry>>
    BY <1>4 DEF EnsureCall
  <2>2. QED
    BY <1>1, <2>1, MovesWith, NothingEnds
<1>5. CASE r # NoRoom /\ Refreshed(r).state \in LiveStates
  <2>1. rooms' = [rooms EXCEPT ![r] = InState(rooms[r], rooms[r].state)] /\ UNCHANGED registry
    BY <1>5 DEF EnsureCall
  <2>2. rooms[r] \in Room
    BY <1>2, <1>5, RegisteredFacts
  <2> HIDE DEF r
  <2>3. \A q \in RoomIds : StateMoves(q)
    BY <1>2, <2>1, <2>2, WrittenStates DEF StateMoves
  <2>4. QED
    BY <1>1, <1>3, <2>1, <2>3, MovesWith, NothingEnds
<1>6. CASE r # NoRoom /\ Refreshed(r).state \notin LiveStates
  <2>1. /\ rooms' = [rooms EXCEPT ![r] = Refreshed(r), ![NextRoom] = NewRoom(n)]
        /\ registry' = registry \cup {NextRoom} /\ FreshRooms # {}
    BY <1>6 DEF EnsureCall
  <2>2. r \in RoomIds /\ r # NextRoom /\ NextRoom \in RoomIds
    BY <1>6, <2>1, RegisteredFacts, FreshRoomFacts
  <2>3. \/ Refreshed(r) = rooms[r]
        \/ ~KernelUp(r) /\ Refreshed(r).state = "stopped" /\ Refreshed(r).session = rooms[r].session
    BY <1>2, <2>2, WrittenStates DEF Refreshed
  <2> HIDE DEF r
  <2>4. \A q \in RoomIds : StateMoves(q)
    BY <1>2, <2>1, <2>2, <2>3, NewStates DEF StateMoves
  <2>5. RoomsEnter
    BY <1>2, <2>1, <2>2, NewStates DEF RoomsEnter
  <2>6. QED
    BY <1>1, <1>3, <2>4, <2>5, MovesWith
<1>7. QED
  BY <1>4, <1>5, <1>6 DEF EnsureCall

LEMMA StatusMoves ==
  ASSUME IInv, NEW t \in Tasks, NEW n \in Notebooks, StatusCall(t, n)
  PROVE  StatesMove
<1> DEFINE r == Current(n)
<1>1. /\ t \in Actors /\ act[t].pc = "idle" /\ UNCHANGED <<sessions, registry>>
      /\ \A b \in Actors \ {t} : act'[b] = act[b]
  BY DEF StatusCall, CanOpen, CanCall, IInv, TypeOK, Actors
<1>2. CASE r = NoRoom
  <2>1. UNCHANGED rooms
    BY <1>2 DEF StatusCall
  <2>2. QED
    BY <1>1, <2>1, MovesWith, NothingEnds
<1>3. CASE r # NoRoom
  <2>1. rooms' = [rooms EXCEPT ![r] = Refreshed(r)] /\ r \in RoomIds
    BY <1>3, RegisteredFacts DEF StatusCall
  <2>2. rooms \in [RoomIds -> Room]
    BY DEF IInv, TypeOK
  <2>3. \/ Refreshed(r) = rooms[r]
        \/ ~KernelUp(r) /\ Refreshed(r).state = "stopped" /\ Refreshed(r).session = rooms[r].session
    BY <2>1, <2>2, WrittenStates DEF Refreshed
  <2> HIDE DEF r
  <2>4. \A q \in RoomIds : StateMoves(q)
    BY <2>1, <2>2, <2>3 DEF StateMoves
  <2>5. QED
    BY <1>1, <2>4, MovesWith, NothingEnds
<1>4. QED
  BY <1>2, <1>3

LEMMA CallsMove ==
  ASSUME IInv, NEW t \in Tasks, Calls(t)
  PROVE  StatesMove
<1>1. ASSUME NEW n \in Notebooks, StopCall(t, n)
      PROVE  StatesMove
  <2>1. /\ t \in Actors /\ act[t].pc = "idle" /\ Current(n) \in RoomIds /\ UNCHANGED sessions
        /\ Plain("stop", n) \in Actor
        /\ BeginStop(t, Plain("stop", n), Current(n))
    BY <1>1, RegisteredFacts, NewActorTyped DEF StopCall, CanCall, Actors
  <2>2. QED
    BY <2>1, BeginStopMoves
<1>2. ASSUME ShutdownCall(t)
      PROVE  StatesMove
  <2>1. /\ UNCHANGED <<rooms, registry, sessions>> /\ t # Gc /\ t \in Actors /\ Gc \in Actors
        /\ act[t].pc = "idle" /\ act'[Gc] = Unwinding(act[Gc]) /\ act[Gc] \in Actor
        /\ \A b \in Actors \ {t, Gc} : act'[b] = act[b]
    BY <1>2, ActorsAssumption DEF ShutdownCall, CanCall, IInv, TypeOK, Actors
  <2>2. act'[Gc].pc = "unwinding" /\ act'[Gc].room = act[Gc].room
    BY <2>1, CallFields
  <2>3. StopsGoOn
    BY <2>1, <2>2 DEF StopsGoOn, Stops
  <2>4. QED
    BY <2>1, <2>3, NothingEnds DEF StatesMove
<1>3. QED
  BY <1>1, <1>2, EnsureMoves, StatusMoves DEF Calls

LEMMA LookupsMove ==
  ASSUME IInv, NEW a \in Actors, LookupFinds(a) \/ LookupMisses(a)
  PROVE  StatesMove
<1>1. /\ act[a].pc = "looking" /\ SessionsEnd
      /\ \A b \in Actors \ {a} : act'[b] = act[b]
  BY NothingEnds
     DEF LookupFinds, LookupMisses, CreateRoom, Resume, Finish, IInv, TypeOK
<1>2. rooms \in [RoomIds -> Room]
  BY DEF IInv, TypeOK
<1>3. ASSUME NEW room, Register(NextRoom, room), FreshRooms # {},
             room.state \in LiveStates \/ (room.state = "starting" /\ room.session = NoSession)
      PROVE  StatesMove
  <2>1. /\ rooms' = [rooms EXCEPT ![NextRoom] = room] /\ NextRoom \in RoomIds
        /\ registry' = registry \cup {NextRoom}
    BY <1>3, NextIdsTyped DEF Register
  <2>2. \A q \in RoomIds : StateMoves(q)
    BY <1>2, <1>3, <2>1 DEF StateMoves
  <2>3. RoomsEnter
    BY <1>2, <1>3, <2>1 DEF RoomsEnter
  <2>4. QED
    BY <1>1, <2>2, <2>3, MovesWith
<1>4. CASE LookupFinds(a)
  <2>1. PICK s \in SessionIds : Register(NextRoom, AdoptedRoom(act[a].nb, s))
    BY <1>4 DEF LookupFinds, SessionsUp
  <2>2. FreshRooms # {}
    BY <1>4 DEF LookupFinds
  <2>3. QED
    BY <1>3, <2>1, <2>2, NewStates
<1>5. CASE LookupMisses(a) /\ act[a].op = "status"
  BY <1>1, <1>5, MovesWith, NothingEnds DEF LookupMisses
<1>6. CASE LookupMisses(a) /\ act[a].op # "status"
  BY <1>3, <1>6, NewStates DEF LookupMisses, CreateRoom
<1>7. QED
  BY <1>4, <1>5, <1>6

LEMMA CreatesMove ==
  ASSUME IInv, NEW a \in Actors, CreateReturns(a) \/ CreateFails(a)
  PROVE  StatesMove
<1> DEFINE r == act[a].room
           k == IF act[a].kernel = NoKernel THEN DefaultKernel ELSE act[a].kernel
<1>1. /\ act[a].pc = "creating" /\ r \in RoomIds /\ rooms[r].session = NoSession
      /\ UNCHANGED registry /\ rooms \in [RoomIds -> Room]
      /\ \A b \in Actors \ {a} : act'[b] = act[b]
  BY CreatingFacts DEF CreateReturns, CreateFails, Resume, Finish, IInv, TypeOK
<1>2. SessionsEnd
  <2>1. CASE CreateReturns(a)
    BY <2>1, NextIdsTyped DEF CreateReturns, SessionsEnd, IInv, TypeOK
  <2>2. CASE CreateFails(a)
    BY <2>2, NothingEnds DEF CreateFails
  <2>3. QED
    BY <2>1, <2>2
<1>3. \A q \in RoomIds : StateMoves(q)
  <2>1. CASE CreateReturns(a)
    <3>1. rooms' = [rooms EXCEPT ![r] = WithSession(rooms[r], NextSession, k)]
      BY <2>1 DEF CreateReturns
    <3> HIDE DEF r, k
    <3>2. QED
      BY <1>1, <3>1, WrittenStates DEF StateMoves
  <2>2. CASE CreateFails(a)
    <3>1. rooms' = [rooms EXCEPT ![r] = InState(rooms[r], "failed")]
      BY <2>2 DEF CreateFails
    <3> HIDE DEF r, k
    <3>2. QED
      BY <1>1, <3>1, WrittenStates DEF StateMoves
  <2>3. QED
    BY <2>1, <2>2
<1>4. QED
  BY <1>1, <1>2, <1>3, MovesWith, NothingEnds

LEMMA ReturnsMove ==
  ASSUME IInv, NEW a \in Actors, OpenReturns(a) \/ \E j \in Jobs : QueueReturns(a, j)
  PROVE  StatesMove
<1>1. /\ act[a].pc = "returned" /\ UNCHANGED <<registry, sessions>>
      /\ rooms \in [RoomIds -> Room]
      /\ \A b \in Actors \ {a} : act'[b] = act[b]
  BY DEF OpenReturns, QueueReturns, Finish, IInv, TypeOK
<1>2. \A q \in RoomIds : StateMoves(q)
  <2>1. CASE OpenReturns(a)
    BY <1>1, <2>1, WrittenStates DEF OpenReturns, StateMoves
  <2>2. ASSUME NEW j \in Jobs, QueueReturns(a, j)
        PROVE  \A q \in RoomIds : StateMoves(q)
    <3> DEFINE cur == Current(act[a].nb)
               room == WithJobs(rooms[cur], rooms[cur].jobs \cup {j})
    <3>1. rooms' = IF cur = NoRoom THEN rooms ELSE [rooms EXCEPT ![cur] = room]
      BY <2>2 DEF QueueReturns
    <3>2. cur \in RoomIds =>
            room.state = rooms[cur].state /\ room.session = rooms[cur].session
      BY <1>1, WrittenStates
    <3> HIDE DEF cur, room
    <3>3. QED
      BY <1>1, <3>1, <3>2 DEF StateMoves
  <2>3. QED
    BY <2>1, <2>2
<1>3. QED
  BY <1>1, <1>2, MovesWith, NothingEnds

LEMMA DeletesMove ==
  ASSUME IInv, NEW a \in Actors, DeleteReturns(a) \/ DeleteFails(a)
  PROVE  StatesMove
<1>1. /\ act[a].pc = "deleting" /\ act[a].room \in RoomIds
      /\ \A b \in Actors \ {a} : act'[b] = act[b]
  BY DeletingFacts DEF DeleteReturns, DeleteFails, IInv, TypeOK
<1>2. \E how : RemoveRoom(act[a].room, how, TRUE)
  BY DEF DeleteReturns, DeleteFails
<1>3. SessionsEnd
  BY DownEnds, NothingEnds DEF DeleteReturns, DeleteFails, IInv
<1>4. QED
  BY <1>1, <1>2, <1>3, RemoveMoves, MovesWith

LEMMA SweepsMove ==
  ASSUME IInv, NEW a \in Actors, SweepNext(a) \/ SweepEnds(a) \/ ShutdownSweeps(a)
  PROVE  StatesMove
<1>1. act[a].pc \in {"sweep", "joining"} /\ UNCHANGED sessions
  BY DEF SweepNext, SweepEnds, ShutdownSweeps
<1>2. CASE SweepNext(a)
  <2>1. PICK r \in act[a].todo :
          LET left == Visiting(act[a], act[a].todo \ {r}) IN
          IF Stoppable(r)
          THEN BeginStop(a, left, r)
          ELSE /\ act' = [act EXCEPT ![a] = left]
               /\ UNCHANGED <<rooms, registry, nbRoom, records, removed>>
    BY <1>2 DEF SweepNext
  <2>2. r \in RoomIds /\ Visiting(act[a], act[a].todo \ {r}) \in Actor
    <3>1. act[a] \in Actor /\ act[a].todo \in SUBSET RoomIds
      BY DEF IInv, TypeOK, Actor
    <3>2. QED
      BY <3>1, ActorTyped
  <2>3. CASE Stoppable(r)
    BY <1>1, <2>1, <2>2, <2>3, BeginStopMoves
  <2>4. CASE ~Stoppable(r)
    BY <1>1, <2>1, <2>4, MovesWith, NothingEnds DEF IInv, TypeOK
  <2>5. QED
    BY <2>3, <2>4
<1>3. CASE SweepEnds(a) \/ ShutdownSweeps(a)
  BY <1>1, <1>3, MovesWith, NothingEnds DEF SweepEnds, ShutdownSweeps, IInv, TypeOK
<1>4. QED
  BY <1>2, <1>3

LEMMA GcMoves ==
  ASSUME IInv, GcWakes \/ GcUnwinds
  PROVE  StatesMove
<1>1. Gc \in Actors /\ \A b \in Actors \ {Gc} : act'[b] = act[b]
  BY DEF GcWakes, GcUnwinds, IInv, TypeOK, Actors
<1>2. CASE GcWakes
  BY <1>1, <1>2, MovesWith, NothingEnds DEF GcWakes
<1>3. CASE GcUnwinds
  <2>1. SessionsEnd
    BY <1>3, DownEnds, NothingEnds DEF GcUnwinds, IInv
  <2>2. CASE act[Gc].room = NoRoom
    <3>1. UNCHANGED <<rooms, registry>>
      BY <1>3, <2>2 DEF GcUnwinds
    <3>2. act[Gc].room \notin registry'
      BY <2>2, <3>1, NullAssumption DEF IInv, TypeOK
    <3>3. QED
      BY <1>1, <2>1, <3>1, <3>2, MovesWith, NothingEnds
  <2>3. CASE act[Gc].room # NoRoom
    <3>1. act[Gc].room \in RoomIds /\ RemoveRoom(act[Gc].room, "cancelled", FALSE)
      BY <1>1, <1>3, <2>3 DEF GcUnwinds, IInv, TypeOK, Actor
    <3>2. QED
      BY <1>1, <2>1, <3>1, RemoveMoves, MovesWith
  <2>4. QED
    BY <2>2, <2>3
<1>4. QED
  BY <1>2, <1>3

LEMMA StepMoves ==
  ASSUME IInv, Next
  PROVE  StatesMove
<1>1. \A t \in Tasks : t \in Actors
  BY DEF Actors
<1>2. ASSUME NEW a \in Actors, Continues(a) PROVE StatesMove
  BY <1>2, LookupsMove, CreatesMove, ReturnsMove, DeletesMove, SweepsMove DEF Continues
<1>3. CASE Environment
  BY <1>3, RoomCallsMove, SessionsMove DEF Environment
<1>4. QED
  BY <1>1, <1>2, <1>3, CallsMove, ReturnsMove, RoomCallsMove, GcMoves DEF Next

LEMMA StatesInit == Init => StatesInv
<1> SUFFICES ASSUME Init PROVE StatesInv
  OBVIOUS
<1>1. \A r \in RoomIds : rooms[r].state = "absent"
  BY DEF Init, AbsentRoom
<1>2. QED
  BY <1>1 DEF Init, StatesInv, DownUnlessLive, StoppingIsStopped

LEMMA StatesStutter ==
  ASSUME IInv, StatesInv, UNCHANGED vars
  PROVE  StatesInv'
BY DEF vars, StatesInv, DownUnlessLive, StoppingIsStopped, Stops, KernelUp

LEMMA StatesNext == IInv /\ IInv' /\ StatesInv /\ [Next]_vars => StatesInv'
<1>1. IInv' => TypeOK'
  BY DEF IInv
<1>2. QED
  BY <1>1, StepMoves, StatesStay, StatesStutter DEF StatesMove

(* A registered room whose state is not live is not one whose kernel serves *)
(* the notebook unnoticed, however calls overlap: see DownUnlessLive and    *)
(* StoppingIsStopped, which the guards of ensure_room and stop_runtime rely *)
(* on.                                                                      *)
THEOREM StatesTellTheTruth == Spec => []StatesInv
BY Inductive, StatesInit, StatesNext, PTL DEF Spec

-----------------------------------------------------------------------------
(* One call at a time.  While the server is open at most one actor is       *)
(* between its call and its return; once it is closing, only the shutdown   *)
(* and the cancelled garbage collector are, and that one holds no room.     *)

OpenCall(call) ==
  /\ call.pc \notin {"ended", "unwinding", "joining"}
  /\ call.pc = "sweep" => call.op = "gc"
  /\ call.pc = "deleting" => call.op \in {"stop", "gc"}

ShutsDown(call) == call.op = "shutdown" /\ call.pc \in {"joining", "sweep", "deleting"}

SerialInv ==
  /\ IsFiniteSet(InFlight)
  /\ ~closing => /\ \A a, b \in InFlight : a = b
                 /\ \A a \in Actors : OpenCall(act[a])
  /\ closing => /\ \A a, b \in Tasks \cap InFlight : a = b
                /\ \A a \in Tasks \cap InFlight : ShutsDown(act[a])
                /\ act[Gc].pc \in {"unwinding", "ended"} /\ act[Gc].room = NoRoom

(* A call may begin only if nothing is in flight. *)
LEMMA SerialGuard ==
  ASSUME MaxInFlight = 1, SerialInv, Cardinality(InFlight) < MaxInFlight
  PROVE  InFlight = {}
<1>1. IsFiniteSet(InFlight)
  BY DEF SerialInv
<1>2. Cardinality(InFlight) \in Nat
  BY <1>1, FS_CardinalityType
<1>3. Cardinality(InFlight) = 0
  BY <1>2
<1>4. QED
  BY <1>1, <1>3, FS_EmptySet

LEMMA InFlightWith ==
  ASSUME SerialInv, NEW a \in Actors, \A b \in Actors \ {a} : act'[b] = act[b]
  PROVE  InFlight' \subseteq InFlight \cup {a} /\ IsFiniteSet(InFlight')
<1>1. InFlight' \subseteq InFlight \cup {a}
  BY DEF InFlight
<1>2. IsFiniteSet(InFlight \cup {a})
  BY FS_AddElement DEF SerialInv
<1>3. QED
  BY <1>1, <1>2, FS_Subset

LEMMA SerialWhileOpen ==
  ASSUME SerialInv, ~closing, UNCHANGED closing, NEW a \in Actors, InFlight \subseteq {a},
         \A b \in Actors \ {a} : act'[b] = act[b], OpenCall(act'[a])
  PROVE  SerialInv'
<1>1. InFlight' \subseteq {a} /\ IsFiniteSet(InFlight')
  BY InFlightWith
<1>2. \A b \in Actors : OpenCall(act'[b])
  BY DEF SerialInv
<1>3. QED
  BY <1>1, <1>2 DEF SerialInv

LEMMA SerialWhileClosing ==
  ASSUME SerialInv, closing, UNCHANGED closing, NEW a \in Tasks \cap InFlight,
         \A b \in Actors \ {a} : act'[b] = act[b],
         ShutsDown(act'[a]) \/ act'[a].pc = "ended"
  PROVE  SerialInv'
<1>1. a \in Actors /\ a # Gc /\ Gc \in Actors
  BY ActorsAssumption DEF Actors
<1>2. InFlight' \subseteq InFlight /\ IsFiniteSet(InFlight')
  BY <1>1, InFlightWith
<1>3. ASSUME NEW b \in Tasks, b \in InFlight' PROVE ShutsDown(act'[b])
  BY <1>2, <1>3 DEF SerialInv, InFlight, ShutsDown, Actors
<1>4. act'[Gc] = act[Gc]
  BY <1>1
<1>5. QED
  BY <1>2, <1>3, <1>4 DEF SerialInv

(* What may be in flight, and who takes a step *)
LEMMA WhoSteps ==
  ASSUME SerialInv, NEW a \in InFlight
  PROVE  /\ a \in Actors
         /\ ~closing => InFlight \subseteq {a} /\ OpenCall(act[a])
         /\ closing => \/ a \in Tasks /\ ShutsDown(act[a])
                       \/ a = Gc /\ act[a].pc = "unwinding" /\ act[a].room = NoRoom
BY DEF SerialInv, InFlight, Actors

LEMMA SerialCalls ==
  ASSUME MaxInFlight = 1, IInv, SerialInv, NEW t \in Tasks, Calls(t)
  PROVE  SerialInv'
<1>1. CanCall(t)
  BY DEF Calls, EnsureCall, StatusCall, StopCall, ShutdownCall, CanOpen
<1>2. InFlight = {} /\ ~closing /\ t \in Actors /\ t # Gc /\ Gc \in Actors
  BY <1>1, SerialGuard, ActorsAssumption DEF CanCall, Actors
<1>3. act \in [Actors -> Actor]
  BY DEF IInv, TypeOK
<1>4. OpenCall(IdleActor)
  BY EndedFields DEF OpenCall
<1>5. ASSUME NEW n \in Notebooks, NEW k, NEW c, EnsureCall(t, n, k, c)
      PROVE  SerialInv'
  <2>1. /\ UNCHANGED closing /\ \A b \in Actors \ {t} : act'[b] = act[b]
        /\ act'[t].pc \in {"looking", "returned", "creating"}
    BY <1>2, <1>3, <1>5, NewCallFields DEF EnsureCall
  <2>2. QED
    BY <1>2, <2>1, SerialWhileOpen DEF OpenCall
<1>6. ASSUME NEW n \in Notebooks, StatusCall(t, n)
      PROVE  SerialInv'
  <2>1. /\ UNCHANGED closing /\ \A b \in Actors \ {t} : act'[b] = act[b]
        /\ act'[t].pc = "looking" \/ act'[t] = act[t]
    BY <1>2, <1>3, <1>6, NewCallFields DEF StatusCall, Plain
  <2>2. OpenCall(act[t])
    BY <1>2 DEF SerialInv
  <2>3. QED
    BY <1>2, <2>1, <2>2, SerialWhileOpen DEF OpenCall
<1>7. ASSUME NEW n \in Notebooks, StopCall(t, n)
      PROVE  SerialInv'
  <2>1. Plain("stop", n) \in Actor /\ Plain("stop", n).op = "stop"
    <3>1. Plain("stop", n) \in Actor
      BY NewActorTyped
    <3>2. QED
      BY <3>1 DEF Plain, Call, IdleActor
  <2>2. /\ UNCHANGED closing /\ \A b \in Actors \ {t} : act'[b] = act[b]
        /\ act'[t] \in {IdleActor, At(Plain("stop", n), "deleting", Current(n))}
    BY <1>2, <1>3, <1>7, <2>1 DEF StopCall, BeginStop
  <2>3. OpenCall(At(Plain("stop", n), "deleting", Current(n)))
    BY NewCallFields DEF Plain, OpenCall
  <2>4. QED
    BY <1>2, <1>4, <2>2, <2>3, SerialWhileOpen
<1>8. ASSUME ShutdownCall(t)
      PROVE  SerialInv'
  <2>1. /\ closing' /\ \A b \in Actors \ {t, Gc} : act'[b] = act[b]
        /\ act'[Gc] = Unwinding(act[Gc])
        /\ act'[t] = At(Plain("shutdown", NoNotebook), "joining", NoRoom)
    BY <1>2, <1>3, <1>8 DEF ShutdownCall
  <2>2. act'[t].pc = "joining" /\ act'[t].op = "shutdown"
    BY <2>1, NewCallFields DEF Plain
  <2>3. act[Gc].pc = "idle"
    BY <1>2 DEF SerialInv, OpenCall, InFlight
  <2>4. act[Gc].room = NoRoom
    BY <1>2, <2>3 DEF IInv, CallsConsistent, CallKnows
  <2>5. act'[Gc].pc = "unwinding" /\ act'[Gc].room = NoRoom
    BY <1>2, <1>3, <2>1, <2>4, CallFields
  <2>6. InFlight' \subseteq {t, Gc}
    BY <1>2, <2>1 DEF InFlight
  <2>7. IsFiniteSet(InFlight')
    <3>1. IsFiniteSet({t})
      BY FS_Singleton
    <3>2. IsFiniteSet({t} \cup {Gc})
      BY <3>1, FS_AddElement
    <3>3. InFlight' \subseteq {t} \cup {Gc}
      BY <2>6
    <3>4. QED
      BY <3>2, <3>3, FS_Subset
  <2>8. Tasks \cap InFlight' \subseteq {t}
    BY <2>6, ActorsAssumption
  <2>9. ShutsDown(act'[t])
    BY <2>2 DEF ShutsDown
  <2>10. QED
    BY <2>1, <2>5, <2>7, <2>8, <2>9 DEF SerialInv
<1>9. QED
  BY <1>5, <1>6, <1>7, <1>8 DEF Calls

LEMMA SerialContinues ==
  ASSUME IInv, SerialInv, NEW a \in Actors,
         Continues(a) \/ \E j \in Jobs : QueueReturns(a, j)
  PROVE  SerialInv'
<1>1. /\ UNCHANGED closing /\ act \in [Actors -> Actor] /\ act[a] \in Actor
      /\ a \in InFlight
      /\ \A b \in Actors \ {a} : act'[b] = act[b]
  <2>1. act \in [Actors -> Actor] /\ act[a] \in Actor
    BY DEF IInv, TypeOK
  <2>2. CASE \/ LookupFinds(a) \/ LookupMisses(a) \/ CreateReturns(a) \/ CreateFails(a)
             \/ OpenReturns(a) \/ \E j \in Jobs : QueueReturns(a, j)
    BY <2>1, <2>2 DEF LookupFinds, LookupMisses, CreateRoom, CreateReturns, CreateFails,
       OpenReturns, QueueReturns, Finish, Resume, InFlight
  <2>3. CASE \/ DeleteReturns(a) \/ DeleteFails(a) \/ SweepNext(a) \/ SweepEnds(a)
             \/ ShutdownSweeps(a)
    BY <2>1, <2>3 DEF DeleteReturns, DeleteFails, SweepNext, BeginStop, SweepEnds,
       ShutdownSweeps, InFlight
  <2>4. QED
    BY <2>1, <2>2, <2>3 DEF Continues
<1>2. OpenCall(IdleActor)
  BY EndedFields DEF OpenCall
<1>3. /\ ~closing => InFlight \subseteq {a} /\ OpenCall(act[a])
      /\ closing => \/ a \in Tasks /\ ShutsDown(act[a])
                    \/ a = Gc /\ act[a].pc = "unwinding" /\ act[a].room = NoRoom
  BY <1>1, WhoSteps
<1>4. CASE \/ LookupFinds(a) \/ LookupMisses(a) \/ CreateReturns(a) \/ CreateFails(a)
           \/ OpenReturns(a) \/ \E j \in Jobs : QueueReturns(a, j)
  <2>1. act[a].pc \in {"looking", "creating", "returned"}
    BY <1>4 DEF LookupFinds, LookupMisses, CreateReturns, CreateFails, OpenReturns, QueueReturns
  <2>2. ~closing
    BY <1>3, <2>1 DEF ShutsDown
  <2>3. act'[a] = IdleActor \/ act'[a].pc \in {"creating", "returned"}
    <3>1. \A r : \A pc \in {"creating", "returned"} : At(act[a], pc, r).pc = pc
      BY <1>1, CallFields
    <3>2. \/ act' = [act EXCEPT ![a] = IdleActor]
          \/ \E r : \E pc \in {"creating", "returned"} : act' = [act EXCEPT ![a] = At(act[a], pc, r)]
      BY <1>4 DEF LookupFinds, LookupMisses, CreateRoom, CreateReturns, CreateFails,
         OpenReturns, QueueReturns, Finish, Resume
    <3>3. QED
      BY <1>1, <3>1, <3>2
  <2>4. QED
    BY <1>1, <1>2, <1>3, <2>2, <2>3, SerialWhileOpen DEF OpenCall
<1>5. CASE DeleteReturns(a) \/ DeleteFails(a)
  <2>1. act[a].pc = "deleting" /\ act'[a] = AfterStop(a)
    BY <1>1, <1>5 DEF DeleteReturns, DeleteFails
  <2>2. act[a].op # "stop" => act'[a].pc = "sweep" /\ act'[a].op = act[a].op
    BY <1>1, <2>1, CallFields DEF AfterStop
  <2>3. act[a].op = "stop" => act'[a] = IdleActor
    BY <2>1 DEF AfterStop
  <2>4. CASE ~closing
    <3>1. OpenCall(act'[a])
      BY <1>2, <1>3, <2>1, <2>2, <2>3, <2>4 DEF OpenCall
    <3>2. QED
      BY <1>1, <1>3, <2>4, <3>1, SerialWhileOpen
  <2>5. CASE closing
    <3>1. a \in Tasks /\ ShutsDown(act[a])
      BY <1>3, <2>1, <2>5
    <3>2. ShutsDown(act'[a])
      BY <2>2, <3>1 DEF ShutsDown
    <3>3. QED
      BY <1>1, <2>5, <3>1, <3>2, SerialWhileClosing
  <2>6. QED
    BY <2>4, <2>5
<1>6. CASE SweepNext(a)
  <2>1. PICK r \in act[a].todo :
          LET left == Visiting(act[a], act[a].todo \ {r}) IN
          IF Stoppable(r)
          THEN BeginStop(a, left, r)
          ELSE /\ act' = [act EXCEPT ![a] = left]
               /\ UNCHANGED <<rooms, registry, nbRoom, records, removed>>
    BY <1>6 DEF SweepNext
  <2> DEFINE left == Visiting(act[a], act[a].todo \ {r})
  <2>2. act[a].pc = "sweep" /\ left \in Actor /\ left.pc = "sweep" /\ left.op = act[a].op
    <3>1. act[a].pc = "sweep" /\ act[a].todo \ {r} \in SUBSET RoomIds
      BY <1>1, <1>6 DEF SweepNext, Actor
    <3>2. left \in Actor
      BY <1>1, <3>1, ActorTyped
    <3>3. QED
      BY <1>1, <3>1, <3>2, CallFields
  <2>3. act'[a] \in {left, At(left, "deleting", r), IF left.op = "stop" THEN IdleActor ELSE left}
    BY <1>1, <2>1 DEF BeginStop
  <2>4. At(left, "deleting", r).pc = "deleting" /\ At(left, "deleting", r).op = left.op
    BY <2>2, CallFields
  <2> HIDE DEF left
  <2>5. CASE ~closing
    <3>1. act[a].op = "gc"
      BY <1>3, <2>2, <2>5 DEF OpenCall
    <3>2. OpenCall(act'[a])
      BY <2>2, <2>3, <2>4, <3>1 DEF OpenCall
    <3>3. QED
      BY <1>1, <1>3, <2>5, <3>2, SerialWhileOpen
  <2>6. CASE closing
    <3>1. a \in Tasks /\ ShutsDown(act[a])
      BY <1>3, <2>2, <2>6
    <3>2. ShutsDown(act'[a])
      BY <2>2, <2>3, <2>4, <3>1 DEF ShutsDown
    <3>3. QED
      BY <1>1, <2>6, <3>1, <3>2, SerialWhileClosing
  <2>7. QED
    BY <2>5, <2>6
<1>7. CASE SweepEnds(a)
  <2>1. act[a].pc = "sweep" /\ act'[a] = IF act[a].op = "gc" THEN IdleActor ELSE Ended
    BY <1>1, <1>7 DEF SweepEnds
  <2>2. CASE ~closing
    <3>1. act'[a] = IdleActor
      BY <1>3, <2>1, <2>2 DEF OpenCall
    <3>2. QED
      BY <1>1, <1>2, <1>3, <2>2, <3>1, SerialWhileOpen
  <2>3. CASE closing
    <3>1. a \in Tasks /\ act[a].op = "shutdown"
      BY <1>3, <2>1, <2>3 DEF ShutsDown
    <3>2. act'[a].pc = "ended"
      BY <2>1, <3>1, EndedFields
    <3>3. QED
      BY <1>1, <2>3, <3>1, <3>2, SerialWhileClosing
  <2>4. QED
    BY <2>2, <2>3
<1>8. CASE ShutdownSweeps(a)
  <2>1. act[a].pc = "joining" /\ act'[a] = Visiting(act[a], registry)
    BY <1>1, <1>8 DEF ShutdownSweeps
  <2>2. act'[a].pc = "sweep" /\ act'[a].op = act[a].op
    BY <1>1, <2>1, CallFields
  <2>3. closing /\ a \in Tasks /\ ShutsDown(act[a])
    BY <1>3, <2>1 DEF OpenCall
  <2>4. QED
    BY <1>1, <2>2, <2>3, SerialWhileClosing DEF ShutsDown
<1>9. QED
  BY <1>4, <1>5, <1>6, <1>7, <1>8 DEF Continues

LEMMA SerialGc ==
  ASSUME MaxInFlight = 1, IInv, SerialInv, GcWakes \/ GcUnwinds
  PROVE  SerialInv'
<1>1. /\ Gc \in Actors /\ act \in [Actors -> Actor] /\ UNCHANGED closing
      /\ \A b \in Actors \ {Gc} : act'[b] = act[b]
  BY DEF GcWakes, GcUnwinds, IInv, TypeOK, Actors
<1>2. CASE GcWakes
  <2> DEFINE call == Visiting(Plain("gc", NoNotebook), GcCandidates)
  <2>1. InFlight = {} /\ ~closing /\ act'[Gc] = call
    BY <1>1, <1>2, SerialGuard DEF GcWakes
  <2>2. call.pc = "sweep" /\ call.op = "gc"
    <3>1. Plain("gc", NoNotebook).op = "gc"
      BY NewCallFields DEF Plain
    <3>2. QED
      BY <3>1, NewActorTyped, CallFields
  <2> HIDE DEF call
  <2>3. OpenCall(act'[Gc])
    BY <2>1, <2>2 DEF OpenCall
  <2>4. QED
    BY <1>1, <2>1, <2>3, SerialWhileOpen
<1>3. CASE GcUnwinds
  <2>1. act[Gc].pc = "unwinding" /\ act'[Gc].pc = "ended" /\ act'[Gc].room = NoRoom
    BY <1>1, <1>3, EndedFields DEF GcUnwinds
  <2>2. closing
    BY <1>1, <2>1 DEF SerialInv, OpenCall
  <2>3. InFlight' \subseteq InFlight /\ IsFiniteSet(InFlight')
    <3>1. InFlight' \subseteq InFlight \cup {Gc} /\ IsFiniteSet(InFlight')
      BY <1>1, InFlightWith
    <3>2. Gc \notin InFlight'
      BY <2>1 DEF InFlight
    <3>3. QED
      BY <3>1, <3>2
  <2>4. \A t \in Tasks : act'[t] = act[t]
    BY <1>1, ActorsAssumption DEF Actors
  <2>5. QED
    BY <1>1, <2>1, <2>2, <2>3, <2>4 DEF SerialInv
<1>4. QED
  BY <1>2, <1>3

LEMMA SerialInit == Init => SerialInv
<1> SUFFICES ASSUME Init PROVE SerialInv
  OBVIOUS
<1>1. \A a \in Actors : act[a].pc = "idle"
  BY EndedFields DEF Init
<1>2. InFlight = {}
  BY <1>1 DEF InFlight
<1>3. QED
  BY <1>1, <1>2, FS_EmptySet DEF Init, SerialInv, OpenCall

LEMMA SerialNext ==
  ASSUME MaxInFlight = 1
  PROVE  IInv /\ SerialInv /\ [Next]_vars => SerialInv'
<1> SUFFICES ASSUME IInv, SerialInv, [Next]_vars PROVE SerialInv'
  OBVIOUS
<1>1. CASE UNCHANGED <<act, closing>>
  BY <1>1 DEF SerialInv, InFlight
<1>2. RoomCalls \/ Environment \/ UNCHANGED vars => UNCHANGED <<act, closing>>
  BY DEF RoomCalls, Environment, AttachClient, DetachClient, SetRuntimeState, TouchActivity,
     MarkJobFinished, TimePasses, SessionEnds, LabOpens, vars
<1>3. QED
  BY <1>1, <1>2, SerialCalls, SerialContinues, SerialGc DEF Next, Actors

-----------------------------------------------------------------------------
(* What shutdown leaves.  It stops the rooms that are registered when the   *)
(* garbage collector has been joined, and no room comes after that.         *)

(* Rooms keep what they hold, and none is registered. *)
Settled ==
  /\ registry' \subseteq registry
  /\ \A r \in RoomIds : rooms'[r].session = rooms[r].session

LEMMA WrittenSessions ==
  ASSUME NEW room \in Room
  PROVE  /\ \A x : InState(room, x).session = room.session
         /\ Stopped(room).session = room.session
         /\ Idled(room).session = room.session
         /\ \A c : Attached(room, c).session = room.session /\ Detached(room, c).session = room.session
         /\ \A J : WithJobs(room, J).session = room.session
BY DEF Room, InState, Stopped, Idled, Attached, Detached, WithJobs

LEMMA RoomCallsSettled ==
  ASSUME IInv, RoomCalls \/ Environment
  PROVE  Settled /\ UNCHANGED <<registry, nbRoom, act>>
<1>1. rooms \in [RoomIds -> Room]
  BY DEF IInv, TypeOK
<1>2. UNCHANGED <<registry, nbRoom, act>>
  BY DEF RoomCalls, Environment, AttachClient, DetachClient, SetRuntimeState, TouchActivity,
     MarkJobFinished, TimePasses, SessionEnds, LabOpens
<1>3. ASSUME NEW n \in Notebooks, NEW j \in Jobs, MarkJobFinished(n, j), NEW r \in RoomIds
      PROVE  rooms'[r].session = rooms[r].session
  <2> DEFINE q == Current(n)
             room == WithJobs(rooms[q], rooms[q].jobs \ {j})
  <2>1. rooms' = [rooms EXCEPT ![q] = room]
    BY <1>3 DEF MarkJobFinished
  <2>2. q = r => room.session = rooms[r].session
    BY <1>1, WrittenSessions
  <2> HIDE DEF q, room
  <2>3. QED
    BY <1>1, <2>1, <2>2
<1>4. ASSUME NEW q \in RoomIds, NEW r \in RoomIds,
             \/ \E c \in Clients : AttachClient(q, c) \/ DetachClient(q, c)
             \/ \E x \in LiveStates : SetRuntimeState(q, x)
             \/ TouchActivity(q)
             \/ TimePasses(q)
      PROVE  rooms'[r].session = rooms[r].session
  BY <1>1, <1>4, WrittenSessions DEF AttachClient, DetachClient, SetRuntimeState, TouchActivity,
     TimePasses
<1>5. (\E s \in SessionIds : SessionEnds(s)) \/ (\E n \in Notebooks, k \in KernelNames : LabOpens(n, k))
        => UNCHANGED rooms
  BY DEF SessionEnds, LabOpens
<1>6. \A r \in RoomIds : rooms'[r].session = rooms[r].session
  BY <1>3, <1>4, <1>5 DEF RoomCalls, Environment
<1>7. QED
  BY <1>2, <1>6 DEF Settled

LEMMA RemoveSettled ==
  ASSUME IInv, NEW r, NEW how, NEW notify, RemoveRoom(r, how, notify)
  PROVE  /\ Settled /\ registry' = registry \ {r}
         /\ nbRoom' = [nbRoom EXCEPT ![rooms[r].nb] = NoRoom]
<1>1. rooms \in [RoomIds -> Room]
  BY DEF IInv, TypeOK
<1>2. QED
  BY <1>1, WrittenSessions DEF RemoveRoom, StoppedRooms, Settled

LEMMA BeginStopSettled ==
  ASSUME IInv, NEW a, NEW actor, NEW r \in RoomIds, BeginStop(a, actor, r)
  PROVE  /\ Settled
         /\ \A n \in Notebooks : nbRoom'[n] \in {nbRoom[n], NoRoom}
<1>1. rooms \in [RoomIds -> Room] /\ nbRoom \in [Notebooks -> RoomIds \cup {NoRoom}]
  BY DEF IInv, TypeOK
<1>2. CASE rooms[r].session # NoSession
  BY <1>1, <1>2, WrittenSessions DEF BeginStop, Settled
<1>3. CASE rooms[r].session = NoSession
  BY <1>1, <1>3, RemoveSettled DEF BeginStop
<1>4. QED
  BY <1>2, <1>3

(* The actions that stop rooms *)
LEMMA StopsSettled ==
  ASSUME IInv, NEW a \in Actors,
         \/ DeleteReturns(a) \/ DeleteFails(a) \/ SweepNext(a) \/ SweepEnds(a)
         \/ ShutdownSweeps(a)
  PROVE  /\ Settled
         /\ \A n \in Notebooks : nbRoom'[n] \in {nbRoom[n], NoRoom}
<1>1. CASE DeleteReturns(a) \/ DeleteFails(a)
  <2>1. \E how : RemoveRoom(act[a].room, how, TRUE)
    BY <1>1 DEF DeleteReturns, DeleteFails
  <2>2. QED
    BY <2>1, RemoveSettled DEF IInv, TypeOK
<1>2. CASE SweepNext(a)
  <2>1. PICK r \in act[a].todo :
          LET left == Visiting(act[a], act[a].todo \ {r}) IN
          IF Stoppable(r)
          THEN BeginStop(a, left, r)
          ELSE /\ act' = [act EXCEPT ![a] = left]
               /\ UNCHANGED <<rooms, registry, nbRoom, records, removed>>
    BY <1>2 DEF SweepNext
  <2>2. r \in RoomIds
    BY DEF IInv, TypeOK, Actor
  <2>3. QED
    BY <2>1, <2>2, BeginStopSettled DEF Settled
<1>3. CASE SweepEnds(a) \/ ShutdownSweeps(a)
  BY <1>3 DEF SweepEnds, ShutdownSweeps, Settled
<1>4. QED
  BY <1>1, <1>2, <1>3

(* Who acts once the server is closing *)
LEMMA ClosingSteps ==
  ASSUME IInv, SerialInv, closing, Next
  PROVE  \/ RoomCalls \/ Environment
         \/ GcUnwinds /\ UNCHANGED <<rooms, registry, sessions>> /\ act' = [act EXCEPT ![Gc] = Ended]
         \/ \E t \in Tasks :
              /\ ShutsDown(act[t])
              /\ \A u \in Tasks \ {t} : u \notin InFlight
              /\ \/ DeleteReturns(t) \/ DeleteFails(t) \/ SweepNext(t) \/ SweepEnds(t)
                 \/ ShutdownSweeps(t)
<1>1. \A t \in Tasks : ~Calls(t)
  BY DEF Calls, EnsureCall, StatusCall, StopCall, ShutdownCall, CanOpen, CanCall
<1>2. ~GcWakes
  BY DEF GcWakes
<1>3. GcUnwinds => UNCHANGED <<rooms, registry, sessions>> /\ act' = [act EXCEPT ![Gc] = Ended]
  BY DEF GcUnwinds, SerialInv
<1>4. ASSUME NEW a \in Actors, Continues(a) \/ \E j \in Jobs : QueueReturns(a, j)
      PROVE  /\ a \in Tasks /\ ShutsDown(act[a]) /\ \A u \in Tasks \ {a} : u \notin InFlight
             /\ \/ DeleteReturns(a) \/ DeleteFails(a) \/ SweepNext(a) \/ SweepEnds(a)
                \/ ShutdownSweeps(a)
  <2>1. act[a].pc \in {"looking", "creating", "returned", "deleting", "sweep", "joining"}
    BY <1>4 DEF Continues, LookupFinds, LookupMisses, CreateReturns, CreateFails, OpenReturns,
       QueueReturns, DeleteReturns, DeleteFails, SweepNext, SweepEnds, ShutdownSweeps
  <2>2. a \in InFlight
    BY <2>1 DEF InFlight
  <2>3. a \in Tasks /\ ShutsDown(act[a])
    BY <2>1, <2>2, WhoSteps
  <2>4. \A u \in Tasks \ {a} : u \notin InFlight
    BY <2>2, <2>3 DEF SerialInv
  <2>5. act[a].pc \notin {"looking", "creating", "returned"}
    BY <2>3 DEF ShutsDown
  <2>6. QED
    BY <1>4, <2>3, <2>4, <2>5 DEF Continues, LookupFinds, LookupMisses, CreateReturns,
       CreateFails, OpenReturns, QueueReturns
<1>5. QED
  BY <1>1, <1>2, <1>3, <1>4 DEF Next, Actors

(* From then on rooms only leave, and kernels only end. *)
LEMMA ClosingShrinks ==
  ASSUME IInv, SerialInv, closing, Next
  PROVE  registry' \subseteq registry /\ \A r \in registry : KernelUp(r)' => KernelUp(r)
<1>1. Settled
  BY ClosingSteps, RoomCallsSettled, StopsSettled DEF Settled, Actors
<1>2. SessionsEnd
  BY StepMoves DEF StatesMove
<1>3. ASSUME NEW r \in RoomIds, KernelUp(r)' PROVE KernelUp(r)
  <2>1. rooms[r].session # NoSession /\ sessions'[rooms[r].session].status = "up"
    BY <1>1, <1>3 DEF KernelUp, Settled
  <2>2. rooms[r].session \in SessionIds /\ sessions[rooms[r].session].status # "unused"
    BY <2>1 DEF IInv, TypeOK, Room, UnusedSessionsUnknown
  <2>3. QED
    BY <1>2, <2>1, <2>2 DEF SessionsEnd, KernelUp
<1>4. QED
  BY <1>1, <1>3 DEF Settled, IInv, TypeOK

(* A shutdown has yet to stop the registered rooms whose kernel is up, and  *)
(* when it has ended there is none.                                         *)
SweptInv ==
  \A t \in Tasks :
    /\ act[t].pc = "ended" => \A r \in registry : ~KernelUp(r)
    /\ act[t].op = "shutdown" /\ act[t].pc \in {"sweep", "deleting"} =>
         \A r \in registry : KernelUp(r) =>
           r \in act[t].todo \/ (act[t].pc = "deleting" /\ act[t].room = r)

(* A room that stop_runtime passes over has no kernel, or has left. *)
LEMMA PassedOver ==
  ASSUME IInv, StatesInv, SerialInv, closing, NEW t \in Tasks, act[t].pc = "sweep",
         NEW r \in registry, ~Stoppable(r)
  PROVE  ~KernelUp(r)
<1>1. r \in RoomIds /\ rooms[r].state \in {"stopped", "stopping"}
  BY DEF Stoppable, IInv, TypeOK
<1>2. rooms[r].state # "stopping"
  <2> SUFFICES ASSUME rooms[r].state = "stopping" PROVE FALSE
    OBVIOUS
  <2>1. PICK a \in Actors : Stops(a, r)
    BY DEF StatesInv, StoppingIsStopped
  <2>2. a \in InFlight /\ t \in InFlight
    BY <2>1 DEF Stops, InFlight, Actors
  <2>3. a # Gc
    BY <1>1, <2>1, NullAssumption DEF Stops, SerialInv
  <2>4. a = t
    BY <2>2, <2>3 DEF SerialInv, Actors
  <2>5. QED
    BY <2>1, <2>4 DEF Stops
<1>3. QED
  BY <1>1, <1>2 DEF StatesInv, DownUnlessLive

(* A step of the shutdown itself *)
LEMMA SweptStep ==
  ASSUME IInv, StatesInv, SerialInv, SweptInv, closing, NEW t \in Tasks, ShutsDown(act[t]),
         \/ DeleteReturns(t) \/ DeleteFails(t) \/ SweepNext(t) \/ SweepEnds(t)
         \/ ShutdownSweeps(t),
         registry' \subseteq registry, \A r \in registry : KernelUp(r)' => KernelUp(r)
  PROVE  /\ act'[t].pc = "ended" => \A r \in registry' : ~KernelUp(r)'
         /\ act'[t].pc \in {"sweep", "deleting"} =>
              \A r \in registry' : KernelUp(r)' =>
                r \in act'[t].todo \/ (act'[t].pc = "deleting" /\ act'[t].room = r)
         /\ \A b \in Actors \ {t} : act'[b] = act[b]
<1>1. /\ t \in Actors /\ act \in [Actors -> Actor] /\ act[t] \in Actor
      /\ registry \subseteq RoomIds
  BY DEF Actors, IInv, TypeOK
<1>2. act[t].pc \in {"sweep", "deleting"} =>
        \A r \in registry : KernelUp(r) =>
          r \in act[t].todo \/ (act[t].pc = "deleting" /\ act[t].room = r)
  BY DEF SweptInv, ShutsDown
<1>3. CASE DeleteReturns(t) \/ DeleteFails(t)
  <2>1. /\ act[t].pc = "deleting" /\ act[t].op # "stop" /\ registry' = registry \ {act[t].room}
        /\ act' = [act EXCEPT ![t] = At(act[t], "sweep", NoRoom)]
    BY <1>3 DEF DeleteReturns, DeleteFails, RemoveRoom, AfterStop, ShutsDown
  <2>2. At(act[t], "sweep", NoRoom).todo = act[t].todo /\ At(act[t], "sweep", NoRoom).pc = "sweep"
    BY <1>1 DEF At, Actor
  <2>3. QED
    BY <1>1, <1>2, <2>1, <2>2
<1>4. CASE SweepNext(t)
  <2>1. PICK r \in act[t].todo :
          LET left == Visiting(act[t], act[t].todo \ {r}) IN
          IF Stoppable(r)
          THEN BeginStop(t, left, r)
          ELSE /\ act' = [act EXCEPT ![t] = left]
               /\ UNCHANGED <<rooms, registry, nbRoom, records, removed>>
    BY <1>4 DEF SweepNext
  <2> DEFINE left == Visiting(act[t], act[t].todo \ {r})
  <2>2. /\ act[t].pc = "sweep" /\ left \in Actor /\ left.pc = "sweep" /\ left.op = act[t].op
        /\ left.todo = act[t].todo \ {r}
    <3>1. act[t].pc = "sweep" /\ act[t].todo \ {r} \in SUBSET RoomIds
      BY <1>1, <1>4 DEF SweepNext, Actor
    <3>2. left \in Actor
      BY <1>1, <3>1, ActorTyped
    <3>3. left.todo = act[t].todo \ {r}
      BY <1>1 DEF Visiting, Actor
    <3>4. left.pc = "sweep" /\ left.op = act[t].op
      BY <1>1, CallFields
    <3>5. QED
      BY <3>1, <3>2, <3>3, <3>4
  <2>3. CASE Stoppable(r) /\ rooms[r].session # NoSession
    <3>1. act' = [act EXCEPT ![t] = At(left, "deleting", r)]
      BY <2>1, <2>3 DEF BeginStop
    <3> HIDE DEF left
    <3>2. At(left, "deleting", r).todo = left.todo /\ At(left, "deleting", r).pc = "deleting"
          /\ At(left, "deleting", r).room = r
      BY <2>2 DEF At, Actor
    <3>3. QED
      BY <1>1, <1>2, <2>2, <3>1, <3>2
  <2>4. CASE Stoppable(r) /\ rooms[r].session = NoSession
    <3>1. act[t].op # "stop"
      BY DEF ShutsDown
    <3>2. act' = [act EXCEPT ![t] = left] /\ registry' = registry \ {r}
      BY <2>1, <2>2, <2>4, <3>1 DEF BeginStop, RemoveRoom
    <3> HIDE DEF left
    <3>3. QED
      BY <1>1, <1>2, <2>2, <3>2
  <2>5. CASE ~Stoppable(r)
    <3>1. act' = [act EXCEPT ![t] = left]
      BY <2>1, <2>5
    <3>2. r \in registry => ~KernelUp(r)
      BY <2>2, <2>5, PassedOver
    <3> HIDE DEF left
    <3>3. QED
      BY <1>1, <1>2, <2>2, <3>1, <3>2
  <2>6. QED
    BY <2>3, <2>4, <2>5
<1>5. CASE SweepEnds(t)
  <2>1. act[t].pc = "sweep" /\ act[t].todo = {} /\ act' = [act EXCEPT ![t] = Ended]
    BY <1>5 DEF SweepEnds, ShutsDown
  <2>2. QED
    BY <1>1, <1>2, <2>1, EndedFields
<1>6. CASE ShutdownSweeps(t)
  <2>1. act' = [act EXCEPT ![t] = Visiting(act[t], registry)]
    BY <1>6 DEF ShutdownSweeps
  <2>2. Visiting(act[t], registry).pc = "sweep" /\ Visiting(act[t], registry).todo = registry
    BY <1>1 DEF Visiting, Actor
  <2>3. QED
    BY <1>1, <2>1, <2>2
<1>7. QED
  BY <1>3, <1>4, <1>5, <1>6

LEMMA SweptInit == Init => SweptInv
BY EndedFields DEF Init, SweptInv, Actors

LEMMA SweptStutters ==
  ASSUME SweptInv, UNCHANGED vars
  PROVE  SweptInv'
BY DEF vars, SweptInv, KernelUp

LEMMA SweptNext ==
  ASSUME MaxInFlight = 1
  PROVE  IInv /\ StatesInv /\ SerialInv /\ SerialInv' /\ SweptInv /\ [Next]_vars => SweptInv'
<1> SUFFICES ASSUME IInv, StatesInv, SerialInv, SerialInv', SweptInv, Next
             PROVE  SweptInv'
  BY SweptStutters
<1>1. CASE ~closing'
  BY <1>1 DEF SerialInv, OpenCall, SweptInv, Actors
<1>2. CASE closing' /\ ~closing
  <2>1. PICK t \in Tasks : ShutdownCall(t)
    <3>1. UNCHANGED closing \/ \E t \in Tasks : ShutdownCall(t)
      <4>1. ASSUME NEW t \in Tasks, Calls(t) PROVE UNCHANGED closing \/ ShutdownCall(t)
        BY <4>1 DEF Calls, EnsureCall, StatusCall, StopCall
      <4>2. ASSUME NEW a, Continues(a) \/ \E j \in Jobs : QueueReturns(a, j)
            PROVE  UNCHANGED closing
        BY <4>2 DEF Continues, LookupFinds, LookupMisses, CreateReturns, CreateFails,
           OpenReturns, QueueReturns, DeleteReturns, DeleteFails, SweepNext, SweepEnds,
           ShutdownSweeps
      <4>3. RoomCalls \/ Environment \/ GcWakes \/ GcUnwinds => UNCHANGED closing
        BY DEF RoomCalls, Environment, AttachClient, DetachClient, SetRuntimeState,
           TouchActivity, MarkJobFinished, TimePasses, SessionEnds, LabOpens, GcWakes, GcUnwinds
      <4>4. QED
        BY <4>1, <4>2, <4>3 DEF Next
    <3>2. QED
      BY <1>2, <3>1
  <2>2. InFlight = {} /\ act \in [Actors -> Actor] /\ t \in Actors /\ t # Gc
    BY <2>1, SerialGuard, ActorsAssumption DEF ShutdownCall, CanCall, IInv, TypeOK, Actors
  <2>3. \A u \in Tasks : act[u].pc = "idle"
    BY <1>2, <2>2 DEF SerialInv, OpenCall, InFlight, Actors
  <2>4. /\ act'[t].pc = "joining"
        /\ \A u \in Tasks \ {t} : act'[u] = act[u]
    BY <2>1, <2>2, NewCallFields, ActorsAssumption DEF ShutdownCall, Plain, Actors
  <2>5. QED
    BY <2>3, <2>4 DEF SweptInv
<1>3. CASE closing
  <2>1. registry' \subseteq registry /\ \A r \in registry : KernelUp(r)' => KernelUp(r)
    BY <1>3, ClosingShrinks
  <2>2. CASE \A t \in Tasks : act'[t] = act[t]
    BY <2>1, <2>2 DEF SweptInv
  <2>3. CASE RoomCalls \/ Environment
    BY <2>2, <2>3, RoomCallsSettled
  <2>4. CASE act' = [act EXCEPT ![Gc] = Ended]
    BY <2>2, <2>4, ActorsAssumption DEF IInv, TypeOK, Actors
  <2>5. ASSUME NEW t \in Tasks, ShutsDown(act[t]), \A u \in Tasks \ {t} : u \notin InFlight,
               \/ DeleteReturns(t) \/ DeleteFails(t) \/ SweepNext(t) \/ SweepEnds(t)
               \/ ShutdownSweeps(t)
        PROVE  SweptInv'
    <3>1. /\ act'[t].pc = "ended" => \A r \in registry' : ~KernelUp(r)'
          /\ act'[t].pc \in {"sweep", "deleting"} =>
               \A r \in registry' : KernelUp(r)' =>
                 r \in act'[t].todo \/ (act'[t].pc = "deleting" /\ act'[t].room = r)
          /\ \A b \in Actors \ {t} : act'[b] = act[b]
      BY <1>3, <2>1, <2>5, SweptStep
    <3>2. \A u \in Tasks \ {t} : act'[u] = act[u] /\ act[u].pc \in {"idle", "ended"}
      BY <2>5, <3>1 DEF InFlight, Actors
    <3>3. QED
      BY <2>1, <3>1, <3>2 DEF SweptInv
  <2>6. QED
    BY <1>3, <2>3, <2>4, <2>5, ClosingSteps
<1>4. QED
  BY <1>1, <1>2, <1>3

LEMMA SerialAlways ==
  ASSUME MaxInFlight = 1
  PROVE  Spec => []SerialInv
BY Inductive, SerialInit, SerialNext, PTL DEF Spec

(* When calls do not overlap, a shutdown leaves no registered room with its *)
(* kernel up, whatever dies, idles or answers with an error on the way.     *)
THEOREM ShutdownIsClean ==
  ASSUME MaxInFlight = 1
  PROVE  Spec => []ShutdownLeavesNoKernel
<1>1. Spec => []SweptInv
  BY SerialAlways, Inductive, StatesTellTheTruth, SweptInit, SweptNext, PTL DEF Spec
<1>2. SweptInv => ShutdownLeavesNoKernel
  BY DEF SweptInv, ShutdownLeavesNoKernel
<1>3. QED
  BY <1>1, <1>2, PTL

-----------------------------------------------------------------------------
(* One kernel per notebook, when calls do not overlap and JupyterLab starts *)
(* no kernel of its own.                                                    *)

(* The kernel that serves a notebook is the one its current room holds; a   *)
(* call that looks for a session has no room for its notebook, and one that *)
(* creates a session has a room for a notebook that no kernel serves.       *)
ServesInv ==
  /\ OneKernelPerNotebook
  /\ \A n \in Notebooks : nbRoom[n] # NoRoom =>
       \A s \in SessionsUp(n) : s = rooms[nbRoom[n]].session
  /\ \A a \in Actors, n \in Notebooks : act[a].nb = n =>
       /\ act[a].pc = "looking" => nbRoom[n] = NoRoom
       /\ act[a].pc = "creating" => SessionsUp(n) = {} /\ nbRoom[n] = act[a].room

(* No session starts. *)
SessionsRest == UNCHANGED sessions \/ \E s \in SessionIds : sessions' = WithSessionDown(s)

LEMMA RestingSessions ==
  ASSUME TypeOK, SessionsRest
  PROVE  \A n : SessionsUp(n)' \subseteq SessionsUp(n)
<1>1. CASE UNCHANGED sessions
  BY <1>1 DEF SessionsUp
<1>2. ASSUME NEW s \in SessionIds, sessions' = WithSessionDown(s)
      PROVE  \A n : SessionsUp(n)' \subseteq SessionsUp(n)
  <2>1. \A q \in SessionIds : sessions'[q] = sessions[q] \/ sessions'[q].status = "down"
    BY <1>2 DEF TypeOK, Session, WithSessionDown, Down
  <2>2. QED
    BY <2>1 DEF SessionsUp
<1>3. QED
  BY <1>1, <1>2 DEF SessionsRest

(* A step that starts no session and gives no notebook a room *)
LEMMA QuietServes ==
  ASSUME IInv, ServesInv, SessionsRest,
         \A n \in Notebooks : nbRoom'[n] \in {nbRoom[n], NoRoom},
         \A r \in RoomIds : rooms'[r].session = rooms[r].session,
         \A b \in Actors : act'[b].pc \in {"looking", "creating"} =>
           act'[b] = act[b] /\ UNCHANGED nbRoom
  PROVE  ServesInv'
<1>1. \A n : SessionsUp(n)' \subseteq SessionsUp(n)
  BY RestingSessions DEF IInv
<1>2. OneKernelPerNotebook'
  BY <1>1 DEF ServesInv, OneKernelPerNotebook
<1>3. ASSUME NEW n \in Notebooks, nbRoom'[n] # NoRoom, NEW s \in SessionsUp(n)'
      PROVE  s = rooms'[nbRoom'[n]].session
  <2>1. nbRoom'[n] = nbRoom[n] /\ nbRoom[n] \in RoomIds
    BY <1>3 DEF IInv, TypeOK
  <2>2. QED
    BY <1>1, <1>3, <2>1 DEF ServesInv
<1>4. ASSUME NEW a \in Actors, NEW n \in Notebooks, act'[a].nb = n
      PROVE  /\ act'[a].pc = "looking" => nbRoom'[n] = NoRoom
             /\ act'[a].pc = "creating" => SessionsUp(n)' = {} /\ nbRoom'[n] = act'[a].room
  BY <1>1, <1>4 DEF ServesInv
<1>5. QED
  BY <1>2, <1>3, <1>4 DEF ServesInv

(* A room is registered that holds whatever serves the notebook. *)
LEMMA RegisterServes ==
  ASSUME IInv, ServesInv, UNCHANGED sessions, NEW n \in Notebooks, NEW q \in RoomIds \ registry,
         nbRoom' = [nbRoom EXCEPT ![n] = q],
         \A r \in RoomIds \ {q} : rooms'[r].session = rooms[r].session,
         \A s \in SessionsUp(n) : s = rooms'[q].session,
         \A b \in Actors : /\ act'[b].pc # "looking"
                           /\ act'[b].pc = "creating" =>
                                act'[b].nb = n /\ act'[b].room = q /\ SessionsUp(n) = {}
  PROVE  ServesInv'
<1>1. \A m : SessionsUp(m)' = SessionsUp(m)
  BY DEF SessionsUp
<1>2. OneKernelPerNotebook'
  BY <1>1 DEF ServesInv, OneKernelPerNotebook
<1>3. ASSUME NEW m \in Notebooks, nbRoom'[m] # NoRoom, NEW s \in SessionsUp(m)'
      PROVE  s = rooms'[nbRoom'[m]].session
  <2>1. CASE m = n
    BY <1>1, <1>3, <2>1 DEF IInv, TypeOK
  <2>2. CASE m # n
    <3>1. nbRoom'[m] = nbRoom[m] /\ nbRoom[m] \in RoomIds \ {q}
      BY <1>3, <2>2 DEF IInv, TypeOK, MapConsistent
    <3>2. QED
      BY <1>1, <1>3, <3>1 DEF ServesInv
  <2>3. QED
    BY <2>1, <2>2
<1>4. \A a \in Actors, m \in Notebooks : act'[a].nb = m /\ act'[a].pc = "creating" =>
        SessionsUp(m)' = {} /\ nbRoom'[m] = act'[a].room
  BY <1>1 DEF IInv, TypeOK
<1>5. QED
  BY <1>2, <1>3, <1>4 DEF ServesInv

(* Everybody is at rest when a call begins. *)
LEMMA CallAlone ==
  ASSUME MaxInFlight = 1, IInv, SerialInv, NEW t \in Tasks, Calls(t) \/ GcWakes
  PROVE  InFlight = {} /\ \A a \in Actors : act[a].pc = "idle"
<1>1. Cardinality(InFlight) < MaxInFlight /\ ~closing
  BY DEF Calls, EnsureCall, StatusCall, StopCall, ShutdownCall, CanOpen, CanCall, GcWakes
<1>2. InFlight = {}
  BY <1>1, SerialGuard
<1>3. QED
  BY <1>1, <1>2 DEF SerialInv, OpenCall, InFlight

LEMMA EnsureServes ==
  ASSUME IInv, StatesInv, ServesInv, InFlight = {}, \A a \in Actors : act[a].pc = "idle",
         NEW t \in Tasks, NEW n \in Notebooks, NEW k, NEW c, EnsureCall(t, n, k, c)
  PROVE  ServesInv'
<1> DEFINE r == Current(n)
           start == Call("ensure", n, k, c)
<1>1. /\ t \in Actors /\ UNCHANGED sessions /\ rooms \in [RoomIds -> Room]
      /\ act \in [Actors -> Actor] /\ registry \subseteq RoomIds
  BY DEF EnsureCall, Actors, IInv, TypeOK
<1>2. SessionsRest
  BY <1>1 DEF SessionsRest
<1>3. CASE r = NoRoom
  <2>1. UNCHANGED <<rooms, nbRoom>> /\ act' = [act EXCEPT ![t] = At(start, "looking", NoRoom)]
    BY <1>3 DEF EnsureCall
  <2>2. At(start, "looking", NoRoom).pc = "looking" /\ At(start, "looking", NoRoom).nb = n
    BY NewCallFields
  <2>3. nbRoom[n] = NoRoom
    BY <1>3 DEF Current, IInv, MapConsistent
  <2>4. \A m : SessionsUp(m)' = SessionsUp(m)
    BY <1>1 DEF SessionsUp
  <2> HIDE DEF start
  <2>5. \A a \in Actors : /\ act'[a].pc = "looking" => act'[a].nb = n
                          /\ act'[a].pc # "creating"
    BY <1>1, <2>1, <2>2
  <2>6. OneKernelPerNotebook'
    BY <2>4 DEF ServesInv, OneKernelPerNotebook
  <2>7. QED
    BY <2>1, <2>3, <2>4, <2>5, <2>6 DEF ServesInv
<1>4. CASE r # NoRoom /\ Refreshed(r).state \in LiveStates
  <2>1. /\ rooms' = [rooms EXCEPT ![r] = InState(rooms[r], rooms[r].state)] /\ UNCHANGED nbRoom
        /\ act' = [act EXCEPT ![t] = At(start, "returned", r)]
    BY <1>4 DEF EnsureCall
  <2>2. At(start, "returned", r).pc = "returned" /\ rooms[r] \in Room
    BY <1>1, <1>4, NewCallFields, RegisteredFacts
  <2> HIDE DEF start, r
  <2>3. \A q \in RoomIds : rooms'[q].session = rooms[q].session
    BY <1>1, <2>1, <2>2, WrittenSessions
  <2>4. \A b \in Actors : act'[b].pc \notin {"looking", "creating"}
    BY <1>1, <2>1, <2>2
  <2>5. QED
    BY <1>2, <2>1, <2>3, <2>4, QuietServes
<1>5. CASE r # NoRoom /\ Refreshed(r).state \notin LiveStates
  <2>1. /\ rooms' = [rooms EXCEPT ![r] = Refreshed(r), ![NextRoom] = NewRoom(n)]
        /\ nbRoom' = [nbRoom EXCEPT ![n] = NextRoom] /\ FreshRooms # {}
        /\ act' = [act EXCEPT ![t] = At(start, "creating", NextRoom)]
    BY <1>5 DEF EnsureCall
  <2>2. /\ r \in registry /\ r \in RoomIds /\ r # NextRoom /\ NextRoom \in RoomIds \ registry
        /\ rooms[r].state # "absent" /\ r = nbRoom[n]
    BY <1>5, <2>1, RegisteredFacts, FreshRoomFacts DEF Current
  <2>3. ~KernelUp(r)
    <3> SUFFICES ASSUME KernelUp(r) PROVE FALSE
      OBVIOUS
    <3>1. rooms[r].state \notin LiveStates
      BY <1>5 DEF Refreshed
    <3>2. rooms[r].state \in RuntimeState
      BY <1>1, <2>2 DEF Room
    <3>3. rooms[r].state \in {"starting", "stopping", "stopped", "failed"}
      BY <3>1, <3>2 DEF RuntimeState, LiveStates
    <3>4. rooms[r].state # "stopping"
      BY <2>2 DEF StatesInv, StoppingIsStopped, Stops
    <3>5. QED
      BY <2>2, <3>3, <3>4 DEF StatesInv, DownUnlessLive, KernelUp
  <2>4. SessionsUp(n) = {}
    <3>1. \A s \in SessionsUp(n) : s = rooms[r].session /\ s \in SessionIds /\ sessions[s].status = "up"
      BY <1>5, <2>2 DEF ServesInv, SessionsUp
    <3>2. QED
      BY <2>3, <3>1, NullAssumption DEF KernelUp
  <2>5. At(start, "creating", NextRoom).pc = "creating" /\ At(start, "creating", NextRoom).nb = n
        /\ At(start, "creating", NextRoom).room = NextRoom
    BY NewCallFields
  <2>6. Refreshed(r).session = rooms[r].session
    BY <2>2, RefreshedFacts DEF SameRuntime
  <2> HIDE DEF start, r
  <2>7. \A q \in RoomIds \ {NextRoom} : rooms'[q].session = rooms[q].session
    BY <1>1, <2>1, <2>2, <2>6
  <2>8. \A b \in Actors : /\ act'[b].pc # "looking"
                          /\ act'[b].pc = "creating" => act'[b].nb = n /\ act'[b].room = NextRoom
    BY <1>1, <2>1, <2>5
  <2>9. QED
    BY <1>1, <2>1, <2>2, <2>4, <2>7, <2>8, RegisterServes
<1>6. QED
  BY <1>3, <1>4, <1>5 DEF EnsureCall

LEMMA CallsServe ==
  ASSUME MaxInFlight = 1, IInv, StatesInv, SerialInv, ServesInv, NEW t \in Tasks, Calls(t)
  PROVE  ServesInv' /\ UNCHANGED sessions
<1>1. /\ InFlight = {} /\ (\A a \in Actors : act[a].pc = "idle") /\ t \in Actors
      /\ act \in [Actors -> Actor] /\ rooms \in [RoomIds -> Room]
      /\ nbRoom \in [Notebooks -> RoomIds \cup {NoRoom}]
  BY CallAlone DEF Actors, IInv, TypeOK
<1>2. UNCHANGED sessions
  BY DEF Calls, EnsureCall, StatusCall, StopCall, ShutdownCall
<1>3. SessionsRest
  BY <1>2 DEF SessionsRest
<1>4. ASSUME NEW n \in Notebooks, StatusCall(t, n)
      PROVE  ServesInv'
  <2> DEFINE r == Current(n)
             call == At(Plain("status", n), "looking", NoRoom)
  <2>1. UNCHANGED nbRoom
    BY <1>4 DEF StatusCall
  <2>2. CASE r = NoRoom
    <3>1. UNCHANGED rooms /\ act' = [act EXCEPT ![t] = call]
      BY <1>4, <2>2 DEF StatusCall
    <3>2. call.pc = "looking" /\ call.nb = n
      BY NewCallFields DEF Plain
    <3>3. nbRoom[n] = NoRoom
      BY <2>2 DEF Current, IInv, MapConsistent
    <3>4. \A m : SessionsUp(m)' = SessionsUp(m)
      BY <1>2 DEF SessionsUp
    <3> HIDE DEF call
    <3>5. \A a \in Actors : /\ act'[a].pc = "looking" => act'[a].nb = n
                            /\ act'[a].pc # "creating"
      BY <1>1, <3>1, <3>2
    <3>6. OneKernelPerNotebook'
      BY <3>4 DEF ServesInv, OneKernelPerNotebook
    <3>7. QED
      BY <2>1, <3>1, <3>3, <3>4, <3>5, <3>6 DEF ServesInv
  <2>3. CASE r # NoRoom
    <3>1. rooms' = [rooms EXCEPT ![r] = Refreshed(r)] /\ UNCHANGED act
      BY <1>4, <2>3 DEF StatusCall
    <3>2. r \in RoomIds /\ Refreshed(r).session = rooms[r].session
      BY <2>3, RegisteredFacts, RefreshedFacts DEF SameRuntime
    <3> HIDE DEF r
    <3>3. \A q \in RoomIds : rooms'[q].session = rooms[q].session
      BY <1>1, <3>1, <3>2
    <3>4. QED
      BY <1>1, <1>3, <2>1, <3>1, <3>3, QuietServes
  <2>4. QED
    BY <2>2, <2>3
<1>5. ASSUME NEW n \in Notebooks, StopCall(t, n)
      PROVE  ServesInv'
  <2>1. Current(n) \in RoomIds /\ BeginStop(t, Plain("stop", n), Current(n))
    BY <1>5, RegisteredFacts DEF StopCall
  <2>2. Settled /\ \A m \in Notebooks : nbRoom'[m] \in {nbRoom[m], NoRoom}
    BY <2>1, BeginStopSettled
  <2>3. Plain("stop", n).op = "stop"
    <3>1. Plain("stop", n) \in Actor
      BY NewActorTyped
    <3>2. QED
      BY <3>1 DEF Plain, Call, IdleActor
  <2>4. /\ \A b \in Actors \ {t} : act'[b] = act[b]
        /\ act'[t] \in {IdleActor, At(Plain("stop", n), "deleting", Current(n))}
    BY <1>1, <2>1, <2>3 DEF BeginStop
  <2>5. IdleActor.pc = "idle" /\ At(Plain("stop", n), "deleting", Current(n)).pc = "deleting"
    BY EndedFields, NewCallFields DEF Plain
  <2>6. \A b \in Actors : act'[b].pc \notin {"looking", "creating"}
    BY <1>1, <2>4, <2>5
  <2>7. QED
    BY <1>3, <2>2, <2>6, QuietServes DEF Settled
<1>6. ASSUME ShutdownCall(t)
      PROVE  ServesInv'
  <2>1. /\ UNCHANGED <<rooms, nbRoom>>
        /\ \A b \in Actors \ {t, Gc} : act'[b] = act[b]
        /\ act'[Gc] = Unwinding(act[Gc]) /\ act[Gc] \in Actor
        /\ act'[t] = At(Plain("shutdown", NoNotebook), "joining", NoRoom)
    BY <1>1, <1>6, ActorsAssumption DEF ShutdownCall, Actors
  <2>2. act'[t].pc = "joining"
    BY <2>1, NewCallFields DEF Plain
  <2>3. act'[Gc].pc = "unwinding"
    BY <2>1, CallFields
  <2>4. \A b \in Actors : act'[b].pc \notin {"looking", "creating"}
    BY <1>1, <2>1, <2>2, <2>3
  <2>5. QED
    BY <1>3, <2>1, <2>4, QuietServes
<1>7. QED
  BY <1>1, <1>2, <1>4, <1>5, <1>6, EnsureServes DEF Calls

(* Nobody else is opening the notebook. *)
LEMMA OpensAlone ==
  ASSUME SerialInv, NEW a \in InFlight
  PROVE  \A b \in Actors \ {a} : act[b].pc \notin {"looking", "creating"}
<1> SUFFICES ASSUME NEW b \in Actors \ {a}, act[b].pc \in {"looking", "creating"} PROVE FALSE
  OBVIOUS
<1>1. b \in InFlight
  BY DEF InFlight
<1>2. CASE ~closing
  BY <1>1, <1>2, WhoSteps
<1>3. CASE closing
  BY <1>1, <1>3, WhoSteps DEF ShutsDown
<1>4. QED
  BY <1>2, <1>3

LEMMA LookupsServe ==
  ASSUME IInv, SerialInv, ServesInv, NEW a \in Actors, LookupFinds(a) \/ LookupMisses(a)
  PROVE  ServesInv' /\ UNCHANGED sessions
<1> DEFINE n == act[a].nb
<1>1. /\ act[a].pc = "looking" /\ a \in InFlight /\ UNCHANGED sessions /\ n \in Notebooks
      /\ act \in [Actors -> Actor] /\ act[a] \in Actor /\ rooms \in [RoomIds -> Room]
      /\ \A b \in Actors \ {a} : act'[b] = act[b]
  BY LookingFacts DEF LookupFinds, LookupMisses, CreateRoom, Resume, Finish, InFlight, IInv, TypeOK
<1>2. \A b \in Actors \ {a} : act'[b].pc \notin {"looking", "creating"}
  BY <1>1, OpensAlone
<1>3. IdleActor.pc = "idle"
  BY EndedFields
<1>4. CASE LookupFinds(a)
  <2>1. PICK s \in SessionsUp(n) :
          /\ Register(NextRoom, AdoptedRoom(n, s)) /\ FreshRooms # {}
          /\ act'[a] \in {IdleActor, At(act[a], "returned", NextRoom)}
    BY <1>1, <1>4 DEF LookupFinds, Finish, Resume
  <2>2. /\ AdoptedRoom(n, s).session = s /\ AdoptedRoom(n, s).nb = n
        /\ At(act[a], "returned", NextRoom).pc = "returned"
    BY <1>1, CallFields DEF AdoptedRoom, AbsentRoom
  <2>3. NextRoom \in RoomIds \ registry
    BY <2>1, FreshRoomFacts
  <2> DEFINE room == AdoptedRoom(n, s)
  <2>4. rooms' = [rooms EXCEPT ![NextRoom] = room] /\ nbRoom' = [nbRoom EXCEPT ![n] = NextRoom]
    BY <2>1, <2>2 DEF Register
  <2>5. room.session = s
    BY <2>2
  <2> HIDE DEF room, n
  <2>6. /\ \A r \in RoomIds \ {NextRoom} : rooms'[r].session = rooms[r].session
        /\ rooms'[NextRoom].session = s
    BY <1>1, <2>3, <2>4, <2>5
  <2>7. \A q \in SessionsUp(n) : q = s
    BY <1>1, <2>1 DEF ServesInv, OneKernelPerNotebook
  <2>8. \A b \in Actors : act'[b].pc \notin {"looking", "creating"}
    BY <1>2, <1>3, <2>1, <2>2
  <2>9. QED
    BY <1>1, <2>3, <2>4, <2>6, <2>7, <2>8, RegisterServes
<1>5. CASE LookupMisses(a) /\ act[a].op = "status"
  <2>1. UNCHANGED <<rooms, nbRoom>> /\ act'[a] = IdleActor
    BY <1>1, <1>5 DEF LookupMisses, Finish
  <2>2. \A b \in Actors : act'[b].pc \notin {"looking", "creating"}
    BY <1>2, <1>3, <2>1
  <2>3. QED
    BY <1>1, <2>1, <2>2, QuietServes DEF SessionsRest
<1>6. CASE LookupMisses(a) /\ act[a].op # "status"
  <2>1. /\ Register(NextRoom, NewRoom(n)) /\ FreshRooms # {} /\ SessionsUp(n) = {}
        /\ act'[a] = At(act[a], "creating", NextRoom)
    BY <1>1, <1>6 DEF LookupMisses, CreateRoom, Resume
  <2>2. NextRoom \in RoomIds \ registry /\ NewRoom(n).nb = n
    BY <2>1, FreshRoomFacts DEF NewRoom, AbsentRoom
  <2>3. /\ act'[a].nb = n /\ act'[a].room = NextRoom
    BY <1>1, <2>1, CallFields
  <2>4. /\ nbRoom' = [nbRoom EXCEPT ![n] = NextRoom]
        /\ \A r \in RoomIds \ {NextRoom} : rooms'[r].session = rooms[r].session
    BY <1>1, <2>1, <2>2 DEF Register
  <2> HIDE DEF n
  <2>5. act'[a].pc = "creating"
    BY <1>1, <2>1, CallFields
  <2>6. \A b \in Actors : /\ act'[b].pc # "looking"
                          /\ act'[b].pc = "creating" => act'[b].nb = n /\ act'[b].room = NextRoom
    BY <1>2, <2>3, <2>5
  <2>7. QED
    BY <1>1, <2>1, <2>2, <2>4, <2>6, RegisterServes
<1>7. QED
  BY <1>1, <1>4, <1>5, <1>6

Serving == [n \in Notebooks |-> SessionsUp(n)]

(* A kernel ends, or none does. *)
LEMMA EndKeepsPromise ==
  ASSUME TypeOK, OneKernelPerNotebook, SessionsRest
  PROVE  Promise!Next \/ UNCHANGED Serving
<1>1. CASE UNCHANGED sessions
  BY <1>1 DEF Serving, SessionsUp
<1>2. ASSUME NEW s \in SessionIds, sessions' = WithSessionDown(s)
      PROVE  Promise!Next \/ UNCHANGED Serving
  <2>1. /\ sessions'[s].status = "down"
        /\ \A q \in SessionIds \ {s} : sessions'[q] = sessions[q]
    BY <1>2 DEF TypeOK, Session, WithSessionDown, Down
  <2>2. \A n : SessionsUp(n)' = SessionsUp(n) \ {s}
    BY <2>1 DEF SessionsUp
  <2>3. CASE \A n \in Notebooks : s \notin SessionsUp(n)
    BY <2>2, <2>3 DEF Serving
  <2>4. ASSUME NEW n \in Notebooks, s \in SessionsUp(n)
        PROVE  Promise!Next
    <3>1. SessionsUp(n) = {s}
      BY <2>4 DEF OneKernelPerNotebook
    <3>2. \A m \in Notebooks \ {n} : SessionsUp(m)' = SessionsUp(m)
      BY <2>2, <2>4 DEF SessionsUp
    <3>3. Serving' = [Serving EXCEPT ![n] = {}] /\ Serving[n] # {}
      BY <2>2, <3>1, <3>2 DEF Serving
    <3>4. Promise!End(n)
      BY <3>3 DEF Promise!End, Serving
    <3>5. QED
      BY <3>4 DEF Promise!Next
  <2>5. QED
    BY <2>3, <2>4
<1>3. QED
  BY <1>1, <1>2 DEF SessionsRest

LEMMA CreatesServe ==
  ASSUME IInv, SerialInv, ServesInv, NEW a \in Actors, CreateReturns(a) \/ CreateFails(a)
  PROVE  ServesInv' /\ (Promise!Next \/ UNCHANGED Serving)
<1>0. PICK n \in Notebooks : n = act[a].nb
  <2>1. act[a].nb \in Notebooks
    BY CreatingFacts DEF CreateReturns, CreateFails
  <2>2. QED
    BY <2>1
<1> DEFINE r == act[a].room
           k == IF act[a].kernel = NoKernel THEN DefaultKernel ELSE act[a].kernel
<1>1. /\ act[a].pc = "creating" /\ a \in InFlight /\ n \in Notebooks /\ r \in RoomIds
      /\ rooms[r].nb = n /\ rooms[r].session = NoSession /\ UNCHANGED nbRoom
      /\ act \in [Actors -> Actor] /\ act[a] \in Actor /\ rooms \in [RoomIds -> Room]
      /\ \A b \in Actors \ {a} : act'[b] = act[b]
  BY <1>0, CreatingFacts
     DEF CreateReturns, CreateFails, Resume, Finish, InFlight, IInv, TypeOK
<1>2. \A b \in Actors \ {a} : act'[b].pc \notin {"looking", "creating"}
  BY <1>1, OpensAlone
<1>3. SessionsUp(n) = {} /\ nbRoom[n] = r
  BY <1>0, <1>1 DEF ServesInv
<1>4. CASE CreateReturns(a)
  <2> DEFINE s == NextSession
             new == NewSession(n, k, "hypernote")
  <2>1. /\ sessions' = [sessions EXCEPT ![s] = new] /\ rooms' = [rooms EXCEPT ![r] = WithSession(rooms[r], s, k)]
        /\ act'[a] = At(act[a], "returned", r) /\ FreshSessions # {}
    BY <1>0, <1>1, <1>4 DEF CreateReturns, Resume
  <2>2. s \in SessionIds /\ sessions[s].status = "unused"
    BY <2>1, NextIdsTyped
  <2>3. /\ new.nb = n /\ new.status = "up" /\ WithSession(rooms[r], s, k).session = s
        /\ At(act[a], "returned", r).pc = "returned"
    BY <1>1, WrittenStates, CallFields DEF NewSession
  <2> DEFINE room == WithSession(rooms[r], s, k)
  <2>4. rooms' = [rooms EXCEPT ![r] = room] /\ room.session = s
    BY <2>1, <2>3
  <2> HIDE DEF r, k, s, new, room
  <2>5. /\ sessions'[s] = new /\ \A q \in SessionIds \ {s} : sessions'[q] = sessions[q]
        /\ rooms'[r].session = s
        /\ \A q \in RoomIds \ {r} : rooms'[q].session = rooms[q].session
    BY <1>1, <2>1, <2>2, <2>4 DEF IInv, TypeOK
  <2>6. \A m \in Notebooks : s \notin SessionsUp(m)
    BY <2>2 DEF SessionsUp
  <2>7. SessionsUp(n)' = {s}
    BY <1>3, <2>2, <2>3, <2>5 DEF SessionsUp
  <2>8. \A m \in Notebooks \ {n} : SessionsUp(m)' = SessionsUp(m)
    BY <2>2, <2>3, <2>5, <2>6 DEF SessionsUp
  <2>9. \A b \in Actors : act'[b].pc \notin {"looking", "creating"}
    BY <1>2, <2>1, <2>3
  <2>10. OneKernelPerNotebook'
    BY <2>7, <2>8 DEF ServesInv, OneKernelPerNotebook
  <2>11. ASSUME NEW m \in Notebooks, nbRoom'[m] # NoRoom, NEW q \in SessionsUp(m)'
         PROVE  q = rooms'[nbRoom'[m]].session
    <3>1. CASE m = n
      BY <1>1, <1>3, <2>5, <2>7, <2>11, <3>1
    <3>2. CASE m # n
      <4>1. nbRoom[m] \in RoomIds /\ rooms[nbRoom[m]].nb = m
        BY <1>1, <2>11 DEF IInv, TypeOK, MapConsistent
      <4>2. nbRoom[m] # r
        BY <1>1, <3>2, <4>1
      <4>3. QED
        BY <1>1, <2>5, <2>8, <2>11, <3>2, <4>1, <4>2 DEF ServesInv
    <3>3. QED
      BY <3>1, <3>2
  <2>12. ServesInv'
    BY <2>9, <2>10, <2>11 DEF ServesInv
  <2>13. Serving' = [Serving EXCEPT ![n] = {s}]
    BY <2>7, <2>8 DEF Serving
  <2>14. Promise!Start(n, s)
    BY <1>1, <1>3, <2>6, <2>13 DEF Promise!Start, Serving
  <2>15. QED
    BY <1>1, <2>2, <2>12, <2>14 DEF Promise!Next
<1>5. CASE CreateFails(a)
  <2>1. /\ UNCHANGED sessions /\ rooms' = [rooms EXCEPT ![r] = InState(rooms[r], "failed")]
        /\ act'[a] = IdleActor
    BY <1>1, <1>5 DEF CreateFails, Finish
  <2>2. SessionsRest
    BY <2>1 DEF SessionsRest
  <2> HIDE DEF r
  <2>3. \A q \in RoomIds : rooms'[q].session = rooms[q].session
    BY <1>1, <2>1, WrittenSessions
  <2>4. \A b \in Actors : act'[b].pc \notin {"looking", "creating"}
    BY <1>2, <2>1, EndedFields
  <2>5. QED
    BY <1>1, <2>2, <2>3, <2>4, QuietServes, EndKeepsPromise DEF IInv, ServesInv
<1>6. QED
  BY <1>4, <1>5

(* What stops rooms opens none. *)
LEMMA StopsServe ==
  ASSUME IInv, SerialInv, ServesInv, NEW a \in Actors,
         \/ DeleteReturns(a) \/ DeleteFails(a) \/ SweepNext(a) \/ SweepEnds(a)
         \/ ShutdownSweeps(a)
  PROVE  ServesInv' /\ SessionsRest
<1>1. /\ act[a].pc \in {"deleting", "sweep", "joining"} /\ a \in InFlight
      /\ act[a] \in Actor /\ act \in [Actors -> Actor]
  BY DEF DeleteReturns, DeleteFails, SweepNext, SweepEnds, ShutdownSweeps, InFlight, IInv, TypeOK
<1>2. /\ \A b \in Actors \ {a} : act'[b] = act[b]
      /\ act'[a].pc \notin {"looking", "creating"}
  <2>1. CASE DeleteReturns(a) \/ DeleteFails(a)
    <3>1. act' = [act EXCEPT ![a] = AfterStop(a)]
      BY <2>1 DEF DeleteReturns, DeleteFails
    <3>2. AfterStop(a).pc \in {"idle", "sweep"}
      BY <2>1, DeletingFacts DEF DeleteReturns, DeleteFails
    <3>3. QED
      BY <1>1, <3>1, <3>2
  <2>2. CASE SweepNext(a)
    <3>1. PICK r \in act[a].todo :
            LET left == Visiting(act[a], act[a].todo \ {r}) IN
            IF Stoppable(r)
            THEN BeginStop(a, left, r)
            ELSE /\ act' = [act EXCEPT ![a] = left]
                 /\ UNCHANGED <<rooms, registry, nbRoom, records, removed>>
      BY <2>2 DEF SweepNext
    <3> DEFINE left == Visiting(act[a], act[a].todo \ {r})
    <3>2. left \in Actor /\ left.pc = "sweep"
      <4>1. act[a].todo \ {r} \in SUBSET RoomIds
        BY <1>1 DEF Actor
      <4>2. QED
        BY <1>1, <4>1, ActorTyped, CallFields
    <3>3. act' \in {[act EXCEPT ![a] = left], [act EXCEPT ![a] = At(left, "deleting", r)],
                    [act EXCEPT ![a] = IdleActor]}
      BY <3>1 DEF BeginStop
    <3> HIDE DEF left
    <3>4. At(left, "deleting", r).pc = "deleting" /\ IdleActor.pc = "idle"
      BY <3>2, EndedFields DEF At, Actor
    <3>5. QED
      BY <1>1, <3>2, <3>3, <3>4
  <2>3. CASE SweepEnds(a)
    BY <1>1, <2>3, EndedFields DEF SweepEnds
  <2>4. CASE ShutdownSweeps(a)
    <3>1. act' = [act EXCEPT ![a] = Visiting(act[a], registry)]
      BY <2>4 DEF ShutdownSweeps
    <3>2. Visiting(act[a], registry).pc = "sweep"
      BY <1>1 DEF Visiting, Actor
    <3>3. QED
      BY <1>1, <3>1, <3>2
  <2>5. QED
    BY <2>1, <2>2, <2>3, <2>4
<1>3. \A b \in Actors : act'[b].pc \notin {"looking", "creating"}
  BY <1>1, <1>2, OpensAlone
<1>4. SessionsRest
  BY DeletingFacts DEF DeleteReturns, DeleteFails, SweepNext, SweepEnds, ShutdownSweeps,
     SessionsRest
<1>5. QED
  BY <1>3, <1>4, StopsSettled, QuietServes DEF Settled

LEMMA ReturnsServe ==
  ASSUME IInv, SerialInv, ServesInv, NEW a \in Actors,
         OpenReturns(a) \/ \E j \in Jobs : QueueReturns(a, j)
  PROVE  ServesInv' /\ SessionsRest
<1>1. /\ act[a].pc = "returned" /\ a \in InFlight /\ UNCHANGED <<nbRoom, sessions>>
      /\ rooms \in [RoomIds -> Room] /\ act' = [act EXCEPT ![a] = IdleActor]
      /\ act \in [Actors -> Actor]
  BY DEF OpenReturns, QueueReturns, Finish, InFlight, IInv, TypeOK
<1>2. \A q \in RoomIds : rooms'[q].session = rooms[q].session
  <2>1. CASE OpenReturns(a)
    BY <1>1, <2>1, WrittenSessions DEF OpenReturns
  <2>2. ASSUME NEW j \in Jobs, QueueReturns(a, j)
        PROVE  \A q \in RoomIds : rooms'[q].session = rooms[q].session
    <3> DEFINE cur == Current(act[a].nb)
               room == WithJobs(rooms[cur], rooms[cur].jobs \cup {j})
    <3>1. rooms' = IF cur = NoRoom THEN rooms ELSE [rooms EXCEPT ![cur] = room]
      BY <2>2 DEF QueueReturns
    <3>2. cur \in RoomIds => room.session = rooms[cur].session
      BY <1>1, WrittenSessions
    <3> HIDE DEF cur, room
    <3>3. QED
      BY <1>1, <3>1, <3>2
  <2>3. QED
    BY <2>1, <2>2
<1>3. \A b \in Actors : act'[b].pc \notin {"looking", "creating"}
  BY <1>1, OpensAlone, EndedFields
<1>4. SessionsRest
  BY <1>1 DEF SessionsRest
<1>5. QED
  BY <1>1, <1>2, <1>3, <1>4, QuietServes

(* What needs no call, JupyterLab apart *)
LEMMA OthersServe ==
  ASSUME MaxInFlight = 1, ~LabActs, IInv, SerialInv, ServesInv,
         RoomCalls \/ Environment \/ GcWakes \/ GcUnwinds
  PROVE  ServesInv' /\ SessionsRest
<1>1. CASE RoomCalls \/ Environment
  <2>1. Settled /\ UNCHANGED <<nbRoom, act>>
    BY <1>1, RoomCallsSettled
  <2>2. SessionsRest
    BY <1>1 DEF RoomCalls, Environment, AttachClient, DetachClient, SetRuntimeState,
       TouchActivity, MarkJobFinished, TimePasses, SessionEnds, LabOpens, SessionsRest
  <2>3. QED
    BY <2>1, <2>2, QuietServes DEF Settled
<1>2. CASE GcWakes
  <2>1. /\ UNCHANGED <<rooms, nbRoom, sessions>> /\ act \in [Actors -> Actor]
        /\ act' = [act EXCEPT ![Gc] = Visiting(Plain("gc", NoNotebook), GcCandidates)]
    BY <1>2 DEF GcWakes, IInv, TypeOK
  <2>2. Visiting(Plain("gc", NoNotebook), GcCandidates).pc = "sweep"
    <3>1. Plain("gc", NoNotebook) \in Actor
      BY NewActorTyped
    <3>2. QED
      BY <3>1 DEF Visiting, Actor
  <2>3. \A b \in Actors : act'[b].pc \in {"looking", "creating"} => act'[b] = act[b]
    BY <2>1, <2>2
  <2>4. QED
    BY <2>1, <2>3, QuietServes DEF SessionsRest
<1>3. CASE GcUnwinds
  <2>1. act[Gc].pc = "unwinding" /\ act[Gc].room = NoRoom
    <3>1. act[Gc].pc = "unwinding" /\ Gc \in Actors
      BY <1>3 DEF GcUnwinds, Actors
    <3>2. closing
      BY <3>1 DEF SerialInv, OpenCall
    <3>3. QED
      BY <3>1, <3>2 DEF SerialInv
  <2>2. /\ UNCHANGED <<rooms, nbRoom, sessions>> /\ act \in [Actors -> Actor]
        /\ act' = [act EXCEPT ![Gc] = Ended]
    BY <1>3, <2>1 DEF GcUnwinds, IInv, TypeOK
  <2>3. \A b \in Actors : act'[b].pc \in {"looking", "creating"} => act'[b] = act[b]
    BY <2>2, EndedFields
  <2>4. QED
    BY <2>2, <2>3, QuietServes DEF SessionsRest
<1>4. QED
  BY <1>1, <1>2, <1>3

LEMMA ServesInit == Init => ServesInv /\ Promise!Init
<1> SUFFICES ASSUME Init PROVE ServesInv /\ Promise!Init
  OBVIOUS
<1>1. \A n : SessionsUp(n) = {}
  BY DEF Init, SessionsUp, UnusedSession
<1>2. \A a \in Actors : act[a].pc = "idle"
  BY EndedFields DEF Init
<1>3. QED
  BY <1>1, <1>2 DEF Init, ServesInv, OneKernelPerNotebook, Promise!Init

(* Each step keeps the invariant, and starts a kernel for a notebook that   *)
(* has none, or ends one, or neither.                                       *)
LEMMA ServesNext ==
  ASSUME MaxInFlight = 1, ~LabActs
  PROVE  IInv /\ StatesInv /\ SerialInv /\ ServesInv /\ [Next]_vars =>
           ServesInv' /\ [Promise!Next]_Serving
<1> SUFFICES ASSUME IInv, StatesInv, SerialInv, ServesInv, [Next]_vars
             PROVE  ServesInv' /\ (Promise!Next \/ UNCHANGED Serving)
  OBVIOUS
<1>0. SessionsRest => Promise!Next \/ UNCHANGED Serving
  BY EndKeepsPromise DEF IInv, ServesInv
<1>1. UNCHANGED sessions => SessionsRest
  BY DEF SessionsRest
<1>2. CASE UNCHANGED vars
  BY <1>0, <1>1, <1>2, QuietServes DEF vars
<1>3. ASSUME NEW t \in Tasks, Calls(t)
      PROVE  ServesInv' /\ (Promise!Next \/ UNCHANGED Serving)
  BY <1>0, <1>1, <1>3, CallsServe
<1>4. ASSUME NEW a \in Actors, Continues(a) \/ \E j \in Jobs : QueueReturns(a, j)
      PROVE  ServesInv' /\ (Promise!Next \/ UNCHANGED Serving)
  BY <1>0, <1>1, <1>4, LookupsServe, CreatesServe, StopsServe, ReturnsServe DEF Continues
<1>5. CASE RoomCalls \/ Environment \/ GcWakes \/ GcUnwinds
  BY <1>0, <1>5, OthersServe
<1>6. QED
  BY <1>2, <1>3, <1>4, <1>5 DEF Next, Actors

(* When calls do not overlap and JupyterLab starts no kernel of its own, at *)
(* most one kernel serves a notebook, whatever dies, fails, is stopped or   *)
(* reaped.                                                                  *)
THEOREM OneKernelWhenSerial ==
  ASSUME MaxInFlight = 1, ~LabActs
  PROVE  Spec => []OneKernelPerNotebook
<1>1. Spec => []ServesInv
  BY Inductive, StatesTellTheTruth, SerialAlways, ServesInit, ServesNext, PTL DEF Spec
<1>2. ServesInv => OneKernelPerNotebook
  BY DEF ServesInv
<1>3. QED
  BY <1>1, <1>2, PTL

(* Under the same conditions RuntimeManager implements NotebookRuntime:     *)
(* create_session starts a kernel for a notebook that has none,             *)
(* delete_session and dying kernels end one, and nothing else does either.  *)
THEOREM PromiseKept ==
  ASSUME MaxInFlight = 1, ~LabActs
  PROVE  Spec => ImplementsPromise
<1>1. Spec => []ServesInv
  BY Inductive, StatesTellTheTruth, SerialAlways, ServesInit, ServesNext, PTL DEF Spec
<1>2. Init => Promise!Init
  BY ServesInit
<1>3. IInv /\ StatesInv /\ SerialInv /\ ServesInv /\ [Next]_vars => [Promise!Next]_Serving
  BY ServesNext
<1>4. QED
  BY <1>1, <1>2, <1>3, Inductive, StatesTellTheTruth, SerialAlways, PTL
     DEF Spec, ImplementsPromise, Promise!Spec, Serving

=============================================================================
