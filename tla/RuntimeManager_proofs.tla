----------------------- MODULE RuntimeManager_proofs -----------------------
(* The types and the safety invariants of RuntimeManager, for every value   *)
(* of its constants, however calls overlap.                                 *)
EXTENDS RuntimeManager, TLAPS

-----------------------------------------------------------------------------
(* The records the actions write are well typed. *)

LEMMA RoomTyped ==
  ASSUME NEW room \in Room
  PROVE  /\ \A x \in RuntimeState : InState(room, x) \in Room
         /\ InState(room, room.state) \in Room
         /\ Lost(room) \in Room
         /\ Stopped(room) \in Room
         /\ Idled(room) \in Room
         /\ \A c \in Clients : Attached(room, c) \in Room /\ Detached(room, c) \in Room
         /\ \A j \in Jobs : WithJobs(room, room.jobs \cup {j}) \in Room
         /\ \A j \in Jobs : WithJobs(room, room.jobs \ {j}) \in Room
         /\ \A s \in SessionIds, k \in KernelNames : WithSession(room, s, k) \in Room
BY ZenonT(30) DEF Room, RuntimeState, InState, Lost, Stopped, Idled, Attached, Detached, WithJobs,
       WithSession

LEMMA NewRoomTyped ==
  /\ AbsentRoom \in Room
  /\ \A n \in Notebooks : NewRoom(n) \in Room /\ NewRoom(n).nb = n
BY DEF AbsentRoom, NewRoom, Room, RuntimeState

LEMMA AdoptedTyped ==
  ASSUME TypeOK, NEW n \in Notebooks \cup {NoNotebook}, NEW s \in SessionIds
  PROVE  AdoptedRoom(n, s) \in Room /\ AdoptedRoom(n, s).nb = n
BY DEF TypeOK, AdoptedRoom, AbsentRoom, Room, Session, RuntimeState

LEMMA ActorTyped ==
  ASSUME NEW actor \in Actor
  PROVE  /\ \A r \in RoomIds \cup {NoRoom} :
              \A pc \in {"looking", "creating", "returned", "deleting", "sweep", "joining"} :
                At(actor, pc, r) \in Actor
         /\ Unwinding(actor) \in Actor
         /\ \A T \in SUBSET RoomIds : Visiting(actor, T) \in Actor
BY DEF Actor, At, Unwinding, Visiting

LEMMA NewActorTyped ==
  /\ IdleActor \in Actor
  /\ Ended \in Actor
  /\ Plain("shutdown", NoNotebook) \in Actor
  /\ Plain("gc", NoNotebook) \in Actor
  /\ \A n \in Notebooks : Plain("stop", n) \in Actor /\ Plain("status", n) \in Actor
  /\ \A n \in Notebooks, k \in KernelNames \cup {NoKernel}, c \in Clients \cup {NoClient} :
       Call("ensure", n, k, c) \in Actor
BY DEF Actor, IdleActor, Ended, Plain, Call, At

LEMMA SessionTyped ==
  /\ UnusedSession \in Session
  /\ \A session \in Session : Down(session) \in Session
  /\ \A n \in Notebooks, k \in KernelNames, who \in {"hypernote", "lab"} :
       NewSession(n, k, who) \in Session
BY DEF Session, UnusedSession, Down, NewSession

LEMMA NextIdsTyped ==
  /\ FreshRooms # {} => NextRoom \in RoomIds /\ rooms[NextRoom].state = "absent"
  /\ FreshSessions # {} => NextSession \in SessionIds /\ sessions[NextSession].status = "unused"
BY DEF FreshRooms, FreshSessions, NextRoom, NextSession

-----------------------------------------------------------------------------
(* Type correctness *)

LEMMA TypeInit == Init => TypeOK
BY NewRoomTyped, NewActorTyped, SessionTyped DEF Init, TypeOK

LEMMA CurrentTyped ==
  ASSUME TypeOK, NEW n \in Notebooks, Current(n) # NoRoom
  PROVE  Current(n) \in registry /\ Current(n) \in RoomIds /\ Current(n) = nbRoom[n]
BY DEF TypeOK, Current

LEMMA DownTyped ==
  ASSUME TypeOK, NEW s
  PROVE  WithSessionDown(s) \in [SessionIds -> Session]
BY SessionTyped DEF TypeOK, WithSessionDown

LEMMA EvictTyped == ASSUME TypeOK, NEW r PROVE EvictedRecords(r) \in [Jobs -> RoomIds \cup {NoRoom}]
BY DEF TypeOK, EvictedRecords

LEMMA RemoveTyped ==
  ASSUME TypeOK, NEW r \in RoomIds, NEW notify \in BOOLEAN,
         NEW how \in {"clean", "failed", "early", "cancelled"}, RemoveRoom(r, how, notify)
  PROVE  /\ rooms' \in [RoomIds -> Room]
         /\ registry' \subseteq RoomIds
         /\ nbRoom' \in [Notebooks -> RoomIds \cup {NoRoom}]
         /\ records' \in [Jobs -> RoomIds \cup {NoRoom}]
         /\ removed' \in [RoomIds -> {"no", "clean", "failed", "early", "cancelled"}]
<1>1. rooms' \in [RoomIds -> Room]
  BY RoomTyped DEF TypeOK, RemoveRoom, StoppedRooms
<1>2. QED
  BY <1>1, EvictTyped DEF TypeOK, RemoveRoom

LEMMA BeginStopTyped ==
  ASSUME TypeOK, NEW t \in Actors, NEW actor \in Actor, NEW r \in RoomIds,
         BeginStop(t, actor, r)
  PROVE  /\ rooms' \in [RoomIds -> Room]
         /\ registry' \subseteq RoomIds
         /\ nbRoom' \in [Notebooks -> RoomIds \cup {NoRoom}]
         /\ records' \in [Jobs -> RoomIds \cup {NoRoom}]
         /\ removed' \in [RoomIds -> {"no", "clean", "failed", "early", "cancelled"}]
         /\ act' \in [Actors -> Actor]
<1>1. CASE rooms[r].session # NoSession
  <2>1. rooms' \in [RoomIds -> Room]
    BY <1>1, RoomTyped DEF TypeOK, BeginStop, RuntimeState
  <2>2. At(actor, "deleting", r) \in Actor
    BY ActorTyped
  <2>3. QED
    BY <1>1, <2>1, <2>2 DEF TypeOK, BeginStop
<1>2. CASE rooms[r].session = NoSession
  <2>1. RemoveRoom(r, "early", TRUE)
    BY <1>2 DEF BeginStop
  <2>2. act' \in [Actors -> Actor]
    BY <1>2, NewActorTyped DEF TypeOK, BeginStop
  <2>3. QED
    BY <2>1, <2>2, RemoveTyped
<1>3. QED
  BY <1>1, <1>2

LEMMA TypeNext == TypeOK /\ [Next]_vars => TypeOK'
<1> SUFFICES ASSUME TypeOK, [Next]_vars PROVE TypeOK'
  OBVIOUS
<1>1. ASSUME NEW t \in Tasks, NEW n \in Notebooks, NEW k \in KernelNames \cup {NoKernel},
             NEW c \in Clients \cup {NoClient}, EnsureCall(t, n, k, c)
      PROVE  TypeOK'
  <2>1. /\ At(Call("ensure", n, k, c), "looking", NoRoom) \in Actor
        /\ \A r \in RoomIds : /\ At(Call("ensure", n, k, c), "returned", r) \in Actor
                              /\ At(Call("ensure", n, k, c), "creating", r) \in Actor
    BY NewActorTyped, ActorTyped
  <2>2. \A r \in RoomIds : Refreshed(r) \in Room
    BY RoomTyped DEF TypeOK, Refreshed
  <2>3. CASE Current(n) = NoRoom
    BY <1>1, <2>1, <2>3 DEF EnsureCall, TypeOK
  <2>4. CASE Current(n) # NoRoom /\ Refreshed(Current(n)).state \in LiveStates
    <3>1. \A r \in RoomIds : InState(rooms[r], rooms[r].state) \in Room
      BY RoomTyped DEF TypeOK
    <3>2. QED
      BY <1>1, <2>1, <2>4, <3>1, CurrentTyped DEF EnsureCall, TypeOK
  <2>5. CASE Current(n) # NoRoom /\ Refreshed(Current(n)).state \notin LiveStates
    BY <1>1, <2>1, <2>2, <2>5, CurrentTyped, NewRoomTyped, NextIdsTyped DEF EnsureCall, TypeOK
  <2>6. QED
    BY <2>3, <2>4, <2>5
<1>2. ASSUME NEW t \in Tasks, NEW n \in Notebooks, StatusCall(t, n)
      PROVE  TypeOK'
  <2>1. At(Plain("status", n), "looking", NoRoom) \in Actor
    BY NewActorTyped, ActorTyped
  <2>2. \A r \in RoomIds : Refreshed(r) \in Room
    BY RoomTyped DEF TypeOK, Refreshed
  <2>3. QED
    BY <1>2, <2>1, <2>2, CurrentTyped DEF StatusCall, TypeOK
<1>3. ASSUME NEW t \in Tasks, NEW n \in Notebooks, StopCall(t, n)
      PROVE  TypeOK'
  <2>1. Plain("stop", n) \in Actor /\ Current(n) \in RoomIds /\ t \in Actors
    BY <1>3, NewActorTyped, CurrentTyped DEF StopCall, Actors
  <2>2. BeginStop(t, Plain("stop", n), Current(n)) /\ UNCHANGED <<sessions, closing>>
    BY <1>3 DEF StopCall
  <2>3. QED
    BY <2>1, <2>2, BeginStopTyped DEF TypeOK
<1>4. ASSUME NEW t \in Tasks, ShutdownCall(t)
      PROVE  TypeOK'
  <2>1. At(Plain("shutdown", NoNotebook), "joining", NoRoom) \in Actor
    BY NewActorTyped, ActorTyped
  <2>2. QED
    BY <1>4, <2>1, ActorTyped DEF ShutdownCall, TypeOK, Actors
<1>5. ASSUME NEW t \in Tasks, NEW j \in Jobs, QueueReturns(t, j)
      PROVE  TypeOK'
  <2>1. act[t].room \in RoomIds \cup {NoRoom} /\ act[t].nb \in Notebooks \cup {NoNotebook}
    BY DEF TypeOK, Actor, Actors
  <2>2. \A r \in RoomIds : WithJobs(rooms[r], rooms[r].jobs \cup {j}) \in Room
    BY RoomTyped DEF TypeOK
  <2>3. rooms' \in [RoomIds -> Room]
    BY <1>5, <2>2 DEF QueueReturns, TypeOK
  <2>4. QED
    BY <1>5, <2>1, <2>3, NewActorTyped DEF QueueReturns, Finish, TypeOK, Actors
<1>6. ASSUME NEW a \in Actors, LookupFinds(a)
      PROVE  TypeOK'
  <2>1. PICK s \in SessionIds : Register(NextRoom, AdoptedRoom(act[a].nb, s))
    BY <1>6 DEF LookupFinds, SessionsUp
  <2>2. NextRoom \in RoomIds /\ act[a].nb \in Notebooks \cup {NoNotebook} /\ act[a] \in Actor
    BY <1>6, NextIdsTyped DEF LookupFinds, TypeOK, Actor
  <2>3. AdoptedRoom(act[a].nb, s) \in Room /\ AdoptedRoom(act[a].nb, s).nb = act[a].nb
    BY <2>2, AdoptedTyped
  <2>4. act' \in [Actors -> Actor]
    <3>1. At(act[a], "returned", NextRoom) \in Actor
      BY <2>2, ActorTyped
    <3>2. QED
      BY <1>6, <3>1, NewActorTyped DEF LookupFinds, Resume, Finish, TypeOK
  <2>5. QED
    BY <1>6, <2>1, <2>2, <2>3, <2>4 DEF LookupFinds, Register, TypeOK
<1>7. ASSUME NEW a \in Actors, LookupMisses(a)
      PROVE  TypeOK'
  <2>1. CASE act[a].op = "status"
    BY <1>7, <2>1, NewActorTyped DEF LookupMisses, Finish, TypeOK
  <2>2. CASE act[a].op # "status"
    <3>1. NextRoom \in RoomIds /\ act[a] \in Actor
      BY <1>7, <2>2, NextIdsTyped DEF LookupMisses, CreateRoom, TypeOK
    <3>2. NewRoom(act[a].nb) \in Room
      BY <3>1 DEF NewRoom, AbsentRoom, Room, RuntimeState, Actor
    <3>3. At(act[a], "creating", NextRoom) \in Actor
      BY <3>1, ActorTyped
    <3>4. NewRoom(act[a].nb).nb = act[a].nb
      BY DEF NewRoom, AbsentRoom
    <3>5. QED
      BY <1>7, <2>2, <3>1, <3>2, <3>3, <3>4
         DEF LookupMisses, CreateRoom, Register, Resume, TypeOK
  <2>3. QED
    BY <2>1, <2>2
<1>8. ASSUME NEW a \in Actors, CreateReturns(a)
      PROVE  TypeOK'
  <2> DEFINE k == IF act[a].kernel = NoKernel THEN DefaultKernel ELSE act[a].kernel
  <2>1. /\ act[a] \in Actor /\ k \in KernelNames
        /\ act[a].nb \in Notebooks \cup {NoNotebook} /\ act[a].room \in RoomIds \cup {NoRoom}
    BY KernelAssumption DEF TypeOK, Actor
  <2>2. NextSession \in SessionIds
    BY <1>8, NextIdsTyped DEF CreateReturns
  <2>3. NewSession(act[a].nb, k, "hypernote") \in Session
    BY <2>1 DEF NewSession, Session
  <2>4. \A r \in RoomIds : WithSession(rooms[r], NextSession, k) \in Room
    BY <2>1, <2>2, RoomTyped DEF TypeOK
  <2>5. At(act[a], "returned", act[a].room) \in Actor
    BY <2>1, ActorTyped
  <2>6. QED
    BY <1>8, <2>2, <2>3, <2>4, <2>5 DEF CreateReturns, Resume, TypeOK
<1>9. ASSUME NEW a \in Actors, CreateFails(a)
      PROVE  TypeOK'
  BY <1>9, RoomTyped, NewActorTyped DEF CreateFails, Finish, RuntimeState, TypeOK
<1>10. ASSUME NEW a \in Actors, OpenReturns(a)
       PROVE  TypeOK'
  <2>1. act[a].client \in Clients \cup {NoClient}
    BY DEF TypeOK, Actor
  <2>2. rooms' \in [RoomIds -> Room]
    <3>1. act[a].client # NoClient =>
            \A r \in RoomIds : Attached(rooms[r], act[a].client) \in Room
      BY <2>1, RoomTyped DEF TypeOK
    <3>2. QED
      BY <1>10, <3>1 DEF OpenReturns, TypeOK
  <2>3. QED
    BY <1>10, <2>2, NewActorTyped DEF OpenReturns, Finish, TypeOK
<1>11. ASSUME NEW a \in Actors, DeleteReturns(a) \/ DeleteFails(a)
       PROVE  TypeOK'
  <2>1. act' \in [Actors -> Actor]
    <3>1. At(act[a], "sweep", NoRoom) \in Actor
      BY ActorTyped DEF TypeOK
    <3>2. QED
      BY <1>11, <3>1, NewActorTyped DEF DeleteReturns, DeleteFails, AfterStop, TypeOK
  <2>2. sessions' \in [SessionIds -> Session]
    BY <1>11, DownTyped DEF DeleteReturns, DeleteFails, TypeOK
  <2>3. CASE act[a].room \in RoomIds
    BY <1>11, <2>1, <2>2, <2>3, RemoveTyped DEF DeleteReturns, DeleteFails, TypeOK
  <2>4. CASE act[a].room \notin RoomIds
    BY <1>11, <2>1, <2>2, <2>4, EvictTyped
       DEF DeleteReturns, DeleteFails, RemoveRoom, StoppedRooms, TypeOK
  <2>5. QED
    BY <2>3, <2>4
<1>12. ASSUME NEW a \in Actors, SweepNext(a)
       PROVE  TypeOK'
  <2>1. PICK r \in act[a].todo :
          LET left == Visiting(act[a], act[a].todo \ {r}) IN
          IF Stoppable(r)
          THEN BeginStop(a, left, r)
          ELSE /\ act' = [act EXCEPT ![a] = left]
               /\ UNCHANGED <<rooms, registry, nbRoom, records, removed>>
    BY <1>12 DEF SweepNext
  <2>2. act[a].todo \in SUBSET RoomIds
    BY DEF TypeOK, Actor
  <2>3. Visiting(act[a], act[a].todo \ {r}) \in Actor
    BY <2>2, ActorTyped DEF TypeOK
  <2>4. UNCHANGED <<sessions, closing>>
    BY <1>12 DEF SweepNext
  <2>5. QED
    BY <2>1, <2>2, <2>3, <2>4, BeginStopTyped DEF TypeOK
<1>13. ASSUME NEW a \in Actors, SweepEnds(a) \/ ShutdownSweeps(a)
       PROVE  TypeOK'
  <2>1. Visiting(act[a], registry) \in Actor
    BY ActorTyped DEF TypeOK
  <2>2. QED
    BY <1>13, <2>1, NewActorTyped DEF SweepEnds, ShutdownSweeps, TypeOK
<1>14. ASSUME NEW r \in RoomIds, NEW c \in Clients, AttachClient(r, c) \/ DetachClient(r, c)
       PROVE  TypeOK'
  BY <1>14, RoomTyped DEF AttachClient, DetachClient, TypeOK
<1>15. ASSUME NEW r \in RoomIds, NEW s \in LiveStates, SetRuntimeState(r, s)
       PROVE  TypeOK'
  BY <1>15, RoomTyped DEF SetRuntimeState, LiveStates, RuntimeState, TypeOK
<1>16. ASSUME NEW r \in RoomIds, TouchActivity(r) \/ TimePasses(r)
       PROVE  TypeOK'
  BY <1>16, RoomTyped DEF TouchActivity, TimePasses, TypeOK
<1>17. ASSUME NEW n \in Notebooks, NEW j \in Jobs, MarkJobFinished(n, j)
       PROVE  TypeOK'
  <2>1. \A r \in RoomIds : WithJobs(rooms[r], rooms[r].jobs \ {j}) \in Room
    BY RoomTyped DEF TypeOK
  <2>2. QED
    BY <1>17, <2>1 DEF MarkJobFinished, TypeOK
<1>18. ASSUME GcWakes
       PROVE  TypeOK'
  <2>1. Visiting(Plain("gc", NoNotebook), GcCandidates) \in Actor
    BY ActorTyped, NewActorTyped DEF GcCandidates, TypeOK
  <2>2. QED
    BY <1>18, <2>1 DEF GcWakes, TypeOK, Actors
<1>19. ASSUME GcUnwinds
       PROVE  TypeOK'
  <2>1. act' \in [Actors -> Actor]
    BY <1>19, NewActorTyped DEF GcUnwinds, TypeOK, Actors
  <2>2. sessions' \in [SessionIds -> Session]
    BY <1>19, DownTyped DEF GcUnwinds, TypeOK
  <2>3. act[Gc].room \in RoomIds \cup {NoRoom}
    BY DEF TypeOK, Actor, Actors
  <2>4. QED
    BY <1>19, <2>1, <2>2, <2>3, RemoveTyped DEF GcUnwinds, TypeOK
<1>20. ASSUME NEW s \in SessionIds, SessionEnds(s)
       PROVE  TypeOK'
  BY <1>20, DownTyped DEF SessionEnds, TypeOK
<1>21. ASSUME NEW n \in Notebooks, NEW k \in KernelNames, LabOpens(n, k)
       PROVE  TypeOK'
  BY <1>21, SessionTyped, NextIdsTyped DEF LabOpens, TypeOK
<1>22. CASE UNCHANGED vars
  BY <1>22 DEF vars, TypeOK
<1>23. QED
  BY <1>1, <1>2, <1>3, <1>4, <1>5, <1>6, <1>7, <1>8, <1>9, <1>10, <1>11, <1>12, <1>13, <1>14,
     <1>15, <1>16, <1>17, <1>18, <1>19, <1>20, <1>21, <1>22
     DEF Next, Calls, Continues, RoomCalls, Environment

(* Every variable keeps its type, whatever the constants. *)
THEOREM TypeCorrect == Spec => []TypeOK
BY TypeInit, TypeNext, PTL DEF Spec

-----------------------------------------------------------------------------
(* What the writes to a room leave alone *)

SameRuntime(new, room) ==
  /\ new.nb = room.nb /\ new.session = room.session /\ new.kernel = room.kernel
  /\ new.state # "absent"

LEMMA RoomKept ==
  ASSUME NEW room \in Room
  PROVE  /\ \A x \in RuntimeState : SameRuntime(InState(room, x), room)
         /\ room.state # "absent" => SameRuntime(InState(room, room.state), room)
         /\ SameRuntime(Lost(room), room)
         /\ SameRuntime(Stopped(room), room)
         /\ room.state # "absent" => SameRuntime(Idled(room), room)
         /\ \A c \in Clients : SameRuntime(Attached(room, c), room)
         /\ \A c \in Clients : room.state # "absent" => SameRuntime(Detached(room, c), room)
         /\ \A J \in SUBSET Jobs : room.state # "absent" => SameRuntime(WithJobs(room, J), room)
BY DEF Room, RuntimeState, SameRuntime, InState, Lost, Stopped, Idled, Attached, Detached,
       WithJobs

(* A room that nobody changed, or that was written to and keeps its runtime *)
RoomQuiet(r) ==
  \/ rooms'[r] = rooms[r]
  \/ /\ rooms[r].state # "absent"
     /\ SameRuntime(rooms'[r], rooms[r])
     /\ rooms'[r].state \in LiveStates => rooms[r].session # NoSession
     /\ removed[r] \in {"clean", "failed"} => rooms'[r].clients = {} /\ rooms'[r].jobs = {}

RoomsQuiet == \A r \in RoomIds : RoomQuiet(r)

(* Sessions that are kept, end, or are started by JupyterLab *)
SessionQuiet(s) ==
  \/ sessions'[s] = sessions[s]
  \/ /\ sessions[s].status = "up" /\ sessions'[s].status = "down"
     /\ sessions'[s].nb = sessions[s].nb /\ sessions'[s].kernel = sessions[s].kernel
  \/ sessions[s].status = "unused" /\ sessions'[s].status = "up" /\ sessions'[s].by = "lab"

SessionsQuiet == \A s \in SessionIds : SessionQuiet(s)

(* The calls and the ledger learn of no room but those that exist. *)
RoomsKnown ==
  /\ \A a \in Actors : act'[a].room = act[a].room \/ act'[a].room = NoRoom
                       \/ \E r \in RoomIds : act'[a].room = r /\ rooms'[r].state # "absent"
  /\ \A j \in Jobs : records'[j] = records[j] \/ records'[j] = NoRoom
                     \/ \E r \in RoomIds : /\ records'[j] = r /\ rooms[r].state # "absent"
                                           /\ removed[r] \notin {"clean", "failed"}

(* The conjuncts of IInv that are not about calls *)
RoomsInv ==
  /\ MapConsistent /\ AbsentRoomsUnknown /\ RegistryHistory /\ UnusedSessionsUnknown
  /\ RoomMatchesSession /\ KernelAccountedFor /\ StopClearsControlPlane

LEMMA RoomsStayConsistent ==
  ASSUME IInv, TypeOK', RoomsQuiet, SessionsQuiet, RoomsKnown,
         UNCHANGED <<registry, nbRoom, removed>>
  PROVE  RoomsInv'
<1>1. \A r \in RoomIds :
        /\ rooms'[r].nb = rooms[r].nb /\ rooms'[r].session = rooms[r].session
        /\ rooms'[r].kernel = rooms[r].kernel
        /\ rooms'[r].state = "absent" => rooms'[r] = rooms[r]
        /\ rooms[r].state = "absent" => rooms'[r] = rooms[r]
  BY DEF RoomsQuiet, RoomQuiet, SameRuntime
<1>2. MapConsistent'
  BY <1>1 DEF IInv, TypeOK, MapConsistent
<1>3. AbsentRoomsUnknown'
  BY <1>1, NullAssumption DEF IInv, AbsentRoomsUnknown, RoomsKnown
<1>4. RegistryHistory'
  <2> SUFFICES ASSUME NEW r \in RoomIds, rooms'[r].state # "absent"
               PROVE  /\ rooms'[r].nb \in Notebooks
                      /\ r \in registry' <=> removed'[r] = "no"
                      /\ removed'[r] \in {"clean", "failed", "cancelled"} =>
                           rooms'[r].session # NoSession
                      /\ removed'[r] = "clean" => sessions'[rooms'[r].session].status = "down"
    BY DEF RegistryHistory
  <2>1. rooms[r].session \in SessionIds \cup {NoSession}
    BY DEF IInv, TypeOK, Room
  <2>2. QED
    BY <1>1, <2>1 DEF IInv, RegistryHistory, SessionsQuiet, SessionQuiet
<1>5. UnusedSessionsUnknown'
  BY <1>1 DEF IInv, UnusedSessionsUnknown, SessionsQuiet, SessionQuiet
<1>6. RoomMatchesSession'
  <2> SUFFICES ASSUME NEW r \in RoomIds
               PROVE  /\ rooms'[r].session # NoSession =>
                           /\ sessions'[rooms'[r].session].nb = rooms'[r].nb
                           /\ sessions'[rooms'[r].session].kernel = rooms'[r].kernel
                           /\ sessions'[rooms'[r].session].status # "unused"
                      /\ rooms'[r].state \in LiveStates => rooms'[r].session # NoSession
    BY DEF RoomMatchesSession, IsLive
  <2>1. rooms[r].session \in SessionIds \cup {NoSession}
    BY DEF IInv, TypeOK, Room
  <2>2. rooms'[r].state \in LiveStates => rooms'[r].session # NoSession
    BY <1>1 DEF IInv, RoomMatchesSession, IsLive, RoomsQuiet, RoomQuiet
  <2>3. QED
    BY <1>1, <2>1, <2>2 DEF IInv, RoomMatchesSession, SessionsQuiet, SessionQuiet
<1>7. KernelAccountedFor'
  BY <1>1 DEF IInv, KernelAccountedFor, SessionsQuiet, SessionQuiet
<1>8. StopClearsControlPlane'
  <2>1. \A r \in RoomIds : removed[r] \in {"clean", "failed"} =>
          rooms'[r].clients = {} /\ rooms'[r].jobs = {}
    BY DEF IInv, StopClearsControlPlane, RoomsQuiet, RoomQuiet
  <2>2. QED
    BY <2>1, NullAssumption DEF IInv, StopClearsControlPlane, RoomsKnown
<1>9. QED
  BY <1>2, <1>3, <1>4, <1>5, <1>6, <1>7, <1>8 DEF RoomsInv

(* A room with a fresh id enters the registry. *)
LEMMA RoomsStayConsistentWithNew ==
  ASSUME IInv, TypeOK', RoomsKnown, UNCHANGED <<sessions, removed>>,
         FreshRooms # {}, NEW n \in Notebooks,
         registry' = registry \cup {NextRoom},
         nbRoom' = [nbRoom EXCEPT ![n] = NextRoom],
         \A r \in RoomIds \ {NextRoom} : RoomQuiet(r),
         rooms'[NextRoom].nb = n, rooms'[NextRoom].state # "absent",
         rooms'[NextRoom].state \in LiveStates => rooms'[NextRoom].session # NoSession,
         rooms'[NextRoom].session # NoSession =>
           /\ sessions[rooms'[NextRoom].session].nb = n
           /\ sessions[rooms'[NextRoom].session].kernel = rooms'[NextRoom].kernel
           /\ sessions[rooms'[NextRoom].session].status # "unused"
  PROVE  RoomsInv'
<1>1. NextRoom \in RoomIds /\ rooms[NextRoom].state = "absent"
  BY NextIdsTyped
<1>2. /\ NextRoom \notin registry /\ removed[NextRoom] = "no"
      /\ rooms[NextRoom].session = NoSession
  BY <1>1 DEF IInv, AbsentRoomsUnknown
<1>3. \A r \in RoomIds \ {NextRoom} :
        /\ rooms'[r].nb = rooms[r].nb /\ rooms'[r].session = rooms[r].session
        /\ rooms'[r].kernel = rooms[r].kernel
        /\ rooms'[r].state = "absent" => rooms'[r] = rooms[r]
        /\ rooms[r].state = "absent" => rooms'[r] = rooms[r]
  BY DEF RoomQuiet, SameRuntime
<1>4. MapConsistent'
  BY <1>1, <1>2, <1>3 DEF IInv, TypeOK, MapConsistent
<1>5. AbsentRoomsUnknown'
  BY <1>1, <1>3, NullAssumption DEF IInv, AbsentRoomsUnknown, RoomsKnown
<1>6. RegistryHistory'
  <2>1. \A r \in RoomIds \ {NextRoom} : rooms[r].session \in SessionIds \cup {NoSession}
    BY DEF IInv, TypeOK, Room
  <2>2. QED
    BY <1>1, <1>2, <1>3, <2>1 DEF IInv, RegistryHistory
<1>7. UnusedSessionsUnknown'
  BY <1>1, <1>3, NullAssumption DEF IInv, UnusedSessionsUnknown
<1>8. RoomMatchesSession'
  <2>1. \A r \in RoomIds \ {NextRoom} :
          rooms'[r].state \in LiveStates => rooms'[r].session # NoSession
    BY <1>3 DEF IInv, RoomMatchesSession, IsLive, RoomQuiet
  <2>2. QED
    BY <1>1, <1>3, <2>1 DEF IInv, RoomMatchesSession, IsLive
<1>9. KernelAccountedFor'
  <2> SUFFICES ASSUME NEW s \in SessionIds,
                      sessions[s].status = "up" /\ sessions[s].by = "hypernote"
               PROVE  \E r \in RoomIds :
                        /\ rooms'[r].session = s
                        /\ r \in registry' \/ removed'[r] \in {"failed", "early", "cancelled"}
    BY DEF KernelAccountedFor
  <2>1. PICK r \in RoomIds :
          /\ rooms[r].session = s
          /\ r \in registry \/ removed[r] \in {"failed", "early", "cancelled"}
    BY DEF IInv, KernelAccountedFor
  <2>2. r # NextRoom
    BY <1>2, <2>1, NullAssumption
  <2>3. QED
    BY <1>3, <2>1, <2>2
<1>10. StopClearsControlPlane'
  <2>1. \A r \in RoomIds : removed[r] \in {"clean", "failed"} =>
          rooms'[r].clients = {} /\ rooms'[r].jobs = {}
    BY <1>2 DEF IInv, StopClearsControlPlane, RoomQuiet
  <2>2. QED
    BY <2>1, NullAssumption DEF IInv, StopClearsControlPlane, RoomsKnown
<1>11. QED
  BY <1>4, <1>5, <1>6, <1>7, <1>8, <1>9, <1>10 DEF RoomsInv

(* stop_runtime's finally block, however it is reached *)
LEMMA RoomsStayConsistentWithout ==
  ASSUME IInv, TypeOK', SessionsQuiet, NEW r \in RoomIds, rooms[r].state # "absent",
         NEW how \in {"clean", "failed", "early", "cancelled"}, NEW notify \in BOOLEAN,
         RemoveRoom(r, how, notify),
         how \in {"clean", "failed"} => notify,
         how = "early" <=> rooms[r].session = NoSession,
         how = "clean" => sessions'[rooms[r].session].status = "down",
         \A a \in Actors : act'[a].room \in {act[a].room, r, NoRoom}
  PROVE  RoomsInv'
<1>1. /\ SameRuntime(rooms'[r], rooms[r]) /\ rooms'[r].state = "stopped"
      /\ rooms'[r].clients = {} /\ rooms'[r].jobs = {}
  <2>1. rooms[r] \in Room /\ rooms'[r] = Stopped(rooms[r])
    BY DEF IInv, TypeOK, RemoveRoom, StoppedRooms
  <2>2. QED
    BY <2>1, RoomKept DEF Stopped, Room
<1>2. \A q \in RoomIds \ {r} : rooms'[q] = rooms[q] /\ removed'[q] = removed[q]
  BY DEF IInv, TypeOK, RemoveRoom, StoppedRooms
<1>3. removed'[r] = how /\ registry' = registry \ {r}
  BY DEF IInv, TypeOK, RemoveRoom
<1>4. \A j \in Jobs : records'[j] = records[j] \/ records'[j] = NoRoom
  BY DEF IInv, TypeOK, RemoveRoom, EvictedRecords
<1>5. MapConsistent'
  BY <1>2 DEF IInv, TypeOK, MapConsistent, RemoveRoom
<1>6. AbsentRoomsUnknown'
  BY <1>1, <1>2, <1>3, <1>4, NullAssumption DEF IInv, AbsentRoomsUnknown, SameRuntime
<1>7. RegistryHistory'
  <2>1. \A q \in RoomIds : rooms[q].session \in SessionIds \cup {NoSession}
    BY DEF IInv, TypeOK, Room
  <2>2. \A s \in SessionIds : sessions[s].status = "down" => sessions'[s].status = "down"
    BY DEF SessionsQuiet, SessionQuiet
  <2>3. QED
    BY <1>1, <1>2, <1>3, <2>1, <2>2 DEF IInv, RegistryHistory, SameRuntime
<1>8. UnusedSessionsUnknown'
  BY <1>1, <1>2 DEF IInv, UnusedSessionsUnknown, SessionsQuiet, SessionQuiet, SameRuntime
<1>9. RoomMatchesSession'
  <2>1. \A q \in RoomIds : rooms[q].session \in SessionIds \cup {NoSession}
    BY DEF IInv, TypeOK, Room
  <2>2. \A s \in SessionIds : sessions[s].status # "unused" =>
          /\ sessions'[s].nb = sessions[s].nb /\ sessions'[s].kernel = sessions[s].kernel
          /\ sessions'[s].status # "unused"
    BY DEF SessionsQuiet, SessionQuiet
  <2>3. QED
    BY <1>1, <1>2, <2>1, <2>2 DEF IInv, RoomMatchesSession, SameRuntime, IsLive, LiveStates
<1>10. KernelAccountedFor'
  <2> SUFFICES ASSUME NEW s \in SessionIds,
                      sessions'[s].status = "up" /\ sessions'[s].by = "hypernote"
               PROVE  \E q \in RoomIds :
                        /\ rooms'[q].session = s
                        /\ q \in registry' \/ removed'[q] \in {"failed", "early", "cancelled"}
    BY DEF KernelAccountedFor
  <2>1. sessions[s].status = "up" /\ sessions[s].by = "hypernote"
    BY DEF SessionsQuiet, SessionQuiet
  <2>2. PICK q \in RoomIds :
          /\ rooms[q].session = s
          /\ q \in registry \/ removed[q] \in {"failed", "early", "cancelled"}
    BY <2>1 DEF IInv, KernelAccountedFor
  <2>3. q = r => how # "clean"
    BY <2>2
  <2>4. QED
    BY <1>1, <1>2, <1>3, <2>2, <2>3 DEF SameRuntime
<1>11. StopClearsControlPlane'
  <2>1. how \in {"clean", "failed"} => \A j \in Jobs : records'[j] # r
    BY NullAssumption DEF RemoveRoom, EvictedRecords
  <2>2. QED
    BY <1>1, <1>2, <1>3, <1>4, <2>1, NullAssumption DEF IInv, StopClearsControlPlane
<1>12. QED
  BY <1>5, <1>6, <1>7, <1>8, <1>9, <1>10, <1>11 DEF RoomsInv

-----------------------------------------------------------------------------
(* The conjuncts of IInv that are about calls *)

CallsInv == CallsConsistent /\ CallsApart /\ GcOnlySweeps /\ EnsuredRoomUsable

Running == {"returned", "sweep"}

(* An action that no call takes: the event loop is free. *)
LEMMA CallsStayConsistent ==
  ASSUME IInv, LoopFree, UNCHANGED <<act, removed>>,
         \A r \in RoomIds : rooms'[r].nb = rooms[r].nb /\ rooms'[r].session = rooms[r].session
  PROVE  CallsInv'
<1>1. \A a \in Actors : act'[a].pc # "returned"
  BY DEF LoopFree
<1>2. \A a \in Actors : act[a].room \in RoomIds \cup {NoRoom}
  BY DEF IInv, TypeOK, Actor
<1>3. CallsConsistent'
  BY <1>2 DEF IInv, CallsConsistent, CallKnows
<1>4. CallsApart' /\ GcOnlySweeps' /\ EnsuredRoomUsable'
  BY <1>1 DEF IInv, CallsApart, GcOnlySweeps, EnsuredRoomUsable
<1>5. QED
  BY <1>3, <1>4 DEF CallsInv

(* An action of call a *)
LEMMA CallsStayConsistentWith ==
  ASSUME IInv, NEW a \in Actors, LoopFree \/ act[a].pc \in Running,
         \A b \in Actors \ {a} :
           /\ act'[b] = act[b]
           /\ act[b].room # NoRoom =>
                /\ rooms'[act[b].room].nb = rooms[act[b].room].nb
                /\ rooms'[act[b].room].session = rooms[act[b].room].session
           /\ act[b].pc = "creating" /\ act'[a].pc = "creating" =>
                act[b].room # act'[a].room,
         CallKnows(act[a])',
         a = Gc => act'[a].op \in {"none", "gc"},
         act'[a].pc = "returned" => UsableFor(act[a], act[a].room)'
  PROVE  CallsInv'
<1>1. \A b \in Actors \ {a} : act[b].pc \notin Running
  BY DEF IInv, CallsApart, LoopFree, Running
<1>2. CallsConsistent'
  <2> SUFFICES ASSUME NEW b \in Actors \ {a} PROVE CallKnows(act[b])'
    BY DEF CallsConsistent
  <2>1. CallKnows(act[b]) /\ act'[b] = act[b] /\ act[b].pc # "returned"
    BY <1>1 DEF IInv, CallsConsistent, Running
  <2>2. act[b].room \in RoomIds \cup {NoRoom}
    BY DEF IInv, TypeOK, Actor
  <2>3. QED
    BY <2>1, <2>2, NullAssumption DEF CallKnows
<1>3. CallsApart'
  BY <1>1 DEF IInv, CallsApart, Running
<1>4. GcOnlySweeps'
  BY DEF IInv, GcOnlySweeps, Actors
<1>5. EnsuredRoomUsable'
  BY <1>1 DEF EnsuredRoomUsable, Running
<1>6. QED
  BY <1>2, <1>3, <1>4, <1>5 DEF CallsInv

-----------------------------------------------------------------------------
(* What an action writes into its call *)

LEMMA NewCallFields ==
  ASSUME NEW op, NEW n, NEW k, NEW c, NEW pc, NEW r
  PROVE  /\ At(Call(op, n, k, c), pc, r).pc = pc /\ At(Call(op, n, k, c), pc, r).op = op
         /\ At(Call(op, n, k, c), pc, r).nb = n /\ At(Call(op, n, k, c), pc, r).kernel = k
         /\ At(Call(op, n, k, c), pc, r).room = r
         /\ Call(op, n, k, c).op = op /\ Call(op, n, k, c).room = NoRoom
BY DEF At, Call, IdleActor

LEMMA CallFields ==
  ASSUME NEW actor \in Actor
  PROVE  /\ \A pc, r : /\ At(actor, pc, r).pc = pc /\ At(actor, pc, r).room = r
                       /\ At(actor, pc, r).op = actor.op /\ At(actor, pc, r).nb = actor.nb
                       /\ At(actor, pc, r).kernel = actor.kernel
         /\ \A T : /\ Visiting(actor, T).pc = "sweep" /\ Visiting(actor, T).room = actor.room
                   /\ Visiting(actor, T).op = actor.op
         /\ Unwinding(actor).pc = "unwinding" /\ Unwinding(actor).room = actor.room
         /\ Unwinding(actor).op = actor.op
BY DEF Actor, At, Visiting, Unwinding

LEMMA EndedFields ==
  /\ IdleActor.pc = "idle" /\ IdleActor.room = NoRoom /\ IdleActor.op = "none"
  /\ Ended.pc = "ended" /\ Ended.room = NoRoom /\ Ended.op = "none"
BY DEF IdleActor, Ended, At

(* A call that waits for nothing knows nothing. *)
LEMMA IdleKnows ==
  ASSUME NEW a \in Actors, act'[a].room = NoRoom,
         act'[a].pc \in {"idle", "ended", "sweep", "joining"}
  PROVE  CallKnows(act[a])'
BY DEF CallKnows

LEMMA RegisteredFacts ==
  ASSUME IInv
  PROVE  /\ \A r \in registry : r \in RoomIds /\ rooms[r].state # "absent" /\ removed[r] = "no"
         /\ \A n \in Notebooks : Current(n) # NoRoom =>
              Current(n) \in registry /\ rooms[Current(n)].nb = n
BY DEF IInv, TypeOK, AbsentRoomsUnknown, RegistryHistory, Current, MapConsistent

LEMMA LiveHasSession ==
  ASSUME IInv, NEW r \in RoomIds, rooms[r].state \in LiveStates
  PROVE  rooms[r].session # NoSession /\ rooms[r].state # "absent"
BY DEF IInv, RoomMatchesSession, IsLive, LiveStates

(* An action that no call takes, writing one room of the registry *)
LEMMA RoomCallSafe ==
  ASSUME IInv, TypeOK', LoopFree, NEW r \in registry,
         UNCHANGED <<registry, nbRoom, sessions, records, act, removed, closing>>,
         \A q \in RoomIds \ {r} : rooms'[q] = rooms[q],
         SameRuntime(rooms'[r], rooms[r]),
         rooms'[r].state \in LiveStates => rooms[r].session # NoSession
  PROVE  IInv'
<1>1. r \in RoomIds /\ rooms[r].state # "absent" /\ removed[r] = "no"
  BY RegisteredFacts
<1>2. RoomsQuiet /\ SessionsQuiet /\ RoomsKnown
  BY <1>1 DEF RoomsQuiet, RoomQuiet, SessionsQuiet, SessionQuiet, RoomsKnown
<1>3. RoomsInv'
  BY <1>2, RoomsStayConsistent
<1>4. CallsInv'
  BY <1>1, CallsStayConsistent DEF SameRuntime
<1>5. QED
  BY <1>3, <1>4 DEF IInv, RoomsInv, CallsInv

(* An action that changes no room and no session *)
LEMMA CallSafe ==
  ASSUME IInv, TypeOK', UNCHANGED <<rooms, registry, nbRoom, sessions, records, removed>>,
         NEW a \in Actors, LoopFree \/ act[a].pc \in Running,
         \A b \in Actors \ {a} : act'[b] = act[b],
         act'[a].pc \in {"idle", "ended", "sweep", "joining", "looking"},
         act'[a].pc = "looking" => act'[a].nb \in Notebooks /\ act'[a].op \in {"ensure", "status"},
         act'[a].room = NoRoom,
         a = Gc => act'[a].op \in {"none", "gc"}
  PROVE  IInv'
<1>1. RoomsQuiet /\ SessionsQuiet /\ RoomsKnown
  BY DEF RoomsQuiet, RoomQuiet, SessionsQuiet, SessionQuiet, RoomsKnown
<1>2. RoomsInv'
  BY <1>1, RoomsStayConsistent
<1>3. CallKnows(act[a])'
  BY DEF CallKnows
<1>4. CallsInv'
  BY <1>3, CallsStayConsistentWith
<1>5. QED
  BY <1>2, <1>4 DEF IInv, RoomsInv, CallsInv

LEMMA RoomCallsSafe ==
  ASSUME IInv, TypeOK', RoomCalls \/ \E r \in RoomIds : TimePasses(r)
  PROVE  IInv'
<1> USE RegisteredFacts
<1>0. \A r \in registry : r \in RoomIds /\ rooms[r] \in Room /\ rooms[r].state # "absent"
  BY DEF IInv, TypeOK
<1>1. ASSUME NEW r \in RoomIds, NEW c \in Clients, AttachClient(r, c)
      PROVE  IInv'
  <2>1. SameRuntime(Attached(rooms[r], c), rooms[r])
    BY <1>0, <1>1, RoomKept DEF AttachClient
  <2>2. rooms[r].session # NoSession
    BY <1>1, LiveHasSession DEF AttachClient, IsLive
  <2>3. QED
    BY <1>1, <2>1, <2>2, RoomCallSafe DEF AttachClient, IInv, TypeOK
<1>2. ASSUME NEW r \in RoomIds, NEW c \in Clients, DetachClient(r, c)
      PROVE  IInv'
  <2>1. SameRuntime(Detached(rooms[r], c), rooms[r])
    BY <1>0, <1>2, RoomKept DEF DetachClient
  <2>2. Detached(rooms[r], c).state \in LiveStates => rooms[r].state \in LiveStates
    BY <1>0, <1>2 DEF DetachClient, Detached, LiveStates, Room
  <2>3. QED
    BY <1>2, <2>1, <2>2, RoomCallSafe, LiveHasSession DEF DetachClient, IInv, TypeOK
<1>3. ASSUME NEW r \in RoomIds, NEW x \in LiveStates, SetRuntimeState(r, x)
      PROVE  IInv'
  <2>1. SameRuntime(InState(rooms[r], x), rooms[r])
    BY <1>0, <1>3, RoomKept DEF SetRuntimeState, LiveStates, RuntimeState
  <2>2. QED
    BY <1>3, <2>1, RoomCallSafe DEF SetRuntimeState, IInv, TypeOK
<1>4. ASSUME NEW r \in RoomIds, TouchActivity(r)
      PROVE  IInv'
  <2>1. SameRuntime(InState(rooms[r], rooms[r].state), rooms[r])
    BY <1>0, <1>4, RoomKept DEF TouchActivity
  <2>2. InState(rooms[r], rooms[r].state).state = rooms[r].state
    BY <1>0, <1>4 DEF TouchActivity, InState, Room
  <2>3. QED
    BY <1>4, <2>1, <2>2, RoomCallSafe, LiveHasSession DEF TouchActivity, IInv, TypeOK
<1>5. ASSUME NEW n \in Notebooks, NEW j \in Jobs, MarkJobFinished(n, j)
      PROVE  IInv'
  <2> DEFINE r == Current(n)
  <2>1. r \in registry
    BY <1>5 DEF MarkJobFinished
  <2>2. rooms[r].jobs \ {j} \in SUBSET Jobs
    BY <1>0, <2>1 DEF Room
  <2>3. SameRuntime(WithJobs(rooms[r], rooms[r].jobs \ {j}), rooms[r])
    BY <1>0, <2>1, <2>2, RoomKept
  <2>4. WithJobs(rooms[r], rooms[r].jobs \ {j}).state = rooms[r].state
    BY <1>0, <2>1 DEF WithJobs, Room
  <2>5. rooms' = [rooms EXCEPT ![r] = WithJobs(rooms[r], rooms[r].jobs \ {j})]
    BY <1>5 DEF MarkJobFinished
  <2>6. LoopFree /\ UNCHANGED <<registry, nbRoom, sessions, records, act, removed, closing>>
    BY <1>5 DEF MarkJobFinished
  <2> HIDE DEF r
  <2>7. /\ \A q \in RoomIds \ {r} : rooms'[q] = rooms[q]
        /\ SameRuntime(rooms'[r], rooms[r]) /\ rooms'[r].state = rooms[r].state
    BY <1>0, <2>1, <2>3, <2>4, <2>5 DEF IInv, TypeOK
  <2>8. rooms'[r].state \in LiveStates => rooms[r].session # NoSession
    BY <1>0, <2>1, <2>7, LiveHasSession
  <2>9. QED
    BY <2>1, <2>6, <2>7, <2>8, RoomCallSafe
<1>6. ASSUME NEW r \in RoomIds, TimePasses(r)
      PROVE  IInv'
  <2>1. SameRuntime(Idled(rooms[r]), rooms[r])
    BY <1>0, <1>6, RoomKept DEF TimePasses
  <2>2. rooms[r].session # NoSession
    BY <1>6, LiveHasSession DEF TimePasses, LiveStates
  <2>3. QED
    BY <1>6, <2>1, <2>2, RoomCallSafe DEF TimePasses, IInv, TypeOK
<1>7. QED
  BY <1>1, <1>2, <1>3, <1>4, <1>5, <1>6 DEF RoomCalls

-----------------------------------------------------------------------------
(* The actions of a call *)

(* A call writes to a room of the registry, or to one that has a session    *)
(* and was not removed by a stop that ran to its end.                       *)
LEMMA WriteSafe ==
  ASSUME IInv, TypeOK', UNCHANGED <<registry, nbRoom, sessions, removed>>,
         NEW a \in Actors, LoopFree \/ act[a].pc \in Running,
         NEW r \in RoomIds, rooms[r].state # "absent", removed[r] \in {"no", "early"},
         \A q \in RoomIds \ {r} : rooms'[q] = rooms[q],
         SameRuntime(rooms'[r], rooms[r]),
         rooms'[r].state \in LiveStates => rooms[r].session # NoSession,
         \A b \in Actors \ {a} : act'[b] = act[b],
         act'[a].pc # "creating", CallKnows(act[a])',
         act'[a].room \in {act[a].room, NoRoom, r},
         act'[a].pc = "returned" => UsableFor(act[a], act[a].room)',
         a = Gc => act'[a].op \in {"none", "gc"},
         \A j \in Jobs : \/ records'[j] = records[j]
                         \/ \E q \in RoomIds : /\ records'[j] = q /\ rooms[q].state # "absent"
                                               /\ removed[q] \notin {"clean", "failed"}
  PROVE  IInv'
<1>1. RoomsQuiet /\ SessionsQuiet
  BY DEF RoomsQuiet, RoomQuiet, SessionsQuiet, SessionQuiet
<1>2. RoomsKnown
  BY DEF RoomsKnown, SameRuntime
<1>3. RoomsInv'
  BY <1>1, <1>2, RoomsStayConsistent
<1>4. \A b \in Actors : act[b].room \in RoomIds \cup {NoRoom}
  BY DEF IInv, TypeOK, Actor
<1>5. CallsInv'
  BY <1>4, CallsStayConsistentWith DEF SameRuntime
<1>6. QED
  BY <1>3, <1>5 DEF IInv, RoomsInv, CallsInv

LEMMA BeginStopSafe ==
  ASSUME IInv, TypeOK', UNCHANGED sessions,
         NEW a \in Actors, LoopFree \/ act[a].pc \in Running,
         NEW actor \in Actor, NEW r \in RoomIds, Stoppable(r), BeginStop(a, actor, r),
         actor.room = NoRoom, a = Gc => actor.op \in {"none", "gc"},
         actor.op = "stop" \/ actor.pc = "sweep"
  PROVE  IInv'
<1>1. r \in registry /\ rooms[r] \in Room /\ rooms[r].state # "absent" /\ removed[r] = "no"
  BY RegisteredFacts DEF Stoppable, IInv, TypeOK
<1>2. CASE rooms[r].session # NoSession
  <2>1. /\ rooms' = [rooms EXCEPT ![r] = InState(rooms[r], "stopping")]
        /\ act' = [act EXCEPT ![a] = At(actor, "deleting", r)]
        /\ UNCHANGED <<registry, nbRoom, records, removed>>
    BY <1>2 DEF BeginStop
  <2>2. SameRuntime(InState(rooms[r], "stopping"), rooms[r])
    BY <1>1, RoomKept DEF RuntimeState
  <2>3. /\ \A q \in RoomIds \ {r} : rooms'[q] = rooms[q]
        /\ SameRuntime(rooms'[r], rooms[r])
    BY <2>1, <2>2 DEF IInv, TypeOK
  <2>4. /\ act'[a].pc = "deleting" /\ act'[a].room = r /\ act'[a].op = actor.op
        /\ \A b \in Actors \ {a} : act'[b] = act[b]
    BY <2>1, CallFields DEF IInv, TypeOK
  <2>5. CallKnows(act[a])'
    BY <1>2, <2>3, <2>4 DEF CallKnows, SameRuntime
  <2>6. QED
    BY <1>1, <1>2, <2>1, <2>3, <2>4, <2>5, WriteSafe
<1>3. CASE rooms[r].session = NoSession
  <2>1. /\ RemoveRoom(r, "early", TRUE)
        /\ act' = [act EXCEPT ![a] = IF actor.op = "stop" THEN IdleActor ELSE actor]
    BY <1>3 DEF BeginStop
  <2>2. /\ act'[a].room = NoRoom /\ act'[a].pc \in {"idle", "sweep"}
        /\ a = Gc => act'[a].op \in {"none", "gc"}
        /\ \A b \in Actors \ {a} : act'[b] = act[b]
    BY <2>1, EndedFields DEF IInv, TypeOK
  <2>3. SessionsQuiet
    BY DEF SessionsQuiet, SessionQuiet
  <2>4. RoomsInv'
    BY <1>1, <1>3, <2>1, <2>2, <2>3, RoomsStayConsistentWithout
  <2>5. \A q \in RoomIds : rooms'[q].nb = rooms[q].nb /\ rooms'[q].session = rooms[q].session
    BY <1>1, <2>1, RoomKept DEF RemoveRoom, StoppedRooms, IInv, TypeOK, SameRuntime
  <2>6. \A b \in Actors : act[b].room \in RoomIds \cup {NoRoom}
    BY DEF IInv, TypeOK, Actor
  <2>7. CallKnows(act[a])'
    BY <2>2, IdleKnows
  <2>8. CallsInv'
    BY <2>2, <2>5, <2>6, <2>7, CallsStayConsistentWith
  <2>9. QED
    BY <2>4, <2>8 DEF IInv, RoomsInv, CallsInv
<1>4. QED
  BY <1>2, <1>3

LEMMA StopSafe ==
  ASSUME IInv, TypeOK', NEW t \in Tasks, NEW n \in Notebooks, StopCall(t, n)
  PROVE  IInv'
<1>1. /\ t \in Actors /\ t # Gc /\ LoopFree
      /\ Current(n) \in RoomIds /\ Stoppable(Current(n)) /\ UNCHANGED sessions
      /\ BeginStop(t, Plain("stop", n), Current(n))
  BY ActorsAssumption, RegisteredFacts DEF StopCall, CanCall, Actors
<1>2. /\ Plain("stop", n) \in Actor /\ Plain("stop", n).room = NoRoom
      /\ Plain("stop", n).op = "stop"
  <2>1. Plain("stop", n) \in Actor
    BY NewActorTyped
  <2>2. QED
    BY <2>1 DEF Plain, Call, IdleActor
<1> DEFINE actor == Plain("stop", n)
<1>3. actor \in Actor /\ actor.room = NoRoom /\ actor.op = "stop"
  BY <1>2
<1>4. BeginStop(t, actor, Current(n))
  BY <1>1
<1> HIDE DEF actor
<1>5. QED
  BY <1>1, <1>3, <1>4, BeginStopSafe

LEMMA SweepNextSafe ==
  ASSUME IInv, TypeOK', NEW a \in Actors, SweepNext(a)
  PROVE  IInv'
<1>1. PICK r \in act[a].todo :
        LET left == Visiting(act[a], act[a].todo \ {r}) IN
        IF Stoppable(r)
        THEN BeginStop(a, left, r)
        ELSE /\ act' = [act EXCEPT ![a] = left]
             /\ UNCHANGED <<rooms, registry, nbRoom, records, removed>>
  BY DEF SweepNext
<1> DEFINE left == Visiting(act[a], act[a].todo \ {r})
<1>2. /\ act[a] \in Actor /\ act[a].todo \subseteq RoomIds /\ UNCHANGED sessions
      /\ act[a].pc = "sweep" /\ act[a].room = NoRoom
      /\ a = Gc => act[a].op \in {"none", "gc"}
  <2>1. act[a] \in Actor /\ act[a].pc = "sweep" /\ UNCHANGED sessions
    BY DEF SweepNext, IInv, TypeOK
  <2>2. act[a].todo \subseteq RoomIds
    BY <2>1 DEF Actor
  <2>3. act[a].room = NoRoom
    BY <2>1 DEF IInv, CallsConsistent, CallKnows
  <2>4. QED
    BY <2>1, <2>2, <2>3 DEF IInv, GcOnlySweeps
<1>3. /\ left \in Actor /\ left.pc = "sweep" /\ left.room = NoRoom /\ left.op = act[a].op
  <2>1. act[a].todo \ {r} \in SUBSET RoomIds
    BY <1>2
  <2>2. left \in Actor
    BY <1>2, <2>1, ActorTyped
  <2>3. left.pc = "sweep" /\ left.room = act[a].room /\ left.op = act[a].op
    BY <1>2, CallFields
  <2>4. QED
    BY <1>2, <2>2, <2>3
<1>4. CASE Stoppable(r)
  <2>1. BeginStop(a, left, r)
    BY <1>1, <1>4
  <2> HIDE DEF left
  <2>2. QED
    BY <1>2, <1>3, <1>4, <2>1, BeginStopSafe DEF Running
<1>5. CASE ~Stoppable(r)
  <2>1. /\ act'[a] = left /\ \A b \in Actors \ {a} : act'[b] = act[b]
        /\ UNCHANGED <<rooms, registry, nbRoom, records, removed>>
    BY <1>1, <1>5 DEF IInv, TypeOK
  <2>2. QED
    BY <1>2, <1>3, <2>1, CallSafe DEF Running
<1>6. QED
  BY <1>4, <1>5

LEMMA FreshRoomFacts ==
  ASSUME IInv, FreshRooms # {}
  PROVE  /\ NextRoom \in RoomIds /\ NextRoom \notin registry
         /\ rooms[NextRoom].state = "absent" /\ rooms[NextRoom].session = NoSession
         /\ \A a \in Actors : act[a].room # NextRoom
BY NextIdsTyped DEF IInv, AbsentRoomsUnknown

(* A call registers a room under a fresh id. *)
LEMMA RegisterSafe ==
  ASSUME IInv, TypeOK', UNCHANGED <<sessions, records, removed>>,
         NEW a \in Actors, LoopFree, FreshRooms # {}, NEW n \in Notebooks,
         registry' = registry \cup {NextRoom},
         nbRoom' = [nbRoom EXCEPT ![n] = NextRoom],
         \A r \in RoomIds \ {NextRoom} : RoomQuiet(r),
         rooms'[NextRoom].nb = n, rooms'[NextRoom].state # "absent",
         rooms'[NextRoom].state \in LiveStates => rooms'[NextRoom].session # NoSession,
         rooms'[NextRoom].session # NoSession =>
           /\ sessions[rooms'[NextRoom].session].nb = n
           /\ sessions[rooms'[NextRoom].session].kernel = rooms'[NextRoom].kernel
           /\ sessions[rooms'[NextRoom].session].status # "unused",
         \A b \in Actors \ {a} : act'[b] = act[b],
         act'[a].room \in {NoRoom, NextRoom}, CallKnows(act[a])',
         a = Gc => act'[a].op \in {"none", "gc"},
         act'[a].pc = "creating" => act'[a].room = NextRoom,
         act'[a].pc = "returned" => UsableFor(act[a], act[a].room)'
  PROVE  IInv'
<1>1. RoomsKnown
  BY FreshRoomFacts DEF RoomsKnown
<1>2. RoomsInv'
  BY <1>1, RoomsStayConsistentWithNew
<1>3. \A b \in Actors : act[b].room \in RoomIds \cup {NoRoom} /\ act[b].room # NextRoom
  BY FreshRoomFacts DEF IInv, TypeOK, Actor
<1>4. \A r \in RoomIds \ {NextRoom} :
        rooms'[r].nb = rooms[r].nb /\ rooms'[r].session = rooms[r].session
  BY DEF RoomQuiet, SameRuntime
<1>5. CallsInv'
  BY <1>3, <1>4, CallsStayConsistentWith
<1>6. QED
  BY <1>2, <1>5 DEF IInv, RoomsInv, CallsInv

(* _load_or_refresh_room on a registered room keeps its runtime. *)
LEMMA RefreshedFacts ==
  ASSUME IInv, NEW r \in RoomIds, rooms[r].state # "absent"
  PROVE  /\ SameRuntime(Refreshed(r), rooms[r])
         /\ Refreshed(r).clients = rooms[r].clients /\ Refreshed(r).jobs = rooms[r].jobs
         /\ Refreshed(r).state \in LiveStates =>
              Refreshed(r) = rooms[r] /\ KernelUp(r) /\ rooms[r].state \in LiveStates
<1>1. rooms[r] \in Room
  BY DEF IInv, TypeOK
<1>2. /\ SameRuntime(Lost(rooms[r]), rooms[r]) /\ Lost(rooms[r]).state = "stopped"
      /\ Lost(rooms[r]).clients = rooms[r].clients /\ Lost(rooms[r]).jobs = rooms[r].jobs
  BY <1>1, RoomKept DEF Lost, Room
<1>3. QED
  BY <1>2 DEF Refreshed, SameRuntime, LiveStates

LEMMA NewRoomFields ==
  ASSUME NEW n
  PROVE  /\ NewRoom(n).nb = n /\ NewRoom(n).session = NoSession
         /\ NewRoom(n).state = "starting"
BY DEF NewRoom, AbsentRoom

LEMMA EnsureSafe ==
  ASSUME IInv, TypeOK', NEW t \in Tasks, NEW n \in Notebooks,
         NEW k \in KernelNames \cup {NoKernel}, NEW c \in Clients \cup {NoClient},
         EnsureCall(t, n, k, c)
  PROVE  IInv'
<1> DEFINE start == Call("ensure", n, k, c)
           r == Current(n)
<1>1. t \in Actors /\ t # Gc /\ LoopFree /\ UNCHANGED <<sessions, records, removed>>
  BY ActorsAssumption DEF EnsureCall, CanOpen, CanCall, Actors
<1>2. r # NoRoom => /\ r \in registry /\ r \in RoomIds /\ rooms[r].nb = n
                    /\ rooms[r].state # "absent" /\ removed[r] = "no"
  BY RegisteredFacts
<1>3. \A pc, q : /\ At(start, pc, q).pc = pc /\ At(start, pc, q).room = q
                 /\ At(start, pc, q).op = "ensure" /\ At(start, pc, q).nb = n
                 /\ At(start, pc, q).kernel = k
  BY NewCallFields
<1>4. CASE /\ act' = [act EXCEPT ![t] = At(start, "looking", NoRoom)]
           /\ UNCHANGED <<rooms, registry, nbRoom>>
  <2>1. /\ act'[t] = At(start, "looking", NoRoom)
        /\ \A b \in Actors \ {t} : act'[b] = act[b]
    BY <1>1, <1>4 DEF IInv, TypeOK
  <2>2. QED
    BY <1>1, <1>3, <1>4, <2>1, CallSafe
<1>5. CASE /\ r # NoRoom
           /\ Refreshed(r).state \in LiveStates
           /\ ~Mismatch(k, rooms[r])
           /\ rooms' = [rooms EXCEPT ![r] = InState(@, @.state)]
           /\ act' = [act EXCEPT ![t] = At(start, "returned", r)]
           /\ UNCHANGED <<registry, nbRoom>>
  <2>1. /\ act'[t] = At(start, "returned", r)
        /\ \A b \in Actors \ {t} : act'[b] = act[b]
    BY <1>1, <1>5 DEF IInv, TypeOK
  <2>2. KernelUp(r) /\ rooms[r].state \in LiveStates
    BY <1>2, <1>5, RefreshedFacts
  <2>3. rooms[r].session # NoSession
    BY <1>2, <1>5, <2>2, LiveHasSession
  <2>4. /\ SameRuntime(InState(rooms[r], rooms[r].state), rooms[r])
        /\ InState(rooms[r], rooms[r].state).state = rooms[r].state
    <3>1. rooms[r] \in Room
      BY <1>2, <1>5 DEF IInv, TypeOK
    <3>2. QED
      BY <1>2, <1>5, <3>1, RoomKept DEF InState, Room
  <2>5. /\ \A q \in RoomIds \ {r} : rooms'[q] = rooms[q]
        /\ SameRuntime(rooms'[r], rooms[r]) /\ rooms'[r].state = rooms[r].state
    BY <1>2, <1>5, <2>4 DEF IInv, TypeOK
  <2> HIDE DEF start, r
  <2>6. UsableFor(act[t], act[t].room)'
    BY <1>1, <1>2, <1>3, <1>5, <2>1, <2>2, <2>5
       DEF UsableFor, IsLive, KernelUp, Mismatch, SameRuntime
  <2>7. CallKnows(act[t])'
    BY <1>1, <1>2, <1>3, <1>5, <2>1, <2>3, <2>5 DEF CallKnows, SameRuntime
  <2>8. act'[t].room = r /\ act'[t].pc = "returned"
    BY <1>3, <2>1
  <2>9. QED
    BY <1>1, <1>2, <1>5, <2>1, <2>3, <2>5, <2>6, <2>7, <2>8, WriteSafe
<1>6. CASE /\ r # NoRoom
           /\ FreshRooms # {}
           /\ rooms' = [rooms EXCEPT ![r] = Refreshed(r), ![NextRoom] = NewRoom(n)]
           /\ registry' = registry \cup {NextRoom}
           /\ nbRoom' = [nbRoom EXCEPT ![n] = NextRoom]
           /\ act' = [act EXCEPT ![t] = At(start, "creating", NextRoom)]
  <2>1. /\ act'[t] = At(start, "creating", NextRoom)
        /\ \A b \in Actors \ {t} : act'[b] = act[b]
    BY <1>1, <1>6 DEF IInv, TypeOK
  <2>2. NextRoom \in RoomIds /\ r # NextRoom /\ rooms[NextRoom].session = NoSession
    BY <1>2, <1>6, FreshRoomFacts
  <2>3. /\ rooms'[NextRoom] = NewRoom(n) /\ rooms'[r] = Refreshed(r)
        /\ \A q \in RoomIds \ {r, NextRoom} : rooms'[q] = rooms[q]
    BY <1>2, <1>6, <2>2 DEF IInv, TypeOK
  <2>4. RoomQuiet(r)
    BY <1>2, <1>6, <2>3, RefreshedFacts, LiveHasSession DEF RoomQuiet
  <2>5. /\ rooms'[NextRoom].nb = n /\ rooms'[NextRoom].session = NoSession
        /\ rooms'[NextRoom].state = "starting"
    BY <2>3, NewRoomFields
  <2> HIDE DEF start, r
  <2>6. \A q \in RoomIds \ {NextRoom} : RoomQuiet(q)
    BY <2>3, <2>4 DEF RoomQuiet
  <2>7. /\ act'[t].pc = "creating" /\ act'[t].room = NextRoom /\ act'[t].op = "ensure"
        /\ act'[t].nb = n
    BY <1>3, <2>1
  <2>8. CallKnows(act[t])'
    BY <2>2, <2>5, <2>7 DEF CallKnows
  <2>9. "starting" \notin LiveStates
    BY DEF LiveStates
  <2>10. QED
    BY <1>1, <1>6, <2>1, <2>5, <2>6, <2>7, <2>8, <2>9, RegisterSafe
<1>7. QED
  BY <1>4, <1>5, <1>6 DEF EnsureCall

LEMMA StatusSafe ==
  ASSUME IInv, TypeOK', NEW t \in Tasks, NEW n \in Notebooks, StatusCall(t, n)
  PROVE  IInv'
<1> DEFINE start == At(Plain("status", n), "looking", NoRoom)
           r == Current(n)
<1>1. /\ t \in Actors /\ t # Gc /\ LoopFree
      /\ UNCHANGED <<registry, nbRoom, sessions, records, removed, closing>>
  BY ActorsAssumption DEF StatusCall, CanOpen, CanCall, Actors
<1>2. CASE act' = [act EXCEPT ![t] = start] /\ UNCHANGED rooms
  <2>1. act'[t] = start /\ \A b \in Actors \ {t} : act'[b] = act[b]
    BY <1>1, <1>2 DEF IInv, TypeOK
  <2>2. /\ start.pc = "looking" /\ start.room = NoRoom /\ start.op = "status"
        /\ start.nb = n
    BY NewCallFields DEF Plain
  <2> HIDE DEF start
  <2>3. QED
    BY <1>1, <1>2, <2>1, <2>2, CallSafe
<1>3. CASE r # NoRoom /\ rooms' = [rooms EXCEPT ![r] = Refreshed(r)] /\ UNCHANGED act
  <2>1. r \in registry /\ r \in RoomIds /\ rooms[r].state # "absent"
    BY <1>3, RegisteredFacts
  <2> HIDE DEF r
  <2>2. rooms'[r] = Refreshed(r) /\ \A q \in RoomIds \ {r} : rooms'[q] = rooms[q]
    BY <1>3, <2>1 DEF IInv, TypeOK
  <2>3. /\ SameRuntime(rooms'[r], rooms[r])
        /\ rooms'[r].state \in LiveStates => rooms[r].session # NoSession
    BY <2>1, <2>2, RefreshedFacts, LiveHasSession
  <2>4. QED
    BY <1>1, <1>3, <2>1, <2>2, <2>3, RoomCallSafe
<1>4. QED
  BY <1>2, <1>3 DEF StatusCall

LEMMA ShutdownSafe ==
  ASSUME IInv, TypeOK', NEW t \in Tasks, ShutdownCall(t)
  PROVE  IInv'
<1>1. /\ t \in Actors /\ t # Gc /\ Gc \in Actors /\ LoopFree
      /\ UNCHANGED <<rooms, registry, nbRoom, sessions, records, removed>>
      /\ act' = [act EXCEPT ![t] = At(Plain("shutdown", NoNotebook), "joining", NoRoom),
                            ![Gc] = Unwinding(@)]
  BY ActorsAssumption DEF ShutdownCall, CanCall, Actors
<1>2. /\ act'[t] = At(Plain("shutdown", NoNotebook), "joining", NoRoom)
      /\ act'[Gc] = Unwinding(act[Gc])
      /\ \A b \in Actors \ {t, Gc} : act'[b] = act[b]
  BY <1>1 DEF IInv, TypeOK
<1>3. act'[t].pc = "joining" /\ act'[t].room = NoRoom
  BY <1>2, NewCallFields DEF Plain
<1>4. /\ act'[Gc].pc = "unwinding" /\ act'[Gc].room = act[Gc].room
      /\ act'[Gc].op = act[Gc].op
  BY <1>1, <1>2, CallFields DEF IInv, TypeOK
<1>5. RoomsInv'
  <2>1. RoomsQuiet /\ SessionsQuiet
    BY <1>1 DEF RoomsQuiet, RoomQuiet, SessionsQuiet, SessionQuiet
  <2>2. RoomsKnown
    BY <1>1, <1>2, <1>3, <1>4 DEF RoomsKnown
  <2>3. QED
    BY <1>1, <2>1, <2>2, RoomsStayConsistent
<1>6. CallKnows(act[Gc])'
  <2>1. CallKnows(act[Gc]) /\ act[Gc].op \in {"none", "gc"} /\ act[Gc].pc # "returned"
    BY <1>1 DEF IInv, CallsConsistent, GcOnlySweeps, LoopFree
  <2>2. act[Gc] \in Actor
    BY <1>1 DEF IInv, TypeOK
  <2>3. act[Gc].pc \in {"idle", "looking", "creating", "returned", "deleting", "sweep",
                        "joining", "unwinding", "ended"}
    BY <2>2 DEF Actor
  <2>4. act[Gc].room # NoRoom => rooms[act[Gc].room].session # NoSession
    BY <2>1, <2>3 DEF CallKnows
  <2>5. QED
    BY <1>1, <1>4, <2>4 DEF CallKnows
<1>7. CallsConsistent'
  <2> SUFFICES ASSUME NEW b \in Actors PROVE CallKnows(act[b])'
    BY DEF CallsConsistent
  <2>1. CASE b = t
    BY <1>3, <2>1, IdleKnows
  <2>2. CASE b = Gc
    BY <1>6, <2>2
  <2>3. CASE b \notin {t, Gc}
    <3>1. CallKnows(act[b]) /\ act'[b] = act[b]
      BY <1>2, <2>3 DEF IInv, CallsConsistent
    <3>2. QED
      BY <1>1, <3>1 DEF CallKnows
  <2>4. QED
    BY <2>1, <2>2, <2>3
<1>8. CallsApart' /\ GcOnlySweeps' /\ EnsuredRoomUsable'
  <2>1. \A b \in Actors : act'[b].pc \notin {"returned", "sweep"}
    BY <1>1, <1>2, <1>3, <1>4 DEF LoopFree
  <2>2. \A b \in Actors : act'[b].pc = "creating" => act'[b] = act[b]
    BY <1>2, <1>3, <1>4
  <2>3. CallsApart'
    BY <2>1, <2>2 DEF IInv, CallsApart
  <2>4. QED
    BY <1>4, <2>1, <2>3 DEF IInv, GcOnlySweeps, EnsuredRoomUsable
<1>9. QED
  BY <1>5, <1>7, <1>8 DEF IInv, RoomsInv

(* What the holder of a room just ensured knows about it *)
LEMMA ReturnedFacts ==
  ASSUME IInv, NEW a \in Actors, act[a].pc = "returned"
  PROVE  /\ act[a].room \in RoomIds /\ act[a].nb \in Notebooks
         /\ rooms[act[a].room].state \in LiveStates
         /\ rooms[act[a].room].state # "absent"
         /\ rooms[act[a].room].session # NoSession
         /\ removed[act[a].room] \in {"no", "early"}
<1>1. act[a].room \in RoomIds /\ removed[act[a].room] \in {"no", "early"}
  BY DEF IInv, CallsConsistent, CallKnows
<1>2. rooms[act[a].room].state \in LiveStates /\ rooms[act[a].room].nb = act[a].nb
  BY DEF IInv, EnsuredRoomUsable, UsableFor, IsLive
<1>3. /\ rooms[act[a].room].session # NoSession
      /\ rooms[act[a].room].state # "absent"
  BY <1>1, <1>2, LiveHasSession
<1>4. QED
  BY <1>1, <1>2, <1>3 DEF IInv, RegistryHistory

LEMMA OpenReturnsSafe ==
  ASSUME IInv, TypeOK', NEW a \in Actors, OpenReturns(a)
  PROVE  IInv'
<1>1. /\ act[a].pc = "returned" /\ act[a].pc \in Running /\ act[a] \in Actor
      /\ UNCHANGED <<registry, nbRoom, sessions, records, removed>>
      /\ act'[a] = IdleActor /\ \A b \in Actors \ {a} : act'[b] = act[b]
  BY DEF OpenReturns, Finish, Running, IInv, TypeOK
<1>2. /\ act'[a].pc = "idle" /\ act'[a].room = NoRoom /\ act'[a].op = "none"
      /\ CallKnows(act[a])'
  BY <1>1, EndedFields, IdleKnows
<1>3. CASE act[a].client = NoClient
  <2>1. UNCHANGED rooms
    BY <1>3 DEF OpenReturns
  <2>2. QED
    BY <1>1, <1>2, <2>1, CallSafe
<1>4. CASE act[a].client # NoClient
  <2> DEFINE r == act[a].room
             c == act[a].client
  <2>1. c \in Clients
    BY <1>1, <1>4 DEF Actor
  <2>2. /\ r \in RoomIds /\ rooms[r].state # "absent" /\ rooms[r].session # NoSession
        /\ removed[r] \in {"no", "early"}
    BY <1>1, ReturnedFacts
  <2>3. rooms' = [rooms EXCEPT ![r] = Attached(rooms[r], c)]
    BY <1>4 DEF OpenReturns
  <2> HIDE DEF r, c
  <2>4. SameRuntime(Attached(rooms[r], c), rooms[r])
    BY <2>1, <2>2, RoomKept DEF IInv, TypeOK
  <2>5. /\ SameRuntime(rooms'[r], rooms[r])
        /\ \A q \in RoomIds \ {r} : rooms'[q] = rooms[q]
    BY <2>2, <2>3, <2>4 DEF IInv, TypeOK
  <2>6. QED
    BY <1>1, <1>2, <2>2, <2>5, WriteSafe
<1>5. QED
  BY <1>3, <1>4

LEMMA QueueReturnsSafe ==
  ASSUME IInv, TypeOK', NEW t \in Tasks, NEW j \in Jobs, QueueReturns(t, j)
  PROVE  IInv'
<1> DEFINE held == act[t].room
           cur == Current(act[t].nb)
<1>1. /\ t \in Actors /\ t # Gc
      /\ act[t].pc = "returned" /\ act[t].pc \in Running
      /\ UNCHANGED <<registry, nbRoom, sessions, removed>>
      /\ act'[t] = IdleActor /\ \A b \in Actors \ {t} : act'[b] = act[b]
  BY ActorsAssumption DEF QueueReturns, Finish, Running, IInv, TypeOK, Actors
<1>2. act'[t].pc = "idle" /\ act'[t].room = NoRoom /\ CallKnows(act[t])'
  BY <1>1, EndedFields, IdleKnows
<1>3. /\ held \in RoomIds /\ rooms[held].state # "absent"
      /\ rooms[held].session # NoSession
      /\ removed[held] \in {"no", "early"} /\ act[t].nb \in Notebooks
  BY <1>1, ReturnedFacts
<1>4. records' = [records EXCEPT ![j] = held]
  BY DEF QueueReturns
<1>5. cur # NoRoom => /\ cur \in RoomIds /\ rooms[cur].state # "absent" /\ removed[cur] = "no"
  BY <1>3, RegisteredFacts
<1>6. rooms' = IF cur = NoRoom THEN rooms
               ELSE [rooms EXCEPT ![cur] = WithJobs(rooms[cur], rooms[cur].jobs \cup {j})]
  BY DEF QueueReturns
<1> HIDE DEF held, cur
<1>7. \A i \in Jobs : \/ records'[i] = records[i]
                      \/ \E q \in RoomIds : /\ records'[i] = q /\ rooms[q].state # "absent"
                                            /\ removed[q] \notin {"clean", "failed"}
  BY <1>3, <1>4 DEF IInv, TypeOK
<1>8. CASE cur = NoRoom
  <2>1. /\ SameRuntime(rooms'[held], rooms[held])
        /\ \A q \in RoomIds \ {held} : rooms'[q] = rooms[q]
    BY <1>3, <1>6, <1>8 DEF SameRuntime
  <2>2. QED
    BY <1>1, <1>2, <1>3, <1>7, <2>1, WriteSafe
<1>9. CASE cur # NoRoom
  <2> DEFINE room == WithJobs(rooms[cur], rooms[cur].jobs \cup {j})
  <2>1. rooms[cur] \in Room
    BY <1>5, <1>9 DEF IInv, TypeOK
  <2>2. rooms[cur].jobs \cup {j} \in SUBSET Jobs /\ room.state = rooms[cur].state
    BY <2>1 DEF Room, WithJobs
  <2>3. SameRuntime(room, rooms[cur])
    BY <1>5, <1>9, <2>1, <2>2, RoomKept
  <2>4. rooms' = [rooms EXCEPT ![cur] = room]
    BY <1>6, <1>9
  <2> HIDE DEF room
  <2>5. /\ SameRuntime(rooms'[cur], rooms[cur]) /\ rooms'[cur].state = rooms[cur].state
        /\ \A q \in RoomIds \ {cur} : rooms'[q] = rooms[q]
    BY <1>5, <1>9, <2>2, <2>3, <2>4 DEF IInv, TypeOK
  <2>6. rooms'[cur].state \in LiveStates => rooms[cur].session # NoSession
    BY <1>5, <1>9, <2>5, LiveHasSession
  <2>7. QED
    BY <1>1, <1>2, <1>5, <1>7, <1>9, <2>5, <2>6, WriteSafe
<1>10. QED
  BY <1>8, <1>9

LEMMA LookingFacts ==
  ASSUME IInv, NEW a \in Actors, act[a].pc = "looking"
  PROVE  /\ act[a].nb \in Notebooks /\ act[a].op \in {"ensure", "status"}
         /\ act[a].room = NoRoom /\ act[a] \in Actor /\ a # Gc
BY DEF IInv, TypeOK, CallsConsistent, CallKnows, GcOnlySweeps

LEMMA AdoptedFields ==
  ASSUME NEW n, NEW s
  PROVE  /\ AdoptedRoom(n, s).nb = n /\ AdoptedRoom(n, s).session = s
         /\ AdoptedRoom(n, s).kernel = sessions[s].kernel
         /\ AdoptedRoom(n, s).state = "live-detached"
BY DEF AdoptedRoom, AbsentRoom

LEMMA LookupFindsSafe ==
  ASSUME IInv, TypeOK', NEW a \in Actors, LookupFinds(a)
  PROVE  IInv'
<1> DEFINE n == act[a].nb
<1>1. /\ LoopFree /\ act[a].pc = "looking" /\ FreshRooms # {}
      /\ UNCHANGED <<sessions, records, removed>>
  BY DEF LookupFinds
<1>2. /\ n \in Notebooks /\ act[a].room = NoRoom /\ act[a] \in Actor /\ a # Gc
  BY <1>1, LookingFacts
<1>3. PICK s \in SessionsUp(n) :
        /\ Register(NextRoom, AdoptedRoom(n, s))
        /\ IF act[a].op = "status" \/ Mismatch(act[a].kernel, AdoptedRoom(n, s))
           THEN Finish(a)
           ELSE Resume(a, "returned", NextRoom)
  BY DEF LookupFinds
<1> DEFINE room == AdoptedRoom(n, s)
<1>4. /\ room.nb = n /\ room.session = s /\ room.kernel = sessions[s].kernel
      /\ room.state = "live-detached"
  BY AdoptedFields
<1>5. /\ s \in SessionIds /\ s # NoSession
      /\ sessions[s].status = "up" /\ sessions[s].nb = n
  BY NullAssumption DEF SessionsUp
<1>6. NextRoom \in RoomIds
  BY <1>1, FreshRoomFacts
<1>7. /\ rooms' = [rooms EXCEPT ![NextRoom] = room]
      /\ registry' = registry \cup {NextRoom}
      /\ nbRoom' = [nbRoom EXCEPT ![n] = NextRoom]
  BY <1>3, <1>4 DEF Register
<1>8. /\ \A b \in Actors \ {a} : act'[b] = act[b]
      /\ \/ act'[a] = IdleActor
         \/ /\ act'[a] = At(act[a], "returned", NextRoom)
            /\ ~Mismatch(act[a].kernel, room)
  BY <1>3 DEF Finish, Resume, IInv, TypeOK
<1> HIDE DEF room
<1>9. rooms'[NextRoom] = room /\ \A r \in RoomIds \ {NextRoom} : RoomQuiet(r)
  BY <1>6, <1>7 DEF IInv, TypeOK, RoomQuiet
<1>10. act'[a].pc = "idle" \/ act'[a].pc = "returned"
  BY <1>2, <1>8, EndedFields, CallFields
<1>11. act'[a].room \in {NoRoom, NextRoom}
  BY <1>2, <1>8, EndedFields, CallFields
<1>12. act'[a].pc = "returned" => UsableFor(act[a], act[a].room)'
  <2> SUFFICES ASSUME act'[a].pc = "returned" PROVE UsableFor(act[a], act[a].room)'
    OBVIOUS
  <2>1. act'[a] = At(act[a], "returned", NextRoom) /\ ~Mismatch(act[a].kernel, room)
    BY <1>8, EndedFields
  <2>2. act'[a].room = NextRoom /\ act'[a].nb = n /\ act'[a].kernel = act[a].kernel
    BY <1>2, <2>1, CallFields
  <2>3. QED
    BY <1>1, <1>4, <1>5, <1>9, <2>1, <2>2
       DEF UsableFor, IsLive, KernelUp, Mismatch, LiveStates
<1>13. CallKnows(act[a])'
  BY <1>1, <1>4, <1>5, <1>6, <1>8, <1>9, <1>10, <1>11, <1>2, EndedFields, CallFields,
     FreshRoomFacts DEF CallKnows, IInv, AbsentRoomsUnknown
<1>14. QED
  BY <1>1, <1>2, <1>4, <1>5, <1>7, <1>8, <1>9, <1>10, <1>11, <1>12, <1>13, RegisterSafe

LEMMA LookupMissesSafe ==
  ASSUME IInv, TypeOK', NEW a \in Actors, LookupMisses(a)
  PROVE  IInv'
<1>1. /\ LoopFree /\ act[a].pc = "looking" /\ UNCHANGED <<sessions, records, removed>>
  BY DEF LookupMisses
<1>2. /\ act[a].nb \in Notebooks /\ act[a].op \in {"ensure", "status"}
      /\ act[a].room = NoRoom /\ act[a] \in Actor /\ a # Gc
  BY <1>1, LookingFacts
<1>3. CASE act[a].op = "status"
  <2>1. /\ act'[a] = IdleActor /\ \A b \in Actors \ {a} : act'[b] = act[b]
        /\ UNCHANGED <<rooms, registry, nbRoom>>
    BY <1>3 DEF LookupMisses, Finish, IInv, TypeOK
  <2>2. QED
    BY <1>1, <1>2, <2>1, EndedFields, CallSafe
<1>4. CASE act[a].op # "status"
  <2> DEFINE n == act[a].nb
  <2>1. CreateRoom(a, n)
    BY <1>4 DEF LookupMisses
  <2>2. FreshRooms # {} /\ NextRoom \in RoomIds /\ rooms[NextRoom].session = NoSession
    BY <2>1, FreshRoomFacts DEF CreateRoom
  <2>3. NewRoom(n).nb = n /\ NewRoom(n).session = NoSession /\ NewRoom(n).state = "starting"
    BY NewRoomFields
  <2>4. /\ rooms' = [rooms EXCEPT ![NextRoom] = NewRoom(n)]
        /\ registry' = registry \cup {NextRoom}
        /\ nbRoom' = [nbRoom EXCEPT ![n] = NextRoom]
    BY <2>1, <2>3 DEF CreateRoom, Register
  <2>5. /\ act'[a] = At(act[a], "creating", NextRoom)
        /\ \A b \in Actors \ {a} : act'[b] = act[b]
    BY <2>1 DEF CreateRoom, Resume, IInv, TypeOK
  <2>6. /\ act'[a].pc = "creating" /\ act'[a].room = NextRoom
        /\ act'[a].op = "ensure" /\ act'[a].nb = n
    BY <1>2, <1>4, <2>5, CallFields
  <2>7. rooms'[NextRoom] = NewRoom(n) /\ \A r \in RoomIds \ {NextRoom} : RoomQuiet(r)
    BY <2>2, <2>4 DEF IInv, TypeOK, RoomQuiet
  <2>8. CallKnows(act[a])'
    BY <2>2, <2>3, <2>6, <2>7, <1>2 DEF CallKnows
  <2>9. "starting" \notin LiveStates
    BY DEF LiveStates
  <2>10. QED
    BY <1>1, <1>2, <2>2, <2>3, <2>4, <2>5, <2>6, <2>7, <2>8, <2>9, RegisterSafe
<1>5. QED
  BY <1>3, <1>4

(* What a call waiting for create_session knows about its room *)
LEMMA CreatingFacts ==
  ASSUME IInv, NEW a \in Actors, act[a].pc = "creating"
  PROVE  /\ act[a] \in Actor /\ a # Gc
         /\ act[a].op = "ensure" /\ act[a].nb \in Notebooks
         /\ act[a].room \in RoomIds
         /\ rooms[act[a].room].nb = act[a].nb
         /\ rooms[act[a].room].session = NoSession
         /\ rooms[act[a].room].state # "absent"
         /\ removed[act[a].room] \in {"no", "early"}
         /\ act[a].room \in registry \/ removed[act[a].room] = "early"
         /\ \A b \in Actors \ {a} : act[b].room # act[a].room
<1>1. /\ act[a] \in Actor /\ act[a].op = "ensure" /\ act[a].nb \in Notebooks
      /\ act[a].room \in RoomIds
      /\ rooms[act[a].room].nb = act[a].nb /\ rooms[act[a].room].session = NoSession
  BY DEF IInv, TypeOK, CallsConsistent, CallKnows
<1>2. a # Gc
  BY <1>1 DEF IInv, GcOnlySweeps
<1>3. rooms[act[a].room].state # "absent"
  BY <1>1 DEF IInv, AbsentRoomsUnknown
<1>4. removed[act[a].room] \in {"no", "clean", "failed", "early", "cancelled"}
  BY <1>1 DEF IInv, TypeOK
<1>5. /\ removed[act[a].room] \in {"no", "early"}
      /\ act[a].room \in registry \/ removed[act[a].room] = "early"
  BY <1>1, <1>3, <1>4 DEF IInv, RegistryHistory
<1>6. ASSUME NEW b \in Actors \ {a} PROVE act[b].room # act[a].room
  <2>1. act[b].pc \in {"idle", "looking", "creating", "returned", "deleting", "sweep",
                       "joining", "unwinding", "ended"}
    <3>1. act[b] \in Actor
      BY DEF IInv, TypeOK
    <3>2. QED
      BY <3>1 DEF Actor
  <2>2. CallKnows(act[b])
    BY DEF IInv, CallsConsistent
  <2>3. CASE act[b].pc = "creating"
    BY <2>3 DEF IInv, CallsApart
  <2>4. CASE act[b].pc # "creating"
    BY <1>1, <2>1, <2>2, <2>4, NullAssumption DEF CallKnows
  <2>5. QED
    BY <2>3, <2>4
<1>7. QED
  BY <1>1, <1>2, <1>3, <1>5, <1>6

LEMMA CreateFailsSafe ==
  ASSUME IInv, TypeOK', NEW a \in Actors, CreateFails(a)
  PROVE  IInv'
<1> DEFINE r == act[a].room
<1>1. /\ LoopFree /\ act[a].pc = "creating"
      /\ UNCHANGED <<registry, nbRoom, sessions, records, removed>>
      /\ rooms' = [rooms EXCEPT ![r] = InState(rooms[r], "failed")]
      /\ act'[a] = IdleActor /\ \A b \in Actors \ {a} : act'[b] = act[b]
  BY DEF CreateFails, Finish, IInv, TypeOK
<1>2. /\ r \in RoomIds /\ rooms[r].state # "absent" /\ removed[r] \in {"no", "early"}
      /\ a # Gc
  BY <1>1, CreatingFacts
<1> HIDE DEF r
<1>3. /\ SameRuntime(InState(rooms[r], "failed"), rooms[r])
      /\ InState(rooms[r], "failed").state = "failed"
  <2>1. rooms[r] \in Room
    BY <1>2 DEF IInv, TypeOK
  <2>2. QED
    BY <2>1, RoomKept DEF InState, Room, RuntimeState
<1>4. /\ SameRuntime(rooms'[r], rooms[r]) /\ rooms'[r].state = "failed"
      /\ \A q \in RoomIds \ {r} : rooms'[q] = rooms[q]
  BY <1>1, <1>2, <1>3 DEF IInv, TypeOK
<1>5. "failed" \notin LiveStates
  BY DEF LiveStates
<1>6. act'[a].pc = "idle" /\ act'[a].room = NoRoom /\ CallKnows(act[a])'
  BY <1>1, EndedFields, IdleKnows
<1>7. QED
  BY <1>1, <1>2, <1>4, <1>5, <1>6, WriteSafe

LEMMA CreateReturnsSafe ==
  ASSUME IInv, TypeOK', NEW a \in Actors, CreateReturns(a)
  PROVE  IInv'
<1> DEFINE r == act[a].room
           s == NextSession
           n == act[a].nb
           k == IF act[a].kernel = NoKernel THEN DefaultKernel ELSE act[a].kernel
<1>1. /\ LoopFree /\ act[a].pc = "creating" /\ FreshSessions # {}
      /\ UNCHANGED <<registry, nbRoom, records, removed>>
      /\ sessions' = [sessions EXCEPT ![s] = NewSession(n, k, "hypernote")]
      /\ rooms' = [rooms EXCEPT ![r] = WithSession(rooms[r], s, k)]
      /\ act'[a] = At(act[a], "returned", r)
      /\ \A b \in Actors \ {a} : act'[b] = act[b]
  BY DEF CreateReturns, Resume, IInv, TypeOK
<1>2. /\ r \in RoomIds /\ rooms[r].state # "absent" /\ rooms[r].session = NoSession
      /\ rooms[r].nb = n /\ n \in Notebooks
      /\ removed[r] \in {"no", "early"}
      /\ r \in registry \/ removed[r] = "early"
      /\ a # Gc /\ act[a] \in Actor
      /\ \A b \in Actors \ {a} : act[b].room # r
  BY <1>1, CreatingFacts
<1>3. s \in SessionIds /\ sessions[s].status = "unused" /\ s # NoSession
  BY <1>1, NextIdsTyped, NullAssumption
<1>4. \A q \in RoomIds : rooms[q].session # s
  BY <1>3 DEF IInv, UnusedSessionsUnknown
<1>5. /\ act'[a].pc = "returned" /\ act'[a].room = r /\ act'[a].nb = n
      /\ act'[a].kernel = act[a].kernel
  BY <1>1, <1>2, CallFields
<1>6. act'[a].kernel = NoKernel \/ act'[a].kernel = k
  BY <1>5
<1> HIDE DEF r, s, n, k
<1>7. /\ WithSession(rooms[r], s, k).nb = n /\ WithSession(rooms[r], s, k).session = s
      /\ WithSession(rooms[r], s, k).kernel = k
      /\ WithSession(rooms[r], s, k).state = "live-detached"
      /\ NewSession(n, k, "hypernote").nb = n /\ NewSession(n, k, "hypernote").kernel = k
      /\ NewSession(n, k, "hypernote").status = "up"
  <2>1. rooms[r] \in Room
    BY <1>2 DEF IInv, TypeOK
  <2>2. QED
    BY <1>2, <2>1 DEF Room, WithSession, NewSession
<1>8. /\ rooms'[r].nb = n /\ rooms'[r].session = s /\ rooms'[r].kernel = k
      /\ rooms'[r].state = "live-detached"
      /\ \A q \in RoomIds \ {r} : rooms'[q] = rooms[q]
  BY <1>1, <1>2, <1>7 DEF IInv, TypeOK
<1>9. /\ sessions'[s].nb = n /\ sessions'[s].kernel = k /\ sessions'[s].status = "up"
      /\ \A x \in SessionIds \ {s} : sessions'[x] = sessions[x]
  BY <1>1, <1>3, <1>7 DEF IInv, TypeOK
<1>10. \A q \in RoomIds : rooms[q].session \in SessionIds \cup {NoSession}
  BY DEF IInv, TypeOK, Room
<1>11. MapConsistent'
  BY <1>1, <1>2, <1>8 DEF IInv, TypeOK, MapConsistent
<1>12. AbsentRoomsUnknown'
  BY <1>1, <1>2, <1>5, <1>8 DEF IInv, AbsentRoomsUnknown
<1>13. RegistryHistory'
  BY <1>1, <1>2, <1>4, <1>8, <1>9, <1>10 DEF IInv, RegistryHistory
<1>14. UnusedSessionsUnknown'
  BY <1>8, <1>9 DEF IInv, UnusedSessionsUnknown
<1>15. RoomMatchesSession'
  BY <1>3, <1>4, <1>8, <1>9, <1>10 DEF IInv, RoomMatchesSession, IsLive
<1>16. KernelAccountedFor'
  <2> SUFFICES ASSUME NEW x \in SessionIds,
                      sessions'[x].status = "up" /\ sessions'[x].by = "hypernote"
               PROVE  \E q \in RoomIds :
                        /\ rooms'[q].session = x
                        /\ q \in registry' \/ removed'[q] \in {"failed", "early", "cancelled"}
    BY DEF KernelAccountedFor
  <2>1. CASE x = s
    BY <1>1, <1>2, <1>8, <2>1
  <2>2. CASE x # s
    <3>1. PICK q \in RoomIds :
            /\ rooms[q].session = x
            /\ q \in registry \/ removed[q] \in {"failed", "early", "cancelled"}
      BY <1>9, <2>2 DEF IInv, KernelAccountedFor
    <3>2. q # r
      BY <1>2, <3>1, NullAssumption
    <3>3. QED
      BY <1>1, <1>8, <3>1, <3>2
  <2>3. QED
    BY <2>1, <2>2
<1>17. StopClearsControlPlane'
  BY <1>1, <1>2, <1>8 DEF IInv, StopClearsControlPlane
<1>18. UsableFor(act[a], act[a].room)'
  BY <1>3, <1>5, <1>6, <1>8, <1>9 DEF UsableFor, IsLive, KernelUp, Mismatch, LiveStates
<1>19. CallKnows(act[a])'
  BY <1>1, <1>2, <1>3, <1>5, <1>8 DEF CallKnows
<1>20. \A b \in Actors : act[b].room \in RoomIds \cup {NoRoom}
  BY DEF IInv, TypeOK, Actor
<1>21. CallsInv'
  BY <1>1, <1>2, <1>5, <1>8, <1>18, <1>19, <1>20, CallsStayConsistentWith
<1>22. QED
  BY <1>11, <1>12, <1>13, <1>14, <1>15, <1>16, <1>17, <1>21 DEF IInv, CallsInv

(* A call ends a stop. *)
LEMMA RemoveSafe ==
  ASSUME IInv, TypeOK', SessionsQuiet, NEW a \in Actors, LoopFree,
         NEW r \in RoomIds, rooms[r].session # NoSession,
         NEW how \in {"clean", "failed", "cancelled"}, NEW notify \in BOOLEAN,
         RemoveRoom(r, how, notify), how \in {"clean", "failed"} => notify,
         how = "clean" => sessions'[rooms[r].session].status = "down",
         \A b \in Actors \ {a} : act'[b] = act[b],
         act'[a].room = NoRoom, act'[a].pc \in {"idle", "ended", "sweep"},
         a = Gc => act'[a].op \in {"none", "gc"}
  PROVE  IInv'
<1>1. rooms[r].state # "absent" /\ rooms[r] \in Room
  BY DEF IInv, TypeOK, AbsentRoomsUnknown
<1>2. how \in {"clean", "failed", "early", "cancelled"} /\ how # "early"
  OBVIOUS
<1>3. RoomsInv'
  BY <1>1, <1>2, RoomsStayConsistentWithout
<1>4. \A q \in RoomIds : rooms'[q].nb = rooms[q].nb /\ rooms'[q].session = rooms[q].session
  BY <1>1, RoomKept DEF RemoveRoom, StoppedRooms, IInv, TypeOK, SameRuntime
<1>5. \A b \in Actors : act[b].room \in RoomIds \cup {NoRoom}
  BY DEF IInv, TypeOK, Actor
<1>6. CallKnows(act[a])'
  BY IdleKnows
<1>7. CallsInv'
  BY <1>4, <1>5, <1>6, CallsStayConsistentWith
<1>8. QED
  BY <1>3, <1>7 DEF IInv, RoomsInv, CallsInv

LEMMA DownFacts ==
  ASSUME TypeOK, NEW s \in SessionIds, sessions[s].status = "up",
         sessions' = WithSessionDown(s)
  PROVE  SessionsQuiet /\ sessions'[s].status = "down"
BY DEF TypeOK, Session, WithSessionDown, Down, SessionsQuiet, SessionQuiet

LEMMA DeletingFacts ==
  ASSUME IInv, NEW a \in Actors, act[a].pc = "deleting"
  PROVE  /\ act[a].room \in RoomIds /\ act[a] \in Actor
         /\ rooms[act[a].room].session \in SessionIds
         /\ rooms[act[a].room].session # NoSession
         /\ AfterStop(a).room = NoRoom /\ AfterStop(a).pc \in {"idle", "sweep"}
         /\ a = Gc => AfterStop(a).op \in {"none", "gc"}
<1>1. /\ act[a].room \in RoomIds /\ act[a] \in Actor
      /\ rooms[act[a].room].session # NoSession
  BY NullAssumption DEF IInv, TypeOK, CallsConsistent, CallKnows
<1>2. rooms[act[a].room].session \in SessionIds
  BY <1>1 DEF IInv, TypeOK, Room
<1>3. AfterStop(a).room = NoRoom /\ AfterStop(a).pc \in {"idle", "sweep"}
  BY <1>1, EndedFields, CallFields DEF AfterStop
<1>4. a = Gc => AfterStop(a).op \in {"none", "gc"}
  BY <1>1, EndedFields, CallFields DEF AfterStop, IInv, GcOnlySweeps
<1>5. QED
  BY <1>1, <1>2, <1>3, <1>4

LEMMA DeleteReturnsSafe ==
  ASSUME IInv, TypeOK', NEW a \in Actors, DeleteReturns(a)
  PROVE  IInv'
<1> DEFINE r == act[a].room
<1>1. /\ LoopFree /\ act[a].pc = "deleting" /\ sessions[rooms[r].session].status = "up"
      /\ sessions' = WithSessionDown(rooms[r].session) /\ RemoveRoom(r, "clean", TRUE)
      /\ act'[a] = AfterStop(a) /\ \A b \in Actors \ {a} : act'[b] = act[b]
  BY DEF DeleteReturns, IInv, TypeOK
<1>2. /\ r \in RoomIds /\ rooms[r].session \in SessionIds /\ rooms[r].session # NoSession
      /\ act'[a].room = NoRoom /\ act'[a].pc \in {"idle", "sweep"}
      /\ a = Gc => act'[a].op \in {"none", "gc"}
  BY <1>1, DeletingFacts
<1> HIDE DEF r
<1>3. SessionsQuiet /\ sessions'[rooms[r].session].status = "down"
  BY <1>1, <1>2, DownFacts DEF IInv
<1>4. QED
  BY <1>1, <1>2, <1>3, RemoveSafe

LEMMA DeleteFailsSafe ==
  ASSUME IInv, TypeOK', NEW a \in Actors, DeleteFails(a)
  PROVE  IInv'
<1> DEFINE r == act[a].room
<1>1. /\ LoopFree /\ act[a].pc = "deleting" /\ UNCHANGED sessions
      /\ RemoveRoom(r, "failed", TRUE)
      /\ act'[a] = AfterStop(a) /\ \A b \in Actors \ {a} : act'[b] = act[b]
  BY DEF DeleteFails, IInv, TypeOK
<1>2. /\ r \in RoomIds /\ rooms[r].session # NoSession
      /\ act'[a].room = NoRoom /\ act'[a].pc \in {"idle", "sweep"}
      /\ a = Gc => act'[a].op \in {"none", "gc"}
  BY <1>1, DeletingFacts
<1> HIDE DEF r
<1>3. SessionsQuiet
  BY <1>1 DEF SessionsQuiet, SessionQuiet
<1>4. QED
  BY <1>1, <1>2, <1>3, RemoveSafe

LEMMA GcUnwindsSafe ==
  ASSUME IInv, TypeOK', GcUnwinds
  PROVE  IInv'
<1> DEFINE r == act[Gc].room
<1>1. /\ LoopFree /\ act[Gc].pc = "unwinding" /\ Gc \in Actors
      /\ act'[Gc] = Ended /\ \A b \in Actors \ {Gc} : act'[b] = act[b]
  BY DEF GcUnwinds, IInv, TypeOK, Actors
<1>2. /\ act'[Gc].pc = "ended" /\ act'[Gc].room = NoRoom
      /\ act'[Gc].op \in {"none", "gc"}
  BY <1>1, EndedFields
<1>3. CASE r = NoRoom
  <2>1. UNCHANGED <<rooms, registry, nbRoom, sessions, records, removed>>
    BY <1>3 DEF GcUnwinds
  <2>2. QED
    BY <1>1, <1>2, <2>1, CallSafe
<1>4. CASE r # NoRoom
  <2>1. /\ RemoveRoom(r, "cancelled", FALSE)
        /\ UNCHANGED sessions \/ sessions' = WithSessionDown(rooms[r].session)
    BY <1>4 DEF GcUnwinds
  <2>2. r \in RoomIds
    BY <1>1, <1>4 DEF IInv, TypeOK, Actor
  <2>3. rooms[r].session # NoSession
    BY <1>1, <1>4 DEF IInv, CallsConsistent, CallKnows
  <2>4. rooms[r].session \in SessionIds
    BY <2>2, <2>3 DEF IInv, TypeOK, Room
  <2>5. sessions[rooms[r].session].status # "unused"
    BY <2>2, <2>3 DEF IInv, RoomMatchesSession
  <2> HIDE DEF r
  <2>6. SessionsQuiet
    <3>1. CASE UNCHANGED sessions
      BY <3>1 DEF SessionsQuiet, SessionQuiet
    <3>2. CASE sessions' = WithSessionDown(rooms[r].session)
      BY <2>4, <2>5, <3>2
         DEF IInv, TypeOK, Session, WithSessionDown, Down, SessionsQuiet, SessionQuiet
    <3>3. QED
      BY <2>1, <3>1, <3>2
  <2>7. QED
    BY <1>1, <1>2, <2>1, <2>2, <2>3, <2>6, RemoveSafe
<1>5. QED
  BY <1>3, <1>4

LEMMA GcWakesSafe ==
  ASSUME IInv, TypeOK', GcWakes
  PROVE  IInv'
<1> DEFINE call == Visiting(Plain("gc", NoNotebook), GcCandidates)
<1>1. /\ LoopFree /\ Gc \in Actors
      /\ UNCHANGED <<rooms, registry, nbRoom, sessions, records, removed>>
      /\ act'[Gc] = call /\ \A b \in Actors \ {Gc} : act'[b] = act[b]
  BY DEF GcWakes, IInv, TypeOK, Actors
<1>2. call.pc = "sweep" /\ call.room = NoRoom /\ call.op = "gc"
  <2>1. Plain("gc", NoNotebook).room = NoRoom /\ Plain("gc", NoNotebook).op = "gc"
    BY NewCallFields DEF Plain
  <2>2. QED
    BY <2>1, NewActorTyped, CallFields
<1> HIDE DEF call
<1>3. QED
  BY <1>1, <1>2, CallSafe

LEMMA SweepEndsSafe ==
  ASSUME IInv, TypeOK', NEW a \in Actors, SweepEnds(a)
  PROVE  IInv'
<1>1. /\ act[a].pc = "sweep" /\ act[a].pc \in Running
      /\ UNCHANGED <<rooms, registry, nbRoom, sessions, records, removed>>
      /\ act'[a] \in {IdleActor, Ended} /\ \A b \in Actors \ {a} : act'[b] = act[b]
  BY DEF SweepEnds, Running, IInv, TypeOK
<1>2. act'[a].pc \in {"idle", "ended"} /\ act'[a].room = NoRoom /\ act'[a].op = "none"
  BY <1>1, EndedFields
<1>3. QED
  BY <1>1, <1>2, CallSafe

LEMMA ShutdownSweepsSafe ==
  ASSUME IInv, TypeOK', NEW a \in Actors, ShutdownSweeps(a)
  PROVE  IInv'
<1>1. /\ LoopFree /\ act[a].pc = "joining" /\ act[a] \in Actor
      /\ UNCHANGED <<rooms, registry, nbRoom, sessions, records, removed>>
      /\ act'[a] = Visiting(act[a], registry) /\ \A b \in Actors \ {a} : act'[b] = act[b]
  BY DEF ShutdownSweeps, IInv, TypeOK
<1>2. act[a].room = NoRoom /\ (a = Gc => act[a].op \in {"none", "gc"})
  BY <1>1 DEF IInv, CallsConsistent, CallKnows, GcOnlySweeps
<1>3. act'[a].pc = "sweep" /\ act'[a].room = NoRoom /\ act'[a].op = act[a].op
  BY <1>1, <1>2, CallFields
<1>4. QED
  BY <1>1, <1>2, <1>3, CallSafe

(* Sessions end, and JupyterLab starts some, outside any call. *)
LEMMA SessionsSafe ==
  ASSUME IInv, TypeOK', LoopFree, SessionsQuiet,
         UNCHANGED <<rooms, registry, nbRoom, records, act, removed>>
  PROVE  IInv'
<1>1. RoomsQuiet /\ RoomsKnown
  BY DEF RoomsQuiet, RoomQuiet, RoomsKnown
<1>2. RoomsInv'
  BY <1>1, RoomsStayConsistent
<1>3. CallsInv'
  BY CallsStayConsistent
<1>4. QED
  BY <1>2, <1>3 DEF IInv, RoomsInv, CallsInv

LEMMA SessionEndsSafe ==
  ASSUME IInv, TypeOK', NEW s \in SessionIds, SessionEnds(s)
  PROVE  IInv'
BY DownFacts, SessionsSafe DEF SessionEnds, IInv

LEMMA LabOpensSafe ==
  ASSUME IInv, TypeOK', NEW n \in Notebooks, NEW k \in KernelNames, LabOpens(n, k)
  PROVE  IInv'
<1>1. /\ LoopFree /\ FreshSessions # {}
      /\ sessions' = [sessions EXCEPT ![NextSession] = NewSession(n, k, "lab")]
      /\ UNCHANGED <<rooms, registry, nbRoom, records, act, removed>>
  BY DEF LabOpens
<1>2. NextSession \in SessionIds /\ sessions[NextSession].status = "unused"
  BY <1>1, NextIdsTyped
<1>3. NewSession(n, k, "lab").status = "up" /\ NewSession(n, k, "lab").by = "lab"
  BY DEF NewSession
<1>4. SessionsQuiet
  BY <1>1, <1>2, <1>3 DEF SessionsQuiet, SessionQuiet, IInv, TypeOK
<1>5. QED
  BY <1>1, <1>4, SessionsSafe

-----------------------------------------------------------------------------
(* The inductive invariant *)

LEMMA SafetyInit == Init => IInv
<1> SUFFICES ASSUME Init PROVE IInv
  OBVIOUS
<1>1. TypeOK
  BY TypeInit
<1>2. /\ \A r \in RoomIds : /\ rooms[r].state = "absent" /\ rooms[r].session = NoSession
                            /\ rooms[r].clients = {} /\ rooms[r].jobs = {}
      /\ \A s \in SessionIds : sessions[s].status = "unused"
      /\ \A a \in Actors : /\ act[a].pc = "idle" /\ act[a].room = NoRoom
                           /\ act[a].op = "none"
  BY DEF Init, AbsentRoom, UnusedSession, IdleActor
<1>3. MapConsistent /\ UnusedSessionsUnknown /\ KernelAccountedFor
  BY <1>2, NullAssumption DEF Init, MapConsistent, UnusedSessionsUnknown, KernelAccountedFor
<1>4. AbsentRoomsUnknown /\ RegistryHistory
  BY <1>2, NullAssumption DEF Init, AbsentRoomsUnknown, RegistryHistory
<1>5. RoomMatchesSession /\ StopClearsControlPlane
  BY <1>2 DEF Init, RoomMatchesSession, StopClearsControlPlane, IsLive, LiveStates
<1>6. CallsConsistent /\ CallsApart /\ GcOnlySweeps /\ EnsuredRoomUsable
  BY <1>2 DEF CallsConsistent, CallKnows, CallsApart, GcOnlySweeps, EnsuredRoomUsable, Actors
<1>7. QED
  BY <1>1, <1>3, <1>4, <1>5, <1>6 DEF IInv

LEMMA SafetyStutters == ASSUME IInv, UNCHANGED vars PROVE IInv'
<1>1. TypeOK' /\ MapConsistent' /\ UnusedSessionsUnknown' /\ KernelAccountedFor'
  BY DEF vars, IInv, TypeOK, MapConsistent, UnusedSessionsUnknown, KernelAccountedFor
<1>2. AbsentRoomsUnknown' /\ RegistryHistory' /\ RoomMatchesSession' /\ StopClearsControlPlane'
  BY DEF vars, IInv, AbsentRoomsUnknown, RegistryHistory, RoomMatchesSession,
         StopClearsControlPlane, IsLive
<1>3. CallsConsistent' /\ CallsApart' /\ GcOnlySweeps' /\ EnsuredRoomUsable'
  BY DEF vars, IInv, CallsConsistent, CallKnows, CallsApart, GcOnlySweeps,
         EnsuredRoomUsable, UsableFor, IsLive, KernelUp, Mismatch
<1>4. QED
  BY <1>1, <1>2, <1>3 DEF IInv

LEMMA SafetyNext == IInv /\ [Next]_vars => IInv'
<1> SUFFICES ASSUME IInv, [Next]_vars PROVE IInv'
  OBVIOUS
<1>1. TypeOK'
  BY TypeNext DEF IInv
<1>2. ASSUME NEW t \in Tasks, Calls(t) PROVE IInv'
  BY <1>1, <1>2, EnsureSafe, StatusSafe, StopSafe, ShutdownSafe DEF Calls
<1>3. ASSUME NEW a \in Actors, Continues(a) PROVE IInv'
  BY <1>1, <1>3, LookupFindsSafe, LookupMissesSafe, CreateReturnsSafe, CreateFailsSafe,
     OpenReturnsSafe, DeleteReturnsSafe, DeleteFailsSafe, SweepNextSafe, SweepEndsSafe,
     ShutdownSweepsSafe DEF Continues
<1>4. ASSUME Environment PROVE IInv'
  BY <1>1, <1>4, RoomCallsSafe, SessionEndsSafe, LabOpensSafe DEF Environment
<1>5. QED
  BY <1>1, <1>2, <1>3, <1>4, QueueReturnsSafe, RoomCallsSafe, GcWakesSafe, GcUnwindsSafe,
     SafetyStutters DEF Next

(* Every reachable state of the registry satisfies the inductive invariant. *)
THEOREM Inductive == Spec => []IInv
BY SafetyInit, SafetyNext, PTL DEF Spec

(* Whatever calls overlap, the notebook map points only at registered rooms *)
(* of its own notebook, which get_room_for_notebook relies on.              *)
THEOREM MapIsConsistent == Spec => []MapConsistent
<1>1. IInv => MapConsistent
  BY DEF IInv
<1>2. QED
  BY <1>1, Inductive, PTL

(* The room ensure_room hands to its caller is live, runs the kernelspec    *)
(* asked for, and its kernel is up.                                         *)
THEOREM EnsuredRoomIsUsable == Spec => []EnsuredRoomUsable
<1>1. IInv => EnsuredRoomUsable
  BY DEF IInv
<1>2. QED
  BY <1>1, Inductive, PTL

(* A room describes the session it holds, and a live room holds one.        *)
THEOREM RoomsMatchSessions == Spec => []RoomMatchesSession
<1>1. IInv => RoomMatchesSession
  BY DEF IInv
<1>2. QED
  BY <1>1, Inductive, PTL

(* No interleaving strands a kernel this code started but in the ways       *)
(* stop_runtime's finally block allows.                                     *)
THEOREM KernelsAreAccountedFor == Spec => []KernelAccountedFor
<1>1. IInv => KernelAccountedFor
  BY DEF IInv
<1>2. QED
  BY <1>1, Inductive, PTL

(* A stop of a room that ran to its end has cleared its control-plane state *)
(* and nothing brings that state back (docs/runtime-model.md:27).           *)
THEOREM StopsClearControlPlane == Spec => []StopClearsControlPlane
<1>1. IInv => StopClearsControlPlane
  BY DEF IInv
<1>2. QED
  BY <1>1, Inductive, PTL

-----------------------------------------------------------------------------
(* The kernel behind a room *)

KeepsKernel(r) ==
  rooms[r].session # NoSession =>
    rooms'[r].session = rooms[r].session /\ rooms'[r].kernel = rooms[r].kernel

LEMMA KernelKeptByCalls ==
  ASSUME IInv, NEW t \in Tasks, Calls(t), NEW r \in RoomIds
  PROVE  KeepsKernel(r)
<1> SUFFICES ASSUME rooms[r].session # NoSession
             PROVE  rooms'[r].session = rooms[r].session /\ rooms'[r].kernel = rooms[r].kernel
  BY DEF KeepsKernel
<1>1. rooms \in [RoomIds -> Room] /\ rooms[r] \in Room /\ rooms[r].state # "absent"
  BY DEF IInv, TypeOK, AbsentRoomsUnknown
<1>2. /\ SameRuntime(InState(rooms[r], rooms[r].state), rooms[r])
      /\ SameRuntime(InState(rooms[r], "stopping"), rooms[r])
      /\ SameRuntime(Stopped(rooms[r]), rooms[r])
      /\ SameRuntime(Refreshed(r), rooms[r])
  BY <1>1, RoomKept, RefreshedFacts DEF RuntimeState
<1>3. FreshRooms # {} => r # NextRoom
  BY <1>1, FreshRoomFacts
<1>4. ASSUME NEW n \in Notebooks, NEW k \in KernelNames \cup {NoKernel},
             NEW c \in Clients \cup {NoClient}, EnsureCall(t, n, k, c)
      PROVE  rooms'[r].session = rooms[r].session /\ rooms'[r].kernel = rooms[r].kernel
  BY <1>1, <1>2, <1>3, <1>4 DEF EnsureCall, SameRuntime
<1>5. ASSUME NEW n \in Notebooks, StatusCall(t, n)
      PROVE  rooms'[r].session = rooms[r].session /\ rooms'[r].kernel = rooms[r].kernel
  BY <1>1, <1>2, <1>5 DEF StatusCall, SameRuntime
<1>6. ASSUME NEW n \in Notebooks, StopCall(t, n)
      PROVE  rooms'[r].session = rooms[r].session /\ rooms'[r].kernel = rooms[r].kernel
  BY <1>1, <1>2, <1>6 DEF StopCall, BeginStop, RemoveRoom, StoppedRooms, SameRuntime
<1>7. ASSUME ShutdownCall(t)
      PROVE  rooms'[r].session = rooms[r].session /\ rooms'[r].kernel = rooms[r].kernel
  BY <1>7 DEF ShutdownCall
<1>8. QED
  BY <1>4, <1>5, <1>6, <1>7 DEF Calls

LEMMA KernelKeptByContinuations ==
  ASSUME IInv, NEW a \in Actors,
         Continues(a) \/ \E j \in Jobs : QueueReturns(a, j),
         NEW r \in RoomIds
  PROVE  KeepsKernel(r)
<1> SUFFICES ASSUME rooms[r].session # NoSession
             PROVE  rooms'[r].session = rooms[r].session /\ rooms'[r].kernel = rooms[r].kernel
  BY DEF KeepsKernel
<1>1. rooms \in [RoomIds -> Room] /\ rooms[r] \in Room /\ rooms[r].state # "absent"
  BY DEF IInv, TypeOK, AbsentRoomsUnknown
<1>2. /\ SameRuntime(InState(rooms[r], "stopping"), rooms[r])
      /\ SameRuntime(Stopped(rooms[r]), rooms[r])
      /\ SameRuntime(InState(rooms[r], "failed"), rooms[r])
  BY <1>1, RoomKept DEF RuntimeState
<1>3. FreshRooms # {} => r # NextRoom
  BY <1>1, FreshRoomFacts
<1>4. act[a].pc = "creating" => r # act[a].room
  BY CreatingFacts
<1>5. CASE LookupFinds(a) \/ LookupMisses(a)
  BY <1>1, <1>3, <1>5 DEF LookupFinds, LookupMisses, CreateRoom, Register
<1>6. CASE CreateReturns(a)
  BY <1>1, <1>4, <1>6 DEF CreateReturns
<1>7. CASE CreateFails(a)
  BY <1>1, <1>2, <1>7 DEF CreateFails, SameRuntime
<1>8. CASE OpenReturns(a)
  <2>1. \A c : /\ Attached(rooms[r], c).session = rooms[r].session
               /\ Attached(rooms[r], c).kernel = rooms[r].kernel
    BY <1>1 DEF Attached, Room
  <2>2. QED
    BY <1>1, <1>8, <2>1 DEF OpenReturns
<1>9. CASE DeleteReturns(a) \/ DeleteFails(a)
  BY <1>1, <1>2, <1>9 DEF DeleteReturns, DeleteFails, RemoveRoom, StoppedRooms, SameRuntime
<1>10. CASE SweepNext(a)
  BY <1>1, <1>2, <1>10 DEF SweepNext, BeginStop, RemoveRoom, StoppedRooms, SameRuntime
<1>11. CASE SweepEnds(a) \/ ShutdownSweeps(a)
  BY <1>11 DEF SweepEnds, ShutdownSweeps
<1>12. ASSUME NEW j \in Jobs, QueueReturns(a, j)
       PROVE  rooms'[r].session = rooms[r].session /\ rooms'[r].kernel = rooms[r].kernel
  <2> DEFINE cur == Current(act[a].nb)
  <2>1. \A J : /\ WithJobs(rooms[r], J).session = rooms[r].session
               /\ WithJobs(rooms[r], J).kernel = rooms[r].kernel
    BY <1>1 DEF WithJobs, Room
  <2>2. rooms' = IF cur = NoRoom THEN rooms
                 ELSE [rooms EXCEPT ![cur] = WithJobs(rooms[cur], rooms[cur].jobs \cup {j})]
    BY <1>12 DEF QueueReturns
  <2> HIDE DEF cur
  <2>3. QED
    BY <1>1, <2>1, <2>2
<1>13. QED
  BY <1>5, <1>6, <1>7, <1>8, <1>9, <1>10, <1>11, <1>12 DEF Continues

LEMMA KernelKeptByRoomCalls ==
  ASSUME IInv, RoomCalls \/ Environment \/ GcWakes \/ GcUnwinds, NEW r \in RoomIds
  PROVE  KeepsKernel(r)
<1> SUFFICES ASSUME rooms[r].session # NoSession
             PROVE  rooms'[r].session = rooms[r].session /\ rooms'[r].kernel = rooms[r].kernel
  BY DEF KeepsKernel
<1>1. rooms \in [RoomIds -> Room] /\ rooms[r] \in Room
  BY DEF IInv, TypeOK
<1>2. CASE RoomCalls
  <2>1. \A q \in RoomIds, c \in Clients : AttachClient(q, c) \/ DetachClient(q, c) =>
          rooms'[r].session = rooms[r].session /\ rooms'[r].kernel = rooms[r].kernel
    <3>1. \A c : /\ Attached(rooms[r], c).session = rooms[r].session
                 /\ Attached(rooms[r], c).kernel = rooms[r].kernel
                 /\ Detached(rooms[r], c).session = rooms[r].session
                 /\ Detached(rooms[r], c).kernel = rooms[r].kernel
      BY <1>1 DEF Attached, Detached, Room
    <3>2. QED
      BY <1>1, <3>1 DEF AttachClient, DetachClient
  <2>2. \A q \in RoomIds, x \in LiveStates : SetRuntimeState(q, x) =>
          rooms'[r].session = rooms[r].session /\ rooms'[r].kernel = rooms[r].kernel
    BY <1>1 DEF SetRuntimeState, InState, Room
  <2>3. \A q \in RoomIds : TouchActivity(q) =>
          rooms'[r].session = rooms[r].session /\ rooms'[r].kernel = rooms[r].kernel
    BY <1>1 DEF TouchActivity, InState, Room
  <2>4. \A n \in Notebooks, j \in Jobs : MarkJobFinished(n, j) =>
          rooms'[r].session = rooms[r].session /\ rooms'[r].kernel = rooms[r].kernel
    BY <1>1 DEF MarkJobFinished, WithJobs, Room
  <2>5. QED
    BY <1>2, <2>1, <2>2, <2>3, <2>4 DEF RoomCalls
<1>3. CASE Environment
  BY <1>1, <1>3 DEF Environment, TimePasses, SessionEnds, LabOpens, Idled, Room
<1>4. CASE GcWakes \/ GcUnwinds
  <2>1. /\ Stopped(rooms[r]).session = rooms[r].session
        /\ Stopped(rooms[r]).kernel = rooms[r].kernel
    BY <1>1 DEF Stopped, Room
  <2>2. UNCHANGED rooms \/ rooms' = StoppedRooms(act[Gc].room)
    BY <1>4 DEF GcWakes, GcUnwinds, RemoveRoom
  <2>3. QED
    BY <1>1, <2>1, <2>2 DEF StoppedRooms
<1>5. QED
  BY <1>2, <1>3, <1>4

(* Whoever holds a room object never finds another kernel behind it, across *)
(* refreshes, stops, sweeps and create_session answers that come late.      *)
THEOREM RoomsKeepTheirKernel == Spec => RoomKeepsKernel
<1>1. IInv /\ [Next]_vars => [\A r \in RoomIds : KeepsKernel(r)]_vars
  <2> SUFFICES ASSUME IInv, Next PROVE \A r \in RoomIds : KeepsKernel(r)
    OBVIOUS
  <2>1. \A t \in Tasks : t \in Actors
    BY DEF Actors
  <2>2. QED
    BY <2>1, KernelKeptByCalls, KernelKeptByContinuations, KernelKeptByRoomCalls DEF Next
<1>2. [\A r \in RoomIds : KeepsKernel(r)]_vars <=>
      [\A r \in RoomIds : rooms[r].session # NoSession =>
         rooms'[r].session = rooms[r].session /\ rooms'[r].kernel = rooms[r].kernel]_vars
  BY DEF KeepsKernel
<1>3. QED
  BY <1>1, <1>2, Inductive, PTL DEF Spec, RoomKeepsKernel

=============================================================================
