------------------------ MODULE JobExecution_proofs ------------------------
(* Theorems about JobExecution, for every value of its constants. *)
EXTENDS JobExecution, ActorLedger_proofs

-----------------------------------------------------------------------------
(* The record of an interrupt or a reply *)

LEMMA LoggedKeeps ==
  ASSUME jobs \in [Jobs -> Job], NEW n \in Notebooks, NEW action \in JobAction, NEW r \in RoomIds
  PROVE  LET after == Logged(jobs, n, action, r)
         IN /\ after \in [Jobs -> Job]
            /\ \A k \in Jobs : \/ Kept(jobs[k], after[k])
                               \/ jobs[k].status = "unused" /\ after[k].status = "queued" /\ after[k].nb = n
<1>1. CASE UnusedJobs = {}
  BY <1>1 DEF Logged, Kept
<1>2. CASE UnusedJobs # {}
  <2>1. NextJob \in Jobs /\ jobs[NextJob].status = "unused"
    BY <1>2 DEF NextJob, UnusedJobs
  <2>2. Logged(jobs, n, action, r) = Created(jobs, NextJob, n, action, r)
    BY <1>2 DEF Logged
  <2> HIDE DEF NextJob
  <2> QED
    BY <2>1, <2>2, CreatedKeeps
<1> QED
  BY <1>1, <1>2

-----------------------------------------------------------------------------
(* The invariant *)

(* Rooms: those in use are of a notebook, those in the registry are in use, *)
(* the map names registered rooms of its notebooks, and a room counts jobs  *)
(* of its own notebook.                                                     *)
RoomsInv ==
  /\ \A r \in RoomIds : /\ rooms[r].state # "absent" => rooms[r].nb \in Notebooks
                        /\ rooms[r].state = "absent" => rooms[r].kernel = NoKernel
  /\ \A r \in registered : rooms[r].state # "absent"
  /\ \A n \in Notebooks : current[n] # NoRoom => current[n] \in registered /\ rooms[current[n]].nb = n
  /\ \A r \in RoomIds : \A j \in rooms[r].jobs : task[j].pc # "none" /\ task[j].nb = rooms[r].nb

(* The pcs of a task that has got its room, and of one that has its lock *)
Roomed == {"locking", "preparing", "polling", "flushing", "ended"}
Working == {"preparing", "polling", "flushing"}
Holding == Working \cup {"locking"}

(* The room of task j is in use, of its notebook, has a kernel, and is in   *)
(* the registry for as long as the job is in the ledger.                    *)
TaskRoomed(j) ==
  LET r == task[j].room
  IN /\ r \in RoomIds
     /\ rooms[r].nb = task[j].nb /\ rooms[r].state # "absent" /\ rooms[r].kernel # NoKernel
     /\ Recorded(j) => r \in registered

(* A job that has a task has had a record, which is its notebook's. *)
TaskInv(j) ==
  /\ Recorded(j) => jobs[j].nb \in Notebooks
  /\ jobs[j].status = "awaiting_input" => task[j].pc # "none"
  /\ task[j].pc # "none" =>
       /\ jobs[j].status # "unused"
       /\ task[j].nb \in Notebooks /\ task[j].cell <= task[j].last
       /\ Recorded(j) => jobs[j].nb = task[j].nb
  /\ task[j].pc \in Roomed => TaskRoomed(j)

TasksInv == \A j \in Jobs : TaskInv(j)

(* A reply is for a job that has a task. *)
SendersInv ==
  \A s \in Senders : /\ sender[s].job # NoJob => task[sender[s].job].pc # "none"
                     /\ sender[s].room # NoRoom => sender[s].job # NoJob

(* Each lock is held and waited for by the tasks that say so, and by no     *)
(* task twice; who has it stands first.                                     *)
LockInv ==
  /\ \A r \in RoomIds : \A i \in 1..Len(lock[r]) :
       task[lock[r][i]].pc \in Holding /\ task[lock[r][i]].room = r
  /\ \A r \in RoomIds : \A i, k \in 1..Len(lock[r]) : lock[r][i] = lock[r][k] => i = k
  /\ \A j \in Jobs : task[j].pc \in Working => lock[task[j].room] # <<>> /\ Head(lock[task[j].room]) = j
  /\ \A j \in Jobs : task[j].pc = "locking" =>
       \E i \in 1..Len(lock[task[j].room]) : lock[task[j].room][i] = j

(* A request without a result is one its task polls, or its job has left    *)
(* the ledger.                                                              *)
Open == {"running", "input", "replied"}
RequestsInv ==
  \A j \in Jobs : req[j].status \in Open =>
    task[j].pc # "none" /\ (task[j].pc = "polling" \/ ~Recorded(j))

(* A call in flight: that of a job is made by the task as it starts.  The   *)
(* room it makes is in use, its own, without a kernel until it is made, and *)
(* in the registry for as long as the job is in the ledger.                 *)
Making == {"creating", "returned"}
CallInv(a) ==
  /\ call[a].pc # "none" => /\ call[a].nb \in Notebooks
                            /\ a \in Jobs => task[a].pc = "starting" /\ task[a].nb = call[a].nb
  /\ call[a].pc \in Making =>
       LET r == call[a].room
       IN /\ r \in RoomIds /\ rooms[r].nb = call[a].nb /\ rooms[r].state # "absent"
          /\ rooms[r].kernel = NoKernel <=> call[a].pc = "creating"
          /\ a \in Jobs => (Recorded(a) => r \in registered)

CallsInv ==
  /\ \A a \in Actors : CallInv(a)
  /\ \A a, b \in Actors :
       call[a].pc = "creating" /\ call[b].pc = "creating" /\ call[a].room = call[b].room => a = b

(* The kernel of a room is one of a session of its notebook. *)
SessionsInv ==
  \A r \in RoomIds : rooms[r].kernel # NoKernel => session[rooms[r].kernel] = rooms[r].nb

(* A recorded job that has got its room, or is about to *)
Placed(j) == Recorded(j) /\ (task[j].pc \in Roomed \/ call[j].pc \in Making)

(* The map forgets a notebook's room only as its records go. *)
MapInv == \A j \in Jobs : Placed(j) => current[task[j].nb] # NoRoom

(* A room is in charge of its kernel if it is a notebook's, if a recorded   *)
(* job has it, or if a call is about to go on with it.  Of a kernel that no *)
(* lookup adopted behind another call one room is.                          *)
InCharge(r) ==
  \/ \E n \in Notebooks : current[n] = r
  \/ \E j \in Jobs : Recorded(j) /\ task[j].pc \in Roomed /\ task[j].room = r
  \/ \E a \in Actors : call[a].pc = "returned" /\ call[a].room = r

OneInCharge ==
  \A q, r \in RoomIds :
    InCharge(q) /\ InCharge(r) /\ rooms[q].kernel = rooms[r].kernel
    /\ rooms[q].kernel \in Kernels \ overtaken => q = r

ServerInv == CallsInv /\ SessionsInv /\ MapInv /\ OneInCharge

IInv == TypeOK /\ RoomsInv /\ TasksInv /\ SendersInv /\ LockInv /\ RequestsInv /\ ServerInv

-----------------------------------------------------------------------------
(* What a step may do to rooms, tasks and records without disturbing the    *)
(* invariant's parts about them                                             *)

(* A room in use stays in use, of its notebook, with the kernel it has. *)
RoomsOnward ==
  \A r \in RoomIds : rooms[r].state # "absent" =>
    /\ rooms'[r].state # "absent" /\ rooms'[r].nb = rooms[r].nb
    /\ rooms[r].kernel # NoKernel => rooms'[r].kernel = rooms[r].kernel

TasksOnward ==
  \A j \in Jobs : task[j].pc # "none" => task'[j].pc # "none" /\ task'[j].nb = task[j].nb

(* Nothing of the room changes but its state and its clients. *)
RoomSame(q) ==
  /\ rooms'[q].nb = rooms[q].nb /\ rooms'[q].kernel = rooms[q].kernel
  /\ rooms'[q].state = "absent" <=> rooms[q].state = "absent"

RoomKept(q) == RoomSame(q) /\ rooms'[q].jobs \subseteq rooms[q].jobs

LEMMA RoomsKept ==
  ASSUME TypeOK, RoomsInv, TasksOnward, rooms' \in [RoomIds -> Room], UNCHANGED <<registered, current>>,
         \A q \in RoomIds : RoomKept(q)
  PROVE  RoomsInv' /\ RoomsOnward /\ registered \subseteq registered'
<1>1. \A q \in registered : q \in RoomIds
  BY DEF TypeOK
<1>2. \A q \in RoomIds : \A j \in rooms'[q].jobs : j \in Jobs /\ j \in rooms[q].jobs
  BY DEF Room, RoomKept
<1>3. \A q \in RoomIds : \A j \in rooms'[q].jobs : task'[j].pc # "none" /\ task'[j].nb = rooms'[q].nb
  BY <1>2 DEF RoomsInv, TasksOnward, RoomKept, RoomSame
<1>4. \A m \in Notebooks : current'[m] # NoRoom => current'[m] \in registered' /\ rooms'[current'[m]].nb = m
  BY <1>1 DEF RoomsInv, RoomKept, RoomSame
<1>5. \A q \in RoomIds : /\ rooms'[q].state # "absent" => rooms'[q].nb \in Notebooks
                         /\ rooms'[q].state = "absent" => rooms'[q].kernel = NoKernel
  BY DEF RoomsInv, RoomKept, RoomSame
<1>6. \A q \in registered' : rooms'[q].state # "absent"
  BY <1>1 DEF RoomsInv, RoomKept, RoomSame
<1> QED
  BY <1>3, <1>4, <1>5, <1>6 DEF RoomsInv, RoomsOnward, RoomKept, RoomSame

(* A room is made, and is the notebook's. *)
Added(n, r) ==
  /\ rooms[r].state = "absent" /\ rooms' \in [RoomIds -> Room]
  /\ rooms'[r].nb = n /\ rooms'[r].state # "absent" /\ rooms'[r].jobs = {}
  /\ \A q \in RoomIds \ {r} : RoomKept(q)
  /\ registered' = registered \cup {r} /\ current' = [current EXCEPT ![n] = r]

LEMMA RoomsAdded ==
  ASSUME TypeOK, RoomsInv, UNCHANGED task, NEW n \in Notebooks, NEW r \in RoomIds, Added(n, r)
  PROVE  RoomsInv' /\ RoomsOnward /\ registered \subseteq registered'
<1>1. \A q \in registered : q \in RoomIds \ {r}
  BY DEF TypeOK, RoomsInv, Added
<1>2. \A q \in RoomIds \ {r} : RoomSame(q)
  BY DEF Added, RoomKept
<1>3. ASSUME NEW q \in registered' PROVE rooms'[q].state # "absent"
  <2>1. CASE q = r
    BY <2>1 DEF Added
  <2>2. CASE q # r
    <3>1. q \in registered
      BY <1>3, <2>2 DEF Added
    <3> QED
      BY <1>1, <1>2, <3>1 DEF RoomsInv, RoomSame
  <2> QED
    BY <2>1, <2>2
<1>4. ASSUME NEW m \in Notebooks, current'[m] # NoRoom
      PROVE  current'[m] \in registered' /\ rooms'[current'[m]].nb = m
  <2>1. current \in [Notebooks -> RoomIds \cup {NoRoom}]
    BY DEF TypeOK
  <2>2. CASE m = n
    BY <2>1, <2>2 DEF Added
  <2>3. CASE m # n
    <3>1. current'[m] = current[m] /\ current[m] \in registered /\ rooms[current[m]].nb = m
      BY <1>4, <2>1, <2>3 DEF RoomsInv, Added
    <3> QED
      BY <1>1, <1>2, <3>1 DEF RoomSame, Added
  <2> QED
    BY <2>2, <2>3
<1>5. ASSUME NEW q \in RoomIds, NEW j \in rooms'[q].jobs
      PROVE  task'[j].pc # "none" /\ task'[j].nb = rooms'[q].nb
  <2>1. q # r
    BY <1>5 DEF Added
  <2>2. j \in rooms[q].jobs /\ rooms'[q].nb = rooms[q].nb
    BY <2>1 DEF Added, RoomKept, RoomSame
  <2> QED
    BY <2>2 DEF RoomsInv
<1>6. ASSUME NEW q \in RoomIds
      PROVE  /\ rooms'[q].state # "absent" => rooms'[q].nb \in Notebooks
             /\ rooms'[q].state = "absent" => rooms'[q].kernel = NoKernel
  BY <1>2 DEF RoomsInv, RoomSame, Added
<1>7. RoomsOnward
  BY <1>2 DEF RoomsOnward, RoomSame, Added
<1>8. registered \subseteq registered'
  BY DEF Added
<1> QED
  BY <1>3, <1>4, <1>5, <1>6, <1>7, <1>8 DEF RoomsInv

(* The record of j stays one of its notebook, goes, or is new. *)
RecordOnward(j) ==
  /\ jobs'[j].status \in JobStatus =>
       \/ Recorded(j) /\ jobs'[j].nb = jobs[j].nb
       \/ jobs[j].status = "unused" /\ jobs'[j].nb \in Notebooks
  /\ jobs[j].status # "unused" => jobs'[j].status # "unused"
  /\ jobs'[j].status = "awaiting_input" => jobs[j].status = "awaiting_input" \/ task[j].pc # "none"

(* The task of j goes on in the room it has. *)
TaskOnward(j) ==
  /\ task'[j].nb = task[j].nb /\ (task'[j].pc = "none" <=> task[j].pc = "none")
  /\ task'[j].pc # "none" => task'[j].cell <= task'[j].last
  /\ task'[j].pc \in Roomed => task[j].pc \in Roomed /\ task'[j].room = task[j].room

LEMMA TaskKept ==
  ASSUME TypeOK, NEW j \in Jobs, TaskInv(j), RoomsOnward, registered \subseteq registered',
         RecordOnward(j), TaskOnward(j)
  PROVE  TaskInv(j)'
BY DEF TaskInv, TaskRoomed, Roomed, RoomsOnward, RecordOnward, TaskOnward, Recorded, JobStatus, Active, Finished

LEMMA KeptOnward ==
  ASSUME NEW j \in Jobs, Kept(jobs[j], jobs'[j])
  PROVE  RecordOnward(j)
BY DEF Kept, RecordOnward, Recorded, GoneJob, UnusedJob, JobStatus, Active, Finished

LEMMA LoggedOnward ==
  ASSUME jobs \in [Jobs -> Job], NEW n \in Notebooks, NEW action \in JobAction, NEW r \in RoomIds,
         jobs' = Logged(jobs, n, action, r)
  PROVE  jobs' \in [Jobs -> Job] /\ \A j \in Jobs : RecordOnward(j)
BY LoggedKeeps, KeptOnward DEF RecordOnward

(* A job's status is written. *)
LEMMA UpdatedOnward ==
  ASSUME jobs \in [Jobs -> Job], NEW j \in Jobs, NEW status \in JobStatus, NEW r \in RoomIds \cup {NoRoom},
         task[j].pc # "none", jobs' = Updated(jobs, j, status, r)
  PROVE  /\ jobs' \in [Jobs -> Job] /\ \A k \in Jobs : RecordOnward(k)
         /\ \A k \in Jobs : jobs'[k].status \in JobStatus => Recorded(k)
<1>1. ASSUME NEW k \in Jobs \ {j}
      PROVE  RecordOnward(k) /\ (jobs'[k].status \in JobStatus => Recorded(k))
  <2>1. Kept(jobs[k], jobs'[k])
    BY UpdatedKeeps
  <2> QED
    BY <2>1, KeptOnward DEF Kept, Recorded, GoneJob, UnusedJob, JobStatus, Active, Finished
<1>2. RecordOnward(j) /\ (jobs'[j].status \in JobStatus => Recorded(j))
  BY UpdatedKeeps DEF RecordOnward, Recorded, GoneJob, UnusedJob, JobStatus, Active, Finished
<1> QED
  BY <1>1, <1>2, UpdatedKeeps

LEMMA SendersKept ==
  ASSUME TypeOK, SendersInv, TasksOnward, UNCHANGED sender
  PROVE  SendersInv'
BY DEF SendersInv, TasksOnward, TypeOK, Sender

LEMMA RequestsKept ==
  ASSUME TypeOK, RequestsInv, UNCHANGED task,
         \A j \in Jobs : req'[j].status \in Open => req[j].status \in Open,
         \A j \in Jobs : task[j].pc # "none" => RecordOnward(j),
         \A j \in Jobs : TaskInv(j)
  PROVE  RequestsInv'
BY DEF RequestsInv, RecordOnward, TaskInv, Recorded

-----------------------------------------------------------------------------
(* Locks *)

LEMMA LockKept ==
  ASSUME TypeOK, LockInv, UNCHANGED lock,
         \A j \in Jobs :
           /\ task'[j].pc \in Holding <=> task[j].pc \in Holding
           /\ task[j].pc \in Holding => task'[j].room = task[j].room
           /\ task'[j].pc = "locking" => task[j].pc = "locking"
           /\ task'[j].pc \in Working =>
                \/ task[j].pc \in Working
                \/ lock[task[j].room] # <<>> /\ Head(lock[task[j].room]) = j
  PROVE  LockInv'
<1>1. \A r \in RoomIds : \A i \in 1..Len(lock[r]) : lock[r][i] \in Jobs
  BY DEF TypeOK
<1>2. \A r \in RoomIds : \A i \in 1..Len(lock[r]) :
        task'[lock[r][i]].pc \in Holding /\ task'[lock[r][i]].room = r
  BY <1>1 DEF LockInv
<1> QED
  BY <1>2 DEF LockInv, Holding, Working

(* The task that has its room's lock releases it. *)
LEMMA LockReleased ==
  ASSUME TypeOK, LockInv, NEW j \in Jobs, task[j].pc \in Working, task[j].room \in RoomIds,
         lock' = [lock EXCEPT ![task[j].room] = Tail(@)],
         task' = [task EXCEPT ![j] = [@ EXCEPT !.pc = "ended"]]
  PROVE  LockInv' /\ lock' \in [RoomIds -> Seq(Jobs)]
<1> DEFINE r == task[j].room
           s == lock[r]
<1>1. /\ r \in RoomIds /\ s \in Seq(Jobs) /\ s # <<>> /\ s[1] = j
      /\ lock \in [RoomIds -> Seq(Jobs)] /\ task \in [Jobs -> Task]
  BY DEF TypeOK, LockInv
<1>2. /\ Tail(s) \in Seq(Jobs) /\ Len(Tail(s)) = Len(s) - 1 /\ Len(s) \in Nat /\ Len(s) >= 1
      /\ \A i \in 1..Len(Tail(s)) : Tail(s)[i] = s[i + 1]
  BY <1>1
<1>3. lock'[r] = Tail(s) /\ \A q \in RoomIds \ {r} : lock'[q] = lock[q]
  BY <1>1
<1>4. task'[j].pc = "ended" /\ \A k \in Jobs \ {j} : task'[k] = task[k]
  BY <1>1 DEF Task
<1>5. lock' \in [RoomIds -> Seq(Jobs)]
  BY <1>1, <1>2
<1> HIDE DEF r, s
<1>6. \A i, k \in 1..Len(s) : s[i] = s[k] => i = k
  BY <1>1 DEF LockInv, s
<1>7. \A i \in 1..Len(s) : s[i] \in Jobs /\ task[s[i]].pc \in Holding /\ task[s[i]].room = r
  BY <1>1 DEF LockInv, s
<1>8. ASSUME NEW q \in RoomIds, NEW i \in 1..Len(lock'[q])
      PROVE  task'[lock'[q][i]].pc \in Holding /\ task'[lock'[q][i]].room = q
  <2>1. CASE q = r
    <3>1. lock'[q] = Tail(s) /\ i \in 1..Len(Tail(s))
      BY <1>3, <1>8, <2>1
    <3>2. i + 1 \in 1..Len(s) /\ i + 1 # 1
      BY <1>2, <3>1
    <3>3. lock'[q][i] = s[i + 1]
      BY <1>2, <3>1
    <3>4. s[i + 1] # j
      BY <1>1, <1>2, <1>6, <3>2
    <3> QED
      BY <1>4, <1>7, <2>1, <3>2, <3>3, <3>4
  <2>2. CASE q # r
    <3>1. lock'[q] = lock[q] /\ lock[q][i] \in Jobs
      BY <1>1, <1>3, <2>2
    <3>2. task[lock[q][i]].pc \in Holding /\ task[lock[q][i]].room = q
      BY <3>1 DEF LockInv
    <3>3. lock[q][i] # j
      BY <2>2, <3>2 DEF r
    <3> QED
      BY <1>4, <3>1, <3>2, <3>3
  <2> QED
    BY <2>1, <2>2
<1>9. ASSUME NEW q \in RoomIds, NEW i \in 1..Len(lock'[q]), NEW k \in 1..Len(lock'[q]), lock'[q][i] = lock'[q][k]
      PROVE  i = k
  <2>1. CASE q = r
    <3>1. lock'[q] = Tail(s) /\ i \in 1..Len(Tail(s)) /\ k \in 1..Len(Tail(s))
      BY <1>3, <2>1
    <3>2. \A m \in 1..Len(Tail(s)) : m + 1 \in 1..Len(s) /\ Tail(s)[m] = s[m + 1]
      BY <1>2
    <3>3. s[i + 1] = s[k + 1]
      BY <1>9, <3>1, <3>2
    <3>4. i + 1 = k + 1
      BY <1>6, <3>1, <3>2, <3>3
    <3> QED
      BY <3>4
  <2>2. CASE q # r
    <3>1. lock'[q] = lock[q]
      BY <1>3, <2>2
    <3>2. \A a, b \in 1..Len(lock[q]) : lock[q][a] = lock[q][b] => a = b
      BY DEF LockInv
    <3> QED
      BY <1>9, <3>1, <3>2
  <2> QED
    BY <2>1, <2>2
<1>10. ASSUME NEW k \in Jobs, task'[k].pc \in Working
       PROVE  lock'[task'[k].room] # <<>> /\ Head(lock'[task'[k].room]) = k
  <2>1. k # j /\ task'[k] = task[k]
    BY <1>4, <1>10 DEF Working
  <2>2. lock[task[k].room] # <<>> /\ Head(lock[task[k].room]) = k
    BY <1>10, <2>1 DEF LockInv
  <2>3. task[k].room # r
    BY <1>1, <2>1, <2>2 DEF s
  <2>4. lock'[task[k].room] = lock[task[k].room]
    BY <1>1, <2>3 DEF r
  <2> QED
    BY <2>1, <2>2, <2>4
<1>11. ASSUME NEW k \in Jobs, task'[k].pc = "locking"
       PROVE  \E i \in 1..Len(lock'[task'[k].room]) : lock'[task'[k].room][i] = k
  <2>1. k # j /\ task'[k] = task[k]
    BY <1>4, <1>11
  <2>2. PICK i \in 1..Len(lock[task[k].room]) : lock[task[k].room][i] = k
    BY <1>11, <2>1 DEF LockInv
  <2>3. CASE task[k].room = r
    <3>1. i \in 1..Len(s) /\ i # 1 /\ s[i] = k
      BY <1>1, <2>1, <2>2, <2>3 DEF s
    <3>2. i - 1 \in 1..Len(Tail(s)) /\ Tail(s)[i - 1] = s[(i - 1) + 1] /\ (i - 1) + 1 = i
      BY <1>2, <3>1
    <3> QED
      BY <1>3, <2>1, <2>3, <3>1, <3>2
  <2>4. CASE task[k].room # r
    <3>1. lock'[task[k].room] = lock[task[k].room]
      BY <1>1, <2>4 DEF r
    <3> QED
      BY <2>1, <2>2, <3>1
  <2> QED
    BY <2>3, <2>4
<1> QED
  BY <1>5, <1>8, <1>9, <1>10, <1>11 DEF LockInv

(* A task that has got its room asks for the lock. *)
LEMMA LockAsked ==
  ASSUME TypeOK, LockInv, NEW j \in Jobs, task[j].pc = "starting", NEW r \in RoomIds,
         lock' = [lock EXCEPT ![r] = Append(@, j)],
         task' = [task EXCEPT ![j] = [@ EXCEPT !.pc = "locking", !.room = r]]
  PROVE  LockInv' /\ lock' \in [RoomIds -> Seq(Jobs)]
<1> DEFINE s == lock[r]
<1>1. /\ s \in Seq(Jobs) /\ lock \in [RoomIds -> Seq(Jobs)] /\ task \in [Jobs -> Task]
      /\ \A q \in RoomIds : \A i \in 1..Len(lock[q]) : lock[q][i] \in Jobs
  BY DEF TypeOK
<1>2. /\ Append(s, j) \in Seq(Jobs) /\ Len(Append(s, j)) = Len(s) + 1 /\ Len(s) \in Nat
      /\ Append(s, j)[Len(s) + 1] = j /\ \A i \in 1..Len(s) : Append(s, j)[i] = s[i]
  BY <1>1
<1>3. lock'[r] = Append(s, j) /\ \A q \in RoomIds \ {r} : lock'[q] = lock[q]
  BY <1>1
<1>4. task'[j].pc = "locking" /\ task'[j].room = r /\ \A k \in Jobs \ {j} : task'[k] = task[k]
  BY <1>1 DEF Task
<1>5. lock' \in [RoomIds -> Seq(Jobs)]
  BY <1>1, <1>2
<1>6. \A q \in RoomIds : \A i \in 1..Len(lock[q]) :
        lock[q][i] # j /\ task'[lock[q][i]].pc \in Holding /\ task'[lock[q][i]].room = q
  BY <1>1, <1>4 DEF LockInv, Holding, Working
<1> HIDE DEF s
<1>7. ASSUME NEW q \in RoomIds, NEW i \in 1..Len(lock'[q])
      PROVE  task'[lock'[q][i]].pc \in Holding /\ task'[lock'[q][i]].room = q
  <2>1. CASE q = r /\ i = Len(s) + 1
    BY <1>2, <1>3, <1>4, <2>1 DEF Holding
  <2>2. CASE q = r /\ i # Len(s) + 1
    BY <1>2, <1>3, <1>6, <2>2 DEF s
  <2>3. CASE q # r
    BY <1>3, <1>6, <2>3
  <2> QED
    BY <2>1, <2>2, <2>3
<1>8. ASSUME NEW q \in RoomIds, NEW i \in 1..Len(lock'[q]), NEW k \in 1..Len(lock'[q]), lock'[q][i] = lock'[q][k]
      PROVE  i = k
  <2>1. CASE q = r
    <3>1. \A m \in 1..Len(s) : s[m] # j
      BY <1>6 DEF s
    <3>2. \A m, l \in 1..Len(s) : s[m] = s[l] => m = l
      BY DEF LockInv, s
    <3> QED
      BY <1>2, <1>3, <1>8, <2>1, <3>1, <3>2
  <2>2. CASE q # r
    <3>1. lock'[q] = lock[q]
      BY <1>3, <2>2
    <3>2. \A a, b \in 1..Len(lock[q]) : lock[q][a] = lock[q][b] => a = b
      BY DEF LockInv
    <3> QED
      BY <1>8, <3>1, <3>2
  <2> QED
    BY <2>1, <2>2
<1>9. ASSUME NEW k \in Jobs, task'[k].pc \in Working
      PROVE  lock'[task'[k].room] # <<>> /\ Head(lock'[task'[k].room]) = k
  <2>1. k # j /\ task'[k] = task[k]
    BY <1>4, <1>9 DEF Working
  <2>2. lock[task[k].room] # <<>> /\ Head(lock[task[k].room]) = k
    BY <1>9, <2>1 DEF LockInv
  <2>3. CASE task[k].room = r
    <3>1. s # <<>> /\ s[1] = k
      BY <1>1, <2>2, <2>3 DEF s
    <3>2. 1 \in 1..Len(s)
      BY <1>1, <3>1
    <3>3. Append(s, j)[1] = k /\ Len(Append(s, j)) # 0
      BY <1>2, <3>1, <3>2
    <3>4. \A t \in Seq(Jobs) : Len(t) # 0 => t # <<>> /\ Head(t) = t[1]
      OBVIOUS
    <3>5. Append(s, j) # <<>> /\ Head(Append(s, j)) = k
      BY <1>2, <3>3, <3>4
    <3> QED
      BY <1>3, <2>1, <2>3, <3>5
  <2>4. CASE task[k].room # r
    <3>1. lock'[task[k].room] = lock[task[k].room]
      BY <1>1, <2>4
    <3> QED
      BY <2>1, <2>2, <3>1
  <2> QED
    BY <2>3, <2>4
<1>10. ASSUME NEW k \in Jobs, task'[k].pc = "locking"
       PROVE  \E i \in 1..Len(lock'[task'[k].room]) : lock'[task'[k].room][i] = k
  <2>1. CASE k = j
    <3>1. Len(s) + 1 \in 1..Len(lock'[r]) /\ lock'[r][Len(s) + 1] = j
      BY <1>2, <1>3
    <3> QED
      BY <1>4, <2>1, <3>1
  <2>2. CASE k # j
    <3>1. task'[k] = task[k]
      BY <1>4, <2>2
    <3>2. PICK i \in 1..Len(lock[task[k].room]) : lock[task[k].room][i] = k
      BY <1>10, <3>1 DEF LockInv
    <3>3. CASE task[k].room = r
      <4>1. i \in 1..Len(lock'[r]) /\ lock'[r][i] = k
        BY <1>2, <1>3, <3>2, <3>3 DEF s
      <4> QED
        BY <3>1, <3>3, <4>1
    <3>4. CASE task[k].room # r
      <4>1. lock'[task[k].room] = lock[task[k].room]
        BY <1>1, <3>4
      <4> QED
        BY <3>1, <3>2, <4>1
    <3> QED
      BY <3>3, <3>4
  <2> QED
    BY <2>1, <2>2
<1> QED
  BY <1>5, <1>7, <1>8, <1>9, <1>10 DEF LockInv

-----------------------------------------------------------------------------
(* What a step may do to calls and sessions *)

(* The call goes on as it is, is over, or looks the notebook up. *)
CallOnward(a) ==
  \/ call'[a] = call[a] /\ (a \in Jobs /\ call[a].pc # "none" => task'[a] = task[a])
  \/ call'[a].pc = "none"
  \/ /\ call'[a].pc = "looking" /\ call'[a].nb \in Notebooks
     /\ a \in Jobs => task'[a].pc = "starting" /\ task'[a].nb = call'[a].nb

ServerOnward ==
  /\ \A k \in Kernels : session[k] # NoNotebook => session'[k] = session[k]
  /\ overtaken \subseteq overtaken'
  /\ \A a \in Actors : CallOnward(a)

ServerUnchanged == UNCHANGED <<session, up, overtaken, call>>

LEMMA ServerSame ==
  ASSUME ServerUnchanged, \A j \in Jobs : call[j].pc # "none" => task'[j] = task[j]
  PROVE  ServerOnward
BY DEF ServerUnchanged, ServerOnward, CallOnward

(* A recorded job whose task has started is not new. *)
LEMMA WasRecorded ==
  ASSUME NEW j \in Jobs, TaskInv(j), task[j].pc # "none", RecordOnward(j), Recorded(j)'
  PROVE  Recorded(j)
BY DEF TaskInv, RecordOnward, Recorded

LEMMA CallsKept ==
  ASSUME IInv, \A r \in RoomIds : RoomSame(r), registered \subseteq registered', ServerOnward,
         \A j \in Jobs : task[j].pc # "none" => RecordOnward(j)
  PROVE  CallsInv'
<1>1. ASSUME NEW a \in Actors PROVE CallInv(a)'
  <2>1. CallInv(a) /\ CallOnward(a)
    BY DEF IInv, ServerInv, CallsInv, ServerOnward
  <2>2. CASE call'[a].pc = "none" \/ call'[a].pc = "looking"
    <3>1. call'[a].pc \notin Making
      BY <2>2 DEF Making
    <3>2. call'[a].pc # "none" =>
            /\ call'[a].nb \in Notebooks
            /\ a \in Jobs => task'[a].pc = "starting" /\ task'[a].nb = call'[a].nb
      BY <2>1, <2>2 DEF CallInv, CallOnward
    <3> QED
      BY <3>1, <3>2 DEF CallInv
  <2>3. CASE call'[a] = call[a] /\ (a \in Jobs /\ call[a].pc # "none" => task'[a] = task[a])
    <3>1. ASSUME a \in Jobs, call[a].pc # "none", Recorded(a)' PROVE Recorded(a)
      <4>1. task[a].pc # "none" /\ TaskInv(a)
        BY <2>1, <3>1 DEF CallInv, IInv, TasksInv
      <4> QED
        BY <3>1, <4>1, WasRecorded
    <3> QED
      BY <2>1, <2>3, <3>1 DEF CallInv, RoomSame, Making
  <2> QED
    BY <2>1, <2>2, <2>3 DEF CallOnward
<1>2. ASSUME NEW a \in Actors, call'[a].pc = "creating" PROVE call'[a] = call[a]
  BY <1>2 DEF ServerOnward, CallOnward
<1> QED
  BY <1>1, <1>2 DEF IInv, ServerInv, CallsInv

LEMMA SessionsKept ==
  ASSUME IInv, \A r \in RoomIds : RoomSame(r),
         \A k \in Kernels : session[k] # NoNotebook => session'[k] = session[k]
  PROVE  SessionsInv'
<1> SUFFICES ASSUME NEW r \in RoomIds, rooms'[r].kernel # NoKernel
             PROVE  session'[rooms'[r].kernel] = rooms'[r].nb
  BY DEF SessionsInv
<1>1. rooms'[r].kernel = rooms[r].kernel /\ rooms'[r].nb = rooms[r].nb
  BY DEF RoomSame
<1>2. session[rooms[r].kernel] = rooms[r].nb /\ rooms[r].nb \in Notebooks
  BY <1>1 DEF IInv, ServerInv, SessionsInv, RoomsInv
<1>3. rooms[r].kernel \in Kernels
  BY <1>1 DEF IInv, TypeOK, Room
<1> QED
  BY <1>1, <1>2, <1>3, LedgerAssumption

(* No room takes charge of its kernel. *)
LEMMA ChargeKept ==
  ASSUME IInv, \A r \in RoomIds : rooms'[r].kernel = rooms[r].kernel, overtaken \subseteq overtaken',
         \A r \in RoomIds : InCharge(r)' => InCharge(r)
  PROVE  OneInCharge'
BY DEF IInv, ServerInv, OneInCharge

LEMMA ServerKept ==
  ASSUME IInv, UNCHANGED current, registered \subseteq registered', \A r \in RoomIds : RoomSame(r), ServerOnward,
         \A j \in Jobs : task[j].pc # "none" => RecordOnward(j) /\ TaskOnward(j),
         \A j \in Jobs : task[j].pc = "none" => task'[j].pc \notin Roomed
  PROVE  ServerInv'
<1>1. CallsInv' /\ SessionsInv'
  BY CallsKept, SessionsKept DEF ServerOnward
<1>2. \A j \in Jobs : /\ TaskInv(j)
                      /\ "none" \notin Roomed /\ "none" \notin Making /\ "looking" \notin Making
  BY DEF IInv, TasksInv, Roomed, Making
<1>3. ASSUME NEW j \in Jobs, Recorded(j)', task'[j].pc \in Roomed
      PROVE  Recorded(j) /\ task[j].pc \in Roomed /\ task'[j].room = task[j].room /\ task'[j].nb = task[j].nb
  <2>1. task[j].pc # "none"
    BY <1>3
  <2> QED
    BY <1>2, <1>3, <2>1, WasRecorded DEF TaskOnward
<1>4. ASSUME NEW a \in Actors, call'[a].pc \in Making
      PROVE  call'[a] = call[a] /\ (a \in Jobs => task'[a] = task[a] /\ task[a].pc = "starting")
  <2>1. call'[a] = call[a] /\ (a \in Jobs /\ call[a].pc # "none" => task'[a] = task[a])
    BY <1>2, <1>4 DEF ServerOnward, CallOnward, Making
  <2>2. call[a].pc # "none"
    BY <1>4, <2>1 DEF Making
  <2> QED
    BY <2>1, <2>2 DEF IInv, ServerInv, CallsInv, CallInv
<1>5. ASSUME NEW j \in Jobs, Placed(j)' PROVE Placed(j) /\ task'[j].nb = task[j].nb
  <2>1. CASE task'[j].pc \in Roomed
    BY <1>3, <1>5, <2>1 DEF Placed
  <2>2. CASE call'[j].pc \in Making
    <3>1. call'[j] = call[j] /\ task'[j] = task[j] /\ task[j].pc = "starting"
      BY <1>4, <2>2 DEF Actors
    <3>2. Recorded(j)
      BY <1>2, <1>5, <3>1, WasRecorded DEF Placed
    <3> QED
      BY <2>2, <3>1, <3>2 DEF Placed
  <2> QED
    BY <1>5, <2>1, <2>2 DEF Placed
<1>6. MapInv'
  BY <1>5 DEF IInv, ServerInv, MapInv
<1>7. ASSUME NEW r \in RoomIds, InCharge(r)' PROVE InCharge(r)
  <2>1. CASE \E n \in Notebooks : current'[n] = r
    BY <2>1 DEF InCharge
  <2>2. ASSUME NEW j \in Jobs, Recorded(j)', task'[j].pc \in Roomed, task'[j].room = r PROVE InCharge(r)
    BY <1>3, <2>2 DEF InCharge
  <2>3. ASSUME NEW a \in Actors, call'[a].pc = "returned", call'[a].room = r PROVE InCharge(r)
    BY <1>4, <2>3 DEF InCharge, Making
  <2> QED
    BY <1>7, <2>1, <2>2, <2>3 DEF InCharge
<1>8. OneInCharge'
  BY <1>7, ChargeKept DEF RoomSame, ServerOnward
<1> QED
  BY <1>1, <1>6, <1>8 DEF ServerInv

-----------------------------------------------------------------------------
(* Steps in which no room is made and none goes *)

LEMMA RequestWithStatus ==
  ASSUME NEW q \in Request,
         NEW status \in {"none", "running", "input", "replied", "ok", "error", "taken", "lost"}
  PROVE  [q EXCEPT !.status = status] \in Request /\ [q EXCEPT !.status = status].status = status
BY DEF Request

RoomStates == LiveStates \cup {"absent", "starting", "stopping", "stopped", "failed"}

LEMMA RoomWithClients ==
  ASSUME NEW room \in Room, NEW clients \in BOOLEAN, NEW state \in RoomStates
  PROVE  LET after == [room EXCEPT !.clients = clients, !.state = state]
         IN /\ after \in Room /\ after.nb = room.nb /\ after.kernel = room.kernel
            /\ after.jobs = room.jobs /\ after.state = state
BY DEF Room, RoomStates

LEMMA TaskUnchanged ==
  ASSUME TasksInv, UNCHANGED task
  PROVE  TasksOnward /\ \A j \in Jobs : TaskOnward(j)
BY DEF TasksInv, TaskInv, TaskOnward, TasksOnward

LEMMA RecordsUnchanged ==
  ASSUME UNCHANGED jobs
  PROVE  \A j \in Jobs : RecordOnward(j)
BY KeptOnward DEF Kept

LEMMA RoomsUnchanged ==
  ASSUME UNCHANGED rooms
  PROVE  \A r \in RoomIds : RoomKept(r)
BY DEF RoomKept, RoomSame

(* A task goes on, the records with it. *)
LEMMA KeptStep ==
  ASSUME IInv, TypeOK', UNCHANGED <<registered, current>>, \A r \in RoomIds : RoomKept(r), ServerOnward,
         SendersInv', LockInv', RequestsInv', \A j \in Jobs : RecordOnward(j) /\ TaskOnward(j)
  PROVE  IInv'
<1>1. TasksOnward /\ \A r \in RoomIds : RoomSame(r)
  BY DEF TasksOnward, TaskOnward, RoomKept
<1>2. RoomsInv' /\ RoomsOnward /\ registered \subseteq registered'
  BY <1>1, RoomsKept DEF IInv, TypeOK
<1>3. TasksInv'
  BY <1>2, TaskKept DEF IInv, TasksInv
<1>4. ServerInv'
  <2>1. \A j \in Jobs : task[j].pc = "none" => task'[j].pc \notin Roomed
    BY DEF TaskOnward, Roomed
  <2> QED
    BY <1>1, <1>2, <2>1, ServerKept
<1> QED
  BY <1>2, <1>3, <1>4 DEF IInv

(* No task goes on. *)
LEMMA QuietStep ==
  ASSUME IInv, TypeOK', UNCHANGED <<task, lock, registered, current>>,
         \A r \in RoomIds : RoomKept(r), ServerOnward, SendersInv', \A j \in Jobs : RecordOnward(j),
         \A j \in Jobs : req'[j].status \in Open => req[j].status \in Open
  PROVE  IInv'
<1>1. LockInv'
  BY LockKept DEF IInv
<1>2. RequestsInv'
  BY RequestsKept DEF IInv, TasksInv
<1>3. \A j \in Jobs : TaskOnward(j)
  BY TaskUnchanged DEF IInv
<1> QED
  BY <1>1, <1>2, <1>3, KeptStep

LEMMA SendersUnchanged ==
  ASSUME IInv, UNCHANGED <<task, sender>>
  PROVE  SendersInv'
BY SendersKept, TaskUnchanged DEF IInv

-----------------------------------------------------------------------------
(* What ensure_room answers *)

CallOps == {"run", "queue", "open", "status", "interrupt", "stdin"}

(* Calls that are over leave the others as they are. *)
LEMMA CallOver ==
  ASSUME IInv, NEW a \in Actors, call' = [call EXCEPT ![a] = NoCall], UNCHANGED <<session, overtaken>>,
         \A j \in Jobs : j # a /\ call[j].pc # "none" => task'[j] = task[j]
  PROVE  call' \in [Actors -> Call] /\ ServerOnward
<1>1. call \in [Actors -> Call] /\ NoCall \in Call /\ NoCall.pc = "none"
  BY DEF IInv, TypeOK, NoCall, Call
<1>2. call' \in [Actors -> Call] /\ call'[a].pc = "none" /\ \A b \in Actors \ {a} : call'[b] = call[b]
  BY <1>1
<1>3. \A b \in Actors : CallOnward(b)
  BY <1>2 DEF CallOnward
<1> QED
  BY <1>2, <1>3 DEF ServerOnward

(* The room is the notebook's, has a kernel, and has it in its charge. *)
LEMMA AnswersRoom ==
  ASSUME IInv, NEW a \in Actors, NEW op \in CallOps, NEW n \in Notebooks, NEW r \in RoomIds,
         Answers(a, op, n, r)
  PROVE  /\ rooms[r].nb = n /\ rooms[r].state # "absent" /\ rooms[r].kernel # NoKernel /\ InCharge(r)
         /\ a \in Jobs /\ Recorded(a) => r \in registered /\ (current[n] # NoRoom \/ Placed(a))
<1>1. CASE call[a].pc = "none" /\ Usable(n) /\ r = current[n]
  <2>1. r \in registered /\ rooms[r].nb = n /\ rooms[r].state # "absent" /\ current[n] # NoRoom
    BY <1>1 DEF Usable, LiveStates, IInv, RoomsInv
  <2>2. rooms[r].kernel \in Kernels
    BY <1>1 DEF Usable, IInv, TypeOK
  <2>3. InCharge(r)
    BY <1>1 DEF InCharge
  <2> QED
    BY <2>1, <2>2, <2>3, ExecutionAssumption
<1>2. CASE call[a].pc = "returned" /\ call[a].op = op /\ call[a].nb = n /\ r = call[a].room
  <2>1. CallInv(a) /\ call[a].pc \in Making /\ call[a].pc # "creating"
    BY <1>2 DEF Making, IInv, ServerInv, CallsInv
  <2>2. InCharge(r)
    BY <1>2 DEF InCharge
  <2> QED
    BY <1>2, <2>1, <2>2 DEF CallInv, Placed
<1> QED
  BY <1>1, <1>2 DEF Answers

LEMMA CallersCall ==
  /\ Callers \subseteq Actors /\ Senders \subseteq Actors /\ Jobs \subseteq Actors
  /\ \A c \in Callers : c \notin Jobs /\ c \notin Senders
  /\ \A s \in Senders : s \notin Jobs /\ s \notin Callers
BY ExecutionAssumption DEF Actors

-----------------------------------------------------------------------------
(* The runtime's users and its kernel *)

LEMMA OpenRuntimeSafe ==
  ASSUME IInv, NEW c \in Callers, NEW n \in Notebooks, OpenRuntime(c, n) PROVE IInv'
<1>1. PICK r \in RoomIds :
        /\ Answers(c, "open", n, r)
        /\ rooms' = [rooms EXCEPT ![r] = [@ EXCEPT !.clients = TRUE, !.state = "live-attached"]]
  BY DEF OpenRuntime
<1>2. /\ UNCHANGED <<jobs, attribution, registered, current, session, up, overtaken, lock, task, req>>
      /\ UNCHANGED <<awaiting, resumed, sender, stops>> /\ call' = [call EXCEPT ![c] = NoCall]
  BY <1>1 DEF OpenRuntime, Answers, ledgerVars, kernelVars, promptVars
<1> DEFINE after == [rooms[r] EXCEPT !.clients = TRUE, !.state = "live-attached"]
<1>3. /\ rooms \in [RoomIds -> Room] /\ after \in Room /\ after.nb = rooms[r].nb
      /\ after.kernel = rooms[r].kernel /\ after.jobs = rooms[r].jobs /\ after.state = "live-attached"
  <2>1. rooms[r] \in Room /\ rooms \in [RoomIds -> Room] /\ "live-attached" \in RoomStates
    BY DEF IInv, TypeOK, RoomStates, LiveStates
  <2> QED
    BY <2>1, RoomWithClients
<1>4. rooms' = [rooms EXCEPT ![r] = after] /\ rooms[r].state # "absent"
  BY <1>1, AnswersRoom, CallersCall DEF CallOps
<1> HIDE DEF after
<1>5. rooms' \in [RoomIds -> Room] /\ \A q \in RoomIds : RoomKept(q)
  BY <1>3, <1>4 DEF RoomKept, RoomSame
<1>6. call' \in [Actors -> Call] /\ ServerOnward
  BY <1>2, CallOver, CallersCall
<1>7. TypeOK'
  BY <1>2, <1>5, <1>6 DEF IInv, TypeOK
<1> QED
  BY <1>2, <1>5, <1>6, <1>7, QuietStep, RecordsUnchanged, SendersUnchanged

(* The interrupted request, if any, has its result. *)
LEMMA InterruptSafe ==
  ASSUME IInv, NEW c \in Callers, NEW n \in Notebooks, Interrupt(c, n) PROVE IInv'
<1>1. PICK r \in RoomIds :
        /\ Answers(c, "interrupt", n, r)
        /\ \/ UNCHANGED <<jobs, req>>
           \/ /\ jobs' = Logged(jobs, n, "interrupt", r)
              /\ \/ UNCHANGED req
                 \/ \E i \in Jobs : req' = [req EXCEPT ![i] = [@ EXCEPT !.status = "error"]]
  BY DEF Interrupt
<1>2. /\ UNCHANGED <<attribution, rooms, registered, current, session, up, overtaken, lock, task>>
      /\ UNCHANGED <<awaiting, resumed, sender, stops>> /\ call' = [call EXCEPT ![c] = NoCall]
  BY <1>1 DEF Interrupt, Answers, runtimeVars, kernelVars, promptVars
<1>3. jobs' \in [Jobs -> Job] /\ \A j \in Jobs : RecordOnward(j)
  <2>1. CASE UNCHANGED jobs
    BY <2>1, RecordsUnchanged DEF IInv, TypeOK
  <2>2. CASE jobs' = Logged(jobs, n, "interrupt", r)
    BY <2>2, LoggedOnward DEF IInv, TypeOK, JobAction
  <2> QED
    BY <1>1, <2>1, <2>2
<1>4. req' \in [Jobs -> Request] /\ \A j \in Jobs : req'[j].status \in Open => req[j].status \in Open
  <2>1. req \in [Jobs -> Request]
    BY DEF IInv, TypeOK
  <2>2. CASE UNCHANGED req
    BY <2>1, <2>2
  <2>3. ASSUME NEW i \in Jobs, req' = [req EXCEPT ![i] = [@ EXCEPT !.status = "error"]]
        PROVE  req' \in [Jobs -> Request] /\ \A j \in Jobs : req'[j].status \in Open => req[j].status \in Open
    BY <2>1, <2>3, RequestWithStatus DEF Open
  <2> QED
    BY <1>1, <2>2, <2>3
<1>5. call' \in [Actors -> Call] /\ ServerOnward
  BY <1>2, CallOver, CallersCall
<1>6. TypeOK'
  BY <1>2, <1>3, <1>4, <1>5 DEF IInv, TypeOK
<1> QED
  BY <1>2, <1>3, <1>4, <1>5, <1>6, QuietStep, RoomsUnchanged, SendersUnchanged

LEMMA QueueAbandonedSafe == ASSUME IInv, NEW c \in Callers, QueueAbandoned(c) PROVE IInv'
<1>1. /\ UNCHANGED <<jobs, attribution, rooms, registered, current, session, up, overtaken, lock, task>>
      /\ UNCHANGED <<req, awaiting, resumed, sender, stops>> /\ call' = [call EXCEPT ![c] = NoCall]
  BY DEF QueueAbandoned, ledgerVars, runtimeVars, kernelVars, promptVars
<1>2. call' \in [Actors -> Call] /\ ServerOnward
  BY <1>1, CallOver, CallersCall
<1>3. TypeOK'
  BY <1>1, <1>2 DEF IInv, TypeOK
<1> QED
  BY <1>1, <1>2, <1>3, QuietStep, RecordsUnchanged, RoomsUnchanged, SendersUnchanged

(* Steps that change at most a room's clients and state, and requests *)
LEMMA RoomChanges ==
  ASSUME IInv, UNCHANGED <<task, lock, sender, registered, current>>, ServerUnchanged, TypeOK',
         \A q \in RoomIds : RoomKept(q),
         \A j \in Jobs : RecordOnward(j),
         \A j \in Jobs : req'[j].status \in Open => req[j].status \in Open
  PROVE  IInv'
BY QuietStep, ServerSame, SendersUnchanged

LEMMA DetachClientSafe == ASSUME IInv, NEW r \in RoomIds, DetachClient(r) PROVE IInv'
<1> DEFINE state == IF rooms[r].state = "live-attached" THEN "live-detached" ELSE rooms[r].state
           after == [rooms[r] EXCEPT !.clients = FALSE, !.state = state]
<1>1. /\ rooms \in [RoomIds -> Room] /\ after \in Room /\ after.nb = rooms[r].nb
      /\ after.kernel = rooms[r].kernel /\ after.jobs = rooms[r].jobs /\ after.state = state
  <2>1. rooms[r] \in Room /\ rooms \in [RoomIds -> Room]
    BY DEF IInv, TypeOK
  <2>2. state \in RoomStates
    BY <2>1 DEF Room, LiveStates, RoomStates
  <2> HIDE DEF state
  <2> QED
    BY <2>1, <2>2, RoomWithClients
<1>2. rooms' = [rooms EXCEPT ![r] = after] /\ (state = "absent" <=> rooms[r].state = "absent")
  BY DEF DetachClient
<1> HIDE DEF after, state
<1>3. rooms' \in [RoomIds -> Room] /\ \A q \in RoomIds : RoomKept(q)
  BY <1>1, <1>2 DEF RoomKept, RoomSame
<1>4. /\ UNCHANGED <<jobs, attribution, registered, current, lock, task, req>> /\ ServerUnchanged
      /\ UNCHANGED <<awaiting, resumed, sender, stops>>
  BY DEF DetachClient, ledgerVars, kernelVars, promptVars, ServerUnchanged
<1>5. TypeOK'
  BY <1>3, <1>4 DEF IInv, TypeOK, ServerUnchanged
<1> QED
  BY <1>3, <1>4, <1>5, RoomChanges, RecordsUnchanged

LEMMA KernelDiesSafe == ASSUME IInv, NEW k \in Kernels, KernelDies(k) PROVE IInv'
<1>1. /\ UNCHANGED <<jobs, attribution, rooms, registered, current, session, overtaken, call, lock>>
      /\ UNCHANGED <<task, req, awaiting, resumed, sender, stops>> /\ up' = up \ {k}
  BY DEF KernelDies, ledgerVars, runtimeVars, promptVars
<1>2. TypeOK'
  BY <1>1 DEF IInv, TypeOK
<1>3. ServerOnward
  BY <1>1 DEF ServerOnward, CallOnward
<1> QED
  BY <1>1, <1>2, <1>3, QuietStep, RecordsUnchanged, RoomsUnchanged, SendersUnchanged

(* A session that starts has a kernel no room has. *)
LEMMA LabOpensSafe == ASSUME IInv, NEW n \in Notebooks, LabOpens(n) PROVE IInv'
<1>1. PICK k \in Kernels : k = NextKernel /\ session[k] = NoNotebook
  BY DEF LabOpens, FreshKernels, NextKernel
<1>2. /\ UNCHANGED <<jobs, attribution, rooms, registered, current, overtaken, call, lock>>
      /\ UNCHANGED <<task, req, awaiting, resumed, sender, stops>>
      /\ session' = [session EXCEPT ![k] = n] /\ up' = up \cup {k}
  BY <1>1 DEF LabOpens, ledgerVars, runtimeVars, promptVars
<1>3. TypeOK'
  BY <1>2 DEF IInv, TypeOK
<1>4. ServerOnward
  BY <1>1, <1>2 DEF ServerOnward, CallOnward, IInv, TypeOK
<1> QED
  BY <1>2, <1>3, <1>4, QuietStep, RecordsUnchanged, RoomsUnchanged, SendersUnchanged

(* Steps that change nothing but requests *)
LEMMA RequestChanges ==
  ASSUME IInv, UNCHANGED <<ledgerVars, runtimeVars, kernelVars, call, lock, task, promptVars, sender, stops>>,
         req' \in [Jobs -> Request],
         \A j \in Jobs : req'[j].status \in Open => req[j].status \in Open
  PROVE  IInv'
<1>1. /\ UNCHANGED <<jobs, attribution, rooms, registered, current, lock, task>> /\ ServerUnchanged
      /\ UNCHANGED <<awaiting, resumed, sender, stops>>
  BY DEF ledgerVars, runtimeVars, kernelVars, promptVars, ServerUnchanged
<1>2. TypeOK'
  BY <1>1 DEF IInv, TypeOK, ServerUnchanged
<1> QED
  BY <1>1, <1>2, RoomChanges, RoomsUnchanged, RecordsUnchanged

LEMMA KernelRestartsSafe == ASSUME IInv, NEW k \in Kernels, KernelRestarts(k) PROVE IInv'
<1>1. \A x \in Request : LET y == [x EXCEPT !.status = "lost"] IN y \in Request /\ y.status = "lost"
  BY DEF Request
<1>2. \A j \in Jobs : req'[j] \in {req[j], [req[j] EXCEPT !.status = "lost"]}
  BY DEF KernelRestarts
<1>3. req \in [Jobs -> Request] /\ req' = [j \in Jobs |-> req'[j]]
  BY DEF KernelRestarts, IInv, TypeOK
<1>4. req' \in [Jobs -> Request] /\ \A j \in Jobs : req'[j].status \in Open => req[j].status \in Open
  BY <1>1, <1>2, <1>3 DEF Open
<1> QED
  BY <1>4, RequestChanges DEF KernelRestarts

LEMMA RequestEndsSafe == ASSUME IInv, NEW j \in Jobs, RequestEnds(j) PROVE IInv'
<1>1. req \in [Jobs -> Request]
  BY DEF IInv, TypeOK
<1>2. PICK status \in {"ok", "error"} : req' = [req EXCEPT ![j] = [@ EXCEPT !.status = status]]
  BY DEF RequestEnds
<1>3. req' \in [Jobs -> Request] /\ \A k \in Jobs : req'[k].status \in Open => req[k].status \in Open
  BY <1>1, <1>2, RequestWithStatus DEF Open
<1> QED
  BY <1>3, RequestChanges DEF RequestEnds

LEMMA AsksForInputSafe == ASSUME IInv, NEW j \in Jobs, NEW p \in Prompts, AsksForInput(j, p) PROVE IInv'
<1>1. req[j].asked \in 0..MaxPrompts /\ req[j].asked + 1 \in 0..MaxPrompts
  BY ExecutionAssumption DEF AsksForInput, IInv, TypeOK, Request
<1>2. [status |-> "input", prompt |-> p, asked |-> req[j].asked + 1] \in Request
  BY <1>1 DEF Request
<1>3. req' \in [Jobs -> Request] /\ \A k \in Jobs : req'[k].status \in Open => req[k].status \in Open
  BY <1>2 DEF AsksForInput, IInv, TypeOK, Open
<1> QED
  BY <1>3, RequestChanges DEF AsksForInput

-----------------------------------------------------------------------------
(* ensure_room *)

LEMMA RefreshedRooms ==
  ASSUME IInv, NEW n \in Notebooks, current[n] # NoRoom
  PROVE  /\ Refreshed(n) \in [RoomIds -> Room]
         /\ \A q \in RoomIds : /\ Refreshed(n)[q].nb = rooms[q].nb /\ Refreshed(n)[q].jobs = rooms[q].jobs
                               /\ Refreshed(n)[q].kernel = rooms[q].kernel
                               /\ Refreshed(n)[q].state = "absent" <=> rooms[q].state = "absent"
<1>1. \A x \in Room : LET y == [x EXCEPT !.state = "stopped"]
                     IN /\ y \in Room /\ y.nb = x.nb /\ y.jobs = x.jobs
                        /\ y.kernel = x.kernel /\ y.state = "stopped"
  BY DEF Room
<1>2. rooms \in [RoomIds -> Room] /\ rooms[current[n]].state # "absent"
  BY DEF IInv, TypeOK, RoomsInv
<1>3. \A q \in RoomIds : \/ Refreshed(n)[q] = rooms[q]
                         \/ q = current[n] /\ Refreshed(n)[q] = [rooms[q] EXCEPT !.state = "stopped"]
  BY DEF Refreshed
<1>4. Refreshed(n) = [q \in RoomIds |-> Refreshed(n)[q]]
  BY DEF Refreshed
<1> QED
  BY <1>1, <1>2, <1>3, <1>4, ZenonT(30)

(* A new room: what no call or kernel is about stays. *)
LEMMA AddedStep ==
  ASSUME IInv, NEW n \in Notebooks, NEW r \in RoomIds, Added(n, r), SendersInv', ServerInv', TypeOK',
         UNCHANGED <<jobs, lock, task, req>>
  PROVE  IInv'
<1>1. RoomsInv' /\ RoomsOnward /\ registered \subseteq registered'
  BY RoomsAdded DEF IInv
<1>2. TasksInv'
  BY <1>1, TaskUnchanged, RecordsUnchanged, TaskKept DEF IInv, TasksInv
<1>3. LockInv'
  BY LockKept DEF IInv
<1>4. RequestsInv'
  BY RequestsKept, RecordsUnchanged DEF IInv, TasksInv
<1> QED
  BY <1>1, <1>2, <1>3, <1>4 DEF IInv

(* What a room is in charge of by the map or a job, it was before, unless   *)
(* it is the new one.                                                       *)
LEMMA AddedCharge ==
  ASSUME IInv, NEW n \in Notebooks, NEW r \in RoomIds, Added(n, r), UNCHANGED <<jobs, task>>,
         NEW q \in RoomIds \ {r}, InCharge(q)'
  PROVE  \/ \E m \in Notebooks \ {n} : current[m] = q
         \/ \E j \in Jobs : Recorded(j) /\ task[j].pc \in Roomed /\ task[j].room = q
         \/ \E a \in Actors : call'[a].pc = "returned" /\ call'[a].room = q
<1>1. current \in [Notebooks -> RoomIds \cup {NoRoom}] /\ current' = [current EXCEPT ![n] = r]
  BY DEF IInv, TypeOK, Added
<1>2. ASSUME NEW m \in Notebooks, current'[m] = q PROVE m # n /\ current[m] = q
  BY <1>1, <1>2
<1> QED
  BY <1>2 DEF InCharge, Recorded

(* The calls: that of a has the new room, the others are as they were. *)
LEMMA AddedCalls ==
  ASSUME IInv, NEW a \in Actors, NEW n \in Notebooks, NEW r \in RoomIds, Added(n, r), UNCHANGED <<jobs, task>>,
         \A b \in Actors \ {a} : call'[b] = call[b],
         \/ /\ call'[a].pc \in Making /\ call'[a].nb = n /\ call'[a].room = r
            /\ rooms'[r].kernel = NoKernel <=> call'[a].pc = "creating"
            /\ a \in Jobs => task[a].pc = "starting" /\ task[a].nb = n
         \/ call'[a].pc = "none"
  PROVE  CallsInv'
<1>1. CallInv(a)'
  <2>1. CASE call'[a].pc = "none"
    BY <2>1 DEF CallInv, Making
  <2>2. CASE call'[a].pc \in Making
    BY <2>2 DEF CallInv, Added, Making
  <2> QED
    BY <2>1, <2>2
<1>2. ASSUME NEW b \in Actors \ {a} PROVE CallInv(b)'
  <2>1. CallInv(b) /\ call'[b] = call[b]
    BY DEF IInv, ServerInv, CallsInv
  <2>2. ASSUME call[b].pc \in Making PROVE RoomKept(call[b].room) /\ call[b].room # r
    BY <2>1, <2>2 DEF CallInv, Added
  <2>3. registered \subseteq registered'
    BY DEF Added
  <2> QED
    BY <2>1, <2>2, <2>3 DEF CallInv, RoomKept, RoomSame, Recorded
<1>3. ASSUME NEW b \in Actors, call[b].pc = "creating" PROVE call[b].room # r
  BY <1>3 DEF IInv, ServerInv, CallsInv, CallInv, Making, Added
<1>4. ASSUME NEW b \in Actors, NEW c \in Actors, call'[b].pc = "creating", call'[c].pc = "creating",
             call'[b].room = call'[c].room
      PROVE  b = c
  <2>1. CASE b # a /\ c # a
    BY <1>4, <2>1 DEF IInv, ServerInv, CallsInv
  <2>2. CASE b = a /\ c # a
    BY <1>3, <1>4, <2>2 DEF Making
  <2>3. CASE b # a /\ c = a
    BY <1>3, <1>4, <2>3 DEF Making
  <2> QED
    BY <2>1, <2>2, <2>3
<1>5. \A b \in Actors : CallInv(b)'
  BY <1>1, <1>2
<1> QED
  BY <1>4, <1>5 DEF CallsInv

LEMMA AddedMap ==
  ASSUME IInv, NEW a \in Actors, NEW n \in Notebooks, NEW r \in RoomIds, Added(n, r), UNCHANGED <<jobs, task>>,
         \A b \in Actors \ {a} : call'[b] = call[b], a \in Jobs => task[a].nb = n
  PROVE  MapInv'
<1> SUFFICES ASSUME NEW j \in Jobs, Placed(j)' PROVE current'[task[j].nb] # NoRoom
  BY DEF MapInv
<1>1. current \in [Notebooks -> RoomIds \cup {NoRoom}] /\ current' = [current EXCEPT ![n] = r] /\ r # NoRoom
  BY LedgerAssumption DEF IInv, TypeOK, Added
<1>2. CASE task[j].nb = n
  BY <1>1, <1>2
<1>3. CASE task[j].nb # n
  <2>1. j # a /\ call'[j] = call[j]
    BY <1>3 DEF Actors
  <2>2. current[task[j].nb] # NoRoom
    BY <2>1 DEF Placed, Recorded, IInv, ServerInv, MapInv
  <2>3. task[j].nb \in Notebooks
    <3>1. task[j].pc # "none"
      BY <2>1 DEF Placed, Roomed, Making, IInv, ServerInv, CallsInv, CallInv, Actors
    <3> QED
      BY <3>1 DEF IInv, TasksInv, TaskInv
  <2> QED
    BY <1>1, <1>3, <2>2, <2>3
<1> QED
  BY <1>2, <1>3

(* A room whose kernel is yet to come *)
LEMMA CreatingServer ==
  ASSUME IInv, NEW a \in Actors, NEW n \in Notebooks, NEW r \in RoomIds, Added(n, r), UNCHANGED <<jobs, task>>,
         UNCHANGED <<session, overtaken>>, rooms'[r].kernel = NoKernel,
         \A b \in Actors \ {a} : call'[b] = call[b],
         call'[a].pc = "creating", call'[a].nb = n, call'[a].room = r,
         a \in Jobs => task[a].pc = "starting" /\ task[a].nb = n
  PROVE  ServerInv'
<1>1. CallsInv' /\ MapInv'
  BY AddedCalls, AddedMap DEF Making
<1>2. \A q \in RoomIds \ {r} : rooms'[q].kernel = rooms[q].kernel /\ rooms'[q].nb = rooms[q].nb
  BY DEF Added, RoomKept, RoomSame
<1>3. SessionsInv'
  BY <1>2 DEF IInv, ServerInv, SessionsInv
<1>4. OneInCharge'
  <2> SUFFICES ASSUME NEW q \in RoomIds, NEW s \in RoomIds, InCharge(q)', InCharge(s)',
                      rooms'[q].kernel = rooms'[s].kernel, rooms'[q].kernel \in Kernels \ overtaken
               PROVE  q = s
    BY DEF OneInCharge
  <2>1. q # r /\ s # r
    BY ExecutionAssumption
  <2>2. ASSUME NEW b \in Actors, call'[b].pc = "returned" PROVE call[b] = call'[b]
    BY <2>2
  <2>3. InCharge(q) /\ InCharge(s)
    BY <2>1, <2>2, AddedCharge DEF InCharge
  <2> QED
    BY <1>2, <2>1, <2>3 DEF IInv, ServerInv, OneInCharge
<1> QED
  BY <1>1, <1>3, <1>4 DEF ServerInv

(* A room that adopts a session: unless the lookup was overtaken, no room   *)
(* was in charge of the kernel, for it would be the notebook's too, and the *)
(* notebook had none.                                                       *)
LEMMA AdoptedServer ==
  ASSUME IInv, LoopFree, NEW a \in Actors, NEW n \in Notebooks, NEW r \in RoomIds, Added(n, r),
         UNCHANGED <<jobs, task, session>>, NEW k \in Kernels, session[k] = n, rooms'[r].kernel = k,
         overtaken \subseteq overtaken', current[n] # NoRoom => k \in overtaken',
         \A b \in Actors \ {a} : call'[b] = call[b],
         call'[a].pc = "none" \/ (call'[a].pc = "returned" /\ call'[a].nb = n /\ call'[a].room = r),
         a \in Jobs => task[a].pc = "starting" /\ task[a].nb = n
  PROVE  ServerInv'
<1>1. CallsInv' /\ MapInv'
  <2>1. k # NoKernel
    BY ExecutionAssumption
  <2> QED
    BY <2>1, AddedCalls, AddedMap DEF Making
<1>2. \A q \in RoomIds \ {r} : rooms'[q].kernel = rooms[q].kernel /\ rooms'[q].nb = rooms[q].nb
  BY DEF Added, RoomKept, RoomSame
<1>3. SessionsInv'
  BY <1>2 DEF IInv, ServerInv, SessionsInv, Added
<1>4. ASSUME NEW b \in Actors, call'[b].pc = "returned" PROVE b = a /\ call'[b].room = r
  BY <1>4 DEF LoopFree
<1>5. ASSUME NEW q \in RoomIds \ {r}, InCharge(q)'
      PROVE  InCharge(q) /\ (rooms[q].kernel = k => current[n] # NoRoom)
  <2>1. CASE \E m \in Notebooks \ {n} : current[m] = q
    <3>1. PICK m \in Notebooks \ {n} : current[m] = q
      BY <2>1
    <3>2. q # NoRoom /\ k # NoKernel
      BY LedgerAssumption, ExecutionAssumption
    <3>3. rooms[q].nb = m
      BY <3>1, <3>2 DEF IInv, RoomsInv
    <3> QED
      BY <3>1, <3>2, <3>3 DEF InCharge, IInv, ServerInv, SessionsInv
  <2>2. ASSUME NEW j \in Jobs, Recorded(j), task[j].pc \in Roomed, task[j].room = q
        PROVE  InCharge(q) /\ (rooms[q].kernel = k => current[n] # NoRoom)
    <3>1. rooms[q].nb = task[j].nb /\ k # NoKernel
      BY <2>2, ExecutionAssumption DEF IInv, TasksInv, TaskInv, TaskRoomed
    <3>2. current[task[j].nb] # NoRoom
      BY <2>2 DEF IInv, ServerInv, MapInv, Placed
    <3>3. rooms[q].kernel = k => rooms[q].nb = n
      BY <3>1 DEF IInv, ServerInv, SessionsInv
    <3> QED
      BY <2>2, <3>1, <3>2, <3>3 DEF InCharge
  <2> QED
    BY <1>4, <1>5, <2>1, <2>2, AddedCharge
<1>6. OneInCharge'
  <2> SUFFICES ASSUME NEW q \in RoomIds, NEW s \in RoomIds, InCharge(q)', InCharge(s)',
                      rooms'[q].kernel = rooms'[s].kernel, rooms'[q].kernel \in Kernels \ overtaken'
               PROVE  q = s
    BY DEF OneInCharge
  <2>1. CASE q # r /\ s # r
    BY <1>2, <1>5, <2>1 DEF IInv, ServerInv, OneInCharge
  <2>2. CASE q = r /\ s # r
    BY <1>2, <1>5, <2>2
  <2>3. CASE q # r /\ s = r
    BY <1>2, <1>5, <2>3
  <2> QED
    BY <2>1, <2>2, <2>3
<1> QED
  BY <1>1, <1>3, <1>6 DEF ServerInv

LEMMA RoomMade ==
  ASSUME NEW n \in Notebooks, NEW state \in RoomStates, NEW k \in Kernels \cup {NoKernel}
  PROVE  LET room == NewRoom(n, state, k)
         IN room \in Room /\ room.nb = n /\ room.state = state /\ room.kernel = k /\ room.jobs = {}
BY DEF NewRoom, AbsentRoom, Room, RoomStates

LEMMA SuspendsTyped ==
  ASSUME call \in [Actors -> Call], NEW a \in Actors, NEW op \in CallOps, NEW n \in Notebooks,
         NEW pc \in {"looking", "creating", "returned"}, NEW r \in RoomIds \cup {NoRoom},
         Suspends(a, op, n, pc, r)
  PROVE  /\ call' \in [Actors -> Call] /\ call'[a].pc = pc /\ call'[a].nb = n /\ call'[a].room = r
         /\ \A b \in Actors \ {a} : call'[b] = call[b]
BY DEF Suspends, Call, CallOps

LEMMA NextIsFresh == ASSUME FreshRooms # {} PROVE NextRoom \in RoomIds /\ rooms[NextRoom].state = "absent"
BY DEF NextRoom, FreshRooms

LEMMA RoomsAddOne ==
  ASSUME IInv, NEW n \in Notebooks, NEW r \in RoomIds, rooms[r].state = "absent", NEW before \in [RoomIds -> Room],
         \A q \in RoomIds : /\ before[q].nb = rooms[q].nb /\ before[q].jobs = rooms[q].jobs
                            /\ before[q].kernel = rooms[q].kernel
                            /\ before[q].state = "absent" <=> rooms[q].state = "absent",
         NEW room \in Room, room.nb = n, room.state # "absent", room.jobs = {},
         rooms' = [before EXCEPT ![r] = room], Registers(n, r)
  PROVE  /\ Added(n, r) /\ rooms'[r] = room
         /\ registered' \subseteq RoomIds /\ registered \subseteq registered'
         /\ current' \in [Notebooks -> RoomIds \cup {NoRoom}]
BY DEF Added, RoomKept, RoomSame, Registers, IInv, TypeOK

LEMMA CreatesRoomSafe ==
  ASSUME IInv, NEW a \in Actors, NEW op \in CallOps, NEW n \in Notebooks, CreatesRoom(a, op, n),
         current[n] # NoRoom,
         UNCHANGED <<ledgerVars, kernelVars, lock, task, req, promptVars, stops>>,
         sender' \in [Senders -> Sender], SendersInv',
         a \in Jobs => task[a].pc = "starting" /\ task[a].nb = n
  PROVE  IInv'
<1> DEFINE room == NewRoom(n, "starting", NoKernel)
<1>1. PICK r \in RoomIds : r = NextRoom /\ rooms[r].state = "absent"
  BY NextIsFresh DEF CreatesRoom
<1>2. /\ rooms' = [Refreshed(n) EXCEPT ![r] = room] /\ Registers(n, r) /\ Suspends(a, op, n, "creating", r)
      /\ UNCHANGED <<jobs, attribution, session, up, overtaken, lock, task, req, awaiting, resumed, stops>>
  BY <1>1 DEF CreatesRoom, ledgerVars, kernelVars, promptVars
<1>3. room \in Room /\ room.nb = n /\ room.state = "starting" /\ room.kernel = NoKernel /\ room.jobs = {}
  BY RoomMade DEF RoomStates
<1> HIDE DEF room
<1>4. /\ Added(n, r) /\ rooms'[r] = room
      /\ registered' \subseteq RoomIds /\ registered \subseteq registered'
      /\ current' \in [Notebooks -> RoomIds \cup {NoRoom}]
  BY <1>1, <1>2, <1>3, RefreshedRooms, RoomsAddOne
<1>5. /\ call' \in [Actors -> Call] /\ call'[a].pc = "creating" /\ call'[a].nb = n /\ call'[a].room = r
      /\ \A b \in Actors \ {a} : call'[b] = call[b]
  BY <1>2, SuspendsTyped DEF IInv, TypeOK
<1>6. ServerInv'
  BY <1>2, <1>3, <1>4, <1>5, CreatingServer
<1>7. TypeOK'
  BY <1>2, <1>4, <1>5 DEF IInv, TypeOK, Added
<1> QED
  BY <1>2, <1>4, <1>6, <1>7, AddedStep

(* A call that looks the notebook up *)
LEMMA LooksUp ==
  ASSUME IInv, NEW a \in Actors, NEW op \in CallOps, NEW n \in Notebooks, Suspends(a, op, n, "looking", NoRoom),
         UNCHANGED <<session, overtaken, task>>,
         a \in Jobs => task[a].pc = "starting" /\ task[a].nb = n
  PROVE  call' \in [Actors -> Call] /\ ServerOnward
<1>1. /\ call' \in [Actors -> Call] /\ call'[a].pc = "looking" /\ call'[a].nb = n
      /\ \A b \in Actors \ {a} : call'[b] = call[b]
  BY SuspendsTyped DEF IInv, TypeOK
<1>2. \A b \in Actors : CallOnward(b)
  BY <1>1 DEF CallOnward
<1> QED
  BY <1>1, <1>2 DEF ServerOnward

LEMMA EnsureCallSafe ==
  ASSUME IInv, NEW a \in Actors, NEW op \in CallOps, NEW n \in Notebooks, EnsureCall(a, op, n),
         sender' \in [Senders -> Sender], SendersInv',
         a \in Jobs => task[a].pc = "starting" /\ task[a].nb = n
  PROVE  IInv'
<1>1. CASE CreatesRoom(a, op, n) /\ current[n] # NoRoom
  BY <1>1, CreatesRoomSafe DEF EnsureCall
<1>2. CASE Suspends(a, op, n, "looking", NoRoom) /\ UNCHANGED runtimeVars
  <2>1. /\ UNCHANGED <<jobs, attribution, rooms, registered, current, session, up, overtaken, lock, task>>
        /\ UNCHANGED <<req, awaiting, resumed, stops>>
    BY <1>2 DEF EnsureCall, ledgerVars, runtimeVars, kernelVars, promptVars
  <2>2. call' \in [Actors -> Call] /\ ServerOnward
    BY <1>2, <2>1, LooksUp
  <2>3. TypeOK'
    BY <2>1, <2>2 DEF IInv, TypeOK
  <2> QED
    BY <2>1, <2>2, <2>3, QuietStep, RecordsUnchanged, RoomsUnchanged
<1> QED
  BY <1>1, <1>2 DEF EnsureCall

LEMMA CallsSafe ==
  ASSUME IInv, NEW c \in Callers, NEW op \in {"queue", "open", "interrupt"}, NEW n \in Notebooks, Calls(c, op, n)
  PROVE  IInv'
<1>1. EnsureCall(c, op, n) /\ UNCHANGED sender /\ UNCHANGED task
  BY DEF Calls, EnsureCall
<1>2. sender' \in [Senders -> Sender] /\ SendersInv'
  BY <1>1, SendersUnchanged DEF IInv, TypeOK
<1> QED
  BY <1>1, <1>2, CallersCall, EnsureCallSafe DEF CallOps

LEMMA TaskCallsSafe == ASSUME IInv, NEW j \in Jobs, TaskCalls(j) PROVE IInv'
<1>1. /\ EnsureCall(j, "run", task[j].nb) /\ UNCHANGED sender /\ UNCHANGED task
      /\ task[j].pc = "starting" /\ task[j].nb \in Notebooks
  BY DEF TaskCalls, EnsureCall, IInv, TasksInv, TaskInv
<1>2. sender' \in [Senders -> Sender] /\ SendersInv'
  BY <1>1, SendersUnchanged DEF IInv, TypeOK
<1> QED
  BY <1>1, <1>2, CallersCall, EnsureCallSafe DEF CallOps

LEMMA StatusCallSafe == ASSUME IInv, NEW c \in Callers, NEW n \in Notebooks, StatusCall(c, n) PROVE IInv'
<1>1. /\ UNCHANGED <<jobs, attribution, registered, current, session, up, overtaken, lock, task>>
      /\ UNCHANGED <<req, awaiting, resumed, sender, stops>>
  BY DEF StatusCall, ledgerVars, kernelVars, promptVars
<1>2. call' \in [Actors -> Call] /\ ServerOnward
  <2>1. CASE Suspends(c, "status", n, "looking", NoRoom)
    BY <1>1, <2>1, CallersCall, LooksUp DEF CallOps
  <2>2. CASE UNCHANGED call
    BY <1>1, <2>2 DEF ServerOnward, CallOnward, IInv, TypeOK
  <2> QED
    BY <2>1, <2>2 DEF StatusCall
<1>3. rooms' \in [RoomIds -> Room] /\ \A q \in RoomIds : RoomKept(q)
  <2>1. CASE UNCHANGED rooms
    BY <2>1, RoomsUnchanged DEF IInv, TypeOK
  <2>2. CASE current[n] # NoRoom /\ rooms' = Refreshed(n)
    BY <2>2, RefreshedRooms DEF RoomKept, RoomSame
  <2> QED
    BY <2>1, <2>2 DEF StatusCall
<1>4. TypeOK'
  BY <1>1, <1>2, <1>3 DEF IInv, TypeOK
<1> QED
  BY <1>1, <1>2, <1>3, <1>4, QuietStep, RecordsUnchanged, SendersUnchanged

(* What a suspended call is about *)
LEMMA Suspended ==
  ASSUME IInv, NEW a \in Actors, call[a].pc # "none"
  PROVE  /\ call[a].nb \in Notebooks /\ call[a].op \in CallOps
         /\ a \in Jobs => task[a].pc = "starting" /\ task[a].nb = call[a].nb
BY DEF IInv, TypeOK, Call, CallOps, ServerInv, CallsInv, CallInv

LEMMA LookupFindsSafe == ASSUME IInv, NEW a \in Actors, LookupFinds(a) PROVE IInv'
<1> DEFINE n == call[a].nb
<1>1. PICK r \in RoomIds : r = NextRoom /\ rooms[r].state = "absent"
  BY NextIsFresh DEF LookupFinds
<1>2. PICK k \in SessionsUp(n) :
        /\ rooms' = [rooms EXCEPT ![r] = NewRoom(n, "live-detached", k)]
        /\ overtaken' = IF current[n] = NoRoom THEN overtaken ELSE overtaken \cup {k}
  BY <1>1 DEF LookupFinds
<1>3. /\ UNCHANGED <<jobs, attribution, session, up, lock, task, req, awaiting, resumed, sender, stops>>
      /\ LoopFree /\ Registers(n, r) /\ call[a].pc = "looking"
      /\ call' = [call EXCEPT ![a] = NoCall] \/ Suspends(a, call[a].op, n, "returned", r)
  BY <1>1 DEF LookupFinds, ledgerVars, promptVars
<1>4. /\ n \in Notebooks /\ call[a].op \in CallOps
      /\ a \in Jobs => task[a].pc = "starting" /\ task[a].nb = n
  BY <1>3, Suspended
<1> HIDE DEF n
<1>5. k \in Kernels /\ session[k] = n
  BY DEF SessionsUp, IInv, TypeOK
<1> DEFINE room == NewRoom(n, "live-detached", k)
<1>6. room \in Room /\ room.nb = n /\ room.state = "live-detached" /\ room.kernel = k /\ room.jobs = {}
  BY <1>4, <1>5, RoomMade DEF RoomStates, LiveStates
<1>7. rooms' = [rooms EXCEPT ![r] = room]
  BY <1>2
<1> HIDE DEF room
<1>8. /\ Added(n, r) /\ rooms'[r] = room
      /\ registered' \subseteq RoomIds /\ registered \subseteq registered'
      /\ current' \in [Notebooks -> RoomIds \cup {NoRoom}]
  <2>1. rooms \in [RoomIds -> Room]
    BY DEF IInv, TypeOK
  <2> QED
    BY <1>1, <1>3, <1>4, <1>6, <1>7, <2>1, RoomsAddOne
<1>9. /\ call' \in [Actors -> Call] /\ \A b \in Actors \ {a} : call'[b] = call[b]
      /\ call'[a].pc = "none" \/ (call'[a].pc = "returned" /\ call'[a].nb = n /\ call'[a].room = r)
  <2>1. CASE call' = [call EXCEPT ![a] = NoCall]
    BY <2>1 DEF NoCall, Call, IInv, TypeOK
  <2>2. CASE Suspends(a, call[a].op, n, "returned", r)
    BY <1>4, <2>2, SuspendsTyped DEF IInv, TypeOK
  <2> QED
    BY <1>3, <2>1, <2>2
<1>10. overtaken \subseteq overtaken' /\ overtaken' \subseteq Kernels /\ (current[n] # NoRoom => k \in overtaken')
  BY <1>2, <1>5 DEF IInv, TypeOK
<1>11. ServerInv'
  BY <1>3, <1>4, <1>5, <1>6, <1>8, <1>9, <1>10, AdoptedServer
<1>12. TypeOK'
  BY <1>3, <1>8, <1>9, <1>10 DEF IInv, TypeOK, Added
<1>13. SendersInv'
  BY <1>3, SendersUnchanged
<1> QED
  BY <1>3, <1>4, <1>8, <1>11, <1>12, <1>13, AddedStep

LEMMA LookupMissesSafe == ASSUME IInv, NEW a \in Actors, LookupMisses(a) PROVE IInv'
<1> DEFINE n == call[a].nb
<1>1. /\ UNCHANGED <<jobs, attribution, session, up, overtaken, lock, task, req, awaiting, resumed>>
      /\ UNCHANGED <<sender, stops>> /\ call[a].pc = "looking"
  BY DEF LookupMisses, ledgerVars, kernelVars, promptVars
<1>2. /\ n \in Notebooks /\ call[a].op \in CallOps
      /\ a \in Jobs => task[a].pc = "starting" /\ task[a].nb = n
  BY <1>1, Suspended
<1>3. SendersInv'
  BY <1>1, SendersUnchanged
<1>4. CASE call' = [call EXCEPT ![a] = NoCall] /\ UNCHANGED runtimeVars
  <2>1. UNCHANGED <<rooms, registered, current>> /\ call' \in [Actors -> Call] /\ ServerOnward
    BY <1>1, <1>4, CallOver DEF runtimeVars
  <2>2. TypeOK'
    BY <1>1, <2>1 DEF IInv, TypeOK
  <2> QED
    BY <1>1, <1>3, <2>1, <2>2, QuietStep, RecordsUnchanged, RoomsUnchanged
<1>5. CASE /\ FreshRooms # {}
           /\ rooms' = [rooms EXCEPT ![NextRoom] = NewRoom(n, "starting", NoKernel)]
           /\ Registers(n, NextRoom) /\ Suspends(a, call[a].op, n, "creating", NextRoom)
  <2> HIDE DEF n
  <2> DEFINE room == NewRoom(n, "starting", NoKernel)
  <2>1. PICK r \in RoomIds : r = NextRoom /\ rooms[r].state = "absent"
    BY <1>5, NextIsFresh
  <2>2. room \in Room /\ room.nb = n /\ room.state = "starting" /\ room.kernel = NoKernel /\ room.jobs = {}
    BY <1>2, RoomMade DEF RoomStates
  <2>3. rooms' = [rooms EXCEPT ![r] = room] /\ Registers(n, r) /\ Suspends(a, call[a].op, n, "creating", r)
    BY <1>5, <2>1
  <2> HIDE DEF room
  <2>4. /\ Added(n, r) /\ rooms'[r] = room
        /\ registered' \subseteq RoomIds /\ registered \subseteq registered'
        /\ current' \in [Notebooks -> RoomIds \cup {NoRoom}]
    <3>1. rooms \in [RoomIds -> Room]
      BY DEF IInv, TypeOK
    <3> QED
      BY <1>2, <2>1, <2>2, <2>3, <3>1, RoomsAddOne
  <2>5. /\ call' \in [Actors -> Call] /\ call'[a].pc = "creating" /\ call'[a].nb = n /\ call'[a].room = r
        /\ \A b \in Actors \ {a} : call'[b] = call[b]
    BY <1>2, <2>3, SuspendsTyped DEF IInv, TypeOK
  <2>6. ServerInv'
    BY <1>1, <1>2, <2>2, <2>4, <2>5, CreatingServer
  <2>7. TypeOK'
    BY <1>1, <2>4, <2>5 DEF IInv, TypeOK, Added
  <2> QED
    BY <1>1, <1>2, <1>3, <2>4, <2>6, <2>7, AddedStep
<1> QED
  BY <1>4, <1>5 DEF LookupMisses

(* The room the call made gets its kernel, which no other room has. *)
LEMMA CreateReturnsSafe == ASSUME IInv, NEW a \in Actors, CreateReturns(a) PROVE IInv'
<1> DEFINE n == call[a].nb
           r == call[a].room
<1>1. PICK k \in Kernels : k = NextKernel /\ session[k] = NoNotebook
  BY DEF CreateReturns, FreshKernels, NextKernel
<1>2. /\ UNCHANGED <<jobs, attribution, registered, current, overtaken, lock, task, req, awaiting>>
      /\ UNCHANGED <<resumed, sender, stops>> /\ LoopFree /\ call[a].pc = "creating"
      /\ session' = [session EXCEPT ![k] = n] /\ up' = up \cup {k}
      /\ rooms' = [rooms EXCEPT ![r] = [@ EXCEPT !.kernel = k, !.state = "live-detached"]]
      /\ Suspends(a, call[a].op, n, "returned", r)
  BY <1>1 DEF CreateReturns, ledgerVars, promptVars
<1>3. /\ n \in Notebooks /\ call[a].op \in CallOps /\ r \in RoomIds
      /\ rooms[r].nb = n /\ rooms[r].state # "absent" /\ rooms[r].kernel = NoKernel
      /\ rooms \in [RoomIds -> Room] /\ k # NoKernel /\ n # NoNotebook
      /\ CallInv(a)
  BY <1>2, Suspended, ExecutionAssumption, LedgerAssumption
     DEF IInv, TypeOK, ServerInv, CallsInv, CallInv, Making
<1> HIDE DEF n, r
<1> DEFINE after == [rooms[r] EXCEPT !.kernel = k, !.state = "live-detached"]
<1>4. /\ after \in Room /\ after.nb = n /\ after.kernel = k /\ after.state = "live-detached"
      /\ after.jobs = rooms[r].jobs
  BY <1>3 DEF Room, LiveStates
<1>5. rooms' = [rooms EXCEPT ![r] = after]
  BY <1>2
<1> HIDE DEF after
<1>6. /\ rooms' \in [RoomIds -> Room] /\ rooms'[r] = after /\ \A q \in RoomIds \ {r} : rooms'[q] = rooms[q]
  BY <1>3, <1>4, <1>5
<1>7. /\ call' \in [Actors -> Call] /\ call'[a].pc = "returned" /\ call'[a].nb = n /\ call'[a].room = r
      /\ \A b \in Actors \ {a} : call'[b] = call[b]
  BY <1>2, <1>3, SuspendsTyped DEF IInv, TypeOK
<1>8. TypeOK'
  BY <1>2, <1>3, <1>6, <1>7 DEF IInv, TypeOK
<1>9. RoomsInv' /\ RoomsOnward
  <2>1. RoomsOnward
    BY <1>3, <1>4, <1>6 DEF RoomsOnward
  <2>2. \A q \in RoomIds : /\ rooms'[q].state # "absent" => rooms'[q].nb \in Notebooks
                           /\ rooms'[q].state = "absent" => rooms'[q].kernel = NoKernel
    BY <1>3, <1>4, <1>6 DEF IInv, RoomsInv
  <2>3. \A q \in registered' : rooms'[q].state # "absent"
    BY <1>2, <1>4, <1>6 DEF IInv, TypeOK, RoomsInv
  <2>4. \A m \in Notebooks : current'[m] # NoRoom => current'[m] \in registered' /\ rooms'[current'[m]].nb = m
    BY <1>2, <1>3, <1>4, <1>6 DEF IInv, TypeOK, RoomsInv
  <2>5. \A q \in RoomIds : \A j \in rooms'[q].jobs : task'[j].pc # "none" /\ task'[j].nb = rooms'[q].nb
    <3>1. \A q \in RoomIds : rooms'[q].jobs = rooms[q].jobs /\ rooms'[q].nb = rooms[q].nb
      BY <1>3, <1>4, <1>6
    <3> QED
      BY <1>2, <3>1 DEF IInv, RoomsInv
  <2> QED
    BY <2>1, <2>2, <2>3, <2>4, <2>5 DEF RoomsInv
<1>10. TasksInv'
  BY <1>2, <1>9, TaskUnchanged, RecordsUnchanged, TaskKept DEF IInv, TasksInv
<1>11. LockInv' /\ SendersInv'
  BY <1>2, LockKept, SendersUnchanged DEF IInv
<1>12. RequestsInv'
  BY <1>2, RequestsKept, RecordsUnchanged DEF IInv, TasksInv
<1>13. CallsInv'
  <2>1. CallInv(a)'
    BY <1>2, <1>3, <1>4, <1>6, <1>7 DEF CallInv, Making, Recorded, n, r
  <2>2. ASSUME NEW b \in Actors \ {a} PROVE CallInv(b)'
    <3>1. CallInv(b) /\ call'[b] = call[b]
      BY <1>7 DEF IInv, ServerInv, CallsInv
    <3>2. call[b].pc \in Making => call[b].pc = "creating"
      BY <1>2 DEF Making, LoopFree
    <3>3. call[b].pc = "creating" => call[b].room # r
      BY <1>2 DEF IInv, ServerInv, CallsInv, r
    <3> QED
      BY <1>2, <1>6, <3>1, <3>2, <3>3 DEF CallInv, Recorded
  <2>3. \A b \in Actors : CallInv(b)'
    BY <2>1, <2>2
  <2> QED
    BY <1>7, <2>3 DEF IInv, ServerInv, CallsInv
<1>14. \A q \in RoomIds \ {r} : rooms[q].kernel # k
  BY <1>1, <1>3, LedgerAssumption DEF IInv, RoomsInv, ServerInv, SessionsInv
<1>15. SessionsInv'
  <2> SUFFICES ASSUME NEW q \in RoomIds, rooms'[q].kernel # NoKernel
               PROVE  session'[rooms'[q].kernel] = rooms'[q].nb
    BY DEF SessionsInv
  <2>1. session \in [Kernels -> Notebooks \cup {NoNotebook}]
    BY DEF IInv, TypeOK
  <2>2. CASE q = r
    BY <1>2, <1>4, <1>6, <2>1, <2>2
  <2>3. CASE q # r
    <3>1. rooms[q].kernel \in Kernels /\ rooms[q].kernel # k
      BY <1>6, <1>14, <2>3 DEF IInv, TypeOK, Room
    <3> QED
      BY <1>2, <1>6, <2>1, <2>3, <3>1 DEF IInv, ServerInv, SessionsInv
  <2> QED
    BY <2>2, <2>3
<1>16. MapInv'
  <2>1. \A j \in Jobs : Placed(j)' => Placed(j)
    BY <1>2, <1>7 DEF Placed, Recorded, Making, Actors
  <2> QED
    BY <1>2, <2>1 DEF IInv, ServerInv, MapInv
<1>17. OneInCharge'
  <2> SUFFICES ASSUME NEW q \in RoomIds, NEW s \in RoomIds, InCharge(q)', InCharge(s)',
                      rooms'[q].kernel = rooms'[s].kernel, rooms'[q].kernel \in Kernels \ overtaken
               PROVE  q = s
    BY <1>2 DEF OneInCharge
  <2>1. CASE q = r \/ s = r
    BY <1>4, <1>6, <1>14, <2>1
  <2>2. CASE q # r /\ s # r
    <3>1. InCharge(q) /\ InCharge(s)
      BY <1>2, <1>7, <2>2 DEF InCharge, Recorded
    <3> QED
      BY <1>6, <2>2, <3>1 DEF IInv, ServerInv, OneInCharge
  <2> QED
    BY <2>1, <2>2
<1> QED
  BY <1>8, <1>9, <1>10, <1>11, <1>12, <1>13, <1>15, <1>16, <1>17 DEF IInv, ServerInv

LEMMA RoomWithState ==
  ASSUME rooms \in [RoomIds -> Room], NEW r \in RoomIds, rooms[r].state # "absent",
         NEW state \in RoomStates \ {"absent"},
         rooms' = [rooms EXCEPT ![r] = [@ EXCEPT !.state = state]]
  PROVE  rooms' \in [RoomIds -> Room] /\ \A q \in RoomIds : RoomKept(q)
<1> DEFINE after == [rooms[r] EXCEPT !.state = state]
<1>1. /\ after \in Room /\ after.nb = rooms[r].nb /\ after.kernel = rooms[r].kernel
      /\ after.jobs = rooms[r].jobs /\ after.state = state
  BY DEF Room, RoomStates
<1>2. rooms' = [rooms EXCEPT ![r] = after]
  OBVIOUS
<1> HIDE DEF after
<1> QED
  BY <1>1, <1>2 DEF RoomKept, RoomSame

(* The call is over, and with it the task or the reply it was made for. *)
LEMMA CreateFailsSafe == ASSUME IInv, NEW a \in Actors, CreateFails(a) PROVE IInv'
<1> DEFINE r == call[a].room
<1>1. /\ UNCHANGED <<jobs, attribution, registered, current, session, up, overtaken, lock, req>>
      /\ UNCHANGED <<awaiting, resumed, stops>> /\ call[a].pc = "creating"
      /\ rooms' = [rooms EXCEPT ![r] = [@ EXCEPT !.state = "failed"]]
      /\ call' = [call EXCEPT ![a] = NoCall]
  BY DEF CreateFails, ledgerVars, kernelVars, promptVars
<1>2. /\ r \in RoomIds /\ rooms[r].state # "absent" /\ rooms \in [RoomIds -> Room]
      /\ task \in [Jobs -> Task] /\ sender \in [Senders -> Sender]
  BY <1>1 DEF IInv, TypeOK, ServerInv, CallsInv, CallInv, Making
<1> HIDE DEF r
<1>3. rooms' \in [RoomIds -> Room] /\ \A q \in RoomIds : RoomKept(q)
  BY <1>1, <1>2, RoomWithState DEF RoomStates
<1>4. /\ task' \in [Jobs -> Task] /\ \A j \in Jobs \ {a} : task'[j] = task[j]
      /\ a \in Jobs => /\ task[a].pc = "starting" /\ task'[a].pc = "died" /\ task'[a].nb = task[a].nb
                       /\ task'[a].cell = task[a].cell /\ task'[a].last = task[a].last
  <2>1. CASE a \in Jobs
    <3>1. task' = [task EXCEPT ![a] = [@ EXCEPT !.pc = "died"]]
      BY <2>1 DEF CreateFails
    <3>2. task[a].pc = "starting"
      BY <1>1, <2>1, Suspended
    <3> QED
      BY <1>2, <2>1, <3>1, <3>2 DEF Task
  <2>2. CASE a \notin Jobs
    BY <1>2, <2>2 DEF CreateFails
  <2> QED
    BY <2>1, <2>2
<1>5. \A j \in Jobs : TaskOnward(j)
  BY <1>4 DEF TaskOnward, Roomed, IInv, TasksInv, TaskInv
<1>6. /\ sender' \in [Senders -> Sender] /\ \A s \in Senders : sender'[s] \in {sender[s], Idle}
  <2>1. Idle \in Sender
    BY DEF Idle, Sender
  <2>2. CASE a \in Senders
    <3>1. sender' = [sender EXCEPT ![a] = Idle]
      BY <2>2 DEF CreateFails
    <3> QED
      BY <1>2, <2>1, <3>1
  <2>3. CASE a \notin Senders
    <3>1. UNCHANGED sender
      BY <2>3 DEF CreateFails
    <3> QED
      BY <1>2, <3>1
  <2> QED
    BY <2>2, <2>3
<1>7. SendersInv'
  <2>1. \A s \in Senders : sender[s].job \in Jobs \cup {NoJob}
    BY DEF IInv, TypeOK, Sender
  <2>2. \A s \in Senders : sender[s].job # NoJob => task'[sender[s].job].pc # "none"
    BY <1>5, <2>1 DEF IInv, SendersInv, TaskOnward
  <2>3. Idle.job = NoJob /\ Idle.room = NoRoom
    BY DEF Idle
  <2> QED
    BY <1>6, <2>2, <2>3 DEF IInv, SendersInv
<1>8. call' \in [Actors -> Call] /\ ServerOnward
  BY <1>1, <1>4, CallOver
<1>9. TypeOK'
  BY <1>1, <1>3, <1>4, <1>6, <1>8 DEF IInv, TypeOK
<1>10. LockInv'
  <2>1. \A k \in Jobs :
           /\ task'[k].pc \in Holding <=> task[k].pc \in Holding
           /\ task[k].pc \in Holding => task'[k].room = task[k].room
           /\ task'[k].pc = "locking" => task[k].pc = "locking"
           /\ task'[k].pc \in Working => task[k].pc \in Working
    BY <1>4 DEF Holding, Working
  <2> QED
    BY <1>1, <2>1, LockKept DEF IInv
<1>11. RequestsInv'
  BY <1>1, <1>4 DEF IInv, RequestsInv, Recorded
<1> QED
  BY <1>1, <1>3, <1>5, <1>7, <1>8, <1>9, <1>10, <1>11, KeptStep, RecordsUnchanged

LEMMA EnsureStepsSafe == ASSUME IInv, NEW a \in Actors, EnsureSteps(a) PROVE IInv'
BY LookupFindsSafe, LookupMissesSafe, CreateReturnsSafe, CreateFailsSafe DEF EnsureSteps

-----------------------------------------------------------------------------
(* Replies *)

(* The reply's room has been ensured. *)
LEMMA ReplyGoesOn ==
  ASSUME IInv, NEW s \in Senders, NEW j \in Jobs, task[j].pc # "none", NEW n \in Notebooks, NEW r \in RoomIds,
         Answers(s, "stdin", n, r), sender' = [sender EXCEPT ![s] = [job |-> j, room |-> r]],
         UNCHANGED <<ledgerVars, runtimeVars, kernelVars, lock, task, req, promptVars, stops>>
  PROVE  IInv'
<1>1. /\ UNCHANGED <<jobs, attribution, rooms, registered, current, session, up, overtaken, lock, task>>
      /\ UNCHANGED <<req, awaiting, resumed, stops>> /\ call' = [call EXCEPT ![s] = NoCall]
  BY DEF Answers, ledgerVars, runtimeVars, kernelVars, promptVars
<1>2. sender' \in [Senders -> Sender] /\ SendersInv'
  BY <1>1, LedgerAssumption DEF IInv, TypeOK, Sender, SendersInv
<1>3. call' \in [Actors -> Call] /\ ServerOnward
  BY <1>1, CallOver, CallersCall
<1>4. TypeOK'
  BY <1>1, <1>2, <1>3 DEF IInv, TypeOK
<1> QED
  BY <1>1, <1>2, <1>3, <1>4, QuietStep, RecordsUnchanged, RoomsUnchanged

LEMMA StdinCallSafe == ASSUME IInv, NEW s \in Senders, NEW j \in Jobs, StdinCall(s, j) PROVE IInv'
<1> DEFINE n == jobs[j].nb
<1>1. n \in Notebooks /\ task[j].pc # "none"
  BY DEF StdinCall, IInv, TasksInv, TaskInv, Recorded, JobStatus, Active
<1>2. CASE EnsureCall(s, "stdin", n) /\ sender' = [sender EXCEPT ![s] = [job |-> j, room |-> NoRoom]]
  <2>1. UNCHANGED task
    BY <1>2 DEF EnsureCall
  <2>2. sender' \in [Senders -> Sender] /\ SendersInv'
    BY <1>1, <1>2, <2>1 DEF IInv, TypeOK, Sender, SendersInv
  <2> QED
    BY <1>1, <1>2, <2>2, CallersCall, EnsureCallSafe DEF CallOps
<1>3. CASE \E r \in RoomIds : /\ Answers(s, "stdin", n, r)
                              /\ sender' = [sender EXCEPT ![s] = [job |-> j, room |-> r]]
                              /\ UNCHANGED <<ledgerVars, runtimeVars, kernelVars, lock, task, req,
                                             promptVars, stops>>
  BY <1>1, <1>3, ReplyGoesOn
<1> QED
  BY <1>2, <1>3 DEF StdinCall

LEMMA StdinGoesOnSafe == ASSUME IInv, NEW s \in Senders, StdinGoesOn(s) PROVE IInv'
<1>1. PICK r \in RoomIds : /\ Answers(s, "stdin", call[s].nb, r)
                           /\ sender' = [sender EXCEPT ![s] = [job |-> sender[s].job, room |-> r]]
  BY DEF StdinGoesOn
<1>2. sender[s].job \in Jobs /\ task[sender[s].job].pc # "none"
  BY DEF StdinGoesOn, IInv, TypeOK, Sender, SendersInv
<1>3. call[s].nb \in Notebooks
  BY Suspended, CallersCall DEF StdinGoesOn
<1> QED
  BY <1>1, <1>2, <1>3, ReplyGoesOn DEF StdinGoesOn

LEMMA StdinFailsSafe == ASSUME IInv, NEW s \in Senders, StdinFails(s) PROVE IInv'
<1>1. /\ UNCHANGED <<jobs, attribution, rooms, registered, current, lock, task, req>> /\ ServerUnchanged
      /\ UNCHANGED <<awaiting, resumed, stops>> /\ sender' = [sender EXCEPT ![s] = Idle]
  BY DEF StdinFails, ledgerVars, runtimeVars, kernelVars, promptVars, ServerUnchanged
<1>2. sender' \in [Senders -> Sender] /\ SendersInv'
  BY <1>1 DEF Idle, IInv, TypeOK, Sender, SendersInv
<1>3. TypeOK'
  BY <1>1, <1>2 DEF IInv, TypeOK, ServerUnchanged
<1> QED
  BY <1>1, <1>2, <1>3, QuietStep, RecordsUnchanged, RoomsUnchanged, ServerSame

(* The records after a reply: its own, if an id is left, and the job's *)
LEMMA RepliedOnward ==
  ASSUME IInv, NEW j \in Jobs, task[j].pc # "none", NEW r \in RoomIds,
         jobs' = Updated(Logged(jobs, task[j].nb, "stdin_reply", r), j, "running", r)
  PROVE  jobs' \in [Jobs -> Job] /\ \A k \in Jobs : RecordOnward(k)
<1> DEFINE logged == Logged(jobs, task[j].nb, "stdin_reply", r)
<1>1. /\ logged \in [Jobs -> Job]
      /\ \A k \in Jobs : \/ Kept(jobs[k], logged[k])
                         \/ jobs[k].status = "unused" /\ logged[k].status = "queued" /\ logged[k].nb = task[j].nb
  BY LoggedKeeps DEF IInv, TypeOK, TasksInv, TaskInv, JobAction
<1>2. jobs[j].status # "unused" /\ task[j].nb \in Notebooks
  BY DEF IInv, TasksInv, TaskInv
<1> HIDE DEF logged
<1>3. jobs' = Updated(logged, j, "running", r)
  BY DEF logged
<1>4. /\ jobs' \in [Jobs -> Job]
      /\ \A k \in Jobs \ {j} : Kept(logged[k], jobs'[k])
      /\ logged[j].status \notin JobStatus => jobs'[j] = logged[j]
      /\ logged[j].status \in JobStatus =>
           \/ jobs'[j].status = "running" /\ jobs'[j].nb = logged[j].nb
           \/ jobs'[j] = GoneJob /\ "running" \in Finished
  BY <1>1, <1>3, UpdatedKeeps DEF JobStatus, Active
<1>5. RecordOnward(j)
  BY <1>1, <1>2, <1>4 DEF Kept, RecordOnward, Recorded, GoneJob, UnusedJob, JobStatus, Active, Finished
<1>6. ASSUME NEW k \in Jobs \ {j} PROVE RecordOnward(k)
  BY <1>1, <1>2, <1>4 DEF Kept, RecordOnward, Recorded, GoneJob, UnusedJob, JobStatus, Active, Finished
<1> QED
  BY <1>4, <1>5, <1>6

LEMMA StdinReturnsSafe == ASSUME IInv, NEW s \in Senders, StdinReturns(s) PROVE IInv'
<1> DEFINE j == sender[s].job
           r == sender[s].room
<1>1. j \in Jobs /\ task[j].pc # "none" /\ r \in RoomIds
  BY DEF StdinReturns, IInv, TypeOK, Sender, SendersInv
<1>2. jobs' = Updated(Logged(jobs, task[j].nb, "stdin_reply", r), j, "running", r)
  BY DEF StdinReturns
<1>3. UNCHANGED <<task, lock, registered, current, awaiting, attribution, stops>> /\ ServerUnchanged
  BY DEF StdinReturns, kernelVars, ServerUnchanged
<1>4. sender' \in [Senders -> Sender] /\ SendersInv'
  BY <1>3 DEF StdinReturns, Idle, IInv, TypeOK, Sender, SendersInv
<1>5. req' \in [Jobs -> Request] /\ \A k \in Jobs : req'[k].status \in Open => req[k].status \in Open
  <2>1. req \in [Jobs -> Request]
    BY DEF IInv, TypeOK
  <2>2. PICK i \in PendingIn(rooms[r].kernel) : req' = [req EXCEPT ![i] = [@ EXCEPT !.status = "replied"]]
    BY DEF StdinReturns
  <2>3. i \in Jobs /\ req[i].status = "input"
    BY DEF PendingIn
  <2> QED
    BY <2>1, <2>2, <2>3, RequestWithStatus DEF Open
<1>6. resumed' \in [Jobs -> Prompts \cup {NoPrompt}]
  BY <1>1 DEF StdinReturns, IInv, TypeOK
<1>7. rooms' \in [RoomIds -> Room] /\ \A q \in RoomIds : RoomKept(q)
  <2>1. rooms \in [RoomIds -> Room]
    BY DEF IInv, TypeOK
  <2>2. CASE UNCHANGED rooms
    BY <2>1, <2>2, RoomsUnchanged
  <2>3. CASE r \in registered
             /\ rooms' = [rooms EXCEPT ![r] = [@ EXCEPT
                            !.state = IF rooms[r].clients THEN "live-attached" ELSE "live-detached"]]
    <3>1. PICK state \in {"live-attached", "live-detached"} : rooms' = [rooms EXCEPT ![r] = [@ EXCEPT !.state = state]]
      <4>1. CASE rooms[r].clients
        BY <2>3, <4>1
      <4>2. CASE ~rooms[r].clients
        BY <2>3, <4>2
      <4> QED
        BY <4>1, <4>2
    <3>2. rooms[r].state # "absent" /\ state \in RoomStates \ {"absent"}
      BY <2>3 DEF IInv, RoomsInv, RoomStates, LiveStates
    <3> HIDE DEF r
    <3> QED
      BY <1>1, <2>1, <3>1, <3>2, RoomWithState
  <2> QED
    BY <2>2, <2>3 DEF StdinReturns
<1> HIDE DEF j, r
<1>8. jobs' \in [Jobs -> Job] /\ \A k \in Jobs : RecordOnward(k)
  BY <1>1, <1>2, RepliedOnward
<1>9. TypeOK'
  BY <1>3, <1>4, <1>5, <1>6, <1>7, <1>8 DEF IInv, TypeOK, ServerUnchanged
<1> QED
  BY <1>3, <1>4, <1>5, <1>7, <1>8, <1>9, QuietStep, ServerSame

LEMMA StdinStepsSafe == ASSUME IInv, NEW s \in Senders, StdinSteps(s) PROVE IInv'
BY StdinGoesOnSafe, StdinReturnsSafe, StdinFailsSafe DEF StdinSteps

-----------------------------------------------------------------------------
(* Stops *)

(* The records of the notebook go with its room, so every job that still    *)
(* has one has its room in the registry.                                    *)
LEMMA RemoveRoomSafe ==
  ASSUME IInv, NEW r \in registered, RemoveRoom(r), up' \subseteq Kernels,
         UNCHANGED <<session, overtaken, call, lock, task, req, promptVars, sender>>
  PROVE  IInv'
<1> DEFINE n == rooms[r].nb
           after == [rooms[r] EXCEPT !.state = "stopped", !.clients = FALSE, !.jobs = {}]
<1>0. UNCHANGED <<awaiting, resumed>>
  BY DEF promptVars
<1>1. /\ r \in RoomIds /\ n \in Notebooks /\ rooms \in [RoomIds -> Room] /\ rooms[r].state # "absent"
      /\ \A q \in registered : q \in RoomIds
  BY DEF IInv, TypeOK, RoomsInv
<1>2. /\ after \in Room /\ after.nb = n /\ after.jobs = {} /\ after.state = "stopped"
      /\ after.kernel = rooms[r].kernel
  BY <1>1 DEF Room
<1>3. rooms' = [rooms EXCEPT ![r] = after] /\ registered' = registered \ {r}
  BY DEF RemoveRoom
<1>4. /\ current' = [current EXCEPT ![n] = NoRoom] /\ jobs' = Evicted(jobs, n)
      /\ attribution' = [attribution EXCEPT ![n] = Unattributed] /\ stops' = stops \ {r}
  BY DEF RemoveRoom
<1> HIDE DEF after
<1>5. rooms' \in [RoomIds -> Room] /\ \A q \in RoomIds : RoomKept(q)
  BY <1>1, <1>2, <1>3 DEF RoomKept, RoomSame
<1> HIDE DEF n
<1>6. /\ jobs' \in [Jobs -> Job]
      /\ \A k \in Jobs : \/ jobs'[k] = jobs[k] /\ (jobs[k].nb # n \/ jobs[k].status \notin JobStatus)
                         \/ jobs'[k] = GoneJob
      /\ \A k \in Jobs : jobs'[k] = GoneJob => jobs[k].status \in JobStatus \cup {"gone"}
      /\ \A k \in Jobs : jobs'[k].status \in JobStatus => jobs[k].nb # n
  <2>1. jobs \in [Jobs -> Job] /\ jobs' = Evicted(jobs, n)
    BY <1>4 DEF IInv, TypeOK
  <2> QED
    BY <2>1, EvictedForgets
<1>7. TypeOK'
  <2>1. Unattributed \in [Cells -> Jobs \cup {NoJob}]
    BY DEF Unattributed
  <2>2. stops' \subseteq registered' /\ registered' \subseteq RoomIds
    BY <1>3, <1>4 DEF IInv, TypeOK
  <2>3. current' \in [Notebooks -> RoomIds \cup {NoRoom}]
    BY <1>4 DEF IInv, TypeOK
  <2>4. attribution' \in [Notebooks -> [Cells -> Jobs \cup {NoJob}]]
    BY <1>4, <2>1 DEF IInv, TypeOK
  <2> QED
    BY <1>0, <1>5, <1>6, <2>2, <2>3, <2>4 DEF IInv, TypeOK
<1>8. \A j \in Jobs : TaskInv(j) /\ RecordOnward(j)
  BY <1>6 DEF RecordOnward, Recorded, GoneJob, UnusedJob, JobStatus, Active, Finished, IInv, TasksInv
<1>9. ASSUME NEW j \in Jobs, task[j].pc # "none", Recorded(j)'
      PROVE  Recorded(j) /\ task[j].nb # n
  <2>1. Recorded(j) /\ jobs[j].nb # n
    BY <1>6, <1>8, <1>9, WasRecorded DEF Recorded
  <2> QED
    BY <1>8, <1>9, <2>1 DEF TaskInv
<1>10. current \in [Notebooks -> RoomIds \cup {NoRoom}]
  BY DEF IInv, TypeOK
<1>11. RoomsInv'
  <2>1. \A q \in registered' : rooms'[q].state # "absent"
    BY <1>1, <1>3, <1>5 DEF IInv, RoomsInv, RoomKept, RoomSame
  <2>2. ASSUME NEW m \in Notebooks, current'[m] # NoRoom
        PROVE  current'[m] \in registered' /\ rooms'[current'[m]].nb = m
    <3>1. m # n /\ current'[m] = current[m]
      BY <1>4, <1>10, <2>2
    <3>2. current[m] \in registered /\ rooms[current[m]].nb = m
      BY <2>2, <3>1 DEF IInv, RoomsInv
    <3> QED
      BY <1>1, <1>3, <1>5, <3>1, <3>2 DEF n, RoomKept, RoomSame
  <2>3. \A q \in RoomIds : \A j \in rooms'[q].jobs : task'[j].pc # "none" /\ task'[j].nb = rooms'[q].nb
    BY <1>5 DEF IInv, RoomsInv, RoomKept, RoomSame
  <2>4. \A q \in RoomIds : /\ rooms'[q].state # "absent" => rooms'[q].nb \in Notebooks
                           /\ rooms'[q].state = "absent" => rooms'[q].kernel = NoKernel
    BY <1>5 DEF IInv, RoomsInv, RoomKept, RoomSame
  <2> QED
    BY <2>1, <2>2, <2>3, <2>4 DEF RoomsInv
<1>12. TasksInv'
  <2> SUFFICES ASSUME NEW j \in Jobs PROVE TaskInv(j)'
    BY DEF TasksInv
  <2>1. ASSUME task[j].pc \in Roomed PROVE TaskRoomed(j)'
    <3>1. TaskRoomed(j) /\ task[j].pc # "none"
      BY <1>8, <2>1 DEF TaskInv, Roomed
    <3>2. ASSUME Recorded(j)' PROVE task[j].room \in registered'
      <4>1. Recorded(j) /\ task[j].nb # n
        BY <1>9, <3>1, <3>2
      <4>2. task[j].room # r /\ task[j].room \in registered
        BY <3>1, <4>1 DEF TaskRoomed, n
      <4> QED
        BY <1>3, <4>2
    <3> QED
      BY <1>5, <3>1, <3>2 DEF TaskRoomed, RoomKept, RoomSame
  <2> QED
    BY <1>8, <2>1 DEF TaskInv, RecordOnward, Recorded
<1>13. SendersInv'
  BY SendersKept, TaskUnchanged DEF IInv
<1>14. LockInv'
  BY LockKept DEF IInv
<1>15. RequestsInv'
  BY <1>9 DEF IInv, RequestsInv
<1>16. CallsInv'
  <2>1. ASSUME NEW a \in Actors PROVE CallInv(a)'
    <3>1. CallInv(a)
      BY DEF IInv, ServerInv, CallsInv
    <3>2. ASSUME call[a].pc \in Making, a \in Jobs, Recorded(a)' PROVE call[a].room \in registered'
      <4>1. task[a].pc = "starting" /\ task[a].nb = call[a].nb /\ call[a].pc # "none"
        BY <3>1, <3>2 DEF CallInv, Making
      <4>2. Recorded(a) /\ task[a].nb # n
        BY <1>9, <3>2, <4>1
      <4>3. call[a].room \in registered /\ rooms[call[a].room].nb # n
        BY <3>1, <3>2, <4>1, <4>2 DEF CallInv
      <4> QED
        BY <1>3, <4>3 DEF n
    <3> QED
      BY <1>5, <3>1, <3>2 DEF CallInv, RoomKept, RoomSame
  <2> QED
    BY <2>1 DEF IInv, ServerInv, CallsInv
<1>17. SessionsInv'
  BY <1>5 DEF IInv, ServerInv, SessionsInv, RoomKept, RoomSame
<1>18. ASSUME NEW j \in Jobs, Placed(j)' PROVE task[j].pc # "none"
  BY <1>18 DEF Placed, Roomed, Making, IInv, ServerInv, CallsInv, CallInv, Actors
<1>19. MapInv'
  <2> SUFFICES ASSUME NEW j \in Jobs, Placed(j)' PROVE current'[task[j].nb] # NoRoom
    BY DEF MapInv
  <2>1. Recorded(j) /\ task[j].nb # n /\ task[j].nb \in Notebooks
    BY <1>8, <1>9, <1>18 DEF Placed, TaskInv
  <2>2. current[task[j].nb] # NoRoom
    BY <2>1 DEF Placed, IInv, ServerInv, MapInv
  <2> QED
    BY <1>4, <1>10, <2>1, <2>2
<1>20. ASSUME NEW q \in RoomIds, InCharge(q)' PROVE InCharge(q)
  <2>1. ASSUME NEW m \in Notebooks, current'[m] = q PROVE current[m] = q
    BY <1>4, <1>10, <2>1, LedgerAssumption
  <2>2. ASSUME NEW j \in Jobs, Recorded(j)', task[j].pc \in Roomed PROVE Recorded(j)
    BY <1>9, <2>2 DEF Roomed
  <2> QED
    BY <1>20, <2>1, <2>2 DEF InCharge
<1>21. OneInCharge'
  BY <1>5, <1>20, ChargeKept DEF RoomKept, RoomSame
<1> QED
  BY <1>7, <1>11, <1>12, <1>13, <1>14, <1>15, <1>16, <1>17, <1>19, <1>21 DEF IInv, ServerInv

LEMMA StopBeginsSafe == ASSUME IInv, NEW r \in RoomIds, StopBegins(r) PROVE IInv'
<1>1. /\ r \in registered /\ rooms \in [RoomIds -> Room] /\ rooms[r].state # "absent"
      /\ up \subseteq Kernels /\ UNCHANGED <<lock, task, req, awaiting, resumed, sender>> /\ ServerUnchanged
  BY DEF StopBegins, IInv, TypeOK, RoomsInv, kernelVars, promptVars, ServerUnchanged
<1>2. CASE RemoveRoom(r)
  BY <1>1, <1>2, RemoveRoomSafe DEF promptVars, ServerUnchanged
<1>3. CASE rooms' = [rooms EXCEPT ![r] = [@ EXCEPT !.state = "stopping"]] /\ stops' = stops \cup {r}
           /\ UNCHANGED <<ledgerVars, registered, current>>
  <2>1. rooms' \in [RoomIds -> Room] /\ \A q \in RoomIds : RoomKept(q)
    BY <1>1, <1>3, RoomWithState DEF RoomStates
  <2>2. UNCHANGED <<jobs, attribution, registered, current>>
    BY <1>3 DEF ledgerVars
  <2>3. TypeOK'
    BY <1>1, <1>3, <2>1, <2>2 DEF IInv, TypeOK, ServerUnchanged
  <2> QED
    BY <1>1, <2>1, <2>2, <2>3, RoomChanges, RecordsUnchanged
<1> QED
  BY <1>2, <1>3 DEF StopBegins

LEMMA StopEndsSafe == ASSUME IInv, NEW r \in RoomIds, StopEnds(r) PROVE IInv'
<1>1. r \in registered /\ up' \subseteq Kernels
  BY DEF StopEnds, IInv, TypeOK
<1> QED
  BY <1>1, RemoveRoomSafe DEF StopEnds

-----------------------------------------------------------------------------
(* Steps of a task *)

LEMMA TaskStep ==
  ASSUME IInv, TypeOK', LockInv', RequestsInv', UNCHANGED <<registered, current, sender>>, ServerUnchanged,
         \A r \in RoomIds : RoomKept(r), \A k \in Jobs : RecordOnward(k) /\ TaskOnward(k),
         NEW j \in Jobs, task[j].pc # "starting", \A k \in Jobs \ {j} : task'[k] = task[k]
  PROVE  IInv'
<1>1. \A k \in Jobs : call[k].pc # "none" => task'[k] = task[k]
  BY DEF IInv, ServerInv, CallsInv, CallInv, Actors
<1>2. ServerOnward
  BY <1>1, ServerSame
<1>3. SendersInv'
  BY SendersKept DEF IInv, TasksOnward, TaskOnward
<1> QED
  BY <1>2, <1>3, KeptStep

(* A job whose record has gone gets no other. *)
LEMMA StaysGone ==
  ASSUME IInv, NEW j \in Jobs, task[j].pc # "none", RecordOnward(j), ~Recorded(j)
  PROVE  ~Recorded(j)'
BY DEF IInv, TasksInv, TaskInv, RecordOnward, Recorded

LEMMA RequestsAdvance ==
  ASSUME IInv, NEW j \in Jobs, task[j].pc # "none", task'[j].pc # "none",
         \A k \in Jobs : RecordOnward(k),
         \A k \in Jobs \ {j} : task'[k] = task[k] /\ (req'[k].status \in Open => req[k].status \in Open),
         req'[j].status \in Open => task'[j].pc = "polling" \/ ~Recorded(j)
  PROVE  RequestsInv'
<1> SUFFICES ASSUME NEW k \in Jobs, req'[k].status \in Open
             PROVE  task'[k].pc # "none" /\ (task'[k].pc = "polling" \/ ~Recorded(k)')
  BY DEF RequestsInv, Recorded
<1>1. CASE k = j
  BY <1>1, StaysGone
<1>2. CASE k # j
  BY <1>2, StaysGone DEF IInv, RequestsInv
<1> QED
  BY <1>1, <1>2

(* The record is written, and the task takes its next step holding the lock *)
(* or waiting for it.                                                       *)
LEMMA TaskAdvances ==
  ASSUME IInv, TypeOK', NEW j \in Jobs, UNCHANGED <<lock, sender, registered, current, rooms>>, ServerUnchanged,
         task[j].pc \in Holding, task'[j].pc \in Working,
         task'[j].nb = task[j].nb, task'[j].room = task[j].room, task'[j].cell <= task'[j].last,
         \A k \in Jobs \ {j} : task'[k] = task[k] /\ (req'[k].status \in Open => req[k].status \in Open),
         task[j].pc = "locking" => Head(lock[task[j].room]) = j,
         \A k \in Jobs : RecordOnward(k),
         req'[j].status \in Open => task'[j].pc = "polling" \/ ~Recorded(j)
  PROVE  IInv'
<1>1. \A k \in Jobs : TaskOnward(k)
  <2>1. TaskOnward(j)
    BY DEF TaskOnward, Roomed, Holding, Working
  <2>2. \A k \in Jobs \ {j} : TaskOnward(k)
    BY DEF IInv, TasksInv, TaskInv, TaskOnward
  <2> QED
    BY <2>1, <2>2
<1>2. LockInv'
  <2>1. lock[task[j].room] # <<>> /\ Head(lock[task[j].room]) = j
    <3>1. CASE task[j].pc \in Working
      BY <3>1 DEF IInv, LockInv
    <3>2. CASE task[j].pc = "locking"
      <4>1. PICK i \in 1..Len(lock[task[j].room]) : lock[task[j].room][i] = j
        BY <3>2 DEF IInv, LockInv
      <4>2. lock[task[j].room] # <<>>
        BY <4>1
      <4> QED
        BY <3>2, <4>2
    <3> QED
      BY <3>1, <3>2 DEF Holding
  <2>2. \A k \in Jobs :
           /\ task'[k].pc \in Holding <=> task[k].pc \in Holding
           /\ task[k].pc \in Holding => task'[k].room = task[k].room
           /\ task'[k].pc = "locking" => task[k].pc = "locking"
           /\ task'[k].pc \in Working =>
                \/ task[k].pc \in Working
                \/ lock[task[k].room] # <<>> /\ Head(lock[task[k].room]) = k
    BY <2>1 DEF Holding, Working
  <2> QED
    BY <2>2, LockKept DEF IInv
<1>3. RequestsInv'
  BY RequestsAdvance DEF Holding, Working
<1>4. task[j].pc # "starting"
  BY DEF Holding, Working
<1> QED
  BY <1>1, <1>2, <1>3, <1>4, RoomsUnchanged, TaskStep

LEMMA TaskLocksSafe == ASSUME IInv, NEW j \in Jobs, TaskLocks(j) PROVE IInv'
<1>0. UNCHANGED <<attribution, rooms, registered, current, lock, req, awaiting, resumed, sender, stops>> /\ ServerUnchanged
  BY DEF TaskLocks, runtimeVars, kernelVars, promptVars, ServerUnchanged
<1>1. task[j].room \in RoomIds /\ task[j].pc = "locking" /\ task \in [Jobs -> Task]
  BY DEF TaskLocks, IInv, TypeOK, TasksInv, TaskInv, TaskRoomed, Roomed
<1>2. jobs' \in [Jobs -> Job] /\ \A k \in Jobs : RecordOnward(k)
  BY <1>1, UpdatedOnward DEF TaskLocks, IInv, TypeOK, JobStatus, Active
<1>3. /\ task' \in [Jobs -> Task] /\ task'[j].pc = "preparing" /\ task'[j].nb = task[j].nb
      /\ task'[j].room = task[j].room /\ task'[j].cell = task[j].cell /\ task'[j].last = task[j].last
      /\ \A k \in Jobs \ {j} : task'[k] = task[k]
  BY <1>1 DEF TaskLocks, Task
<1>4. TypeOK'
  BY <1>0, <1>2, <1>3 DEF IInv, TypeOK, ServerUnchanged
<1>5. req[j].status \in Open => ~Recorded(j)
  BY <1>1 DEF IInv, RequestsInv
<1>6. task[j].cell <= task[j].last
  BY <1>1 DEF IInv, TasksInv, TaskInv
<1> QED
  BY <1>0, <1>1, <1>2, <1>3, <1>4, <1>5, <1>6, TaskAdvances DEF TaskLocks, Holding, Working

LEMMA PollsResultSafe == ASSUME IInv, NEW j \in Jobs, PollsResult(j) PROVE IInv'
<1>0. UNCHANGED <<jobs, attribution, rooms, registered, current, lock, sender, stops>> /\ ServerUnchanged
  BY DEF PollsResult, ledgerVars, runtimeVars, kernelVars, ServerUnchanged
<1>1. task[j].pc = "polling" /\ task \in [Jobs -> Task] /\ req \in [Jobs -> Request]
  BY DEF PollsResult, IInv, TypeOK
<1>2. /\ task' \in [Jobs -> Task] /\ task'[j].pc = "flushing" /\ task'[j].nb = task[j].nb
      /\ task'[j].room = task[j].room /\ task'[j].cell = task[j].cell /\ task'[j].last = task[j].last
      /\ \A k \in Jobs \ {j} : task'[k] = task[k]
  BY <1>1 DEF PollsResult, Task
<1>3. req' = [req EXCEPT ![j] = [req[j] EXCEPT !.status = "taken"]]
  BY DEF PollsResult
<1>4. req' \in [Jobs -> Request] /\ req'[j].status = "taken" /\ \A k \in Jobs \ {j} : req'[k] = req[k]
  BY <1>1, <1>3, RequestWithStatus
<1>5. TypeOK'
  BY <1>0, <1>2, <1>4 DEF PollsResult, IInv, TypeOK, ServerUnchanged
<1>6. \A k \in Jobs : RecordOnward(k)
  BY <1>0, RecordsUnchanged
<1>7. task[j].cell <= task[j].last
  BY <1>1 DEF IInv, TasksInv, TaskInv
<1> QED
  BY <1>0, <1>1, <1>2, <1>4, <1>5, <1>6, <1>7, TaskAdvances DEF Holding, Working, Open

(* The next cell *)
LEMMA FlushesOnSafe ==
  ASSUME IInv, NEW j \in Jobs, task[j].pc = "flushing",
         attribution' = Attributed(task[j].nb, task[j].cell, j),
         task[j].cell # task[j].last,
         task' = [task EXCEPT ![j] = [@ EXCEPT !.pc = "preparing", !.cell = task[j].cell + 1]],
         UNCHANGED <<jobs, rooms, registered, current, lock, sender, stops, req, awaiting, resumed>>, ServerUnchanged
  PROVE  IInv'
<1>1. /\ task \in [Jobs -> Task] /\ task[j].cell <= task[j].last
      /\ task[j].cell \in Cells /\ task[j].last \in Cells
  BY DEF IInv, TypeOK, Task, TasksInv, TaskInv
<1>2. task[j].cell + 1 \in Cells /\ task[j].cell + 1 <= task[j].last
  BY <1>1, LedgerAssumption DEF Cells
<1>3. /\ task' \in [Jobs -> Task] /\ task'[j].pc = "preparing" /\ task'[j].nb = task[j].nb
      /\ task'[j].room = task[j].room /\ task'[j].cell = task[j].cell + 1 /\ task'[j].last = task[j].last
      /\ \A k \in Jobs \ {j} : task'[k] = task[k]
  BY <1>1, <1>2 DEF Task
<1>4. attribution' \in [Notebooks -> [Cells -> Jobs \cup {NoJob}]]
  BY DEF Attributed, IInv, TypeOK
<1>5. TypeOK'
  BY <1>3, <1>4 DEF IInv, TypeOK, ServerUnchanged
<1>6. \A k \in Jobs : RecordOnward(k)
  BY RecordsUnchanged
<1>7. req[j].status \in Open => ~Recorded(j)
  BY DEF IInv, RequestsInv
<1> QED
  BY <1>2, <1>3, <1>5, <1>6, <1>7, TaskAdvances DEF Holding, Working

LEMMA PutsSafe ==
  ASSUME IInv, NEW j \in Jobs, task[j].pc = "preparing",
         req' = [req EXCEPT ![j] = [NoRequest EXCEPT !.status = "running"]],
         jobs' = WithUid(jobs, j),
         task' = [task EXCEPT ![j] = [@ EXCEPT !.pc = "polling"]],
         UNCHANGED <<attribution, awaiting, resumed, lock, registered, current, rooms, sender, stops>>,
         ServerUnchanged
  PROVE  IInv'
<1>1. /\ task \in [Jobs -> Task] /\ req \in [Jobs -> Request] /\ jobs \in [Jobs -> Job]
      /\ task[j].cell <= task[j].last
  BY DEF IInv, TypeOK, TasksInv, TaskInv
<1>2. /\ task' \in [Jobs -> Task] /\ task'[j].pc = "polling" /\ task'[j].nb = task[j].nb
      /\ task'[j].room = task[j].room /\ task'[j].cell = task[j].cell /\ task'[j].last = task[j].last
      /\ \A k \in Jobs \ {j} : task'[k] = task[k]
  BY <1>1 DEF Task
<1>3. [NoRequest EXCEPT !.status = "running"] \in Request
  BY ExecutionAssumption DEF NoRequest, Request
<1>4. req' \in [Jobs -> Request] /\ \A k \in Jobs \ {j} : req'[k] = req[k]
  BY <1>1, <1>3
<1>5. jobs' \in [Jobs -> Job] /\ \A k \in Jobs : RecordOnward(k)
  <2>1. /\ jobs' \in [Jobs -> Job] /\ \A k \in Jobs \ {j} : jobs'[k] = jobs[k]
        /\ jobs'[j].status = jobs[j].status /\ jobs'[j].nb = jobs[j].nb
    BY <1>1, WithUidKeeps
  <2> QED
    BY <2>1 DEF RecordOnward, Recorded
<1>6. TypeOK'
  BY <1>2, <1>4, <1>5 DEF IInv, TypeOK, ServerUnchanged
<1> QED
  BY <1>1, <1>2, <1>4, <1>5, <1>6, TaskAdvances DEF Holding, Working

(* The job's last step *)
LEMMA EndsSafe ==
  ASSUME IInv, NEW j \in Jobs, task[j].pc \in Working, NEW status \in JobStatus, Ends(j, status),
         attribution' \in [Notebooks -> [Cells -> Jobs \cup {NoJob}]],
         req' \in [Jobs -> Request],
         awaiting' \in [Jobs -> Prompts \cup {NoPrompt}], UNCHANGED resumed,
         \A k \in Jobs \ {j} : req'[k].status \in Open => req[k].status \in Open,
         req'[j].status \in Open => ~Recorded(j)
  PROVE  IInv'
<1>1. /\ task[j].room \in RoomIds /\ task[j].pc \in Roomed /\ task[j].pc # "none"
      /\ task[j].cell <= task[j].last /\ task[j].nb \in Notebooks
      /\ task \in [Jobs -> Task] /\ rooms \in [RoomIds -> Room]
  BY DEF IInv, TypeOK, TasksInv, TaskInv, TaskRoomed, Roomed, Working
<1>2. jobs' \in [Jobs -> Job] /\ \A k \in Jobs : RecordOnward(k)
  BY <1>1, UpdatedOnward DEF Ends, IInv, TypeOK
<1>3. /\ task' \in [Jobs -> Task] /\ task'[j].pc = "ended" /\ task'[j].nb = task[j].nb
      /\ task'[j].room = task[j].room /\ task'[j].cell = task[j].cell /\ task'[j].last = task[j].last
      /\ \A k \in Jobs \ {j} : task'[k] = task[k]
  BY <1>1 DEF Ends, Task
<1>4. /\ rooms' \in [RoomIds -> Room]
      /\ \A q \in RoomIds : RoomKept(q)
  <2> DEFINE left(q) == IF q = current[task[j].nb] THEN rooms[q].jobs \ {j} ELSE rooms[q].jobs
             state(q) == IF q = task[j].room /\ q \in registered /\ rooms[q].state = "awaiting-input"
                         THEN "live-detached" ELSE rooms[q].state
             after(q) == [rooms[q] EXCEPT !.jobs = left(q), !.state = state(q)]
  <2>1. rooms' = [q \in RoomIds |-> after(q)]
    BY DEF Ends, AfterJob
  <2>2. ASSUME NEW q \in RoomIds
        PROVE  /\ after(q) \in Room /\ after(q).nb = rooms[q].nb /\ after(q).kernel = rooms[q].kernel
               /\ after(q).jobs \subseteq rooms[q].jobs
               /\ after(q).state = "absent" <=> rooms[q].state = "absent"
    <3>1. rooms[q] \in Room
      BY <1>1
    <3>2. left(q) \subseteq rooms[q].jobs /\ left(q) \in SUBSET Jobs
      BY <3>1 DEF Room
    <3>3. state(q) \in RoomStates /\ (state(q) = "absent" <=> rooms[q].state = "absent")
      BY <3>1 DEF Room, LiveStates, RoomStates
    <3> HIDE DEF left, state
    <3> QED
      BY <3>1, <3>2, <3>3 DEF Room, RoomStates
  <2> HIDE DEF after
  <2> QED
    BY <2>1, <2>2 DEF RoomKept, RoomSame
<1>5. LockInv' /\ lock' \in [RoomIds -> Seq(Jobs)]
  BY <1>1, LockReleased DEF Ends, IInv
<1>0. UNCHANGED <<registered, current, sender, stops>> /\ ServerUnchanged
  BY DEF Ends, kernelVars, ServerUnchanged
<1>6. TypeOK'
  BY <1>0, <1>2, <1>3, <1>4, <1>5 DEF IInv, TypeOK, ServerUnchanged
<1>7. \A k \in Jobs : TaskOnward(k)
  <2>1. TaskOnward(j)
    BY <1>1, <1>3 DEF TaskOnward
  <2>2. \A k \in Jobs \ {j} : TaskOnward(k)
    BY <1>3 DEF IInv, TasksInv, TaskInv, TaskOnward
  <2> QED
    BY <2>1, <2>2
<1>8. RequestsInv'
  BY <1>1, <1>2, <1>3, RequestsAdvance
<1>9. task[j].pc # "starting"
  BY DEF Working
<1> QED
  BY <1>0, <1>2, <1>3, <1>4, <1>5, <1>6, <1>7, <1>8, <1>9, TaskStep

(* A task that polls nothing has no open request, or no record. *)
LEMMA NoRequestOpen ==
  ASSUME IInv, NEW j \in Jobs, task[j].pc \in {"preparing", "flushing"}
  PROVE  req[j].status \in Open => ~Recorded(j)
BY DEF IInv, RequestsInv

LEMMA Typed ==
  ASSUME IInv
  PROVE  /\ attribution \in [Notebooks -> [Cells -> Jobs \cup {NoJob}]]
         /\ req \in [Jobs -> Request]
         /\ awaiting \in [Jobs -> Prompts \cup {NoPrompt}]
         /\ resumed \in [Jobs -> Prompts \cup {NoPrompt}]
         /\ {"running", "awaiting_input", "failed", "succeeded"} \subseteq JobStatus
BY DEF IInv, TypeOK, JobStatus, Active, Finished

LEMMA TaskPutsSafe == ASSUME IInv, NEW j \in Jobs, TaskPuts(j) PROVE IInv'
<1>1. CASE Recorded(j)
  <2>1. /\ UNCHANGED <<attribution, awaiting, resumed, lock, registered, current, rooms, sender, stops>>
        /\ ServerUnchanged
    BY <1>1 DEF TaskPuts, runtimeVars, kernelVars, promptVars, ServerUnchanged
  <2> QED
    BY <1>1, <2>1, PutsSafe DEF TaskPuts
<1>2. CASE ~Recorded(j)
  <2>1. [NoRequest EXCEPT !.status = "running"] \in Request
    BY ExecutionAssumption DEF NoRequest, Request
  <2>2. req' = [req EXCEPT ![j] = [NoRequest EXCEPT !.status = "running"]] /\ req \in [Jobs -> Request]
    BY Typed DEF TaskPuts
  <2>3. req' \in [Jobs -> Request] /\ \A k \in Jobs \ {j} : req'[k] = req[k]
    BY <2>1, <2>2
  <2>4. task[j].pc \in Working /\ Ends(j, "failed") /\ UNCHANGED <<attribution, awaiting, resumed>>
    BY <1>2 DEF TaskPuts, Working, promptVars
  <2> QED
    BY <1>2, <2>3, <2>4, EndsSafe, Typed
<1> QED
  BY <1>1, <1>2

LEMMA PrepareFailsSafe == ASSUME IInv, NEW j \in Jobs, PrepareFails(j) PROVE IInv'
<1>1. task[j].pc \in {"preparing", "flushing"} /\ task[j].pc \in Working /\ Ends(j, "failed")
  BY DEF PrepareFails, Working
<1> QED
  BY <1>1, NoRequestOpen, EndsSafe, Typed DEF PrepareFails, promptVars

LEMMA FlushFailsSafe == ASSUME IInv, NEW j \in Jobs, FlushFails(j) PROVE IInv'
<1>1. task[j].pc \in {"preparing", "flushing"} /\ task[j].pc \in Working /\ Ends(j, "failed")
  BY DEF FlushFails, Working
<1> QED
  BY <1>1, NoRequestOpen, EndsSafe, Typed DEF FlushFails, promptVars

LEMMA PollRaisesSafe == ASSUME IInv, NEW j \in Jobs, PollRaises(j) PROVE IInv'
<1>1. task[j].pc \in Working /\ Ends(j, "failed") /\ req[j].status \notin Open
  BY DEF PollRaises, Working, Open
<1> QED
  BY <1>1, EndsSafe, Typed DEF PollRaises, promptVars

LEMMA FlushesSafe == ASSUME IInv, NEW j \in Jobs, Flushes(j) PROVE IInv'
<1>1. /\ task[j].pc = "flushing" /\ attribution' = Attributed(task[j].nb, task[j].cell, j)
      /\ UNCHANGED <<req, awaiting, resumed>>
  BY DEF Flushes, promptVars
<1>2. attribution' \in [Notebooks -> [Cells -> Jobs \cup {NoJob}]]
  <2>1. task[j].cell \in Cells
    BY DEF IInv, TypeOK, Task
  <2> QED
    BY <1>1, <2>1 DEF Attributed, IInv, TypeOK
<1>3. ASSUME NEW status \in {"failed", "succeeded"}, Ends(j, status) PROVE IInv'
  <2>1. task[j].pc \in {"preparing", "flushing"} /\ task[j].pc \in Working /\ status \in JobStatus
    BY <1>1, Typed DEF Working
  <2> QED
    BY <1>1, <1>2, <1>3, <2>1, NoRequestOpen, EndsSafe, Typed
<1>4. CASE /\ task[j].ok /\ task[j].cell # task[j].last
           /\ task' = [task EXCEPT ![j] = [@ EXCEPT !.pc = "preparing", !.cell = task[j].cell + 1]]
           /\ UNCHANGED <<jobs, runtimeVars, kernelVars, call, lock, sender, stops>>
  <2>1. UNCHANGED <<jobs, rooms, registered, current, lock, sender, stops>> /\ ServerUnchanged
    BY <1>4 DEF runtimeVars, kernelVars, ServerUnchanged
  <2> QED
    BY <1>1, <1>4, <2>1, FlushesOnSafe
<1> QED
  BY <1>3, <1>4 DEF Flushes

LEMMA PollsPromptSafe == ASSUME IInv, NEW j \in Jobs, PollsPrompt(j) PROVE IInv'
<1> DEFINE r == task[j].room
           prompt == req[j].prompt
<1>1. /\ task[j].pc = "polling" /\ task[j].pc \in Working /\ awaiting' = [awaiting EXCEPT ![j] = prompt]
      /\ UNCHANGED <<attribution, req, resumed>>
  BY DEF PollsPrompt, Working
<1>2. awaiting' \in [Jobs -> Prompts \cup {NoPrompt}]
  BY <1>1 DEF IInv, TypeOK, Request
<1>3. CASE UNCHANGED <<jobs, runtimeVars, kernelVars, call, lock, task, sender, stops>>
  <2>1. UNCHANGED <<jobs, rooms, lock, task, registered, current, sender, stops>> /\ ServerUnchanged
    BY <1>3 DEF runtimeVars, kernelVars, ServerUnchanged
  <2>2. TypeOK'
    BY <1>1, <1>2, <2>1 DEF IInv, TypeOK, ServerUnchanged
  <2> QED
    BY <1>1, <2>1, <2>2, RoomChanges, RecordsUnchanged, RoomsUnchanged
<1>4. CASE /\ r \in registered
           /\ jobs' = Updated(jobs, j, "awaiting_input", NoRoom)
           /\ rooms' = [rooms EXCEPT ![r] = [@ EXCEPT !.state = "awaiting-input"]]
           /\ UNCHANGED <<registered, current, kernelVars, call, lock, task, sender, stops>>
  <2>0. UNCHANGED <<lock, task, registered, current, sender, stops>> /\ ServerUnchanged
    BY <1>4 DEF kernelVars, ServerUnchanged
  <2>1. rooms' \in [RoomIds -> Room] /\ \A q \in RoomIds : RoomKept(q)
    <3>1. r \in RoomIds /\ rooms \in [RoomIds -> Room] /\ rooms[r].state # "absent"
      BY <1>4 DEF IInv, TypeOK, RoomsInv
    <3>2. rooms' = [rooms EXCEPT ![r] = [@ EXCEPT !.state = "awaiting-input"]]
      BY <1>4
    <3> HIDE DEF r
    <3> QED
      BY <3>1, <3>2, RoomWithState DEF LiveStates, RoomStates
  <2>2. jobs' \in [Jobs -> Job] /\ \A k \in Jobs : RecordOnward(k)
    BY <1>1, <1>4, UpdatedOnward, Typed DEF IInv, TypeOK
  <2>3. TypeOK'
    BY <1>1, <1>2, <2>0, <2>1, <2>2 DEF IInv, TypeOK, ServerUnchanged
  <2> QED
    BY <1>1, <2>0, <2>1, <2>2, <2>3, RoomChanges
<1>5. CASE r \notin registered /\ Ends(j, "failed")
  <2>1. ~Recorded(j)
    BY <1>1, <1>5 DEF IInv, TasksInv, TaskInv, TaskRoomed, Roomed
  <2> QED
    BY <1>1, <1>2, <1>5, <2>1, EndsSafe, Typed
<1> QED
  BY <1>3, <1>4, <1>5 DEF PollsPrompt

(* The room the task is answered is in use, of its notebook and registered. *)
LEMMA TaskStartsSafe == ASSUME IInv, NEW j \in Jobs, TaskStarts(j) PROVE IInv'
<1> DEFINE n == task[j].nb
<1>1. /\ task[j].pc = "starting" /\ n \in Notebooks /\ task \in [Jobs -> Task]
      /\ task[j].cell <= task[j].last
  BY DEF TaskStarts, IInv, TypeOK, TasksInv, TaskInv
<1>2. PICK r \in RoomIds :
        /\ Answers(j, "run", n, r)
        /\ task' = [task EXCEPT ![j] = [@ EXCEPT !.pc = "locking", !.room = r]]
        /\ lock' = [lock EXCEPT ![r] = Append(@, j)]
  BY DEF TaskStarts
<1>3. /\ UNCHANGED <<jobs, attribution, rooms, registered, current, session, up, overtaken, req>>
      /\ UNCHANGED <<awaiting, resumed, sender, stops>> /\ call' = [call EXCEPT ![j] = NoCall]
  BY <1>2 DEF TaskStarts, Answers, ledgerVars, runtimeVars, kernelVars, promptVars
<1>4. /\ task' \in [Jobs -> Task] /\ task'[j].pc = "locking" /\ task'[j].room = r /\ task'[j].nb = n
      /\ task'[j].cell = task[j].cell /\ task'[j].last = task[j].last
      /\ \A k \in Jobs \ {j} : task'[k] = task[k]
  BY <1>1, <1>2 DEF Task
<1>5. /\ rooms[r].nb = n /\ rooms[r].state # "absent" /\ rooms[r].kernel # NoKernel /\ InCharge(r)
      /\ Recorded(j) => r \in registered /\ (current[n] # NoRoom \/ Placed(j))
  BY <1>1, <1>2, AnswersRoom, CallersCall DEF CallOps
<1>6. TasksOnward
  BY <1>1, <1>4 DEF TasksOnward
<1>7. RoomsInv' /\ RoomsOnward /\ registered \subseteq registered'
  BY <1>3, <1>6, RoomsKept, RoomsUnchanged DEF IInv, TypeOK
<1>8. LockInv' /\ lock' \in [RoomIds -> Seq(Jobs)]
  BY <1>1, <1>2, LockAsked DEF IInv
<1>9. call' \in [Actors -> Call] /\ ServerOnward
  BY <1>3, <1>4, CallOver, CallersCall
<1>10. TypeOK'
  BY <1>3, <1>4, <1>8, <1>9 DEF IInv, TypeOK
<1>11. TasksInv'
  <2>1. TaskInv(j)'
    <3>1. TaskInv(j)
      BY DEF IInv, TasksInv
    <3> QED
      BY <1>1, <1>3, <1>4, <1>5, <3>1 DEF TaskInv, TaskRoomed, Recorded
  <2>2. ASSUME NEW k \in Jobs \ {j} PROVE TaskInv(k)'
    <3>1. TaskInv(k) /\ task'[k] = task[k] /\ RecordOnward(k)
      BY <1>3, <1>4, RecordsUnchanged DEF IInv, TasksInv
    <3>2. TaskOnward(k)
      BY <3>1 DEF TaskInv, TaskOnward
    <3> QED
      BY <1>7, <3>1, <3>2, TaskKept DEF IInv
  <2> QED
    BY <2>1, <2>2 DEF TasksInv
<1>12. SendersInv'
  BY <1>3, <1>6, SendersKept DEF IInv
<1>13. RequestsInv'
  <2>1. req[j].status \in Open => ~Recorded(j)
    BY <1>1 DEF IInv, RequestsInv
  <2> QED
    BY <1>1, <1>3, <1>4, <2>1, RequestsAdvance, RecordsUnchanged
<1>14. CallsInv' /\ SessionsInv'
  <2>1. \A q \in RoomIds : RoomSame(q)
    BY <1>3, RoomsUnchanged DEF RoomKept
  <2> QED
    BY <1>3, <1>9, <2>1, RecordsUnchanged, CallsKept, SessionsKept
<1>15. \A a \in Actors : call'[a].pc # "none" => a # j /\ call'[a] = call[a]
  BY <1>3 DEF NoCall, IInv, TypeOK
<1>16. MapInv'
  <2> SUFFICES ASSUME NEW k \in Jobs, Placed(k)' PROVE current[task'[k].nb] # NoRoom
    BY <1>3 DEF MapInv
  <2>1. CASE k = j
    <3>1. Recorded(j)
      BY <1>3, <2>1 DEF Placed, Recorded
    <3> QED
      BY <1>4, <1>5, <2>1, <3>1 DEF IInv, ServerInv, MapInv
  <2>2. CASE k # j
    <3>1. Placed(k) /\ task'[k] = task[k]
      BY <1>3, <1>4, <1>15, <2>2 DEF Placed, Recorded, Making, Actors
    <3> QED
      BY <3>1 DEF IInv, ServerInv, MapInv
  <2> QED
    BY <2>1, <2>2
<1>17. ASSUME NEW q \in RoomIds, InCharge(q)' PROVE InCharge(q)
  <2>1. CASE q = r
    BY <1>5, <2>1
  <2>2. CASE q # r
    <3>1. ASSUME NEW k \in Jobs, Recorded(k)', task'[k].pc \in Roomed, task'[k].room = q
          PROVE  Recorded(k) /\ task[k].pc \in Roomed /\ task[k].room = q
      BY <1>3, <1>4, <2>2, <3>1 DEF Recorded
    <3>2. ASSUME NEW a \in Actors, call'[a].pc = "returned" PROVE call'[a] = call[a]
      BY <1>15, <3>2
    <3> QED
      BY <1>3, <1>17, <3>1, <3>2 DEF InCharge
  <2> QED
    BY <2>1, <2>2
<1>18. OneInCharge'
  BY <1>3, <1>17, ChargeKept
<1> QED
  BY <1>7, <1>8, <1>10, <1>11, <1>12, <1>13, <1>14, <1>16, <1>18 DEF IInv, ServerInv

LEMMA TaskStepsSafe == ASSUME IInv, NEW j \in Jobs, TaskSteps(j) PROVE IInv'
BY TaskCallsSafe, TaskStartsSafe, TaskLocksSafe, TaskPutsSafe, PrepareFailsSafe, PollsPromptSafe,
   PollsResultSafe, PollRaisesSafe, FlushesSafe, FlushFailsSafe DEF TaskSteps

(* The id is one that was never given, so no task has it. *)
LEMMA QueueExecutionSafe ==
  ASSUME IInv, NEW c \in Callers, NEW n \in Notebooks, NEW last \in Cells, QueueExecution(c, n, last) PROVE IInv'
<1>1. PICK j \in Jobs : j = NextJob /\ jobs[j].status = "unused"
  BY DEF QueueExecution, UnusedJobs, NextJob
<1> DEFINE cur == current[n]
           new == [NoTask EXCEPT !.pc = "starting", !.nb = n, !.last = last]
<1>2. PICK r \in RoomIds : Answers(c, "queue", n, r) /\ jobs' = Created(jobs, j, n, "execute", r)
  BY <1>1 DEF QueueExecution
<1>3. /\ rooms' = IF cur = NoRoom THEN rooms
                  ELSE [rooms EXCEPT ![cur] = [@ EXCEPT !.jobs = rooms[cur].jobs \cup {j}]]
      /\ task' = [task EXCEPT ![j] = new] /\ call' = [call EXCEPT ![c] = NoCall]
      /\ UNCHANGED <<attribution, registered, current, session, up, overtaken, lock, req, awaiting>>
      /\ UNCHANGED <<resumed, sender, stops>>
  BY <1>1, <1>2 DEF QueueExecution, Answers, kernelVars, promptVars
<1>4. /\ new \in Task /\ new.pc = "starting" /\ new.nb = n /\ new.cell <= new.last
  <2>1. 1 \in Cells /\ 1 <= last
    BY LedgerAssumption DEF Cells
  <2>2. NoTask \in Task /\ NoTask.cell = 1
    BY <2>1 DEF NoTask, Task
  <2> QED
    BY <2>1, <2>2 DEF Task
<1> HIDE DEF new, cur
<1>5. /\ task[j].pc = "none" /\ task \in [Jobs -> Task] /\ jobs \in [Jobs -> Job]
      /\ rooms \in [RoomIds -> Room]
  BY <1>1 DEF IInv, TypeOK, TasksInv, TaskInv
<1>6. task' \in [Jobs -> Task] /\ task'[j] = new /\ \A k \in Jobs \ {j} : task'[k] = task[k]
  BY <1>3, <1>4, <1>5
<1>7. TasksOnward
  BY <1>5, <1>6 DEF TasksOnward
<1>8. /\ jobs' \in [Jobs -> Job] /\ jobs'[j].status = "queued" /\ jobs'[j].nb = n
      /\ \A k \in Jobs \ {j} : RecordOnward(k)
  <2>1. "execute" \in JobAction /\ jobs' = Created(jobs, j, n, "execute", r)
    BY <1>2 DEF JobAction
  <2>2. /\ jobs' \in [Jobs -> Job] /\ jobs'[j].status = "queued" /\ jobs'[j].nb = n
        /\ \A k \in Jobs \ {j} : Kept(jobs[k], jobs'[k])
    BY <1>1, <1>5, <2>1, CreatedKeeps
  <2> QED
    BY <2>2, KeptOnward
<1>9. cur # NoRoom => cur \in registered /\ cur \in RoomIds /\ rooms[cur].nb = n
  BY DEF cur, IInv, TypeOK, RoomsInv
<1>10. /\ rooms' \in [RoomIds -> Room] /\ \A q \in RoomIds : RoomSame(q)
       /\ \A q \in RoomIds : \A k \in rooms'[q].jobs :
            k \in rooms[q].jobs \/ (k = j /\ rooms[q].nb = n)
  <2>1. CASE cur = NoRoom
    BY <1>3, <1>5, <2>1, RoomsUnchanged DEF RoomKept
  <2>2. CASE cur # NoRoom
    <3> DEFINE room == [rooms[cur] EXCEPT !.jobs = rooms[cur].jobs \cup {j}]
    <3>1. /\ room \in Room /\ room.nb = rooms[cur].nb /\ room.state = rooms[cur].state
          /\ room.kernel = rooms[cur].kernel /\ room.jobs = rooms[cur].jobs \cup {j}
      BY <1>1, <1>5, <1>9, <2>2 DEF Room
    <3>2. rooms' = [rooms EXCEPT ![cur] = room]
      BY <1>3, <2>2
    <3> HIDE DEF room
    <3> QED
      BY <1>5, <1>9, <2>2, <3>1, <3>2 DEF RoomSame
  <2> QED
    BY <2>1, <2>2
<1>11. RoomsInv' /\ RoomsOnward /\ registered \subseteq registered'
  <2>1. RoomsOnward
    BY <1>10 DEF RoomsOnward, RoomSame
  <2>2. ASSUME NEW q \in RoomIds, NEW k \in rooms'[q].jobs
        PROVE  task'[k].pc # "none" /\ task'[k].nb = rooms'[q].nb
    <3>1. CASE k \in rooms[q].jobs
      <4>1. k \in Jobs /\ task[k].pc # "none" /\ task[k].nb = rooms[q].nb
        BY <1>5, <3>1 DEF Room, IInv, RoomsInv
      <4> QED
        BY <1>5, <1>6, <1>10, <4>1 DEF RoomSame
    <3>2. CASE k = j /\ rooms[q].nb = n
      BY <1>4, <1>6, <1>10, <3>2 DEF RoomSame
    <3> QED
      BY <1>10, <2>2, <3>1, <3>2
  <2>3. \A q \in registered' : rooms'[q].state # "absent"
    BY <1>3, <1>10 DEF IInv, TypeOK, RoomsInv, RoomSame
  <2>4. \A m \in Notebooks : current'[m] # NoRoom => current'[m] \in registered' /\ rooms'[current'[m]].nb = m
    BY <1>3, <1>10 DEF IInv, TypeOK, RoomsInv, RoomSame
  <2>5. \A q \in RoomIds : /\ rooms'[q].state # "absent" => rooms'[q].nb \in Notebooks
                           /\ rooms'[q].state = "absent" => rooms'[q].kernel = NoKernel
    BY <1>10 DEF IInv, RoomsInv, RoomSame
  <2> QED
    BY <1>3, <2>1, <2>2, <2>3, <2>4, <2>5 DEF RoomsInv
<1>12. call[j].pc = "none" /\ c # j
  BY <1>5, CallersCall DEF IInv, ServerInv, CallsInv, CallInv
<1>13. call' \in [Actors -> Call] /\ ServerOnward
  BY <1>3, <1>6, <1>12, CallOver, CallersCall
<1>14. TypeOK'
  BY <1>3, <1>6, <1>8, <1>10, <1>13 DEF IInv, TypeOK
<1>15. \A k \in Jobs \ {j} : TaskOnward(k)
  BY <1>6 DEF IInv, TasksInv, TaskInv, TaskOnward
<1>16. TasksInv'
  <2>1. TaskInv(j)'
    BY <1>4, <1>6, <1>8 DEF TaskInv, Recorded, Roomed
  <2>2. ASSUME NEW k \in Jobs \ {j} PROVE TaskInv(k)'
    BY <1>8, <1>11, <1>15, TaskKept DEF IInv, TasksInv
  <2> QED
    BY <2>1, <2>2 DEF TasksInv
<1>17. SendersInv'
  BY <1>3, <1>7, SendersKept DEF IInv
<1>18. LockInv'
  <2>1. \A k \in Jobs :
           /\ task'[k].pc \in Holding <=> task[k].pc \in Holding
           /\ task[k].pc \in Holding => task'[k].room = task[k].room
           /\ task'[k].pc = "locking" => task[k].pc = "locking"
           /\ task'[k].pc \in Working => task[k].pc \in Working
    BY <1>4, <1>5, <1>6 DEF Holding, Working
  <2> QED
    BY <1>3, <2>1, LockKept DEF IInv
<1>19. RequestsInv'
  <2> SUFFICES ASSUME NEW k \in Jobs, req[k].status \in Open
               PROVE  task'[k].pc # "none" /\ (task'[k].pc = "polling" \/ ~Recorded(k)')
    BY <1>3 DEF RequestsInv, Recorded
  <2>1. task[k].pc # "none" /\ (task[k].pc = "polling" \/ ~Recorded(k))
    BY DEF IInv, RequestsInv
  <2>2. k # j /\ task'[k] = task[k] /\ RecordOnward(k)
    BY <1>5, <1>6, <1>8, <2>1
  <2> QED
    BY <2>1, <2>2, StaysGone
<1>20. ServerInv'
  <2>1. \A k \in Jobs : task[k].pc # "none" => RecordOnward(k) /\ TaskOnward(k)
    BY <1>5, <1>8, <1>15
  <2>2. \A k \in Jobs : task[k].pc = "none" => task'[k].pc \notin Roomed
    BY <1>4, <1>6 DEF Roomed
  <2> QED
    BY <1>3, <1>10, <1>11, <1>13, <2>1, <2>2, ServerKept
<1> QED
  BY <1>11, <1>14, <1>16, <1>17, <1>18, <1>19, <1>20 DEF IInv

LEMMA CallStepsSafe == ASSUME IInv, NEW c \in Callers, CallSteps(c) PROVE IInv'
BY CallsSafe, StatusCallSafe, QueueExecutionSafe, OpenRuntimeSafe, InterruptSafe, QueueAbandonedSafe DEF CallSteps

-----------------------------------------------------------------------------
(* The theorems *)

LEMMA InitSafe == Init => IInv
<1> SUFFICES ASSUME Init PROVE IInv
  OBVIOUS
<1>1. TypeOK
  <2>1. 1 \in Cells /\ 0 \in 0..MaxPrompts
    BY LedgerAssumption, ExecutionAssumption DEF Cells
  <2>2. AbsentRoom \in Room /\ NoTask \in Task /\ NoRequest \in Request /\ Idle \in Sender /\ NoCall \in Call
    BY <2>1 DEF AbsentRoom, Room, LiveStates, NoTask, Task, NoRequest, Request, Idle, Sender, NoCall, Call
  <2>3. Unattributed \in [Cells -> Jobs \cup {NoJob}] /\ <<>> \in Seq(Jobs)
    BY DEF Unattributed
  <2> QED
    BY <2>2, <2>3, GoneTyped DEF Init, LedgerInit, TypeOK
<1>2. RoomsInv
  BY DEF Init, RoomsInv, AbsentRoom
<1>3. TasksInv
  BY DEF Init, LedgerInit, TasksInv, TaskInv, UnusedJob, NoTask, Recorded, Roomed, JobStatus, Active, Finished
<1>4. SendersInv
  BY DEF Init, SendersInv, Idle
<1>5. LockInv
  BY DEF Init, LockInv, NoTask, Working
<1>6. RequestsInv
  BY DEF Init, RequestsInv, NoRequest, Open
<1>7. ServerInv
  <2>1. \A a \in Actors : call[a].pc = "none"
    BY DEF Init, NoCall
  <2>2. CallsInv
    BY <2>1 DEF CallsInv, CallInv, Making
  <2>3. \A r \in RoomIds : rooms[r].kernel = NoKernel
    BY DEF Init, AbsentRoom
  <2>4. SessionsInv /\ OneInCharge
    BY <2>3, ExecutionAssumption DEF SessionsInv, OneInCharge
  <2>5. MapInv
    BY DEF MapInv, Placed, Recorded, Init, LedgerInit, UnusedJob, JobStatus, Active, Finished
  <2> QED
    BY <2>2, <2>4, <2>5 DEF ServerInv
<1> QED
  BY <1>1, <1>2, <1>3, <1>4, <1>5, <1>6, <1>7 DEF IInv

LEMMA StutterSafe == ASSUME IInv, UNCHANGED vars PROVE IInv'
<1>1. /\ UNCHANGED <<jobs, attribution, rooms, registered, current, session, up, call, lock, task, req>>
      /\ UNCHANGED <<awaiting, resumed, sender, stops, overtaken>>
  BY DEF vars
<1>2. TypeOK'
  BY <1>1 DEF IInv, TypeOK
<1>3. ServerUnchanged
  BY <1>1 DEF ServerUnchanged
<1> QED
  BY <1>1, <1>2, <1>3, RoomChanges, RecordsUnchanged, RoomsUnchanged

LEMMA NextSafe == ASSUME IInv, [Next]_vars PROVE IInv'
<1>1. CASE \E a \in Actors : EnsureSteps(a)
  BY <1>1, EnsureStepsSafe
<1>2. CASE \E c \in Callers : CallSteps(c)
  BY <1>2, CallStepsSafe
<1>3. CASE \E j \in Jobs : TaskSteps(j)
  BY <1>3, TaskStepsSafe
<1>4. CASE \E s \in Senders : StdinSteps(s)
  BY <1>4, StdinStepsSafe
<1>5. CASE \E s \in Senders, j \in Jobs : StdinCall(s, j)
  BY <1>5, StdinCallSafe
<1>6. CASE \E r \in RoomIds : DetachClient(r) \/ StopBegins(r) \/ StopEnds(r)
  BY <1>6, DetachClientSafe, StopBeginsSafe, StopEndsSafe
<1>7. CASE (\E k \in Kernels : KernelRestarts(k)) \/ (\E n \in Notebooks : LabOpens(n))
  BY <1>7, KernelRestartsSafe, LabOpensSafe
<1>8. CASE KernelSteps
  BY <1>8, RequestEndsSafe, AsksForInputSafe, KernelDiesSafe DEF KernelSteps
<1>9. CASE UNCHANGED vars
  BY <1>9, StutterSafe
<1> QED
  BY <1>1, <1>2, <1>3, <1>4, <1>5, <1>6, <1>7, <1>8, <1>9 DEF Next

(* The inductive invariant holds in every state of every instance. *)
THEOREM Inductive == Spec => []IInv
BY InitSafe, NextSafe, PTL DEF Spec

(* Rooms, sessions, calls, locks, tasks, requests and records keep their    *)
(* types.                                                                   *)
THEOREM TypeCorrect == Spec => []TypeOK
<1>1. IInv => TypeOK
  BY DEF IInv
<1> QED
  BY <1>1, Inductive, PTL

(* job_lock gives a kernel the request of one recorded job at a time, for   *)
(* any number of jobs, calls, rooms, kernels and disturbances, as long as   *)
(* no lookup has adopted the kernel's session behind another call: such     *)
(* jobs' rooms are in charge of the kernel, so they are one room, and a job *)
(* whose request is open stands first in its lock.                          *)
THEOREM JobsAreSerial == Spec => []SerialRequests
<1>1. ASSUME IInv PROVE SerialRequests
  <2> SUFFICES ASSUME NEW k \in Kernels \ overtaken, NEW i \in Unanswered(k), NEW j \in Unanswered(k),
                      Recorded(i), Recorded(j)
               PROVE  i = j
    BY DEF SerialRequests
  <2>1. ASSUME NEW h \in Unanswered(k), Recorded(h)
        PROVE  LET r == task[h].room
               IN /\ r \in RoomIds /\ rooms[r].kernel = k /\ InCharge(r)
                  /\ Head(lock[r]) = h
    <3>1. h \in Jobs /\ req[h].status \in Open /\ rooms[task[h].room].kernel = k
      BY DEF Unanswered, Open, KernelOf
    <3>2. task[h].pc \in Working /\ task[h].pc \in Roomed
      BY <1>1, <2>1, <3>1 DEF IInv, RequestsInv, Working, Roomed
    <3>3. task[h].room \in RoomIds
      BY <1>1, <3>1, <3>2 DEF IInv, TasksInv, TaskInv, TaskRoomed
    <3>4. InCharge(task[h].room)
      BY <2>1, <3>1, <3>2 DEF InCharge
    <3> QED
      BY <1>1, <3>1, <3>2, <3>3, <3>4 DEF IInv, LockInv
  <2>2. task[i].room = task[j].room
    BY <1>1, <2>1 DEF IInv, ServerInv, OneInCharge
  <2> QED
    BY <2>1, <2>2
<1> QED
  BY <1>1, Inductive, PTL

-----------------------------------------------------------------------------
(* How jobs end *)

(* An error is seen while its result is flushed or after the job; a record  *)
(* that has finished is that of a task that has ended.                      *)
OutcomeInv ==
  \A j \in Jobs :
    /\ ~task[j].ok => task[j].pc \in {"flushing", "ended"}
    /\ jobs[j].status \in Finished => task[j].pc = "ended"
    /\ jobs[j].status = "succeeded" => task[j].ok /\ task[j].cell = task[j].last

(* What a step may do to a job: nothing but what others do to its record,   *)
(* a step of its task, or its last step.                                    *)
Replied(j) == \E s \in Senders : Delivers(s) /\ sender[s].job = j

Rests(j) ==
  /\ task'[j] = task[j]
  /\ \/ jobs'[j].status \in {jobs[j].status, "gone"}
     \/ jobs[j].status = "unused" /\ jobs'[j].status = "queued"
     \/ jobs'[j].status = "awaiting_input" /\ task[j].pc = "polling"
     \/ jobs'[j].status = "running" /\ Replied(j)

GoesOn(j) ==
  /\ task[j].pc # "ended" /\ task'[j].pc # "ended"
  /\ task'[j].ok \/ task'[j].pc = "flushing"
  /\ jobs'[j].status \in {jobs[j].status, "gone", "queued", "running"}

Finishes(j) ==
  /\ task[j].pc \in Working /\ task'[j].pc = "ended"
  /\ task'[j].ok = task[j].ok /\ task'[j].cell = task[j].cell /\ task'[j].last = task[j].last
  /\ \/ jobs'[j].status = "succeeded" /\ task[j].ok /\ task[j].cell = task[j].last
     \/ jobs'[j].status \in {"failed", "gone"}
     \/ jobs'[j].status = jobs[j].status /\ ~Recorded(j)

JobStep(j) == Rests(j) \/ GoesOn(j) \/ Finishes(j)

-----------------------------------------------------------------------------
LEMMA KeptRests ==
  ASSUME NEW k \in Jobs, Kept(jobs[k], jobs'[k]), task'[k] = task[k]
  PROVE  JobStep(k)
BY DEF Kept, GoneJob, UnusedJob, JobStep, Rests

LEMMA LoggedRests ==
  ASSUME jobs \in [Jobs -> Job], NEW n \in Notebooks, NEW action \in JobAction, NEW r \in RoomIds,
         jobs' = Logged(jobs, n, action, r), UNCHANGED task
  PROVE  \A k \in Jobs : JobStep(k)
BY LoggedKeeps, KeptRests DEF JobStep, Rests

LEMMA QuietRests ==
  ASSUME UNCHANGED <<jobs, task>>
  PROVE  \A k \in Jobs : JobStep(k)
BY DEF JobStep, Rests

LEMMA EndsFinishes ==
  ASSUME IInv, NEW j \in Jobs, task[j].pc \in Working, NEW status \in {"failed", "succeeded"}, Ends(j, status),
         status = "succeeded" => task[j].ok /\ task[j].cell = task[j].last
  PROVE  \A k \in Jobs : JobStep(k)
<1>1. task \in [Jobs -> Task] /\ jobs \in [Jobs -> Job]
  BY DEF IInv, TypeOK
<1>2. /\ task'[j].pc = "ended" /\ task'[j].ok = task[j].ok
      /\ task'[j].cell = task[j].cell /\ task'[j].last = task[j].last
      /\ \A k \in Jobs \ {j} : task'[k] = task[k]
  BY <1>1 DEF Ends, Task
<1>3. /\ \A k \in Jobs \ {j} : Kept(jobs[k], jobs'[k])
      /\ jobs[j].status \notin JobStatus => jobs'[j] = jobs[j]
      /\ jobs[j].status \in JobStatus => jobs'[j].status = status \/ jobs'[j] = GoneJob
  BY <1>1, Typed, UpdatedKeeps DEF Ends
<1>4. Finishes(j)
  BY <1>2, <1>3 DEF Finishes, Recorded, GoneJob, UnusedJob
<1> QED
  BY <1>2, <1>3, <1>4, KeptRests DEF JobStep

(* A status is written while the task goes on. *)
LEMMA UpdatedGoesOn ==
  ASSUME IInv, NEW j \in Jobs, NEW status \in Active,
         jobs' = Updated(jobs, j, status, task[j].room) \/ jobs' = Updated(jobs, j, status, NoRoom),
         task[j].room \in RoomIds
  PROVE  /\ \A k \in Jobs \ {j} : Kept(jobs[k], jobs'[k])
         /\ jobs'[j].status \in {jobs[j].status, status}
<1>1. jobs \in [Jobs -> Job] /\ status \in JobStatus /\ status \notin Finished
  BY DEF IInv, TypeOK, JobStatus, Active, Finished
<1> QED
  BY <1>1, UpdatedKeeps

LEMMA OutcomeTask ==
  ASSUME IInv, OutcomeInv, NEW j \in Jobs, TaskSteps(j)
  PROVE  \A k \in Jobs : JobStep(k)
<1>1. task \in [Jobs -> Task] /\ jobs \in [Jobs -> Job]
  BY DEF IInv, TypeOK
<1>2. CASE TaskStarts(j)
  <2>1. PICK r \in RoomIds : task' = [task EXCEPT ![j] = [@ EXCEPT !.pc = "locking", !.room = r]]
    BY <1>2 DEF TaskStarts
  <2>2. /\ task[j].pc = "starting" /\ task'[j].pc = "locking" /\ task'[j].ok = task[j].ok
        /\ UNCHANGED jobs /\ \A k \in Jobs \ {j} : task'[k] = task[k]
    BY <1>1, <1>2, <2>1 DEF TaskStarts, Task, ledgerVars
  <2> QED
    BY <2>2 DEF OutcomeInv, JobStep, Rests, GoesOn
<1>3. CASE TaskCalls(j)
  BY <1>3, QuietRests DEF TaskCalls, EnsureCall, ledgerVars
<1>4. CASE TaskLocks(j)
  <2>1. /\ task[j].pc = "locking" /\ task'[j].pc = "preparing" /\ task'[j].ok = task[j].ok
        /\ \A k \in Jobs \ {j} : task'[k] = task[k]
    BY <1>1, <1>4 DEF TaskLocks, Task
  <2>2. task[j].room \in RoomIds
    BY <2>1 DEF IInv, TasksInv, TaskInv, TaskRoomed, Roomed
  <2>3. /\ \A k \in Jobs \ {j} : Kept(jobs[k], jobs'[k])
        /\ jobs'[j].status \in {jobs[j].status, "running"}
    BY <1>4, <2>2, UpdatedGoesOn DEF TaskLocks, Active
  <2>4. GoesOn(j)
    BY <2>1, <2>3 DEF GoesOn, OutcomeInv
  <2> QED
    BY <2>1, <2>3, <2>4, KeptRests DEF JobStep
<1>5. CASE TaskPuts(j)
  <2>1. CASE Recorded(j)
    <3>1. /\ task[j].pc = "preparing" /\ task'[j].pc = "polling" /\ task'[j].ok = task[j].ok
          /\ \A k \in Jobs \ {j} : task'[k] = task[k]
      BY <1>1, <1>5, <2>1 DEF TaskPuts, Task
    <3>2. \A k \in Jobs : jobs'[k].status = jobs[k].status
      BY <1>1, <1>5, <2>1, WithUidKeeps DEF TaskPuts
    <3> QED
      BY <3>1, <3>2 DEF OutcomeInv, JobStep, Rests, GoesOn
  <2>2. CASE ~Recorded(j)
    BY <1>5, <2>2, EndsFinishes DEF TaskPuts, Working
  <2> QED
    BY <2>1, <2>2
<1>6. CASE PrepareFails(j)
  BY <1>6, EndsFinishes DEF PrepareFails, Working
<1>7. CASE PollsPrompt(j)
  <2>1. CASE UNCHANGED <<jobs, task>>
    BY <2>1, QuietRests
  <2>2. CASE jobs' = Updated(jobs, j, "awaiting_input", NoRoom) /\ UNCHANGED task
    <3>1. task[j].pc = "polling" /\ task[j].room \in RoomIds
      BY <1>7 DEF PollsPrompt, IInv, TasksInv, TaskInv, TaskRoomed, Roomed
    <3>2. /\ \A k \in Jobs \ {j} : Kept(jobs[k], jobs'[k])
          /\ jobs'[j].status \in {jobs[j].status, "awaiting_input"}
      BY <2>2, <3>1, UpdatedGoesOn DEF Active
    <3>3. Rests(j)
      BY <2>2, <3>1, <3>2 DEF Rests
    <3> QED
      BY <2>2, <3>2, <3>3, KeptRests DEF JobStep
  <2>3. CASE Ends(j, "failed")
    BY <1>7, <2>3, EndsFinishes DEF PollsPrompt, Working
  <2> QED
    BY <1>7, <2>1, <2>2, <2>3 DEF PollsPrompt
<1>8. CASE PollsResult(j)
  <2>1. /\ task[j].pc = "polling" /\ task'[j].pc = "flushing"
        /\ \A k \in Jobs \ {j} : task'[k] = task[k]
    BY <1>1, <1>8 DEF PollsResult, Task
  <2> QED
    BY <1>8, <2>1 DEF PollsResult, JobStep, Rests, GoesOn, ledgerVars
<1>9. CASE PollRaises(j)
  BY <1>9, EndsFinishes DEF PollRaises, Working
<1>10. CASE Flushes(j)
  <2>1. CASE ~task[j].ok /\ Ends(j, "failed")
    BY <1>10, <2>1, EndsFinishes DEF Flushes, Working
  <2>2. CASE task[j].ok /\ task[j].cell = task[j].last /\ Ends(j, "succeeded")
    BY <1>10, <2>2, EndsFinishes DEF Flushes, Working
  <2>3. CASE /\ task[j].ok /\ UNCHANGED jobs
             /\ task' = [task EXCEPT ![j] = [@ EXCEPT !.pc = "preparing", !.cell = task[j].cell + 1]]
    <3>1. /\ task[j].pc = "flushing" /\ task'[j].pc = "preparing" /\ task'[j].ok = task[j].ok
          /\ \A k \in Jobs \ {j} : task'[k] = task[k]
      BY <1>1, <1>10, <2>3 DEF Flushes, Task
    <3> QED
      BY <2>3, <3>1 DEF JobStep, Rests, GoesOn
  <2> QED
    BY <1>10, <2>1, <2>2, <2>3 DEF Flushes
<1>11. CASE FlushFails(j)
  BY <1>11, EndsFinishes DEF FlushFails, Working
<1> QED
  BY <1>2, <1>3, <1>4, <1>5, <1>6, <1>7, <1>8, <1>9, <1>10, <1>11 DEF TaskSteps

LEMMA OutcomeQueue ==
  ASSUME IInv, OutcomeInv, NEW c \in Callers, NEW n \in Notebooks, NEW last \in Cells,
         QueueExecution(c, n, last)
  PROVE  \A k \in Jobs : JobStep(k)
<1>1. PICK j \in Jobs : j = NextJob /\ jobs[j].status = "unused"
  BY DEF QueueExecution, UnusedJobs, NextJob
<1>2. jobs \in [Jobs -> Job] /\ task \in [Jobs -> Task] /\ task[j].pc = "none"
  BY <1>1 DEF IInv, TypeOK, TasksInv, TaskInv
<1>3. /\ task'[j].pc = "starting" /\ task'[j].ok /\ \A k \in Jobs \ {j} : task'[k] = task[k]
  <2>1. task' = [task EXCEPT ![j] = [NoTask EXCEPT !.pc = "starting", !.nb = n, !.last = last]]
    BY <1>1 DEF QueueExecution
  <2> QED
    BY <1>2, <2>1 DEF NoTask
<1>4. jobs'[j].status = "queued" /\ \A k \in Jobs \ {j} : Kept(jobs[k], jobs'[k])
  <2>1. PICK r \in RoomIds : jobs' = Created(jobs, j, n, "execute", r)
    BY <1>1 DEF QueueExecution
  <2> QED
    BY <1>1, <1>2, <2>1, CreatedKeeps DEF JobAction
<1>5. GoesOn(j)
  BY <1>2, <1>3, <1>4 DEF GoesOn
<1> QED
  BY <1>3, <1>4, <1>5, KeptRests DEF JobStep

(* A task whose ensure_room fails is gone, its record stays as it is. *)
LEMMA OutcomeEnsure ==
  ASSUME IInv, OutcomeInv, NEW a \in Actors, EnsureSteps(a)
  PROVE  \A k \in Jobs : JobStep(k)
<1>1. CASE LookupFinds(a) \/ LookupMisses(a) \/ CreateReturns(a)
  BY <1>1, QuietRests DEF LookupFinds, LookupMisses, CreateReturns, ledgerVars
<1>2. CASE CreateFails(a)
  <2>1. CASE a \in Jobs
    <3>1. task[a].pc = "starting" /\ task \in [Jobs -> Task]
      BY <1>2, <2>1 DEF CreateFails, IInv, TypeOK, ServerInv, CallsInv, CallInv
    <3>2. UNCHANGED jobs /\ task' = [task EXCEPT ![a] = [@ EXCEPT !.pc = "died"]]
      BY <1>2, <2>1 DEF CreateFails, ledgerVars
    <3>3. /\ task'[a].pc = "died" /\ task'[a].ok = task[a].ok
          /\ \A k \in Jobs \ {a} : task'[k] = task[k]
      BY <2>1, <3>1, <3>2 DEF Task
    <3> QED
      BY <3>1, <3>2, <3>3 DEF OutcomeInv, JobStep, Rests, GoesOn
  <2>2. CASE a \notin Jobs
    BY <1>2, <2>2, QuietRests DEF CreateFails, ledgerVars
  <2> QED
    BY <2>1, <2>2
<1> QED
  BY <1>1, <1>2 DEF EnsureSteps

LEMMA OutcomeCall ==
  ASSUME IInv, OutcomeInv, NEW c \in Callers, CallSteps(c)
  PROVE  \A k \in Jobs : JobStep(k)
<1>1. ASSUME NEW n \in Notebooks, NEW op, Calls(c, op, n) PROVE \A k \in Jobs : JobStep(k)
  BY <1>1, QuietRests DEF Calls, EnsureCall, ledgerVars
<1>2. ASSUME NEW n \in Notebooks, StatusCall(c, n) \/ OpenRuntime(c, n)
      PROVE  \A k \in Jobs : JobStep(k)
  BY <1>2, QuietRests DEF StatusCall, OpenRuntime, ledgerVars
<1>3. ASSUME NEW n \in Notebooks, Interrupt(c, n) PROVE \A k \in Jobs : JobStep(k)
  <2>1. UNCHANGED task /\ \E r \in RoomIds : UNCHANGED jobs \/ jobs' = Logged(jobs, n, "interrupt", r)
    BY <1>3 DEF Interrupt
  <2> QED
    BY <2>1, QuietRests, LoggedRests DEF IInv, TypeOK, JobAction
<1>4. CASE QueueAbandoned(c)
  BY <1>4, QuietRests DEF QueueAbandoned, ledgerVars
<1> QED
  BY <1>1, <1>2, <1>3, <1>4, OutcomeQueue DEF CallSteps

LEMMA OutcomeReply ==
  ASSUME IInv, NEW s \in Senders, StdinReturns(s)
  PROVE  \A k \in Jobs : JobStep(k)
<1> DEFINE j == sender[s].job
           r == sender[s].room
           logged == Logged(jobs, task[j].nb, "stdin_reply", r)
<1>1. /\ j \in Jobs /\ task[j].pc # "none" /\ r \in RoomIds /\ UNCHANGED task
      /\ jobs' = Updated(logged, j, "running", r)
  BY DEF StdinReturns, IInv, TypeOK, Sender, SendersInv
<1>2. task[j].nb \in Notebooks /\ jobs[j].status # "unused" /\ "stdin_reply" \in JobAction /\ jobs \in [Jobs -> Job]
  BY <1>1 DEF IInv, TypeOK, TasksInv, TaskInv, JobAction
<1>3. /\ logged \in [Jobs -> Job]
      /\ \A k \in Jobs : \/ Kept(jobs[k], logged[k])
                         \/ jobs[k].status = "unused" /\ logged[k].status = "queued"
  BY <1>1, <1>2, LoggedKeeps
<1> HIDE DEF j, r, logged
<1>4. /\ \A k \in Jobs \ {j} : Kept(logged[k], jobs'[k])
      /\ jobs'[j].status \in {logged[j].status, "running"}
  <2>1. "running" \in JobStatus /\ "running" \notin Finished
    BY DEF JobStatus, Active, Finished
  <2> QED
    BY <1>1, <1>3, <2>1, UpdatedKeeps
<1>5. ASSUME NEW k \in Jobs \ {j} PROVE JobStep(k)
  BY <1>1, <1>3, <1>4 DEF Kept, GoneJob, UnusedJob, Finished, JobStep, Rests
<1>6. Replied(j)
  <2>1. j # NoJob /\ j = sender[s].job /\ sender'[s] = Idle
    BY <1>1, LedgerAssumption DEF j, StdinReturns, IInv, TypeOK
  <2>2. PICK i \in PendingIn(rooms[sender[s].room].kernel) : req' = [req EXCEPT ![i] = [@ EXCEPT !.status = "replied"]]
    BY DEF StdinReturns
  <2>3. i \in Jobs /\ req[i].status = "input" /\ req \in [Jobs -> Request]
    BY <2>2 DEF PendingIn, IInv, TypeOK
  <2>4. req'[i].status = "replied"
    BY <2>2, <2>3 DEF Request
  <2>5. req' # req
    BY <2>3, <2>4
  <2> QED
    BY <2>1, <2>5 DEF Replied, Delivers
<1>7. JobStep(j)
  BY <1>1, <1>2, <1>3, <1>4, <1>6 DEF Kept, GoneJob, UnusedJob, JobStep, Rests
<1> QED
  BY <1>5, <1>7

LEMMA OutcomeStep ==
  ASSUME IInv, OutcomeInv, [Next]_vars
  PROVE  \A k \in Jobs : JobStep(k)
<1>1. CASE \E a \in Actors : EnsureSteps(a)
  BY <1>1, OutcomeEnsure
<1>2. CASE \E c \in Callers : CallSteps(c)
  BY <1>2, OutcomeCall
<1>3. CASE \E j \in Jobs : TaskSteps(j)
  BY <1>3, OutcomeTask
<1>4. CASE \E s \in Senders : StdinSteps(s)
  <2>1. CASE \E s \in Senders : StdinGoesOn(s) \/ StdinFails(s)
    BY <2>1, QuietRests DEF StdinGoesOn, StdinFails, ledgerVars
  <2>2. CASE \E s \in Senders : StdinReturns(s)
    BY <2>2, OutcomeReply
  <2> QED
    BY <1>4, <2>1, <2>2 DEF StdinSteps
<1>5. CASE \E s \in Senders, j \in Jobs : StdinCall(s, j)
  BY <1>5, QuietRests DEF StdinCall, EnsureCall, ledgerVars
<1>6. CASE \E r \in RoomIds : DetachClient(r) \/ StopBegins(r) \/ StopEnds(r)
  <2>1. UNCHANGED task /\ (UNCHANGED jobs \/ \E n : jobs' = Evicted(jobs, n))
    BY <1>6 DEF DetachClient, StopBegins, StopEnds, RemoveRoom, ledgerVars
  <2>2. jobs \in [Jobs -> Job]
    BY DEF IInv, TypeOK
  <2>3. ASSUME NEW n, jobs' = Evicted(jobs, n) PROVE \A k \in Jobs : JobStep(k)
    BY <2>1, <2>2, <2>3, EvictedForgets DEF JobStep, Rests, GoneJob, UnusedJob
  <2> QED
    BY <2>1, <2>3, QuietRests
<1>7. CASE (\E k \in Kernels : KernelRestarts(k)) \/ (\E n \in Notebooks : LabOpens(n))
  BY <1>7, QuietRests DEF KernelRestarts, LabOpens, ledgerVars
<1>8. CASE KernelSteps
  BY <1>8, QuietRests DEF KernelSteps, RequestEnds, AsksForInput, KernelDies, ledgerVars
<1>9. CASE UNCHANGED vars
  BY <1>9, QuietRests DEF vars
<1> QED
  BY <1>1, <1>2, <1>3, <1>4, <1>5, <1>6, <1>7, <1>8, <1>9 DEF Next

LEMMA OutcomeNext == ASSUME IInv, OutcomeInv, [Next]_vars PROVE OutcomeInv'
<1> SUFFICES ASSUME NEW j \in Jobs
             PROVE  /\ ~task'[j].ok => task'[j].pc \in {"flushing", "ended"}
                    /\ jobs'[j].status \in Finished => task'[j].pc = "ended"
                    /\ jobs'[j].status = "succeeded" => task'[j].ok /\ task'[j].cell = task'[j].last
  BY DEF OutcomeInv
<1>1. JobStep(j)
  BY OutcomeStep
<1>2. CASE Rests(j)
  BY <1>2 DEF Rests, OutcomeInv, Finished
<1>3. CASE GoesOn(j)
  BY <1>3 DEF GoesOn, OutcomeInv, Finished
<1>4. CASE Finishes(j)
  BY <1>4 DEF Finishes, OutcomeInv, Finished, Recorded, JobStatus
<1> QED
  BY <1>1, <1>2, <1>3, <1>4 DEF JobStep

LEMMA OutcomeInit == Init => OutcomeInv
BY DEF Init, LedgerInit, OutcomeInv, NoTask, UnusedJob, Finished

(* A finished record is that of an ended task, and an error ends the job. *)
THEOREM OutcomeAlways == Spec => []OutcomeInv
BY OutcomeInit, OutcomeNext, Inductive, PTL DEF Spec

(* A job is recorded as succeeded only if it ran its last cell and saw no   *)
(* error, and after an error its task does nothing but end.                 *)
THEOREM FirstErrorEndsJobAlways == Spec => []FirstErrorEndsJob
<1>1. OutcomeInv => FirstErrorEndsJob
  BY DEF OutcomeInv, FirstErrorEndsJob
<1> QED
  BY <1>1, OutcomeAlways, PTL

(* An execution that the ledger shows as active has a task that has not     *)
(* ended, but for a reply delivered late, which writes "running" over a     *)
(* last status: every way out of the task's try block writes one.           *)
THEOREM ActiveJobHasTaskAlways == Spec => ActiveJobHasTask
<1>1. ASSUME IInv, OutcomeInv, [Next]_vars, NEW j \in Jobs, ShownIdle(j)', ~ShownIdle(j)
      PROVE  Replied(j)
  <2>1. JobStep(j)
    BY <1>1, OutcomeStep
  <2>2. jobs[j].status = "unused" => task[j].pc = "none"
    BY <1>1 DEF IInv, TasksInv, TaskInv
  <2>3. CASE Rests(j)
    BY <1>1, <2>2, <2>3 DEF Rests, ShownIdle, Active
  <2>4. CASE GoesOn(j)
    BY <1>1, <2>4 DEF GoesOn, ShownIdle
  <2>5. CASE Finishes(j)
    BY <1>1, <2>5 DEF Finishes, ShownIdle, Active, Recorded, JobStatus
  <2> QED
    BY <2>1, <2>3, <2>4, <2>5 DEF JobStep
<1>2. ASSUME IInv, OutcomeInv, [Next]_vars
      PROVE  [\A j \in Jobs : ShownIdle(j)' /\ ~ShownIdle(j) =>
                \E s \in Senders : Delivers(s) /\ sender[s].job = j]_vars
  BY <1>1, <1>2 DEF Replied
<1> QED
  BY <1>2, Inductive, OutcomeAlways, PTL DEF Spec, ActiveJobHasTask
-----------------------------------------------------------------------------
(* What a step does to the rooms' jobs and to those that await input *)

(* A notebook's room counts no job it did not, or is new. *)
CountsNoMore(n) ==
  current'[n] # NoRoom =>
    \/ rooms'[current'[n]].jobs = {}
    \/ current'[n] = current[n] /\ rooms'[current'[n]].jobs \subseteq rooms[current[n]].jobs

(* No room comes to await input. *)
AwaitsNoMore ==
  \A r \in registered' : rooms'[r].state = "awaiting-input" =>
    r \in registered /\ rooms[r].state = "awaiting-input"

RoomsSettle == AwaitsNoMore /\ \A n \in Notebooks : CountsNoMore(n)

RoomSettles(q) ==
  /\ rooms'[q].jobs \subseteq rooms[q].jobs
  /\ rooms'[q].state = "awaiting-input" => rooms[q].state = "awaiting-input"

LEMMA FewerSettle ==
  ASSUME IInv, \A q \in RoomIds : RoomSettles(q), registered' \subseteq registered,
         \A n \in Notebooks : current'[n] \in {current[n], NoRoom}
  PROVE  RoomsSettle
<1>1. AwaitsNoMore
  BY DEF AwaitsNoMore, RoomSettles, IInv, TypeOK
<1>2. \A n \in Notebooks : CountsNoMore(n)
  BY DEF CountsNoMore, RoomSettles, IInv, TypeOK
<1> QED
  BY <1>1, <1>2 DEF RoomsSettle

LEMMA SameSettle ==
  ASSUME IInv, UNCHANGED <<registered, current>>, \A q \in RoomIds : RoomSettles(q)
  PROVE  RoomsSettle
BY FewerSettle

LEMMA QuietSettle == ASSUME IInv, UNCHANGED runtimeVars PROVE RoomsSettle
<1>1. UNCHANGED <<rooms, registered, current>>
  BY DEF runtimeVars
<1>2. \A q \in RoomIds : RoomSettles(q)
  BY <1>1 DEF RoomSettles
<1> QED
  BY <1>1, <1>2, SameSettle

LEMMA NewSettles ==
  ASSUME IInv, NEW n \in Notebooks, NEW r \in RoomIds, rooms[r].state = "absent", Registers(n, r),
         NEW before \in [RoomIds -> Room],
         \A q \in RoomIds : /\ before[q].jobs \subseteq rooms[q].jobs
                            /\ before[q].state = "awaiting-input" => rooms[q].state = "awaiting-input",
         NEW room \in Room, room.jobs = {}, room.state # "awaiting-input",
         rooms' = [before EXCEPT ![r] = room]
  PROVE  RoomsSettle
<1>1. \A q \in RoomIds \ {r} : RoomSettles(q)
  BY DEF RoomSettles
<1>2. rooms'[r].jobs = {} /\ rooms'[r].state # "awaiting-input"
  OBVIOUS
<1>3. registered' = registered \cup {r} /\ current' = [current EXCEPT ![n] = r] /\ registered \subseteq RoomIds
      /\ current \in [Notebooks -> RoomIds \cup {NoRoom}]
  BY DEF Registers, IInv, TypeOK
<1>4. AwaitsNoMore
  BY <1>1, <1>2, <1>3 DEF AwaitsNoMore, RoomSettles
<1>5. ASSUME NEW m \in Notebooks PROVE CountsNoMore(m)
  <2>1. CASE m = n
    BY <1>2, <1>3, <2>1 DEF CountsNoMore
  <2>2. CASE m # n
    <3>1. current'[m] = current[m] /\ (current[m] # NoRoom => current[m] \in RoomIds \ {r})
      BY <1>3, <2>2 DEF IInv, RoomsInv
    <3> QED
      BY <1>1, <3>1 DEF CountsNoMore, RoomSettles
  <2> QED
    BY <2>1, <2>2
<1> QED
  BY <1>4, <1>5 DEF RoomsSettle

LEMMA RefreshedSettles ==
  ASSUME IInv, NEW n \in Notebooks, current[n] # NoRoom
  PROVE  /\ Refreshed(n) \in [RoomIds -> Room]
         /\ \A q \in RoomIds :
              /\ Refreshed(n)[q].jobs \subseteq rooms[q].jobs
              /\ Refreshed(n)[q].state = "awaiting-input" => rooms[q].state = "awaiting-input"
<1>1. \A x \in Room : [x EXCEPT !.state = "stopped"].state = "stopped"
  BY DEF Room
<1>2. rooms \in [RoomIds -> Room]
  BY DEF IInv, TypeOK
<1>3. \A q \in RoomIds : Refreshed(n)[q] \in {rooms[q], [rooms[q] EXCEPT !.state = "stopped"]}
  BY DEF Refreshed
<1> QED
  BY <1>1, <1>2, <1>3, RefreshedRooms

LEMMA CreatesSettles ==
  ASSUME IInv, NEW n \in Notebooks, current[n] # NoRoom, NEW a, NEW op, CreatesRoom(a, op, n)
  PROVE  RoomsSettle
<1>1. PICK r \in RoomIds : r = NextRoom /\ rooms[r].state = "absent"
  BY NextIsFresh DEF CreatesRoom
<1>2. rooms' = [Refreshed(n) EXCEPT ![r] = NewRoom(n, "starting", NoKernel)] /\ Registers(n, r)
  BY <1>1 DEF CreatesRoom
<1>3. NewRoom(n, "starting", NoKernel) \in Room /\ NewRoom(n, "starting", NoKernel).jobs = {}
      /\ NewRoom(n, "starting", NoKernel).state = "starting"
  BY RoomMade DEF RoomStates
<1> HIDE DEF NewRoom
<1> QED
  BY <1>1, <1>2, <1>3, RefreshedSettles, NewSettles

LEMMA EnsureCallSettles ==
  ASSUME IInv, NEW n \in Notebooks, NEW a, NEW op, EnsureCall(a, op, n)
  PROVE  RoomsSettle
BY CreatesSettles, QuietSettle DEF EnsureCall

LEMMA RoomWrittenSettles ==
  ASSUME IInv, NEW r \in RoomIds, NEW room \in Room, room.jobs \subseteq rooms[r].jobs,
         room.state = "awaiting-input" => rooms[r].state = "awaiting-input",
         rooms' = [rooms EXCEPT ![r] = room]
  PROVE  \A q \in RoomIds : RoomSettles(q)
BY DEF RoomSettles, IInv, TypeOK

LEMMA EnsureSettles == ASSUME IInv, NEW a \in Actors, EnsureSteps(a) PROVE RoomsSettle
<1> DEFINE n == call[a].nb
<1>0. /\ rooms \in [RoomIds -> Room]
      /\ \A q \in RoomIds : /\ rooms[q].jobs \subseteq rooms[q].jobs
                            /\ rooms[q].state = "awaiting-input" => rooms[q].state = "awaiting-input"
  BY DEF IInv, TypeOK
<1>1. CASE LookupFinds(a)
  <2>1. PICK r \in RoomIds : r = NextRoom /\ rooms[r].state = "absent"
    BY <1>1, NextIsFresh DEF LookupFinds
  <2>2. n \in Notebooks /\ up \subseteq Kernels
    BY <1>1, Suspended DEF LookupFinds, IInv, TypeOK
  <2>3. PICK k \in Kernels : rooms' = [rooms EXCEPT ![r] = NewRoom(n, "live-detached", k)] /\ Registers(n, r)
    BY <1>1, <2>1, <2>2 DEF LookupFinds, SessionsUp
  <2>4. NewRoom(n, "live-detached", k) \in Room /\ NewRoom(n, "live-detached", k).jobs = {}
        /\ NewRoom(n, "live-detached", k).state = "live-detached"
    BY <2>2, RoomMade DEF RoomStates, LiveStates
  <2> HIDE DEF n, NewRoom
  <2> QED
    BY <1>0, <2>1, <2>2, <2>3, <2>4, NewSettles
<1>2. CASE LookupMisses(a)
  <2>1. CASE UNCHANGED runtimeVars
    BY <2>1, QuietSettle
  <2>2. CASE ~UNCHANGED runtimeVars
    <3>1. PICK r \in RoomIds : r = NextRoom /\ rooms[r].state = "absent"
      BY <1>2, <2>2, NextIsFresh DEF LookupMisses
    <3>2. n \in Notebooks
      BY <1>2, Suspended DEF LookupMisses
    <3>3. rooms' = [rooms EXCEPT ![r] = NewRoom(n, "starting", NoKernel)] /\ Registers(n, r)
      BY <1>2, <2>2, <3>1 DEF LookupMisses
    <3> HIDE DEF n
    <3>4. NewRoom(n, "starting", NoKernel) \in Room /\ NewRoom(n, "starting", NoKernel).jobs = {}
          /\ NewRoom(n, "starting", NoKernel).state = "starting"
      BY <3>2, RoomMade DEF RoomStates
    <3> HIDE DEF NewRoom
    <3> QED
      BY <1>0, <3>1, <3>2, <3>3, <3>4, NewSettles
  <2> QED
    BY <2>1, <2>2
<1>3. CASE CreateReturns(a)
  <2>1. PICK k \in Kernels : k = NextKernel
    BY <1>3 DEF CreateReturns, NextKernel, FreshKernels
  <2>2. PICK r \in RoomIds : r = call[a].room
    BY <1>3 DEF CreateReturns, IInv, ServerInv, CallsInv, CallInv, Making
  <2> DEFINE room == [rooms[r] EXCEPT !.kernel = k, !.state = "live-detached"]
  <2>3. /\ rooms' = [rooms EXCEPT ![r] = room] /\ UNCHANGED <<registered, current>>
    BY <1>3, <2>1, <2>2 DEF CreateReturns
  <2>4. room \in Room /\ room.jobs = rooms[r].jobs /\ room.state = "live-detached"
    BY <1>0 DEF Room, LiveStates
  <2> HIDE DEF room
  <2> QED
    BY <2>4, <2>3, RoomWrittenSettles, SameSettle
<1>4. CASE CreateFails(a)
  <2> DEFINE r == call[a].room
             room == [rooms[r] EXCEPT !.state = "failed"]
  <2>1. r \in RoomIds
    BY <1>4 DEF CreateFails, IInv, ServerInv, CallsInv, CallInv, Making
  <2>2. rooms' = [rooms EXCEPT ![r] = room] /\ UNCHANGED <<registered, current>>
    BY <1>4 DEF CreateFails
  <2>3. room \in Room /\ room.jobs = rooms[r].jobs /\ room.state = "failed"
    BY <1>0, <2>1 DEF Room
  <2> HIDE DEF r, room
  <2> QED
    BY <2>1, <2>2, <2>3, RoomWrittenSettles, SameSettle
<1> QED
  BY <1>1, <1>2, <1>3, <1>4 DEF EnsureSteps

LEMMA CallSettles ==
  ASSUME IInv, NEW c \in Callers, CallSteps(c),
         ~\E n \in Notebooks, last \in Cells : QueueExecution(c, n, last)
  PROVE  RoomsSettle
<1>0. rooms \in [RoomIds -> Room]
  BY DEF IInv, TypeOK
<1>1. ASSUME NEW n \in Notebooks, NEW op, Calls(c, op, n) PROVE RoomsSettle
  BY <1>1, EnsureCallSettles DEF Calls
<1>2. ASSUME NEW n \in Notebooks, StatusCall(c, n) PROVE RoomsSettle
  <2>1. CASE current[n] # NoRoom /\ rooms' = Refreshed(n)
    <3>1. \A q \in RoomIds : RoomSettles(q)
      BY <2>1, RefreshedSettles DEF RoomSettles
    <3> QED
      BY <1>2, <3>1, SameSettle DEF StatusCall
  <2>2. CASE UNCHANGED rooms
    BY <1>2, <2>2, QuietSettle DEF StatusCall, runtimeVars
  <2> QED
    BY <1>2, <2>1, <2>2 DEF StatusCall
<1>3. ASSUME NEW n \in Notebooks, OpenRuntime(c, n) PROVE RoomsSettle
  <2>1. PICK r \in RoomIds : rooms' = [rooms EXCEPT ![r] = [@ EXCEPT !.clients = TRUE, !.state = "live-attached"]]
    BY <1>3 DEF OpenRuntime
  <2> DEFINE room == [rooms[r] EXCEPT !.clients = TRUE, !.state = "live-attached"]
  <2>2. room \in Room /\ room.jobs = rooms[r].jobs /\ room.state = "live-attached"
    BY <1>0 DEF Room, LiveStates
  <2>3. rooms' = [rooms EXCEPT ![r] = room]
    BY <2>1
  <2> HIDE DEF room
  <2> QED
    BY <1>3, <2>2, <2>3, RoomWrittenSettles, SameSettle DEF OpenRuntime
<1>4. CASE QueueAbandoned(c) \/ \E n \in Notebooks : Interrupt(c, n)
  BY <1>4, QuietSettle DEF QueueAbandoned, Interrupt
<1> QED
  BY <1>1, <1>2, <1>3, <1>4 DEF CallSteps

LEMMA StdinSettles ==
  ASSUME IInv, NEW s \in Senders, StdinSteps(s) \/ \E j \in Jobs : StdinCall(s, j)
  PROVE  RoomsSettle
<1>1. CASE StdinGoesOn(s) \/ StdinFails(s)
  BY <1>1, QuietSettle DEF StdinGoesOn, StdinFails
<1>2. CASE StdinReturns(s)
  <2> DEFINE r == sender[s].room
             state == IF rooms[r].clients THEN "live-attached" ELSE "live-detached"
             room == [rooms[r] EXCEPT !.state = state]
  <2>1. r \in RoomIds /\ rooms \in [RoomIds -> Room] /\ UNCHANGED <<registered, current>>
    BY <1>2 DEF StdinReturns, IInv, TypeOK, Sender
  <2>2. UNCHANGED rooms \/ rooms' = [rooms EXCEPT ![r] = room]
    BY <1>2 DEF StdinReturns
  <2>3. state \in {"live-attached", "live-detached"}
    OBVIOUS
  <2> HIDE DEF r, state
  <2>4. room \in Room /\ room.jobs = rooms[r].jobs /\ room.state = state
    BY <2>1, <2>3 DEF Room, LiveStates
  <2> HIDE DEF room
  <2> QED
    BY <2>1, <2>2, <2>3, <2>4, RoomWrittenSettles, SameSettle, QuietSettle DEF runtimeVars
<1>3. ASSUME NEW j \in Jobs, StdinCall(s, j) PROVE RoomsSettle
  <2>1. jobs[j].nb \in Notebooks
    BY <1>3 DEF StdinCall, IInv, TasksInv, TaskInv, Recorded, JobStatus, Active
  <2> QED
    BY <1>3, <2>1, EnsureCallSettles, QuietSettle DEF StdinCall
<1> QED
  BY <1>1, <1>2, <1>3 DEF StdinSteps

LEMMA UsersSettle ==
  ASSUME IInv, NEW r \in RoomIds, DetachClient(r) \/ StopBegins(r) \/ StopEnds(r)
  PROVE  RoomsSettle
<1>0. rooms \in [RoomIds -> Room] /\ current \in [Notebooks -> RoomIds \cup {NoRoom}]
  BY DEF IInv, TypeOK
<1>1. CASE DetachClient(r)
  <2> DEFINE state == IF rooms[r].state = "live-attached" THEN "live-detached" ELSE rooms[r].state
             room == [rooms[r] EXCEPT !.clients = FALSE, !.state = state]
  <2>1. rooms' = [rooms EXCEPT ![r] = room] /\ UNCHANGED <<registered, current>>
    BY <1>1 DEF DetachClient
  <2>2. state \in RoomStates /\ (state = "awaiting-input" => rooms[r].state = "awaiting-input")
    BY <1>0 DEF RoomStates, LiveStates, Room
  <2> HIDE DEF state
  <2>3. room \in Room /\ room.jobs = rooms[r].jobs /\ room.state = state
    BY <1>0, <2>2, RoomWithClients
  <2> HIDE DEF room
  <2> QED
    BY <2>1, <2>2, <2>3, RoomWrittenSettles, SameSettle
<1>2. CASE RemoveRoom(r)
  <2> DEFINE room == [rooms[r] EXCEPT !.state = "stopped", !.clients = FALSE, !.jobs = {}]
  <2>1. /\ rooms' = [rooms EXCEPT ![r] = room] /\ registered' \subseteq registered
        /\ \A n \in Notebooks : current'[n] \in {current[n], NoRoom}
    BY <1>0, <1>2 DEF RemoveRoom
  <2>2. room \in Room /\ room.jobs = {} /\ room.state = "stopped"
    BY <1>0 DEF Room
  <2> HIDE DEF room
  <2> QED
    BY <2>1, <2>2, RoomWrittenSettles, FewerSettle
<1>3. CASE rooms' = [rooms EXCEPT ![r] = [@ EXCEPT !.state = "stopping"]] /\ UNCHANGED <<registered, current>>
  <2> DEFINE room == [rooms[r] EXCEPT !.state = "stopping"]
  <2>1. room \in Room /\ room.jobs = rooms[r].jobs /\ room.state = "stopping"
    BY <1>0 DEF Room
  <2>2. rooms' = [rooms EXCEPT ![r] = room]
    BY <1>3
  <2> HIDE DEF room
  <2> QED
    BY <1>3, <2>1, <2>2, RoomWrittenSettles, SameSettle
<1> QED
  BY <1>1, <1>2, <1>3 DEF StopBegins, StopEnds

-----------------------------------------------------------------------------
(* The jobs a runtime counts *)

(* A job the notebook's room counts has a task that runs and has no call of *)
(* ensure_room in flight: as it makes one the notebook has no room, or gets *)
(* one that counts none.                                                    *)
CountedInv ==
  \A n \in Notebooks : current[n] # NoRoom =>
    \A j \in rooms[current[n]].jobs : task[j].pc \notin {"ended", "died"} /\ call[j].pc = "none"

(* The step leaves the job as it is, or it is not one that ends, or it was  *)
(* not counted.                                                             *)
CountedStays(j) ==
  \/ task'[j] = task[j] /\ call'[j] = call[j]
  \/ task'[j].pc \notin {"ended", "died"} /\ call'[j].pc = "none"
  \/ call[j].pc # "none"

LEMMA CountedStep ==
  ASSUME TypeOK, TypeOK', CountedInv, RoomsSettle, \A j \in Jobs : CountedStays(j)
  PROVE  CountedInv'
<1> SUFFICES ASSUME NEW n \in Notebooks, current'[n] # NoRoom, NEW j \in rooms'[current'[n]].jobs
             PROVE  task'[j].pc \notin {"ended", "died"} /\ call'[j].pc = "none"
  BY DEF CountedInv
<1>1. current'[n] \in RoomIds /\ j \in Jobs
  BY DEF TypeOK, Room
<1>2. current[n] # NoRoom /\ j \in rooms[current[n]].jobs
  BY DEF RoomsSettle, CountsNoMore
<1> QED
  BY <1>1, <1>2 DEF CountedStays, CountedInv

LEMMA CountedQuiet ==
  ASSUME TypeOK, TypeOK', CountedInv, RoomsSettle, UNCHANGED task, \A j \in Jobs : call'[j] = call[j]
  PROVE  CountedInv'
BY CountedStep DEF CountedStays

(* The call of somebody who is no task *)
LEMMA OtherCall ==
  ASSUME TypeOK, NEW a \in Callers \cup Senders, NEW c, call' = [call EXCEPT ![a] = c]
  PROVE  \A j \in Jobs : call'[j] = call[j]
BY CallersCall DEF TypeOK

(* The job that ends leaves the notebook's room, the only one counted. *)
LEMMA EndsUncounts ==
  ASSUME IInv, CountedInv, NEW j \in Jobs, task[j].pc \in Working, NEW status, Ends(j, status)
  PROVE  CountedInv'
<1> SUFFICES ASSUME NEW n \in Notebooks, current[n] # NoRoom, NEW k \in rooms'[current[n]].jobs
             PROVE  task'[k].pc \notin {"ended", "died"} /\ call[k].pc = "none"
  BY DEF Ends, CountedInv
<1> DEFINE r == current[n]
<1>1. /\ r \in RoomIds /\ rooms[r].nb = n /\ rooms[r] \in Room /\ task \in [Jobs -> Task]
  BY DEF IInv, TypeOK, RoomsInv
<1>2. rooms'[r].jobs = IF r = current[task[j].nb] THEN rooms[r].jobs \ {j} ELSE rooms[r].jobs
  BY <1>1 DEF Ends, AfterJob, Room
<1>3. k \in rooms[r].jobs /\ k \in Jobs
  BY <1>1, <1>2 DEF Room
<1>4. k # j
  <2>1. task[k].nb = n
    BY <1>1, <1>3 DEF IInv, RoomsInv
  <2> QED
    BY <1>2, <2>1
<1>5. task'[k] = task[k]
  BY <1>1, <1>3, <1>4 DEF Ends
<1> QED
  BY <1>3, <1>5 DEF CountedInv

(* The call of a task: its notebook has no room that counts it. *)
LEMMA CountedCall ==
  ASSUME IInv, IInv', CountedInv, NEW j \in Jobs, TaskCalls(j)
  PROVE  CountedInv'
<1>1. /\ EnsureCall(j, "run", task[j].nb) /\ task[j].nb \in Notebooks /\ UNCHANGED task
  BY DEF TaskCalls, EnsureCall, IInv, TasksInv, TaskInv
<1>2. RoomsSettle /\ TypeOK /\ TypeOK'
  BY <1>1, EnsureCallSettles DEF IInv
<1>3. PICK c : call' = [call EXCEPT ![j] = c]
  BY <1>1 DEF EnsureCall, CreatesRoom, Suspends
<1> SUFFICES ASSUME NEW n \in Notebooks, current'[n] # NoRoom, NEW k \in rooms'[current'[n]].jobs
             PROVE  task'[k].pc \notin {"ended", "died"} /\ call'[k].pc = "none"
  BY DEF CountedInv
<1>4. current[n] # NoRoom /\ k \in rooms[current[n]].jobs /\ current'[n] = current[n]
  BY <1>2 DEF RoomsSettle, CountsNoMore
<1>5. k \in Jobs /\ task[k].nb = n
  BY <1>4 DEF IInv, TypeOK, Room, RoomsInv
<1>6. k # j
  <2>1. CASE CreatesRoom(j, "run", task[j].nb)
    <3>1. current' = [current EXCEPT ![task[j].nb] = NextRoom] /\ rooms[NextRoom].state = "absent"
      BY <2>1, NextIsFresh DEF CreatesRoom, Registers
    <3>2. k = j => current'[n] = NextRoom
      BY <1>1, <1>5, <3>1 DEF IInv, TypeOK
    <3>3. rooms[current[n]].state # "absent"
      BY <1>4 DEF IInv, RoomsInv
    <3> QED
      BY <1>4, <3>1, <3>2, <3>3
  <2>2. CASE current[task[j].nb] = NoRoom
    BY <1>4, <1>5, <2>2
  <2> QED
    BY <1>1, <2>1, <2>2 DEF EnsureCall
<1>7. call'[k] = call[k]
  BY <1>2, <1>3, <1>5, <1>6, CallersCall DEF TypeOK
<1> QED
  BY <1>1, <1>4, <1>7 DEF CountedInv

LEMMA CountedTask ==
  ASSUME IInv, IInv', CountedInv, NEW j \in Jobs, TaskSteps(j)
  PROVE  CountedInv'
<1>1. /\ task \in [Jobs -> Task] /\ rooms \in [RoomIds -> Room] /\ TypeOK /\ TypeOK'
      /\ call \in [Actors -> Call]
  BY DEF IInv, TypeOK
<1>2. CASE TaskStarts(j)
  <2>1. PICK r \in RoomIds : /\ Answers(j, "run", task[j].nb, r)
                             /\ task' = [task EXCEPT ![j] = [@ EXCEPT !.pc = "locking", !.room = r]]
    BY <1>2 DEF TaskStarts
  <2>2. task'[j].pc = "locking" /\ call'[j].pc = "none"
        /\ \A k \in Jobs \ {j} : task'[k] = task[k] /\ call'[k] = call[k]
    BY <1>1, <2>1, CallersCall DEF Task, Answers, NoCall
  <2>3. \A k \in Jobs : CountedStays(k)
    BY <2>2 DEF CountedStays
  <2>4. RoomsSettle
    BY <1>2, QuietSettle DEF TaskStarts
  <2> QED
    BY <1>1, <2>3, <2>4, CountedStep
<1>3. CASE TaskCalls(j)
  BY <1>3, CountedCall
<1>4. ASSUME UNCHANGED <<registered, current, call>>,
             \A q \in RoomIds : rooms'[q].jobs \subseteq rooms[q].jobs,
             task'[j].pc \in Working, task[j].pc \in Holding, \A k \in Jobs \ {j} : task'[k] = task[k]
      PROVE  CountedInv'
  <2>1. call[j].pc = "none"
    BY <1>4, CallersCall DEF IInv, ServerInv, CallsInv, CallInv, Holding, Working
  <2> SUFFICES ASSUME NEW n \in Notebooks, current[n] # NoRoom, NEW k \in rooms'[current[n]].jobs
               PROVE  task'[k].pc \notin {"ended", "died"} /\ call[k].pc = "none"
    BY <1>4 DEF CountedInv
  <2>2. current[n] \in RoomIds /\ k \in rooms[current[n]].jobs
    BY <1>4 DEF IInv, TypeOK
  <2>3. k \in Jobs /\ task[k].pc \notin {"ended", "died"} /\ call[k].pc = "none"
    BY <1>1, <2>2 DEF Room, CountedInv
  <2> QED
    BY <1>4, <2>3 DEF Working
<1>5. ASSUME task[j].pc \in Working, NEW status, Ends(j, status) PROVE CountedInv'
  BY <1>5, EndsUncounts
<1>6. ASSUME UNCHANGED <<runtimeVars, call>>, task[j].pc \in Holding,
             NEW t, t.pc \in Working, task' = [task EXCEPT ![j] = t]
      PROVE  CountedInv'
  BY <1>1, <1>4, <1>6 DEF runtimeVars
<1>7. CASE TaskLocks(j)
  <2>1. [task[j] EXCEPT !.pc = "preparing"].pc \in Working /\ task[j].pc \in Holding
    BY <1>1, <1>7 DEF TaskLocks, Task, Working, Holding
  <2> QED
    BY <1>6, <1>7, <2>1 DEF TaskLocks
<1>8. CASE TaskPuts(j)
  <2>1. CASE Recorded(j)
    <3>1. [task[j] EXCEPT !.pc = "polling"].pc \in Working /\ task[j].pc \in Holding
      BY <1>1, <1>8 DEF TaskPuts, Task, Working, Holding
    <3> QED
      BY <1>6, <1>8, <2>1, <3>1 DEF TaskPuts
  <2>2. CASE ~Recorded(j)
    BY <1>5, <1>8, <2>2 DEF TaskPuts, Working
  <2> QED
    BY <2>1, <2>2
<1>9. CASE PrepareFails(j) \/ PollRaises(j) \/ FlushFails(j)
  BY <1>5, <1>9 DEF PrepareFails, PollRaises, FlushFails, Working
<1>10. CASE PollsPrompt(j)
  <2>0. task[j].pc \in Working /\ task[j].pc \in Holding
    BY <1>10 DEF PollsPrompt, Working, Holding
  <2>1. CASE UNCHANGED <<registered, current, call, task>> /\ UNCHANGED rooms
    BY <1>4, <2>0, <2>1
  <2>2. CASE /\ rooms' = [rooms EXCEPT ![task[j].room] = [@ EXCEPT !.state = "awaiting-input"]]
             /\ UNCHANGED <<registered, current, call, task>>
    <3>1. \A q \in RoomIds : rooms'[q].jobs \subseteq rooms[q].jobs
      BY <1>1, <2>2 DEF Room
    <3> QED
      BY <1>4, <2>0, <2>2, <3>1
  <2>3. CASE Ends(j, "failed")
    BY <1>5, <2>0, <2>3
  <2> QED
    BY <1>10, <2>1, <2>2, <2>3 DEF PollsPrompt, runtimeVars
<1>11. CASE PollsResult(j)
  <2> DEFINE t == [task[j] EXCEPT !.pc = "flushing", !.ok = (req[j].status = "ok")]
  <2>1. t.pc \in Working /\ task[j].pc \in Holding
    BY <1>1, <1>11 DEF PollsResult, Task, Working, Holding
  <2>2. task' = [task EXCEPT ![j] = t] /\ UNCHANGED <<runtimeVars, call>>
    BY <1>11 DEF PollsResult
  <2> HIDE DEF t
  <2> QED
    BY <1>6, <2>1, <2>2
<1>12. CASE Flushes(j)
  <2>0. task[j].pc \in Working /\ task[j].pc \in Holding
    BY <1>12 DEF Flushes, Working, Holding
  <2>1. CASE \E status : Ends(j, status)
    BY <1>5, <2>0, <2>1
  <2>2. CASE /\ task' = [task EXCEPT ![j] = [@ EXCEPT !.pc = "preparing", !.cell = task[j].cell + 1]]
             /\ UNCHANGED <<runtimeVars, call>>
    <3> DEFINE t == [task[j] EXCEPT !.pc = "preparing", !.cell = task[j].cell + 1]
    <3>1. t.pc \in Working
      BY <1>1 DEF Task, Working
    <3>2. task' = [task EXCEPT ![j] = t]
      BY <2>2
    <3> HIDE DEF t
    <3> QED
      BY <1>6, <2>0, <2>2, <3>1, <3>2
  <2> QED
    BY <1>12, <2>1, <2>2 DEF Flushes
<1> QED
  BY <1>2, <1>3, <1>7, <1>8, <1>9, <1>10, <1>11, <1>12 DEF TaskSteps

LEMMA CountedQueue ==
  ASSUME IInv, IInv', CountedInv, NEW c \in Callers, NEW n \in Notebooks, NEW last \in Cells,
         QueueExecution(c, n, last)
  PROVE  CountedInv'
<1>1. PICK j \in Jobs : j = NextJob /\ jobs[j].status = "unused"
  BY DEF QueueExecution, UnusedJobs, NextJob
<1> DEFINE cur == current[n]
<1>2. /\ task \in [Jobs -> Task] /\ rooms \in [RoomIds -> Room] /\ rooms' \in [RoomIds -> Room]
      /\ current \in [Notebooks -> RoomIds \cup {NoRoom}] /\ TypeOK
  BY DEF IInv, TypeOK
<1>3. /\ rooms' = IF cur = NoRoom THEN rooms
                  ELSE [rooms EXCEPT ![cur] = [@ EXCEPT !.jobs = rooms[cur].jobs \cup {j}]]
      /\ task' = [task EXCEPT ![j] = [NoTask EXCEPT !.pc = "starting", !.nb = n, !.last = last]]
      /\ UNCHANGED current /\ call' = [call EXCEPT ![c] = NoCall]
  BY <1>1 DEF QueueExecution, Answers
<1>4. task'[j].pc = "starting" /\ \A k \in Jobs \ {j} : task'[k] = task[k]
  BY <1>2, <1>3 DEF NoTask
<1>5. \A k \in Jobs : call'[k] = call[k]
  BY <1>2, <1>3, OtherCall
<1>6. call[j].pc = "none"
  BY <1>1, CallersCall DEF IInv, TasksInv, TaskInv, ServerInv, CallsInv, CallInv
<1>7. \A q \in RoomIds : rooms'[q].jobs \subseteq rooms[q].jobs \cup {j}
  BY <1>2, <1>3 DEF Room
<1> SUFFICES ASSUME NEW m \in Notebooks, current[m] # NoRoom, NEW k \in rooms'[current[m]].jobs
             PROVE  task'[k].pc \notin {"ended", "died"} /\ call'[k].pc = "none"
  BY <1>3 DEF CountedInv
<1>8. current[m] \in RoomIds
  BY <1>2
<1>9. k \in Jobs
  BY <1>2, <1>8 DEF Room
<1>10. CASE k = j
  BY <1>4, <1>5, <1>6, <1>10
<1>11. CASE k # j
  <2>1. k \in rooms[current[m]].jobs /\ task'[k] = task[k]
    BY <1>4, <1>7, <1>8, <1>9, <1>11
  <2> QED
    BY <1>5, <1>9, <2>1 DEF CountedInv
<1> QED
  BY <1>10, <1>11

LEMMA CountedEnsure ==
  ASSUME IInv, IInv', CountedInv, NEW a \in Actors, EnsureSteps(a)
  PROVE  CountedInv'
<1>1. call[a].pc # "none" /\ \E c : call' = [call EXCEPT ![a] = c]
  BY DEF EnsureSteps, LookupFinds, LookupMisses, CreateReturns, CreateFails, Suspends
<1>2. UNCHANGED task \/ \E t : task' = [task EXCEPT ![a] = t]
  BY DEF EnsureSteps, LookupFinds, LookupMisses, CreateReturns, CreateFails
<1>3. \A j \in Jobs \ {a} : call'[j] = call[j] /\ task'[j] = task[j]
  BY <1>1, <1>2, CallersCall DEF IInv, TypeOK
<1>4. \A j \in Jobs : CountedStays(j)
  BY <1>1, <1>3 DEF CountedStays
<1> QED
  BY <1>4, EnsureSettles, CountedStep DEF IInv

LEMMA CountedNext == ASSUME IInv, IInv', CountedInv, [Next]_vars PROVE CountedInv'
<1>0. TypeOK /\ TypeOK'
  BY DEF IInv
<1>1. CASE \E a \in Actors : EnsureSteps(a)
  BY <1>1, CountedEnsure
<1>2. ASSUME NEW c \in Callers, CallSteps(c) PROVE CountedInv'
  <2>1. CASE \E n \in Notebooks, last \in Cells : QueueExecution(c, n, last)
    BY <2>1, CountedQueue
  <2>2. CASE ~\E n \in Notebooks, last \in Cells : QueueExecution(c, n, last)
    <3>1. UNCHANGED task /\ (UNCHANGED call \/ \E x : call' = [call EXCEPT ![c] = x])
      BY <1>2, <2>2 DEF CallSteps, Calls, EnsureCall, CreatesRoom, Suspends, StatusCall, OpenRuntime, Interrupt,
                        Answers, QueueAbandoned
    <3>2. \A j \in Jobs : call'[j] = call[j]
      BY <1>0, <3>1, OtherCall
    <3> QED
      BY <1>0, <1>2, <2>2, <3>1, <3>2, CallSettles, CountedQuiet
  <2> QED
    BY <2>1, <2>2
<1>3. CASE \E j \in Jobs : TaskSteps(j)
  BY <1>3, CountedTask
<1>4. ASSUME NEW s \in Senders, StdinSteps(s) \/ \E j \in Jobs : StdinCall(s, j) PROVE CountedInv'
  <2>1. UNCHANGED task /\ (UNCHANGED call \/ \E x : call' = [call EXCEPT ![s] = x])
    BY <1>4 DEF StdinSteps, StdinGoesOn, StdinReturns, StdinFails, StdinCall, EnsureCall, CreatesRoom, Suspends, Answers
  <2>2. \A j \in Jobs : call'[j] = call[j]
    BY <1>0, <2>1, OtherCall
  <2> QED
    BY <1>0, <1>4, <2>1, <2>2, StdinSettles, CountedQuiet
<1>5. ASSUME NEW r \in RoomIds, DetachClient(r) \/ StopBegins(r) \/ StopEnds(r) PROVE CountedInv'
  <2>1. UNCHANGED <<task, call>>
    BY <1>5 DEF DetachClient, StopBegins, StopEnds
  <2> QED
    BY <1>0, <1>5, <2>1, UsersSettle, CountedQuiet
<1>6. CASE \/ \E k \in Kernels : KernelRestarts(k)
           \/ \E n \in Notebooks : LabOpens(n)
           \/ KernelSteps
           \/ UNCHANGED vars
  <2>1. UNCHANGED <<task, call>> /\ UNCHANGED runtimeVars
    BY <1>6 DEF KernelRestarts, LabOpens, KernelSteps, RequestEnds, AsksForInput, KernelDies, vars, runtimeVars
  <2> QED
    BY <1>0, <2>1, QuietSettle, CountedQuiet
<1> QED
  BY <1>1, <1>2, <1>3, <1>4, <1>5, <1>6 DEF Next

(* The active_jobs of a notebook's current runtime are jobs whose tasks     *)
(* still run: the job counted in a room that is replaced is no longer       *)
(* counted for the notebook, one whose ensure_room fails was counted by no  *)
(* room the notebook still has, and the one that ends leaves the room.      *)
THEOREM RuntimeJobsActiveAlways == Spec => []RuntimeJobsActive
<1>1. Init => CountedInv
  BY DEF Init, CountedInv
<1>2. CountedInv => RuntimeJobsActive
  BY DEF CountedInv, RuntimeJobsActive
<1> QED
  BY <1>1, <1>2, CountedNext, Inductive, PTL DEF Spec

-----------------------------------------------------------------------------
(* Rooms that await input *)

(* A job at work stays at work in its room. *)
WorkGoesOn ==
  \A j \in Jobs : task[j].pc \in Working => task'[j].pc \in Working /\ task'[j].room = task[j].room

LEMMA AwaitingStep ==
  ASSUME AwaitingRoomHasJob, AwaitsNoMore, WorkGoesOn
  PROVE  AwaitingRoomHasJob'
BY DEF AwaitingRoomHasJob, AwaitsNoMore, WorkGoesOn, Working

LEMMA AwaitingQuiet ==
  ASSUME AwaitingRoomHasJob, RoomsSettle, UNCHANGED task
  PROVE  AwaitingRoomHasJob'
BY AwaitingStep DEF RoomsSettle, WorkGoesOn

(* The job that ends takes its room out of awaiting-input. *)
LEMMA AwaitingEnds ==
  ASSUME IInv, AwaitingRoomHasJob, NEW j \in Jobs, NEW status, Ends(j, status)
  PROVE  AwaitingRoomHasJob'
<1> SUFFICES ASSUME NEW r \in registered, rooms'[r].state = "awaiting-input"
             PROVE  \E k \in Jobs : task'[k].room = r /\ task'[k].pc \in {"preparing", "polling", "flushing"}
  BY DEF Ends, AwaitingRoomHasJob
<1>1. r \in RoomIds /\ rooms[r] \in Room /\ task \in [Jobs -> Task]
  BY DEF IInv, TypeOK
<1>2. rooms'[r].state = IF r = task[j].room /\ rooms[r].state = "awaiting-input"
                        THEN "live-detached" ELSE rooms[r].state
  BY <1>1 DEF Ends, AfterJob, Room
<1>3. r # task[j].room /\ rooms[r].state = "awaiting-input"
  BY <1>2
<1>4. PICK k \in Jobs : task[k].room = r /\ task[k].pc \in {"preparing", "polling", "flushing"}
  BY <1>3 DEF AwaitingRoomHasJob
<1>5. task'[k] = task[k]
  BY <1>1, <1>3, <1>4 DEF Ends
<1> QED
  BY <1>4, <1>5

LEMMA AwaitingTask ==
  ASSUME IInv, AwaitingRoomHasJob, NEW j \in Jobs, TaskSteps(j)
  PROVE  AwaitingRoomHasJob'
<1>0. /\ task \in [Jobs -> Task] /\ rooms \in [RoomIds -> Room]
  BY DEF IInv, TypeOK
<1>1. CASE TaskCalls(j)
  <2>1. RoomsSettle
    BY <1>1, EnsureCallSettles DEF TaskCalls, IInv, TasksInv, TaskInv
  <2> QED
    BY <1>1, <2>1, AwaitingQuiet DEF TaskCalls, EnsureCall
<1>2. ASSUME UNCHANGED runtimeVars, \A k \in Jobs \ {j} : task'[k] = task[k],
             task[j].pc \in Working => task'[j].pc \in Working /\ task'[j].room = task[j].room
      PROVE  AwaitingRoomHasJob'
  <2>1. WorkGoesOn
    BY <1>2 DEF WorkGoesOn
  <2> QED
    BY <1>2, <2>1, QuietSettle, AwaitingStep DEF RoomsSettle
<1>3. CASE TaskStarts(j)
  <2>1. PICK r \in RoomIds : task' = [task EXCEPT ![j] = [@ EXCEPT !.pc = "locking", !.room = r]]
    BY <1>3 DEF TaskStarts
  <2> QED
    BY <1>0, <1>2, <1>3, <2>1 DEF TaskStarts, Working
<1>4. CASE TaskLocks(j)
  BY <1>0, <1>2, <1>4 DEF TaskLocks, Working
<1>5. CASE TaskPuts(j)
  <2>1. CASE Recorded(j)
    <3>1. task'[j].pc = "polling" /\ task'[j].room = task[j].room /\ \A k \in Jobs \ {j} : task'[k] = task[k]
      BY <1>0, <1>5, <2>1 DEF TaskPuts, Task
    <3> QED
      BY <1>2, <1>5, <2>1, <3>1 DEF TaskPuts, Working
  <2>2. CASE ~Recorded(j)
    BY <1>5, <2>2, AwaitingEnds DEF TaskPuts
  <2> QED
    BY <2>1, <2>2
<1>6. CASE PrepareFails(j) \/ PollRaises(j) \/ FlushFails(j)
  BY <1>6, AwaitingEnds DEF PrepareFails, PollRaises, FlushFails
<1>7. CASE PollsPrompt(j)
  <2>1. CASE UNCHANGED <<runtimeVars, task>>
    BY <1>2, <2>1
  <2>2. CASE /\ rooms' = [rooms EXCEPT ![task[j].room] = [@ EXCEPT !.state = "awaiting-input"]]
             /\ UNCHANGED <<registered, task>>
    <3> SUFFICES ASSUME NEW r \in registered, rooms'[r].state = "awaiting-input"
                 PROVE  \E k \in Jobs : task[k].room = r /\ task[k].pc \in {"preparing", "polling", "flushing"}
      BY <2>2 DEF AwaitingRoomHasJob
    <3>1. CASE r = task[j].room
      BY <1>7, <3>1 DEF PollsPrompt
    <3>2. CASE r # task[j].room
      <4>1. rooms'[r] = rooms[r]
        BY <1>0, <2>2, <3>2 DEF IInv, TypeOK
      <4> QED
        BY <4>1 DEF AwaitingRoomHasJob
    <3> QED
      BY <3>1, <3>2
  <2>3. CASE Ends(j, "failed")
    BY <2>3, AwaitingEnds
  <2> QED
    BY <1>7, <2>1, <2>2, <2>3 DEF PollsPrompt
<1>8. CASE PollsResult(j)
  <2>1. task'[j].pc = "flushing" /\ task'[j].room = task[j].room /\ \A k \in Jobs \ {j} : task'[k] = task[k]
    BY <1>0, <1>8 DEF PollsResult, Task
  <2> QED
    BY <1>2, <1>8, <2>1 DEF PollsResult, Working
<1>9. CASE Flushes(j)
  <2>1. CASE \E status : Ends(j, status)
    BY <2>1, AwaitingEnds
  <2>2. CASE /\ task' = [task EXCEPT ![j] = [@ EXCEPT !.pc = "preparing", !.cell = task[j].cell + 1]]
             /\ UNCHANGED runtimeVars
    <3>1. task'[j].pc = "preparing" /\ task'[j].room = task[j].room /\ \A k \in Jobs \ {j} : task'[k] = task[k]
      BY <1>0, <2>2 DEF Task
    <3> QED
      BY <1>2, <2>2, <3>1 DEF Working
  <2> QED
    BY <1>9, <2>1, <2>2 DEF Flushes
<1> QED
  BY <1>1, <1>3, <1>4, <1>5, <1>6, <1>7, <1>8, <1>9 DEF TaskSteps

LEMMA AwaitingEnsure ==
  ASSUME IInv, AwaitingRoomHasJob, NEW a \in Actors, EnsureSteps(a)
  PROVE  AwaitingRoomHasJob'
<1>1. UNCHANGED task \/ (a \in Jobs /\ CreateFails(a) /\ \E t : task' = [task EXCEPT ![a] = t])
  BY DEF EnsureSteps, LookupFinds, LookupMisses, CreateReturns, CreateFails
<1>2. CASE UNCHANGED task
  BY <1>2, EnsureSettles, AwaitingQuiet
<1>3. CASE a \in Jobs /\ CreateFails(a) /\ \E t : task' = [task EXCEPT ![a] = t]
  <2>1. task[a].pc = "starting"
    BY <1>3, Suspended DEF CreateFails
  <2>2. WorkGoesOn
    BY <1>3, <2>1 DEF WorkGoesOn, Working, IInv, TypeOK
  <2> QED
    BY <2>2, EnsureSettles, AwaitingStep DEF RoomsSettle
<1> QED
  BY <1>1, <1>2, <1>3

LEMMA AwaitingQueue ==
  ASSUME IInv, AwaitingRoomHasJob, NEW c \in Callers, NEW n \in Notebooks, NEW last \in Cells,
         QueueExecution(c, n, last)
  PROVE  AwaitingRoomHasJob'
<1>1. PICK j \in Jobs : j = NextJob /\ jobs[j].status = "unused"
  BY DEF QueueExecution, UnusedJobs, NextJob
<1>2. task[j].pc = "none" /\ task \in [Jobs -> Task] /\ rooms \in [RoomIds -> Room]
  BY <1>1 DEF IInv, TypeOK, TasksInv, TaskInv
<1>3. \A k \in Jobs \ {j} : task'[k] = task[k]
  BY <1>1, <1>2 DEF QueueExecution
<1>4. WorkGoesOn
  BY <1>2, <1>3 DEF WorkGoesOn, Working
<1>5. UNCHANGED registered /\ \A q \in RoomIds : rooms'[q].state = rooms[q].state
  BY <1>1, <1>2 DEF QueueExecution, Room
<1>6. AwaitsNoMore
  BY <1>5 DEF AwaitsNoMore, IInv, TypeOK
<1> QED
  BY <1>4, <1>6, AwaitingStep

LEMMA AwaitingNext == ASSUME IInv, AwaitingRoomHasJob, [Next]_vars PROVE AwaitingRoomHasJob'
<1>1. CASE \E a \in Actors : EnsureSteps(a)
  BY <1>1, AwaitingEnsure
<1>2. ASSUME NEW c \in Callers, CallSteps(c) PROVE AwaitingRoomHasJob'
  <2>1. CASE \E n \in Notebooks, last \in Cells : QueueExecution(c, n, last)
    BY <2>1, AwaitingQueue
  <2>2. CASE ~\E n \in Notebooks, last \in Cells : QueueExecution(c, n, last)
    <3>1. UNCHANGED task
      BY <1>2, <2>2 DEF CallSteps, Calls, EnsureCall, StatusCall, OpenRuntime, Interrupt, QueueAbandoned
    <3> QED
      BY <1>2, <2>2, <3>1, CallSettles, AwaitingQuiet
  <2> QED
    BY <2>1, <2>2
<1>3. CASE \E j \in Jobs : TaskSteps(j)
  BY <1>3, AwaitingTask
<1>4. ASSUME NEW s \in Senders, StdinSteps(s) \/ \E j \in Jobs : StdinCall(s, j) PROVE AwaitingRoomHasJob'
  <2>1. UNCHANGED task
    BY <1>4 DEF StdinSteps, StdinGoesOn, StdinReturns, StdinFails, StdinCall, EnsureCall
  <2> QED
    BY <1>4, <2>1, StdinSettles, AwaitingQuiet
<1>5. ASSUME NEW r \in RoomIds, DetachClient(r) \/ StopBegins(r) \/ StopEnds(r) PROVE AwaitingRoomHasJob'
  <2>1. UNCHANGED task
    BY <1>5 DEF DetachClient, StopBegins, StopEnds
  <2> QED
    BY <1>5, <2>1, UsersSettle, AwaitingQuiet
<1>6. CASE \/ \E k \in Kernels : KernelRestarts(k)
           \/ \E n \in Notebooks : LabOpens(n)
           \/ KernelSteps
           \/ UNCHANGED vars
  <2>1. UNCHANGED task /\ UNCHANGED runtimeVars
    BY <1>6 DEF KernelRestarts, LabOpens, KernelSteps, RequestEnds, AsksForInput, KernelDies, vars, runtimeVars
  <2> QED
    BY <2>1, QuietSettle, AwaitingQuiet
<1> QED
  BY <1>1, <1>2, <1>3, <1>4, <1>5, <1>6 DEF Next

(* A registered room shown as awaiting input has a job at work in it, which *)
(* takes it out of that state as it ends, so that the GC, which reaps       *)
(* detached rooms only, is not kept from it for ever.                       *)
THEOREM AwaitingRoomHasJobAlways == Spec => []AwaitingRoomHasJob
<1>1. Init => AwaitingRoomHasJob
  BY DEF Init, AwaitingRoomHasJob
<1> QED
  BY <1>1, AwaitingNext, Inductive, PTL DEF Spec

-----------------------------------------------------------------------------
(* The history *)

(* Steps other than those of tasks, replies and stops leave the ledger as   *)
(* it is or log a job.                                                      *)
Logs ==
  \E n \in Notebooks, action \in JobAction, r \in RoomIds : jobs' = Logged(jobs, n, action, r)

LEMMA LedgerWriters ==
  ASSUME IInv, [Next]_vars
  PROVE  \/ UNCHANGED jobs \/ Logs
         \/ \E j \in Jobs : TaskSteps(j)
         \/ \E s \in Senders : StdinReturns(s)
         \/ \E r \in RoomIds : StopBegins(r) \/ StopEnds(r)
<1>1. CASE \E a \in Actors : EnsureSteps(a)
  BY <1>1 DEF EnsureSteps, LookupFinds, LookupMisses, CreateReturns, CreateFails, ledgerVars
<1>2. ASSUME NEW c \in Callers, CallSteps(c) PROVE UNCHANGED jobs \/ Logs
  <2>1. ASSUME NEW n \in Notebooks, NEW last \in Cells, QueueExecution(c, n, last) PROVE Logs
    <3>1. PICK r \in RoomIds : jobs' = Created(jobs, NextJob, n, "execute", r) /\ UnusedJobs # {}
      BY <2>1 DEF QueueExecution
    <3> QED
      BY <3>1 DEF Logs, Logged, JobAction
  <2>2. ASSUME NEW n \in Notebooks, Interrupt(c, n) PROVE UNCHANGED jobs \/ Logs
    BY <2>2 DEF Interrupt, Logs, JobAction
  <2> QED
    BY <1>2, <2>1, <2>2
    DEF CallSteps, Calls, EnsureCall, StatusCall, OpenRuntime, QueueAbandoned, ledgerVars
<1>3. CASE \/ \E s \in Senders : StdinSteps(s) /\ ~StdinReturns(s)
           \/ \E s \in Senders, j \in Jobs : StdinCall(s, j)
  BY <1>3 DEF StdinSteps, StdinGoesOn, StdinFails, StdinCall, EnsureCall, ledgerVars
<1>4. CASE \/ \E r \in RoomIds : DetachClient(r)
           \/ \E k \in Kernels : KernelRestarts(k)
           \/ \E n \in Notebooks : LabOpens(n)
           \/ KernelSteps
           \/ UNCHANGED vars
  BY <1>4 DEF DetachClient, KernelRestarts, LabOpens, KernelSteps, RequestEnds, AsksForInput, KernelDies,
              ledgerVars, vars
<1> QED
  BY <1>1, <1>2, <1>3, <1>4 DEF Next

HistoryInv == Clocked(jobs) /\ Bounded(jobs)

LEMMA LoggedHistory ==
  ASSUME IInv, HistoryInv, NEW n \in Notebooks, NEW action \in JobAction, NEW r \in RoomIds
  PROVE  Clocked(Logged(jobs, n, action, r)) /\ Bounded(Logged(jobs, n, action, r))
<1>1. CASE UnusedJobs = {}
  BY <1>1 DEF Logged, HistoryInv
<1>2. CASE UnusedJobs # {}
  <2>1. NextJob \in Jobs /\ jobs[NextJob].status = "unused"
    BY <1>2 DEF NextJob, UnusedJobs
  <2>2. Logged(jobs, n, action, r) = Created(jobs, NextJob, n, action, r)
    BY <1>2 DEF Logged
  <2>3. jobs \in [Jobs -> Job] /\ Clocked(jobs) /\ Bounded(jobs)
    BY DEF IInv, TypeOK, HistoryInv
  <2> HIDE DEF NextJob
  <2> QED
    BY <2>1, <2>2, <2>3, CreatedHistory
<1> QED
  BY <1>1, <1>2

(* The ledger is written by its operations only. *)
LEMMA WrittenHistory ==
  ASSUME IInv, HistoryInv, NEW j \in Jobs, NEW status \in JobStatus, NEW r \in RoomIds \cup {NoRoom},
         jobs' \in {jobs, WithUid(jobs, j), Updated(jobs, j, status, r)}
  PROVE  HistoryInv'
<1>1. Clocked(jobs') /\ Bounded(jobs')
  BY WithUidHistory, UpdatedHistory DEF IInv, TypeOK, HistoryInv
<1> QED
  BY <1>1 DEF HistoryInv, Clocked, Bounded, Given, FinishedJobs

LEMMA HistoryTask ==
  ASSUME IInv, HistoryInv, NEW j \in Jobs, TaskSteps(j)
  PROVE  HistoryInv'
<1>1. ASSUME NEW status \in {"failed", "succeeded"}, Ends(j, status) PROVE HistoryInv'
  BY <1>1, Typed, WrittenHistory DEF Ends
<1>2. CASE UNCHANGED jobs
  BY <1>2, Typed, WrittenHistory
<1>3. CASE TaskLocks(j)
  <2>1. task[j].room \in RoomIds
    BY <1>3 DEF TaskLocks, IInv, TasksInv, TaskInv, TaskRoomed, Roomed
  <2> QED
    BY <1>3, <2>1, Typed, WrittenHistory DEF TaskLocks
<1>4. CASE TaskPuts(j)
  BY <1>1, <1>4, Typed, WrittenHistory DEF TaskPuts
<1>5. CASE PollsPrompt(j)
  BY <1>1, <1>2, <1>5, Typed, WrittenHistory DEF PollsPrompt
<1> QED
  BY <1>1, <1>2, <1>3, <1>4, <1>5
  DEF TaskSteps, TaskStarts, TaskCalls, EnsureCall, PrepareFails, PollsResult, PollRaises, Flushes, FlushFails,
      ledgerVars

LEMMA HistoryNext == ASSUME IInv, HistoryInv, [Next]_vars PROVE HistoryInv'
<1>1. CASE UNCHANGED jobs
  BY <1>1 DEF HistoryInv, Clocked, Bounded, Given, FinishedJobs
<1>2. ASSUME Clocked(jobs'), Bounded(jobs') PROVE HistoryInv'
  BY <1>2 DEF HistoryInv, Clocked, Bounded, Given, FinishedJobs
<1>3. jobs \in [Jobs -> Job] /\ Clocked(jobs) /\ Bounded(jobs)
  BY DEF IInv, TypeOK, HistoryInv
<1>4. CASE Logs
  BY <1>2, <1>4, LoggedHistory DEF Logs
<1>5. CASE \E j \in Jobs : TaskSteps(j)
  BY <1>5, HistoryTask
<1>6. ASSUME NEW s \in Senders, StdinReturns(s) PROVE HistoryInv'
  <2> DEFINE j == sender[s].job
             r == sender[s].room
             logged == Logged(jobs, task[j].nb, "stdin_reply", r)
  <2>1. j \in Jobs /\ r \in RoomIds /\ task[j].nb \in Notebooks
    BY <1>6 DEF StdinReturns, IInv, TypeOK, Sender, SendersInv, TasksInv, TaskInv
  <2>2. jobs' = Updated(logged, j, "running", r)
    BY <1>6 DEF StdinReturns
  <2>3. logged \in [Jobs -> Job] /\ Clocked(logged) /\ Bounded(logged)
    BY <1>3, <2>1, LoggedKeeps, LoggedHistory DEF JobAction
  <2> HIDE DEF j, r, logged
  <2>4. "running" \in JobStatus
    BY DEF JobStatus, Active
  <2> QED
    BY <1>2, <2>1, <2>2, <2>3, <2>4, UpdatedHistory
<1>7. ASSUME NEW r \in RoomIds, StopBegins(r) \/ StopEnds(r) PROVE HistoryInv'
  <2>1. UNCHANGED jobs \/ jobs' = Evicted(jobs, rooms[r].nb)
    BY <1>7 DEF StopBegins, StopEnds, RemoveRoom, ledgerVars
  <2> QED
    BY <1>1, <1>2, <1>3, <2>1, EvictedHistory
<1> QED
  BY <1>1, <1>4, <1>5, <1>6, <1>7, LedgerWriters

(* The ledger keeps at most MaxCompleted finished jobs of a notebook, for   *)
(* every bound that is set, however many jobs of however many notebooks     *)
(* finish in whatever order they were created.                              *)
THEOREM HistoryBoundedAlways == Spec => []HistoryBounded
<1>1. Init => HistoryInv
  <2>1. ASSUME Init, NEW n \in Notebooks PROVE FinishedJobs(jobs, n) = {}
    BY <2>1 DEF Init, LedgerInit, FinishedJobs, UnusedJob, Finished
  <2>2. Cardinality({}) = 0
    BY FS_EmptySet
  <2>3. Init => Clocked(jobs)
    BY DEF Init, LedgerInit, Clocked, UnusedJob, JobStatus, Active, Finished
  <2>4. Init => Bounded(jobs)
    BY <2>1, <2>2, LedgerAssumption DEF Bounded
  <2> QED
    BY <2>3, <2>4 DEF HistoryInv
<1>2. HistoryInv => HistoryBounded
  BY DEF HistoryInv, Bounded, HistoryBounded
<1> QED
  BY <1>1, <1>2, HistoryNext, Inductive, PTL DEF Spec

-----------------------------------------------------------------------------
(* What an active job leaves the ledger with *)

(* A record belongs to a notebook while it is there. *)
NamedInv == \A k \in Jobs : jobs[k].status \in JobStatus <=> jobs[k].nb # NoNotebook

Named(is) == is.status \in JobStatus <=> is.nb # NoNotebook

LEMMA KeptNamed ==
  ASSUME NEW was, NEW is, Named(was), Kept(was, is)
  PROVE  Named(is)
BY DEF Named, Kept, GoneJob, UnusedJob, JobStatus, Active, Finished

LEMMA KeptActive ==
  ASSUME NEW was, NEW is, Kept(was, is), was.status \in Active
  PROVE  is = was
BY DEF Kept, Active, Finished

LEMMA StatusesApart ==
  /\ LedgerAssumption
  /\ "queued" \in JobStatus
  /\ Active \subseteq JobStatus /\ Finished \subseteq JobStatus
  /\ "unused" \notin JobStatus /\ "gone" \notin JobStatus
BY LedgerAssumption DEF JobStatus, Active, Finished

(* Any record but an active one may be pruned as the ledger logs a job. *)
LEMMA LoggedSpares ==
  ASSUME jobs \in [Jobs -> Job], NamedInv, NEW n \in Notebooks, NEW action \in JobAction, NEW r \in RoomIds
  PROVE  LET after == Logged(jobs, n, action, r)
         IN /\ after \in [Jobs -> Job]
            /\ \A k \in Jobs : Named(after[k])
            /\ \A k \in Jobs : jobs[k].status \in Active => after[k] = jobs[k]
<1> DEFINE after == Logged(jobs, n, action, r)
<1>1. /\ after \in [Jobs -> Job]
      /\ \A k \in Jobs : \/ Kept(jobs[k], after[k])
                         \/ jobs[k].status = "unused" /\ after[k].status = "queued" /\ after[k].nb = n
  BY LoggedKeeps
<1> HIDE DEF after
<1>2. ASSUME NEW k \in Jobs PROVE Named(after[k])
  BY <1>1, KeptNamed, StatusesApart DEF NamedInv, Named, LedgerAssumption
<1>3. ASSUME NEW k \in Jobs, jobs[k].status \in Active PROVE after[k] = jobs[k]
  BY <1>1, <1>3, KeptActive, StatusesApart
<1> QED
  BY <1>1, <1>2, <1>3 DEF after

(* Of the jobs that have not ended, only one whose last status is written   *)
(* goes, and only with MaxCompleted finished jobs created after it.         *)
LEMMA UpdatedSpares ==
  ASSUME NEW ledger \in [Jobs -> Job], \A k \in Jobs : Named(ledger[k]), NEW j \in Jobs,
         NEW status \in JobStatus, NEW r \in RoomIds \cup {NoRoom}
  PROVE  LET after == Updated(ledger, j, status, r)
         IN /\ after \in [Jobs -> Job]
            /\ \A k \in Jobs : Named(after[k])
            /\ \A k \in Jobs \ {j} : ledger[k].status \in Active => after[k] = ledger[k]
            /\ status \in Active /\ ledger[j].status \in Active => after[j].status # "gone"
            /\ MaxCompleted # 0 /\ ledger[j].status \in Active /\ after[j].status = "gone" =>
                 \E k \in FinishedJobs(ledger, ledger[j].nb) : ledger[k].created > ledger[j].created
<1> DEFINE after == Updated(ledger, j, status, r)
<1>1. /\ after \in [Jobs -> Job]
      /\ \A k \in Jobs \ {j} : Kept(ledger[k], after[k])
      /\ ledger[j].status \notin JobStatus => after[j] = ledger[j]
      /\ ledger[j].status \in JobStatus =>
           \/ after[j].status = status /\ after[j].nb = ledger[j].nb
           \/ after[j] = GoneJob /\ status \in Finished
  BY UpdatedKeeps
<1>2. ASSUME MaxCompleted # 0, ledger[j].status \in Active, after[j].status = "gone"
      PROVE  \E k \in FinishedJobs(ledger, ledger[j].nb) : ledger[k].created > ledger[j].created
  <2> DEFINE new == [ledger[j] EXCEPT !.status = status, !.runtime = IF r = NoRoom THEN @ ELSE r]
             with == [ledger EXCEPT ![j] = new]
             n == ledger[j].nb
             done == FinishedJobs(with, n)
             newer == {k \in done : with[k].created > with[j].created}
  <2>1. new.status = status /\ new.nb = n /\ new.created = ledger[j].created
    BY DEF Job
  <2>2. with[j] = new /\ \A k \in Jobs \ {j} : with[k] = ledger[k]
    OBVIOUS
  <2>3. after = Pruned(with, n)
    BY <1>2, <2>1, StatusesApart DEF Updated
  <2>4. with[j].status # "gone"
    BY <2>1, <2>2, StatusesApart
  <2>5. MaxCompleted >= 0 /\ Cardinality(newer) >= MaxCompleted
    <3> HIDE DEF with
    <3> QED
      BY <1>2, <2>3, <2>4 DEF Pruned
  <2>6. newer # {}
    <3>1. Cardinality({}) = 0
      BY FS_EmptySet
    <3> HIDE DEF newer
    <3> QED
      BY <1>2, <2>5, <3>1, LedgerAssumption DEF LedgerAssumption
  <2>7. PICK k \in newer : TRUE
    BY <2>6
  <2>8. k \in Jobs /\ with[k].nb = n /\ with[k].status \in Finished /\ with[k].created > with[j].created
    BY <2>7 DEF FinishedJobs
  <2>9. with[j].created \in Int
    BY <2>1, <2>2 DEF Job
  <2>10. k # j
    BY <2>8, <2>9
  <2> QED
    BY <2>1, <2>2, <2>8, <2>10 DEF FinishedJobs
<1>3. ASSUME NEW k \in Jobs PROVE Named(after[k])
  <2>1. CASE k # j
    BY <1>1, <2>1, KeptNamed
  <2>2. CASE k = j
    BY <1>1, <2>2 DEF Named, GoneJob, UnusedJob, JobStatus, Active, Finished
  <2> QED
    BY <2>1, <2>2
<1>4. ASSUME NEW k \in Jobs \ {j}, ledger[k].status \in Active PROVE after[k] = ledger[k]
  BY <1>1, <1>4, KeptActive
<1>5. status \in Active /\ ledger[j].status \in Active => after[j].status # "gone"
  BY <1>1 DEF GoneJob, UnusedJob, JobStatus, Active, Finished
<1> QED
  BY <1>1, <1>2, <1>3, <1>4, <1>5

(* A step that takes no active job from the ledger, and one that takes one  *)
(* only as ActiveJobsKept says.                                             *)
SparesActive ==
  /\ NamedInv'
  /\ \A k \in Jobs : jobs[k].status \in Active => jobs'[k].status # "gone"

KeepsActive ==
  \A j \in Jobs : jobs[j].status \in Active /\ jobs'[j].status = "gone" =>
    \/ \A k \in Jobs : jobs'[k].nb # jobs[j].nb
    \/ /\ task[j].pc # "ended" /\ task'[j].pc = "ended"
       /\ \E k \in FinishedJobs(jobs, jobs[j].nb) : jobs[k].created > jobs[j].created

LEMMA SparingKeeps == ASSUME SparesActive PROVE NamedInv' /\ KeepsActive
BY DEF SparesActive, KeepsActive

(* A status written while the task goes on takes no active job away. *)
LEMMA WrittenSpares ==
  ASSUME IInv, NamedInv, NEW j \in Jobs, NEW status \in Active, NEW r \in RoomIds \cup {NoRoom},
         jobs' \in {jobs, WithUid(jobs, j), Updated(jobs, j, status, r)}
  PROVE  SparesActive
<1>1. jobs \in [Jobs -> Job] /\ \A k \in Jobs : Named(jobs[k])
  BY DEF IInv, TypeOK, NamedInv, Named
<1>2. \A k \in Jobs : jobs[k].status \in Active => jobs[k].status # "gone"
  BY StatusesApart
<1>3. CASE jobs' = jobs
  BY <1>2, <1>3 DEF SparesActive, NamedInv
<1>4. CASE jobs' = WithUid(jobs, j)
  <2>1. \A k \in Jobs : jobs'[k].status = jobs[k].status /\ jobs'[k].nb = jobs[k].nb
    BY <1>1, <1>4, WithUidKeeps
  <2> QED
    BY <1>2, <2>1 DEF SparesActive, NamedInv
<1>5. CASE jobs' = Updated(jobs, j, status, r)
  <2>1. /\ \A k \in Jobs : Named(jobs'[k])
        /\ \A k \in Jobs \ {j} : jobs[k].status \in Active => jobs'[k] = jobs[k]
        /\ jobs[j].status \in Active => jobs'[j].status # "gone"
    BY <1>1, <1>5, UpdatedSpares, StatusesApart
  <2> QED
    BY <1>2, <2>1 DEF SparesActive, NamedInv, Named
<1> QED
  BY <1>3, <1>4, <1>5

(* A job that ends may be pruned at once, behind later ones. *)
LEMMA EndsKeepsActive ==
  ASSUME IInv, NamedInv, MaxCompleted # 0, NEW j \in Jobs, NEW status \in {"failed", "succeeded"},
         task[j].pc # "ended", Ends(j, status)
  PROVE  NamedInv' /\ KeepsActive
<1>1. /\ jobs \in [Jobs -> Job] /\ \A k \in Jobs : Named(jobs[k])
      /\ status \in JobStatus /\ task \in [Jobs -> Task]
  BY DEF IInv, TypeOK, NamedInv, Named, JobStatus, Finished
<1>2. jobs' = Updated(jobs, j, status, NoRoom) /\ task'[j].pc = "ended"
  BY <1>1 DEF Ends, Task
<1>3. /\ \A k \in Jobs : Named(jobs'[k])
      /\ \A k \in Jobs \ {j} : jobs[k].status \in Active => jobs'[k] = jobs[k]
      /\ MaxCompleted # 0 /\ jobs[j].status \in Active /\ jobs'[j].status = "gone" =>
           \E k \in FinishedJobs(jobs, jobs[j].nb) : jobs[k].created > jobs[j].created
  BY <1>1, <1>2, UpdatedSpares
<1>4. ASSUME NEW i \in Jobs, jobs[i].status \in Active, jobs'[i].status = "gone" PROVE i = j
  BY <1>3, <1>4, StatusesApart
<1> QED
  BY <1>2, <1>3, <1>4 DEF KeepsActive, NamedInv, Named

LEMMA TaskKeepsActive ==
  ASSUME IInv, NamedInv, MaxCompleted # 0, NEW j \in Jobs, TaskSteps(j)
  PROVE  NamedInv' /\ KeepsActive
<1>1. ASSUME NEW status \in {"failed", "succeeded"}, task[j].pc # "ended", Ends(j, status)
      PROVE  NamedInv' /\ KeepsActive
  BY <1>1, EndsKeepsActive
<1>2. "running" \in Active /\ "awaiting_input" \in Active /\ NoRoom \in RoomIds \cup {NoRoom}
  BY DEF Active
<1>3. CASE UNCHANGED jobs
  BY <1>2, <1>3, WrittenSpares, SparingKeeps
<1>4. CASE TaskLocks(j)
  <2>1. task[j].room \in RoomIds
    BY <1>4 DEF TaskLocks, IInv, TasksInv, TaskInv, TaskRoomed, Roomed
  <2>2. jobs' = Updated(jobs, j, "running", task[j].room)
    BY <1>4 DEF TaskLocks
  <2> QED
    BY <1>2, <2>1, <2>2, WrittenSpares, SparingKeeps
<1>5. CASE TaskPuts(j)
  <2>1. task[j].pc # "ended" /\ (jobs' = WithUid(jobs, j) \/ Ends(j, "failed"))
    BY <1>5 DEF TaskPuts
  <2> QED
    BY <1>1, <1>2, <2>1, WrittenSpares, SparingKeeps
<1>6. CASE PollsPrompt(j)
  <2>1. task[j].pc # "ended"
    BY <1>6 DEF PollsPrompt
  <2>2. UNCHANGED jobs \/ jobs' = Updated(jobs, j, "awaiting_input", NoRoom) \/ Ends(j, "failed")
    BY <1>6 DEF PollsPrompt
  <2> QED
    BY <1>1, <1>2, <1>3, <2>1, <2>2, WrittenSpares, SparingKeeps
<1>7. CASE PrepareFails(j) \/ PollRaises(j) \/ FlushFails(j) \/ Flushes(j)
  <2>1. /\ task[j].pc # "ended"
        /\ UNCHANGED jobs \/ \E status \in {"failed", "succeeded"} : Ends(j, status)
    BY <1>7 DEF PrepareFails, PollRaises, FlushFails, Flushes
  <2> QED
    BY <1>1, <1>3, <2>1
<1> QED
  BY <1>3, <1>4, <1>5, <1>6, <1>7 DEF TaskSteps, TaskStarts, TaskCalls, EnsureCall, PollsResult, ledgerVars

LEMMA NextKeepsActive ==
  ASSUME IInv, NamedInv, MaxCompleted # 0, [Next]_vars
  PROVE  NamedInv' /\ KeepsActive
<1>1. jobs \in [Jobs -> Job] /\ \A k \in Jobs : Named(jobs[k])
  BY DEF IInv, TypeOK, NamedInv, Named
<1>2. ASSUME \A k \in Jobs : Named(jobs'[k]),
             \A k \in Jobs : jobs[k].status \in Active => jobs'[k] = jobs[k]
      PROVE  NamedInv' /\ KeepsActive
  BY <1>2, StatusesApart DEF KeepsActive, NamedInv, Named
<1>3. CASE UNCHANGED jobs
  BY <1>1, <1>2, <1>3
<1>4. CASE Logs
  BY <1>1, <1>2, <1>4, LoggedSpares DEF Logs
<1>5. CASE \E j \in Jobs : TaskSteps(j)
  BY <1>5, TaskKeepsActive
<1>6. ASSUME NEW s \in Senders, StdinReturns(s) PROVE NamedInv' /\ KeepsActive
  <2> DEFINE j == sender[s].job
             r == sender[s].room
             logged == Logged(jobs, task[j].nb, "stdin_reply", r)
  <2>1. j \in Jobs /\ r \in RoomIds /\ task[j].nb \in Notebooks
    BY <1>6 DEF StdinReturns, IInv, TypeOK, Sender, SendersInv, TasksInv, TaskInv
  <2>2. jobs' = Updated(logged, j, "running", r)
    BY <1>6 DEF StdinReturns
  <2>3. /\ logged \in [Jobs -> Job]
        /\ \A k \in Jobs : Named(logged[k])
        /\ \A k \in Jobs : jobs[k].status \in Active => logged[k] = jobs[k]
    BY <1>1, <2>1, LoggedSpares DEF JobAction
  <2> HIDE DEF j, r, logged
  <2>4. "running" \in JobStatus /\ "running" \in Active
    BY DEF JobStatus, Active
  <2>5. /\ \A k \in Jobs : Named(jobs'[k])
        /\ \A k \in Jobs \ {j} : logged[k].status \in Active => jobs'[k] = logged[k]
        /\ logged[j].status \in Active => jobs'[j].status # "gone"
    BY <2>1, <2>2, <2>3, <2>4, UpdatedSpares
  <2>6. ASSUME NEW k \in Jobs, jobs[k].status \in Active PROVE jobs'[k].status # "gone"
    BY <2>3, <2>5, <2>6, StatusesApart
  <2> QED
    BY <2>5, <2>6 DEF KeepsActive, NamedInv, Named
<1>7. ASSUME NEW r \in RoomIds, StopBegins(r) \/ StopEnds(r) PROVE NamedInv' /\ KeepsActive
  <2> DEFINE n == rooms[r].nb
  <2>1. UNCHANGED jobs \/ jobs' = Evicted(jobs, n)
    BY <1>7 DEF StopBegins, StopEnds, RemoveRoom, ledgerVars
  <2> HIDE DEF n
  <2>2. CASE jobs' = Evicted(jobs, n)
    <3>1. \A k \in Jobs : \/ jobs'[k] = jobs[k] /\ (jobs[k].nb # n \/ jobs[k].status \notin JobStatus)
                          \/ jobs'[k] = GoneJob
      BY <1>1, <2>2, EvictedForgets
    <3>2. GoneJob.status = "gone" /\ GoneJob.nb = NoNotebook /\ Named(GoneJob)
      BY DEF GoneJob, UnusedJob, Named, JobStatus, Active, Finished
    <3>3. \A k \in Jobs : Named(jobs'[k])
      BY <1>1, <3>1, <3>2
    <3>4. ASSUME NEW j \in Jobs, jobs[j].status \in Active, jobs'[j].status = "gone", NEW k \in Jobs
          PROVE  jobs'[k].nb # jobs[j].nb
      <4>1. jobs[j].nb # NoNotebook /\ jobs[j].nb = n
        <5>1. jobs'[j] # jobs[j] /\ jobs[j].status \in JobStatus
          BY <3>4, StatusesApart
        <5>2. jobs[j].nb = n
          BY <2>2, <5>1 DEF Evicted
        <5> QED
          BY <1>1, <5>1, <5>2 DEF Named
      <4> QED
        BY <1>1, <3>1, <3>2, <4>1 DEF Named
    <3> QED
      BY <3>3, <3>4 DEF KeepsActive, NamedInv, Named
  <2> QED
    BY <1>3, <2>1, <2>2
<1> QED
  BY <1>3, <1>4, <1>5, <1>6, <1>7, LedgerWriters

(* Pruning takes no job that still works: with a bound on the history above *)
(* 0, or none, an active job leaves the ledger only as its notebook is      *)
(* evicted, or as it ends behind later jobs that have ended before it.      *)
(* With a bound of 0 every job goes as it ends.                             *)
THEOREM ActiveJobsKeptAlways ==
  ASSUME MaxCompleted # 0
  PROVE  Spec => ActiveJobsKept
<1>1. Init => NamedInv
  BY DEF Init, LedgerInit, NamedInv, UnusedJob, JobStatus, Active, Finished
<1>2. ASSUME IInv, NamedInv, [Next]_vars PROVE NamedInv' /\ KeepsActive
  BY <1>2, NextKeepsActive
<1> QED
  BY <1>1, <1>2, Inductive, PTL DEF Spec, ActiveJobsKept, KeepsActive

-----------------------------------------------------------------------------
(* Prompts *)

(* The cell does not ask again with the words of the prompt last answered.  *)
NewWords ==
  \A j \in Jobs : req'[j].status = "input" /\ req[j].status # "input" => req'[j].prompt # resumed[j]

Asking == {"input", "replied"}

(* A prompt is remembered while its request is polled; one that the request *)
(* asks and the task has not seen is none that was answered.                *)
PromptInv(j) ==
  /\ awaiting[j] = NoPrompt => resumed[j] = NoPrompt
  /\ awaiting[j] # NoPrompt => task[j].pc \in {"polling", "ended"}
  /\ jobs[j].status = "awaiting_input" => task[j].pc # "ended"
  /\ task[j].pc = "polling" /\ req[j].status \in Asking =>
       /\ req[j].prompt # NoPrompt
       /\ awaiting[j] # req[j].prompt => resumed[j] # req[j].prompt
  /\ jobs[j].status = "awaiting_input" /\ awaiting[j] # NoPrompt => resumed[j] # awaiting[j]

PromptsInv == \A j \in Jobs : PromptInv(j)

(* What most steps leave of a job's prompts. *)
Undisturbed(j) ==
  /\ awaiting'[j] = awaiting[j] /\ resumed'[j] = resumed[j]
  /\ jobs'[j].status = "awaiting_input" => jobs[j].status = "awaiting_input" /\ task'[j].pc # "ended"
  /\ task'[j].pc = task[j].pc \/ task'[j].pc = "ended" \/ awaiting[j] = NoPrompt
  /\ task'[j].pc = "polling" /\ req'[j].status \in Asking =>
       task[j].pc = "polling" /\ req[j].status \in Asking /\ req'[j].prompt = req[j].prompt

LEMMA UndisturbedPrompts ==
  ASSUME NEW j \in Jobs, PromptInv(j), Undisturbed(j)
  PROVE  PromptInv(j)'
BY DEF PromptInv, Undisturbed

LEMMA KeptAwaits ==
  ASSUME NEW was, NEW is, Kept(was, is), is.status = "awaiting_input"
  PROVE  was.status = "awaiting_input"
BY DEF Kept, GoneJob, UnusedJob

(* A step of others than its task, that changes no prompt of it *)
LEMMA BesidesPrompts ==
  ASSUME IInv, PromptsInv, NEW j \in Jobs, UNCHANGED <<awaiting, resumed>>, task'[j] = task[j],
         jobs'[j].status = "awaiting_input" => jobs[j].status = "awaiting_input",
         req'[j].status \in Asking => req[j].status \in Asking /\ req'[j].prompt = req[j].prompt
  PROVE  PromptInv(j)'
BY UndisturbedPrompts DEF PromptsInv, PromptInv, Undisturbed

LEMMA LoggedPrompts ==
  ASSUME IInv, PromptsInv, NEW n \in Notebooks, NEW action \in JobAction, NEW r \in RoomIds,
         jobs' = Logged(jobs, n, action, r)
  PROVE  \A j \in Jobs : jobs'[j].status = "awaiting_input" => jobs[j].status = "awaiting_input"
<1>1. \A j \in Jobs : \/ Kept(jobs[j], jobs'[j])
                      \/ jobs[j].status = "unused" /\ jobs'[j].status = "queued" /\ jobs'[j].nb = n
  BY LoggedKeeps DEF IInv, TypeOK
<1> QED
  BY <1>1, KeptAwaits

(* A task that ends, with whatever became of its request *)
LEMMA EndsPrompts ==
  ASSUME IInv, PromptsInv, NEW j \in Jobs, NEW status \in {"failed", "succeeded"}, Ends(j, status),
         \A k \in Jobs \ {j} : /\ awaiting'[k] = awaiting[k] /\ resumed'[k] = resumed[k]
                               /\ req'[k] = req[k],
         resumed'[j] = resumed[j],
         awaiting'[j] = NoPrompt => resumed[j] = NoPrompt
  PROVE  PromptsInv'
<1>1. jobs \in [Jobs -> Job] /\ status \in JobStatus /\ task \in [Jobs -> Task]
  BY DEF IInv, TypeOK, JobStatus, Finished
<1>2. jobs' = Updated(jobs, j, status, NoRoom) /\ task'[j].pc = "ended"
      /\ \A k \in Jobs \ {j} : task'[k] = task[k]
  BY <1>1 DEF Ends, Task
<1>3. /\ \A k \in Jobs \ {j} : Kept(jobs[k], jobs'[k])
      /\ jobs[j].status \notin JobStatus => jobs'[j] = jobs[j]
      /\ jobs[j].status \in JobStatus =>
           \/ jobs'[j].status = status
           \/ jobs'[j] = GoneJob
  BY <1>1, <1>2, UpdatedKeeps
<1>4. jobs'[j].status # "awaiting_input"
  BY <1>3 DEF GoneJob, UnusedJob, JobStatus, Active
<1>5. PromptInv(j)'
  BY <1>2, <1>4 DEF PromptInv
<1>6. ASSUME NEW k \in Jobs \ {j} PROVE PromptInv(k)'
  <2>1. Undisturbed(k)
    BY <1>2, <1>3, <1>6, KeptAwaits DEF Undisturbed, PromptsInv, PromptInv
  <2> QED
    BY <2>1, UndisturbedPrompts DEF PromptsInv
<1> QED
  BY <1>5, <1>6 DEF PromptsInv

LEMMA TaskPrompts ==
  ASSUME IInv, PromptsInv, NEW j \in Jobs, TaskSteps(j)
  PROVE  PromptsInv'
<1>1. /\ jobs \in [Jobs -> Job] /\ task \in [Jobs -> Task] /\ req \in [Jobs -> Request]
      /\ awaiting \in [Jobs -> Prompts \cup {NoPrompt}] /\ resumed \in [Jobs -> Prompts \cup {NoPrompt}]
  BY DEF IInv, TypeOK
<1>2. ASSUME NEW status \in {"failed", "succeeded"}, Ends(j, status), UNCHANGED <<req, awaiting, resumed>>
      PROVE  PromptsInv'
  BY <1>2, EndsPrompts DEF PromptsInv, PromptInv
<1>3. ASSUME \A k \in Jobs : Undisturbed(k) PROVE PromptsInv'
  BY <1>3, UndisturbedPrompts DEF PromptsInv
<1>4. CASE TaskStarts(j)
  <2>1. PICK r \in RoomIds : task' = [task EXCEPT ![j] = [@ EXCEPT !.pc = "locking", !.room = r]]
    BY <1>4 DEF TaskStarts
  <2>2. /\ awaiting[j] = NoPrompt /\ task'[j].pc = "locking"
        /\ \A k \in Jobs \ {j} : task'[k] = task[k]
        /\ UNCHANGED <<jobs, req, awaiting, resumed>>
    BY <1>1, <1>4, <2>1 DEF TaskStarts, Task, PromptsInv, PromptInv, ledgerVars, promptVars
  <2> QED
    BY <1>3, <2>2 DEF Undisturbed, PromptsInv, PromptInv
<1>5. CASE TaskCalls(j)
  <2>1. UNCHANGED <<jobs, task, req, awaiting, resumed>>
    BY <1>5 DEF TaskCalls, EnsureCall, ledgerVars, promptVars
  <2> QED
    BY <1>3, <2>1 DEF Undisturbed, PromptsInv, PromptInv
<1>6. CASE TaskLocks(j)
  <2>1. /\ awaiting[j] = NoPrompt /\ task'[j].pc = "preparing"
        /\ \A k \in Jobs \ {j} : task'[k] = task[k]
        /\ UNCHANGED <<req, awaiting, resumed>>
    BY <1>1, <1>6 DEF TaskLocks, Task, PromptsInv, PromptInv, promptVars
  <2>2. task[j].room \in RoomIds
    BY <1>6 DEF TaskLocks, IInv, TasksInv, TaskInv, TaskRoomed, Roomed
  <2>3. /\ \A k \in Jobs \ {j} : Kept(jobs[k], jobs'[k])
        /\ jobs'[j].status \in {jobs[j].status, "running"}
    BY <1>6, <2>2, UpdatedGoesOn DEF TaskLocks, Active
  <2> QED
    BY <1>3, <2>1, <2>3, KeptAwaits DEF Undisturbed, PromptsInv, PromptInv
<1>7. CASE TaskPuts(j)
  <2> DEFINE asked == [NoRequest EXCEPT !.status = "running"]
  <2>1. /\ task[j].pc = "preparing" /\ req' = [req EXCEPT ![j] = asked]
        /\ UNCHANGED <<awaiting, resumed>>
    BY <1>7 DEF TaskPuts, promptVars
  <2>2. asked.status = "running"
    BY DEF NoRequest
  <2> HIDE DEF asked
  <2>3. req'[j].status = "running" /\ \A k \in Jobs \ {j} : req'[k] = req[k]
    BY <1>1, <2>1, <2>2
  <2>4. CASE Recorded(j)
    <3>1. \A k \in Jobs : jobs'[k].status = jobs[k].status
      <4>1. jobs' = WithUid(jobs, j)
        BY <1>7, <2>4 DEF TaskPuts
      <4>2. jobs'[j].status = jobs[j].status /\ \A k \in Jobs \ {j} : jobs'[k] = jobs[k]
        BY <1>1, <4>1, WithUidKeeps
      <4> QED
        BY <4>2
    <3>2. task'[j].pc = "polling" /\ \A k \in Jobs \ {j} : task'[k] = task[k]
      BY <1>1, <1>7, <2>4 DEF TaskPuts, Task
    <3>3. awaiting[j] = NoPrompt
      BY <2>1 DEF PromptsInv, PromptInv
    <3> QED
      BY <1>3, <2>1, <2>3, <3>1, <3>2, <3>3 DEF Undisturbed, PromptsInv, PromptInv, Asking
  <2>5. CASE Ends(j, "failed")
    BY <2>1, <2>3, <2>5, EndsPrompts DEF PromptsInv, PromptInv
  <2> QED
    BY <1>7, <2>4, <2>5 DEF TaskPuts
<1>8. CASE PollsPrompt(j)
  <2> DEFINE prompt == req[j].prompt
  <2>1. /\ task[j].pc = "polling" /\ req[j].status \in Asking
        /\ awaiting'[j] = prompt /\ \A k \in Jobs \ {j} : awaiting'[k] = awaiting[k]
        /\ UNCHANGED <<req, resumed>>
    BY <1>1, <1>8 DEF PollsPrompt, Asking
  <2>2. prompt # NoPrompt
    BY <2>1 DEF PromptsInv, PromptInv
  <2>3. CASE UNCHANGED <<jobs, task>> /\ resumed[j] = prompt
    <3>1. jobs[j].status # "awaiting_input"
      BY <2>1, <2>2, <2>3 DEF PromptsInv, PromptInv
    <3> QED
      BY <2>1, <2>2, <2>3, <3>1 DEF PromptsInv, PromptInv
  <2>4. CASE jobs' = Updated(jobs, j, "awaiting_input", NoRoom) /\ UNCHANGED task /\ resumed[j] # prompt
    <3>1. \A k \in Jobs \ {j} : Kept(jobs[k], jobs'[k])
      BY <1>1, <2>4, UpdatedKeeps DEF JobStatus, Active
    <3>2. ASSUME NEW k \in Jobs \ {j} PROVE PromptInv(k)'
      <4>1. Undisturbed(k)
        BY <2>1, <2>4, <3>1, <3>2, KeptAwaits DEF Undisturbed, PromptsInv, PromptInv
      <4> QED
        BY <4>1, UndisturbedPrompts DEF PromptsInv
    <3>3. PromptInv(j)'
      BY <2>1, <2>2, <2>4 DEF PromptInv
    <3> QED
      BY <3>2, <3>3 DEF PromptsInv
  <2>5. CASE Ends(j, "failed")
    BY <2>1, <2>2, <2>5, EndsPrompts
  <2> QED
    BY <1>8, <2>3, <2>4, <2>5 DEF PollsPrompt
<1>9. CASE PollsResult(j)
  <2>1. /\ awaiting'[j] = NoPrompt /\ resumed'[j] = NoPrompt /\ task'[j].pc = "flushing"
        /\ \A k \in Jobs \ {j} : /\ awaiting'[k] = awaiting[k] /\ resumed'[k] = resumed[k]
                                 /\ task'[k] = task[k] /\ req'[k] = req[k]
        /\ UNCHANGED jobs
    BY <1>1, <1>9 DEF PollsResult, Task, ledgerVars
  <2> QED
    BY <2>1 DEF PromptsInv, PromptInv
<1>10. CASE /\ task[j].pc = "flushing" /\ UNCHANGED <<jobs, req, awaiting, resumed>>
           /\ task' = [task EXCEPT ![j] = [@ EXCEPT !.pc = "preparing", !.cell = task[j].cell + 1]]
  <2>1. task'[j].pc = "preparing" /\ \A k \in Jobs \ {j} : task'[k] = task[k]
    BY <1>1, <1>10 DEF Task
  <2> QED
    BY <1>3, <1>10, <2>1 DEF Undisturbed, PromptsInv, PromptInv
<1>11. CASE PrepareFails(j) \/ PollRaises(j) \/ FlushFails(j)
  BY <1>2, <1>11 DEF PrepareFails, PollRaises, FlushFails, promptVars
<1>12. CASE Flushes(j)
  BY <1>2, <1>10, <1>12 DEF Flushes, promptVars
<1> QED
  BY <1>4, <1>6, <1>7, <1>8, <1>9, <1>11, <1>12, <1>5 DEF TaskSteps

LEMMA NextPrompts ==
  ASSUME IInv, PromptsInv, [Next]_vars, NewWords
  PROVE  PromptsInv'
<1>1. /\ jobs \in [Jobs -> Job] /\ task \in [Jobs -> Task] /\ req \in [Jobs -> Request]
      /\ awaiting \in [Jobs -> Prompts \cup {NoPrompt}] /\ resumed \in [Jobs -> Prompts \cup {NoPrompt}]
  BY DEF IInv, TypeOK
<1>2. ASSUME UNCHANGED <<task, awaiting, resumed>>,
             \A j \in Jobs : jobs'[j].status = "awaiting_input" => jobs[j].status = "awaiting_input",
             \A j \in Jobs : req'[j].status \in Asking =>
                              req[j].status \in Asking /\ req'[j].prompt = req[j].prompt
      PROVE  PromptsInv'
  BY <1>2, BesidesPrompts DEF PromptsInv
<1>3. CASE UNCHANGED <<jobs, task, req, awaiting, resumed>>
  BY <1>2, <1>3
<1>4. ASSUME NEW a \in Actors, EnsureSteps(a) PROVE PromptsInv'
  <2>1. UNCHANGED <<jobs, req, awaiting, resumed>>
    BY <1>4 DEF EnsureSteps, LookupFinds, LookupMisses, CreateReturns, CreateFails, ledgerVars, promptVars
  <2>2. ASSUME NEW k \in Jobs, task'[k] # task[k]
        PROVE  task[k].pc = "starting" /\ task'[k].pc = "died"
    <3>1. k = a /\ CreateFails(a) /\ task' = [task EXCEPT ![a] = [@ EXCEPT !.pc = "died"]]
      BY <1>1, <1>4, <2>2 DEF EnsureSteps, LookupFinds, LookupMisses, CreateReturns, CreateFails
    <3>2. task[a].pc = "starting"
      BY <3>1, Suspended DEF CreateFails
    <3> QED
      BY <1>1, <3>1, <3>2 DEF Task
  <2>3. \A k \in Jobs : Undisturbed(k)
    BY <2>1, <2>2 DEF Undisturbed, PromptsInv, PromptInv
  <2> QED
    BY <2>3, UndisturbedPrompts DEF PromptsInv
<1>5. ASSUME NEW c \in Callers, NEW n \in Notebooks, NEW last \in Cells, QueueExecution(c, n, last)
      PROVE  PromptsInv'
  <2>1. PICK j \in Jobs : j = NextJob /\ jobs[j].status = "unused"
    BY <1>5 DEF QueueExecution, UnusedJobs, NextJob
  <2>2. PICK r \in RoomIds : jobs' = Logged(jobs, n, "execute", r)
    BY <1>5 DEF QueueExecution, Logged
  <2>3. \A k \in Jobs : jobs'[k].status = "awaiting_input" => jobs[k].status = "awaiting_input"
    BY <2>2, LoggedPrompts DEF JobAction
  <2>4. task[j].pc = "none"
    BY <2>1 DEF IInv, TasksInv, TaskInv
  <2>5. /\ task'[j].pc = "starting" /\ \A k \in Jobs \ {j} : task'[k] = task[k]
        /\ UNCHANGED <<req, awaiting, resumed>>
    BY <1>1, <1>5, <2>1 DEF QueueExecution, NoTask, promptVars
  <2>6. ASSUME NEW k \in Jobs PROVE Undisturbed(k)
    BY <2>3, <2>4, <2>5 DEF Undisturbed, PromptsInv, PromptInv
  <2> QED
    BY <2>6, UndisturbedPrompts DEF PromptsInv
<1>6. ASSUME NEW c \in Callers, NEW n \in Notebooks, Interrupt(c, n) PROVE PromptsInv'
  <2>1. PICK r \in RoomIds : UNCHANGED jobs \/ jobs' = Logged(jobs, n, "interrupt", r)
    BY <1>6 DEF Interrupt
  <2>2. \A j \in Jobs : jobs'[j].status = "awaiting_input" => jobs[j].status = "awaiting_input"
    BY <2>1, LoggedPrompts DEF JobAction
  <2>3. UNCHANGED req \/ \E i \in Jobs : req' = [req EXCEPT ![i] = [@ EXCEPT !.status = "error"]]
    BY <1>6 DEF Interrupt
  <2>4. \A j \in Jobs : req'[j] = req[j] \/ req'[j].status = "error"
    BY <1>1, <2>3 DEF Request
  <2>5. UNCHANGED <<task, awaiting, resumed>>
    BY <1>6 DEF Interrupt, promptVars
  <2> QED
    BY <1>2, <2>2, <2>4, <2>5 DEF Asking
<1>7. ASSUME NEW c \in Callers, CallSteps(c) PROVE PromptsInv'
  BY <1>3, <1>5, <1>6, <1>7
  DEF CallSteps, Calls, EnsureCall, StatusCall, OpenRuntime, QueueAbandoned, ledgerVars, promptVars
<1>8. CASE \E j \in Jobs : TaskSteps(j)
  BY <1>8, TaskPrompts
<1>9. ASSUME NEW j \in Jobs, RequestEnds(j) PROVE PromptsInv'
  <2>1. \A k \in Jobs : req'[k] = req[k] \/ req'[k].status \in {"ok", "error"}
    BY <1>1, <1>9 DEF RequestEnds, Request
  <2> QED
    BY <1>2, <1>9, <2>1 DEF RequestEnds, Asking, ledgerVars, promptVars
<1>10. ASSUME NEW k \in Kernels, KernelRestarts(k) PROVE PromptsInv'
  <2>1. \A j \in Jobs : req'[j] = req[j] \/ req'[j].status = "lost"
    BY <1>1, <1>10 DEF KernelRestarts, Request
  <2> QED
    BY <1>2, <1>10, <2>1 DEF KernelRestarts, Asking, ledgerVars, promptVars
<1>11. ASSUME NEW j \in Jobs, NEW p \in Prompts, AsksForInput(j, p) PROVE PromptsInv'
  <2>1. /\ req[j].status # "input" /\ req'[j].status = "input" /\ req'[j].prompt = p
        /\ \A k \in Jobs \ {j} : req'[k] = req[k]
        /\ UNCHANGED <<jobs, task, awaiting, resumed>>
    BY <1>1, <1>11 DEF AsksForInput, ledgerVars, promptVars
  <2>2. p # resumed[j] /\ p # NoPrompt
    BY <2>1, ExecutionAssumption DEF NewWords
  <2> QED
    BY <2>1, <2>2 DEF PromptsInv, PromptInv
<1>12. ASSUME NEW s \in Senders, StdinReturns(s) PROVE PromptsInv'
  <2>1. PICK j \in Jobs : j = sender[s].job /\ task[j].nb \in Notebooks
    BY <1>12 DEF StdinReturns, IInv, TypeOK, Sender, SendersInv, TasksInv, TaskInv
  <2> DEFINE r == sender[s].room
             logged == Logged(jobs, task[j].nb, "stdin_reply", r)
  <2>2. r \in RoomIds
    BY <1>12 DEF StdinReturns, IInv, TypeOK, Sender
  <2>3. jobs' = Updated(logged, j, "running", r)
    BY <1>12, <2>1 DEF StdinReturns
  <2>4. /\ logged \in [Jobs -> Job]
        /\ \A k \in Jobs : \/ Kept(jobs[k], logged[k])
                           \/ jobs[k].status = "unused" /\ logged[k].status = "queued"
    BY <1>1, <2>1, <2>2, LoggedKeeps DEF JobAction
  <2>5. /\ UNCHANGED <<task, awaiting>>
        /\ \A k \in Jobs : req'[k] = req[k] \/ (req[k].status = "input" /\ req'[k].status = "replied"
                                                /\ req'[k].prompt = req[k].prompt)
        /\ \A k \in Jobs \ {j} : resumed'[k] = resumed[k]
        /\ resumed'[j] = IF awaiting[j] = NoPrompt THEN resumed[j] ELSE awaiting[j]
    <3>1. UNCHANGED <<task, awaiting>>
      BY <1>12 DEF StdinReturns
    <3>2. PICK i \in PendingIn(rooms[r].kernel) : req' = [req EXCEPT ![i] = [@ EXCEPT !.status = "replied"]]
      BY <1>12 DEF StdinReturns
    <3>3. i \in Jobs /\ req[i].status = "input"
      BY <3>2 DEF PendingIn
    <3>4. resumed' = IF awaiting[j] = NoPrompt THEN resumed ELSE [resumed EXCEPT ![j] = awaiting[j]]
      BY <1>12, <2>1 DEF StdinReturns
    <3> HIDE DEF r
    <3> QED
      BY <1>1, <2>1, <3>1, <3>2, <3>3, <3>4 DEF Request
  <2> HIDE DEF r, logged
  <2>6. /\ \A k \in Jobs \ {j} : Kept(logged[k], jobs'[k])
        /\ logged[j].status \notin JobStatus => jobs'[j] = logged[j]
        /\ logged[j].status \in JobStatus =>
             \/ jobs'[j].status = "running"
             \/ jobs'[j] = GoneJob
    BY <2>1, <2>2, <2>3, <2>4, UpdatedKeeps DEF JobStatus, Active
  <2>7. jobs'[j].status # "awaiting_input"
    BY <2>6 DEF GoneJob, UnusedJob, JobStatus, Active
  <2>8. ASSUME NEW k \in Jobs \ {j} PROVE PromptInv(k)'
    <3>1. jobs'[k].status = "awaiting_input" => jobs[k].status = "awaiting_input"
      BY <2>4, <2>6, KeptAwaits
    <3>2. Undisturbed(k)
      BY <2>5, <3>1 DEF Undisturbed, PromptsInv, PromptInv, Asking
    <3> QED
      BY <3>2, UndisturbedPrompts DEF PromptsInv
  <2>9. PromptInv(j)'
    BY <2>1, <2>5, <2>7 DEF PromptsInv, PromptInv, Asking
  <2> QED
    BY <2>8, <2>9 DEF PromptsInv
<1>13. ASSUME NEW r \in RoomIds, StopBegins(r) \/ StopEnds(r) PROVE PromptsInv'
  <2>1. UNCHANGED jobs \/ jobs' = Evicted(jobs, rooms[r].nb)
    BY <1>13 DEF StopBegins, StopEnds, RemoveRoom, ledgerVars
  <2>2. \A k \in Jobs : jobs'[k] = jobs[k] \/ jobs'[k] = GoneJob
    BY <1>1, <2>1, EvictedForgets
  <2>3. \A k \in Jobs : jobs'[k].status = "awaiting_input" => jobs[k].status = "awaiting_input"
    BY <2>2 DEF GoneJob, UnusedJob
  <2> QED
    BY <1>2, <1>13, <2>3 DEF StopBegins, StopEnds, promptVars
<1>14. CASE \/ \E s \in Senders : StdinGoesOn(s) \/ StdinFails(s)
            \/ \E s \in Senders, j \in Jobs : StdinCall(s, j)
            \/ \E r \in RoomIds : DetachClient(r)
            \/ \E n \in Notebooks : LabOpens(n)
            \/ \E k \in Kernels : KernelDies(k)
            \/ UNCHANGED vars
  BY <1>3, <1>14 DEF StdinGoesOn, StdinFails, StdinCall, EnsureCall, DetachClient, LabOpens, KernelDies,
                     ledgerVars, promptVars, vars
<1> QED
  BY <1>4, <1>8, <1>9, <1>10, <1>11, <1>12, <1>13, <1>7, <1>14 DEF Next, StdinSteps, KernelSteps

(* The prompt a job is shown waiting for is not the one its last reply was  *)
(* for, however replies, polls, stops and restarts interleave, as long as   *)
(* the cell does not ask again with the words of that one: the code tells   *)
(* prompts apart by their words.                                            *)
THEOREM AwaitingIsRealAlways == Spec /\ [][NewWords]_vars => []AwaitingIsReal
<1>1. Init => PromptsInv
  BY DEF Init, LedgerInit, PromptsInv, PromptInv, UnusedJob, NoTask, NoRequest, Asking
<1>2. ASSUME IInv, PromptsInv, [Next]_vars, [NewWords]_vars PROVE PromptsInv'
  <2>1. CASE NewWords
    BY <1>2, <2>1, NextPrompts
  <2>2. CASE UNCHANGED vars
    BY <1>2, <2>2 DEF vars, runtimeVars, PromptsInv, PromptInv
  <2> QED
    BY <1>2, <2>1, <2>2
<1>3. PromptsInv => AwaitingIsReal
  BY DEF PromptsInv, PromptInv, AwaitingIsReal
<1> QED
  BY <1>1, <1>2, <1>3, Inductive, PTL DEF Spec

=============================================================================
