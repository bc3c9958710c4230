---------------------------- MODULE JobExecution ----------------------------
(***************************************************************************)
(* The life of an execution job: ExecutionOrchestrator of                  *)
(* src/hypernote/execution_orchestrator.py over the ledger.                *)
(*                                                                         *)
(* One action is the code between two suspension points of a coroutine:    *)
(* _run_job (a task per job), send_stdin, stop_runtime.  The calls into    *)
(* Jupyter (the execution stack that runs a cell's source in the kernel    *)
(* and holds the result until it is fetched, the shared document, the      *)
(* session manager) are outside src/ and modelled by what this code may    *)
(* see of them.                                                            *)
(*                                                                         *)
(* ensure_room suspends as in RuntimeManager, which has more of the rooms: *)
(* kernelspecs, status lookups, the GC's rounds, the shutdown.  The GC's   *)
(* clock is left out: a detached room may be idle at any time, for nothing *)
(* renews last_activity while a job polls.                                 *)
(***************************************************************************)
EXTENDS ActorLedger, Sequences

CONSTANTS
  Kernels,        \* kernel ids; each has one session
  Callers,        \* queue, open and interrupt calls that can be in flight at once
  Senders,        \* send_stdin calls that can be in flight at once
  Prompts,        \* signatures of input requests
  MaxPrompts,     \* a cell asks for input at most this often
  RepeatPrompts,  \* whether a cell may ask twice in the same words
  Disturbances,   \* what else may happen: see the actions guarded by it
  NoPrompt, NoKernel

ASSUME ExecutionAssumption ==
  /\ NoPrompt \notin Prompts /\ MaxPrompts \in Nat /\ RepeatPrompts \in BOOLEAN
  /\ NoKernel \notin Kernels
  /\ Jobs \cap Callers = {} /\ Jobs \cap Senders = {} /\ Callers \cap Senders = {}
  /\ Disturbances \subseteq {"stop", "die", "restart", "interrupt", "fail", "attach", "lab"}

VARIABLES
  rooms,       \* the NotebookRoom objects
  registered,  \* keys of _rooms
  current,     \* _notebook_to_room
  session,     \* Jupyter's sessions: the notebook each kernel was started for
  up,          \* the kernels in the kernel manager
  call,        \* the ensure_room of each task and call
  lock,        \* job_lock of each room: the jobs that hold it and wait for it
  task,        \* the _run_job coroutine of each job
  req,         \* the request of each job that the execution stack has now
  awaiting,    \* _awaiting_input_signatures
  resumed,     \* _resumed_input_signatures
  sender,      \* the send_stdin calls
  stops,       \* the rooms whose delete_session is awaited
  overtaken    \* history: the kernels a lookup adopted although another call had
               \* given the notebook a room since the lookup began

kernelVars == <<session, up, overtaken>>
runtimeVars == <<rooms, registered, current>>
ledgerVars == <<jobs, attribution>>
promptVars == <<awaiting, resumed>>
vars == <<jobs, attribution, rooms, registered, current, session, up, call, lock, task, req,
          awaiting, resumed, sender, stops, overtaken>>

Actors == Jobs \cup Callers \cup Senders

LiveStates == {"live-attached", "live-detached", "awaiting-input"}

Room ==
  [nb      : Notebooks \cup {NoNotebook},
   state   : LiveStates \cup {"absent", "starting", "stopping", "stopped", "failed"},
   clients : BOOLEAN,   \* some client is attached
   jobs    : SUBSET Jobs,
   kernel  : Kernels \cup {NoKernel}]

(* Where an ensure_room or get_runtime_status is suspended: in get_session, *)
(* in create_session of the room it made; "returned": it answers that room, *)
(* and its caller, which has the loop, goes on.                             *)
Call ==
  [pc   : {"none", "looking", "creating", "returned"},
   op   : {"run", "queue", "open", "status", "interrupt", "stdin"},
   nb   : Notebooks \cup {NoNotebook},
   room : RoomIds \cup {NoRoom}]

Task ==
  [pc   : {"none", "starting", "locking", "preparing", "polling", "flushing", "ended", "died"},
   nb   : Notebooks \cup {NoNotebook},
   room : RoomIds \cup {NoRoom},
   cell : Cells,
   last : Cells,
   ok   : BOOLEAN]      \* the result it fetched was no error

(* "replied": the kernel has the answer but the stack still reports the     *)
(* prompt.  "taken": the result was fetched, and the stack has dropped it.  *)
Request ==
  [status : {"none", "running", "input", "replied", "ok", "error", "taken", "lost"},
   prompt : Prompts \cup {NoPrompt},
   asked  : 0..MaxPrompts]

Sender == [job : Jobs \cup {NoJob}, room : RoomIds \cup {NoRoom}]

TypeOK ==
  /\ jobs \in [Jobs -> Job]
  /\ attribution \in [Notebooks -> [Cells -> Jobs \cup {NoJob}]]
  /\ rooms \in [RoomIds -> Room]
  /\ registered \subseteq RoomIds
  /\ current \in [Notebooks -> RoomIds \cup {NoRoom}]
  /\ session \in [Kernels -> Notebooks \cup {NoNotebook}]
  /\ up \subseteq Kernels /\ overtaken \subseteq Kernels
  /\ call \in [Actors -> Call]
  /\ lock \in [RoomIds -> Seq(Jobs)]
  /\ task \in [Jobs -> Task]
  /\ req \in [Jobs -> Request]
  /\ awaiting \in [Jobs -> Prompts \cup {NoPrompt}]
  /\ resumed \in [Jobs -> Prompts \cup {NoPrompt}]
  /\ sender \in [Senders -> Sender]
  /\ stops \subseteq registered

AbsentRoom ==
  [nb |-> NoNotebook, state |-> "absent", clients |-> FALSE, jobs |-> {}, kernel |-> NoKernel]
NoCall == [pc |-> "none", op |-> "run", nb |-> NoNotebook, room |-> NoRoom]
NoTask ==
  [pc |-> "none", nb |-> NoNotebook, room |-> NoRoom, cell |-> 1, last |-> 1, ok |-> TRUE]
NoRequest == [status |-> "none", prompt |-> NoPrompt, asked |-> 0]
Idle == [job |-> NoJob, room |-> NoRoom]

Init ==
  /\ LedgerInit
  /\ rooms = [r \in RoomIds |-> AbsentRoom]
  /\ registered = {}
  /\ current = [n \in Notebooks |-> NoRoom]
  /\ session = [k \in Kernels |-> NoNotebook]
  /\ up = {} /\ overtaken = {}
  /\ call = [a \in Actors |-> NoCall]
  /\ lock = [r \in RoomIds |-> <<>>]
  /\ task = [j \in Jobs |-> NoTask]
  /\ req = [j \in Jobs |-> NoRequest]
  /\ awaiting = [j \in Jobs |-> NoPrompt]
  /\ resumed = [j \in Jobs |-> NoPrompt]
  /\ sender = [s \in Senders |-> Idle]
  /\ stops = {}

-----------------------------------------------------------------------------
(* ensure_room *)

(* Nobody else is between the return of ensure_room and its next await. *)
MayRun(a) == \A b \in Actors \ {a} : call[b].pc # "returned"
LoopFree == \A b \in Actors : call[b].pc # "returned"

FreshRooms == {r \in RoomIds : rooms[r].state = "absent"}
NextRoom == CHOOSE r \in RoomIds : r \in FreshRooms
FreshKernels == {k \in Kernels : session[k] = NoNotebook}
NextKernel == CHOOSE k \in Kernels : k \in FreshKernels

SessionsUp(n) == {k \in up : session[k] = n}

(* What _load_or_refresh_room makes of the notebook's room, and the test of *)
(* ensure_room: its kernel is there and it is live.                         *)
Usable(n) ==
  /\ current[n] # NoRoom
  /\ rooms[current[n]].kernel \in up /\ rooms[current[n]].state \in LiveStates

Refreshed(n) ==
  [r \in RoomIds |->
     IF r = current[n] /\ rooms[r].kernel \notin up /\ rooms[r].state \notin {"stopped", "failed"}
     THEN [rooms[r] EXCEPT !.state = "stopped"] ELSE rooms[r]]

NewRoom(n, state, k) == [AbsentRoom EXCEPT !.nb = n, !.state = state, !.kernel = k]

Registers(n, r) ==
  /\ registered' = registered \cup {r}
  /\ current' = [current EXCEPT ![n] = r]

Suspends(a, op, n, pc, r) ==
  call' = [call EXCEPT ![a] = [pc |-> pc, op |-> op, nb |-> n, room |-> r]]

(* A new room whose create_session is awaited *)
CreatesRoom(a, op, n) ==
  /\ FreshRooms # {}
  /\ rooms' = [Refreshed(n) EXCEPT ![NextRoom] = NewRoom(n, "starting", NoKernel)]
  /\ Registers(n, NextRoom)
  /\ Suspends(a, op, n, "creating", NextRoom)

(* ensure_room up to its await: get_session if the notebook has no room,    *)
(* create_session if it has one that is of no use.  op says who calls.      *)
EnsureCall(a, op, n) ==
  /\ LoopFree /\ call[a].pc = "none"
  /\ \/ /\ current[n] = NoRoom
        /\ Suspends(a, op, n, "looking", NoRoom)
        /\ UNCHANGED runtimeVars
     \/ /\ current[n] # NoRoom /\ ~Usable(n)
        /\ CreatesRoom(a, op, n)
  /\ UNCHANGED <<ledgerVars, kernelVars, lock, task, req, promptVars, stops>>

(* get_session answers: the session is adopted.  The map is not read again. *)
LookupFinds(a) ==
  LET n == call[a].nb
  IN /\ LoopFree /\ call[a].pc = "looking" /\ FreshRooms # {}
     /\ \E k \in SessionsUp(n) :
          /\ rooms' = [rooms EXCEPT ![NextRoom] = NewRoom(n, "live-detached", k)]
          /\ overtaken' = IF current[n] = NoRoom THEN overtaken ELSE overtaken \cup {k}
     /\ Registers(n, NextRoom)
     /\ IF call[a].op = "status"
        THEN call' = [call EXCEPT ![a] = NoCall]
        ELSE Suspends(a, call[a].op, n, "returned", NextRoom)
     /\ UNCHANGED <<ledgerVars, session, up, lock, task, req, promptVars, sender, stops>>

(* It raises HTTPError 404. *)
LookupMisses(a) ==
  LET n == call[a].nb
  IN /\ LoopFree /\ call[a].pc = "looking"
     /\ SessionsUp(n) = {}
     /\ \/ /\ call[a].op # "status" /\ FreshRooms # {}
           /\ rooms' = [rooms EXCEPT ![NextRoom] = NewRoom(n, "starting", NoKernel)]
           /\ Registers(n, NextRoom)
           /\ Suspends(a, call[a].op, n, "creating", NextRoom)
        \/ /\ call[a].op = "status"
           /\ call' = [call EXCEPT ![a] = NoCall]
           /\ UNCHANGED runtimeVars
     /\ UNCHANGED <<ledgerVars, kernelVars, lock, task, req, promptVars, sender, stops>>

(* create_session returns: the room becomes live whatever it became since. *)
CreateReturns(a) ==
  LET n == call[a].nb
      r == call[a].room
      k == NextKernel
  IN /\ LoopFree /\ call[a].pc = "creating" /\ FreshKernels # {}
     /\ session' = [session EXCEPT ![k] = n]
     /\ up' = up \cup {k}
     /\ rooms' = [rooms EXCEPT ![r] = [@ EXCEPT !.kernel = k, !.state = "live-detached"]]
     /\ Suspends(a, call[a].op, n, "returned", r)
     /\ UNCHANGED <<ledgerVars, registered, current, overtaken, lock, task, req, promptVars, sender, stops>>

(* It raises, and the call fails with it.  _run_job makes it outside its    *)
(* try block: the exception ends the task and nothing else.                 *)
CreateFails(a) ==
  /\ "fail" \in Disturbances
  /\ LoopFree /\ call[a].pc = "creating"
  /\ rooms' = [rooms EXCEPT ![call[a].room] = [@ EXCEPT !.state = "failed"]]
  /\ call' = [call EXCEPT ![a] = NoCall]
  /\ task' = IF a \in Jobs THEN [task EXCEPT ![a] = [@ EXCEPT !.pc = "died"]] ELSE task
  /\ sender' = IF a \in Senders THEN [sender EXCEPT ![a] = Idle] ELSE sender
  /\ UNCHANGED <<ledgerVars, registered, current, kernelVars, lock, req, promptVars, stops>>

(* ensure_room answers r, at once or after its awaits, and its caller goes  *)
(* on.                                                                      *)
Answers(a, op, n, r) ==
  /\ MayRun(a)
  /\ \/ call[a].pc = "none" /\ Usable(n) /\ r = current[n]
     \/ call[a].pc = "returned" /\ call[a].op = op /\ call[a].nb = n /\ r = call[a].room
  /\ call' = [call EXCEPT ![a] = NoCall]

(* queue_execution, open_runtime and interrupt call ensure_room. *)
Calls(c, op, n) ==
  /\ \/ op = "queue" /\ UnusedJobs # {}
     \/ op = "open" /\ "attach" \in Disturbances
     \/ op = "interrupt" /\ "interrupt" \in Disturbances
  /\ EnsureCall(c, op, n)
  /\ UNCHANGED sender

(* get_runtime_status looks the notebook up in the same way. *)
StatusCall(c, n) ==
  /\ "attach" \in Disturbances
  /\ LoopFree /\ call[c].pc = "none"
  /\ \/ /\ current[n] = NoRoom
        /\ Suspends(c, "status", n, "looking", NoRoom)
        /\ UNCHANGED rooms
     \/ /\ current[n] # NoRoom /\ ~Usable(n)
        /\ rooms' = Refreshed(n)
        /\ UNCHANGED call
  /\ UNCHANGED <<ledgerVars, registered, current, kernelVars, lock, task, req, promptVars,
                 sender, stops>>

(* The record of an interrupt or a reply, while ids last *)
Logged(ledger, n, action, r) ==
  IF UnusedJobs = {} THEN ledger ELSE Created(ledger, NextJob, n, action, r)

-----------------------------------------------------------------------------
(* queue_execution *)

(* The record of the new job is created with the room that was answered,   *)
(* and the notebook's current room, which may be another, counts the job.   *)
QueueExecution(c, n, last) ==
  LET j == NextJob
      cur == current[n]
  IN
  /\ UnusedJobs # {}
  /\ \E r \in RoomIds : Answers(c, "queue", n, r) /\ jobs' = Created(jobs, j, n, "execute", r)
  /\ rooms' = IF cur = NoRoom THEN rooms
              ELSE [rooms EXCEPT ![cur] = [@ EXCEPT !.jobs = rooms[cur].jobs \cup {j}]]
  /\ task' = [task EXCEPT ![j] = [NoTask EXCEPT !.pc = "starting", !.nb = n, !.last = last]]
  /\ UNCHANGED <<attribution, registered, current, kernelVars, lock, req, promptVars, sender, stops>>

(* Bound: the ids ran out while the room was made. *)
QueueAbandoned(c) ==
  /\ UnusedJobs = {}
  /\ call[c].pc = "returned" /\ call[c].op = "queue"
  /\ call' = [call EXCEPT ![c] = NoCall]
  /\ UNCHANGED <<ledgerVars, runtimeVars, kernelVars, lock, task, req, promptVars, sender, stops>>

-----------------------------------------------------------------------------
(* _run_job *)

KernelOf(j) == rooms[task[j].room].kernel

(* The task's own ensure_room, which may answer another room than the call  *)
(* that queued the job got.                                                 *)
TaskCalls(j) ==
  /\ task[j].pc = "starting"
  /\ EnsureCall(j, "run", task[j].nb)
  /\ UNCHANGED sender

TaskStarts(j) ==
  /\ task[j].pc = "starting"
  /\ \E r \in RoomIds :
       /\ Answers(j, "run", task[j].nb, r)
       /\ task' = [task EXCEPT ![j] = [@ EXCEPT !.pc = "locking", !.room = r]]
       /\ lock' = [lock EXCEPT ![r] = Append(@, j)]
  /\ UNCHANGED <<ledgerVars, runtimeVars, kernelVars, req, promptVars, sender, stops>>

(* async with room.job_lock: first come, first served *)
TaskLocks(j) ==
  /\ task[j].pc = "locking"
  /\ Head(lock[task[j].room]) = j
  /\ task' = [task EXCEPT ![j] = [@ EXCEPT !.pc = "preparing"]]
  /\ jobs' = Updated(jobs, j, "running", task[j].room)
  /\ UNCHANGED <<attribution, runtimeVars, kernelVars, call, lock, req, promptVars, sender, stops>>

(* Variant: the job is not marked finished. *)
AfterJobUnmarked(j) ==
  [r \in RoomIds |->
     [rooms[r] EXCEPT !.state = IF r = task[j].room /\ @ = "awaiting-input"
                                THEN "live-detached" ELSE @]]

(* Variant: the room's state is left as it is. *)
AfterJobAsItIs(j) ==
  LET cur == current[task[j].nb]
  IN [r \in RoomIds |-> IF r = cur THEN [rooms[r] EXCEPT !.jobs = @ \ {j}] ELSE rooms[r]]

(* mark_job_finished on the notebook's current room, and the job's own room *)
(* leaves awaiting-input, whether or not clients are attached.              *)
AfterJob(j) ==
  LET own == task[j].room
      cur == current[task[j].nb]
  IN
  [r \in RoomIds |->
     [rooms[r] EXCEPT
        !.jobs = IF r = cur THEN @ \ {j} ELSE @,
        !.state = IF r = own /\ r \in registered /\ @ = "awaiting-input"
                  THEN "live-detached" ELSE @]]

(* Variant: an exception does not reach the ledger. *)
EndsUnrecorded(j, status) ==
  /\ jobs' = IF status = "failed" THEN jobs ELSE Updated(jobs, j, status, NoRoom)
  /\ rooms' = AfterJob(j)
  /\ lock' = [lock EXCEPT ![task[j].room] = Tail(@)]
  /\ task' = [task EXCEPT ![j] = [@ EXCEPT !.pc = "ended"]]
  /\ UNCHANGED <<registered, current, kernelVars, call, sender, stops>>

(* Variant: job_lock is not released. *)
EndsHoldingLock(j, status) ==
  /\ jobs' = Updated(jobs, j, status, NoRoom)
  /\ rooms' = AfterJob(j)
  /\ task' = [task EXCEPT ![j] = [@ EXCEPT !.pc = "ended"]]
  /\ UNCHANGED <<lock, registered, current, kernelVars, call, sender, stops>>

(* The job's last status, then the finally block and the end of the lock *)
Ends(j, status) ==
  /\ jobs' = Updated(jobs, j, status, NoRoom)
  /\ rooms' = AfterJob(j)
  /\ lock' = [lock EXCEPT ![task[j].room] = Tail(@)]
  /\ task' = [task EXCEPT ![j] = [@ EXCEPT !.pc = "ended"]]
  /\ UNCHANGED <<registered, current, kernelVars, call, sender, stops>>

(* The client is ready, the source and the document are read: the request   *)
(* is put to the stack.  append_request_uid raises if the record has been   *)
(* evicted since; the request stays put.                                    *)
TaskPuts(j) ==
  /\ task[j].pc = "preparing"
  /\ KernelOf(j) \in up
  /\ req' = [req EXCEPT ![j] = [NoRequest EXCEPT !.status = "running"]]
  /\ IF Recorded(j)
     THEN /\ jobs' = WithUid(jobs, j)
          /\ task' = [task EXCEPT ![j] = [@ EXCEPT !.pc = "polling"]]
          /\ UNCHANGED <<runtimeVars, kernelVars, call, lock, sender, stops>>
     ELSE Ends(j, "failed")
  /\ UNCHANGED <<attribution, promptVars>>

(* The cell was deleted, or the kernel is not ready in 30 seconds or gone. *)
PrepareFails(j) ==
  /\ task[j].pc = "preparing"
  /\ "fail" \in Disturbances \/ KernelOf(j) \notin up
  /\ Ends(j, "failed")
  /\ UNCHANGED <<attribution, req, promptVars>>

(* Variant: a prompt already answered is taken for a new one. *)
PollsPromptAgain(j) ==
  /\ task[j].pc = "polling"
  /\ req[j].status \in {"input", "replied"}
  /\ task[j].room \in registered
  /\ awaiting' = [awaiting EXCEPT ![j] = req[j].prompt]
  /\ jobs' = Updated(jobs, j, "awaiting_input", NoRoom)
  /\ rooms' = [rooms EXCEPT ![task[j].room] = [@ EXCEPT !.state = "awaiting-input"]]
  /\ UNCHANGED <<attribution, registered, current, kernelVars, call, lock, task, req, resumed,
                 sender, stops>>

(* The stack reports a prompt.  If its words are those of the prompt last   *)
(* answered it is taken for that one.                                       *)
PollsPrompt(j) ==
  LET prompt == req[j].prompt
      r == task[j].room
  IN
  /\ task[j].pc = "polling"
  /\ req[j].status \in {"input", "replied"}
  /\ awaiting' = [awaiting EXCEPT ![j] = prompt]
  /\ \/ /\ resumed[j] = prompt
        /\ UNCHANGED <<jobs, runtimeVars, kernelVars, call, lock, task, sender, stops>>
     \/ /\ resumed[j] # prompt
        /\ r \in registered
        /\ jobs' = Updated(jobs, j, "awaiting_input", NoRoom)
        /\ rooms' = [rooms EXCEPT ![r] = [@ EXCEPT !.state = "awaiting-input"]]
        /\ UNCHANGED <<registered, current, kernelVars, call, lock, task, sender, stops>>
     \/ /\ resumed[j] # prompt
        /\ r \notin registered   \* set_runtime_state raises
        /\ Ends(j, "failed")
  /\ UNCHANGED <<attribution, req, resumed>>

(* The stack has the result, and drops it as it hands it over. *)
PollsResult(j) ==
  /\ task[j].pc = "polling"
  /\ req[j].status \in {"ok", "error"}
  /\ awaiting' = [awaiting EXCEPT ![j] = NoPrompt]
  /\ resumed' = [resumed EXCEPT ![j] = NoPrompt]
  /\ req' = [req EXCEPT ![j] = [@ EXCEPT !.status = "taken"]]
  /\ task' = [task EXCEPT ![j] = [@ EXCEPT !.pc = "flushing", !.ok = (req[j].status = "ok")]]
  /\ UNCHANGED <<ledgerVars, runtimeVars, kernelVars, call, lock, sender, stops>>

(* The stack no longer knows the request. *)
PollRaises(j) ==
  /\ task[j].pc = "polling"
  /\ req[j].status = "lost"
  /\ Ends(j, "failed")
  /\ UNCHANGED <<attribution, req, promptVars>>

(* Variant: the result's error is not looked at. *)
FlushesIgnoringError(j) ==
  /\ task[j].pc = "flushing"
  /\ attribution' = Attributed(task[j].nb, task[j].cell, j)
  /\ IF task[j].cell = task[j].last
     THEN Ends(j, "succeeded")
     ELSE /\ task' = [task EXCEPT ![j] = [@ EXCEPT !.pc = "preparing", !.cell = @ + 1]]
          /\ UNCHANGED <<jobs, runtimeVars, kernelVars, call, lock, sender, stops>>
  /\ UNCHANGED <<req, promptVars>>

(* Variant: one cell more than the job has. *)
FlushesOnePast(j) ==
  /\ task[j].pc = "flushing"
  /\ attribution' = Attributed(task[j].nb, task[j].cell, j)
  /\ IF ~task[j].ok
     THEN Ends(j, "failed")
     ELSE /\ task' = [task EXCEPT ![j] = [@ EXCEPT !.pc = "preparing", !.cell = @ + 1]]
          /\ UNCHANGED <<jobs, runtimeVars, kernelVars, call, lock, sender, stops>>
  /\ UNCHANGED <<req, promptVars>>

(* The document is saved: the cell is attributed to the actor, whatever     *)
(* became of the runtime, and the first error ends the job.                 *)
Flushes(j) ==
  /\ task[j].pc = "flushing"
  /\ attribution' = Attributed(task[j].nb, task[j].cell, j)
  /\ \/ ~task[j].ok /\ Ends(j, "failed")
     \/ task[j].ok /\ task[j].cell = task[j].last /\ Ends(j, "succeeded")
     \/ /\ task[j].ok /\ task[j].cell # task[j].last
        /\ task' = [task EXCEPT ![j] = [@ EXCEPT !.pc = "preparing", !.cell = task[j].cell + 1]]
        /\ UNCHANGED <<jobs, runtimeVars, kernelVars, call, lock, sender, stops>>
  /\ UNCHANGED <<req, promptVars>>

FlushFails(j) ==
  /\ "fail" \in Disturbances
  /\ task[j].pc = "flushing"
  /\ Ends(j, "failed")
  /\ UNCHANGED <<attribution, req, promptVars>>

-----------------------------------------------------------------------------
(* send_stdin *)

(* The job is awaiting input, and its notebook's room is ensured before the *)
(* reply is given to the stack.                                             *)
StdinCall(s, j) ==
  LET n == jobs[j].nb IN
  /\ sender[s] = Idle
  /\ jobs[j].status = "awaiting_input"
  /\ \/ EnsureCall(s, "stdin", n) /\ sender' = [sender EXCEPT ![s] = [job |-> j, room |-> NoRoom]]
     \/ /\ \E r \in RoomIds :
             Answers(s, "stdin", n, r) /\ sender' = [sender EXCEPT ![s] = [job |-> j, room |-> r]]
        /\ UNCHANGED <<ledgerVars, runtimeVars, kernelVars, lock, task, req, promptVars, stops>>

(* ensure_room returned after its awaits.  The job is not looked at again. *)
StdinGoesOn(s) ==
  /\ sender[s].job # NoJob /\ call[s].pc = "returned"
  /\ \E r \in RoomIds :
       /\ Answers(s, "stdin", call[s].nb, r)
       /\ sender' = [sender EXCEPT ![s] = [job |-> sender[s].job, room |-> r]]
  /\ UNCHANGED <<ledgerVars, runtimeVars, kernelVars, lock, task, req, promptVars, stops>>

(* The prompts pending in a kernel *)
PendingIn(k) == {i \in Jobs : task[i].room # NoRoom /\ KernelOf(i) = k /\ req[i].status = "input"}

(* The kernel takes the reply for whatever prompt it has pending.  The      *)
(* prompt the job was last seen waiting for counts as answered.             *)
StdinReturns(s) ==
  LET j == sender[s].job
      r == sender[s].room
  IN
  /\ r # NoRoom
  /\ \E i \in PendingIn(rooms[r].kernel) : req' = [req EXCEPT ![i] = [@ EXCEPT !.status = "replied"]]
  /\ resumed' = IF awaiting[j] = NoPrompt THEN resumed
                ELSE [resumed EXCEPT ![j] = awaiting[j]]
  /\ jobs' = Updated(Logged(jobs, task[j].nb, "stdin_reply", r), j, "running", r)
  /\ rooms' = IF r \notin registered THEN rooms
              ELSE [rooms EXCEPT ![r] = [@ EXCEPT
                      !.state = IF rooms[r].clients THEN "live-attached" ELSE "live-detached"]]
  /\ sender' = [sender EXCEPT ![s] = Idle]
  /\ UNCHANGED <<attribution, registered, current, kernelVars, call, lock, task, awaiting, stops>>

(* No prompt is pending: send_input raises. *)
StdinFails(s) ==
  /\ sender[s].room # NoRoom
  /\ PendingIn(rooms[sender[s].room].kernel) = {}
  /\ sender' = [sender EXCEPT ![s] = Idle]
  /\ UNCHANGED <<ledgerVars, runtimeVars, kernelVars, call, lock, task, req, promptVars, stops>>

-----------------------------------------------------------------------------
(* The runtime's other users *)

(* open_runtime attaches a client to the room that was answered, which may  *)
(* have been stopped since; detach_client takes the last one away.          *)
OpenRuntime(c, n) ==
  /\ "attach" \in Disturbances
  /\ \E r \in RoomIds :
       /\ Answers(c, "open", n, r)
       /\ rooms' = [rooms EXCEPT ![r] = [@ EXCEPT !.clients = TRUE, !.state = "live-attached"]]
  /\ UNCHANGED <<ledgerVars, registered, current, kernelVars, lock, task, req, promptVars,
                 sender, stops>>

DetachClient(r) ==
  /\ r \in registered /\ rooms[r].clients
  /\ rooms' = [rooms EXCEPT ![r] = [@ EXCEPT
       !.clients = FALSE,
       !.state = IF rooms[r].state = "live-attached" THEN "live-detached" ELSE rooms[r].state]]
  /\ UNCHANGED <<ledgerVars, registered, current, kernelVars, call, lock, task, req, promptVars,
                 sender, stops>>

(* interrupt: the kernel's running request, if any, ends in an error unless *)
(* the interrupt finds it at its end.  Its record is never finished.        *)
(* Without a subshell interrupt_runtime raises if the room has been stopped.*)
Interrupt(c, n) ==
  /\ "interrupt" \in Disturbances
  /\ \E r \in RoomIds :
       /\ Answers(c, "interrupt", n, r)
       /\ \/ r \notin registered /\ UNCHANGED <<jobs, req>>
          \/ /\ jobs' = Logged(jobs, n, "interrupt", r)
             /\ \/ UNCHANGED req
                \/ \E i \in Jobs :
                     /\ task[i].room # NoRoom /\ KernelOf(i) = rooms[r].kernel
                     /\ req[i].status \in {"running", "input", "replied"}
                     /\ req' = [req EXCEPT ![i] = [@ EXCEPT !.status = "error"]]
  /\ UNCHANGED <<attribution, runtimeVars, kernelVars, lock, task, promptVars, sender, stops>>

(* Variant: evict_notebook is not called. *)
RemoveRoomUnevicted(r) ==
  /\ rooms' = [rooms EXCEPT ![r] = [@ EXCEPT !.state = "stopped", !.clients = FALSE, !.jobs = {}]]
  /\ registered' = registered \ {r}
  /\ current' = [current EXCEPT ![rooms[r].nb] = NoRoom]
  /\ stops' = stops \ {r}
  /\ UNCHANGED ledgerVars

(* The finally block of stop_runtime and evict_notebook *)
RemoveRoom(r) ==
  /\ rooms' = [rooms EXCEPT ![r] = [@ EXCEPT !.state = "stopped", !.clients = FALSE, !.jobs = {}]]
  /\ registered' = registered \ {r}
  /\ current' = [current EXCEPT ![rooms[r].nb] = NoRoom]
  /\ jobs' = Evicted(jobs, rooms[r].nb)
  /\ attribution' = [attribution EXCEPT ![rooms[r].nb] = Unattributed]
  /\ stops' = stops \ {r}

(* stop_runtime, called by the handler on the notebook's room or by the GC  *)
(* on a detached one, up to the await of delete_session; a room that has no *)
(* session yet, or never got one, goes at once.                             *)
StopBegins(r) ==
  /\ "stop" \in Disturbances
  /\ r \in registered \ stops   \* bound: one stop of a room at a time
  /\ rooms[r].state \notin {"stopping", "stopped"}
  /\ rooms[r].state = "live-detached" \/ current[rooms[r].nb] = r
  /\ IF rooms[r].kernel = NoKernel
     THEN RemoveRoom(r)
     ELSE /\ rooms' = [rooms EXCEPT ![r] = [@ EXCEPT !.state = "stopping"]]
          /\ stops' = stops \cup {r}
          /\ UNCHANGED <<ledgerVars, registered, current>>
  /\ UNCHANGED <<kernelVars, call, lock, task, req, promptVars, sender>>

(* delete_session returned, or failed and left the kernel as it is. *)
StopEnds(r) ==
  /\ r \in stops
  /\ up' \in {up, up \ {rooms[r].kernel}}
  /\ RemoveRoom(r)
  /\ UNCHANGED <<session, overtaken, call, lock, task, req, promptVars, sender>>

(* KernelRestartInterceptHandler: the same kernel id, and cleanup_after_    *)
(* restart drops the stack's requests and results.                          *)
KernelRestarts(k) ==
  /\ "restart" \in Disturbances
  /\ k \in up
  /\ req' = [j \in Jobs |->
       IF req[j].status \notin {"none", "taken"} /\ KernelOf(j) = k
       THEN [req[j] EXCEPT !.status = "lost"] ELSE req[j]]
  /\ UNCHANGED <<ledgerVars, runtimeVars, kernelVars, call, lock, task, promptVars, sender, stops>>

(* JupyterLab opens the notebook with a kernel. *)
LabOpens(n) ==
  /\ "lab" \in Disturbances
  /\ SessionsUp(n) = {} /\ FreshKernels # {}
  /\ session' = [session EXCEPT ![NextKernel] = n]
  /\ up' = up \cup {NextKernel}
  /\ UNCHANGED <<ledgerVars, runtimeVars, overtaken, call, lock, task, req, promptVars,
                 sender, stops>>

-----------------------------------------------------------------------------
(* The kernel and its execution stack *)

(* The running cell calls input(). *)
AsksForInput(j, p) ==
  /\ req[j].status \in {"running", "replied"}
  /\ KernelOf(j) \in up
  /\ req[j].asked < MaxPrompts
  /\ p # req[j].prompt \/ RepeatPrompts
  /\ req' = [req EXCEPT ![j] = [status |-> "input", prompt |-> p, asked |-> @.asked + 1]]
  /\ UNCHANGED <<ledgerVars, runtimeVars, kernelVars, call, lock, task, promptVars, sender, stops>>

(* A request ends; with the kernel gone it ends in an error. *)
RequestEnds(j) ==
  /\ \/ req[j].status \in {"running", "replied"}
     \/ req[j].status = "input" /\ KernelOf(j) \notin up
  /\ \E status \in IF KernelOf(j) \in up THEN {"ok", "error"} ELSE {"error"} :
       req' = [req EXCEPT ![j] = [@ EXCEPT !.status = status]]
  /\ UNCHANGED <<ledgerVars, runtimeVars, kernelVars, call, lock, task, promptVars, sender, stops>>

KernelDies(k) ==
  /\ "die" \in Disturbances
  /\ k \in up
  /\ up' = up \ {k}
  /\ UNCHANGED <<ledgerVars, runtimeVars, session, overtaken, call, lock, task, req, promptVars,
                 sender, stops>>

-----------------------------------------------------------------------------
EnsureSteps(a) == LookupFinds(a) \/ LookupMisses(a) \/ CreateReturns(a) \/ CreateFails(a)

CallSteps(c) ==
  \/ \E n \in Notebooks :
       \/ \E op \in {"queue", "open", "interrupt"} : Calls(c, op, n)
       \/ StatusCall(c, n)
       \/ \E last \in Cells : QueueExecution(c, n, last)
       \/ OpenRuntime(c, n)
       \/ Interrupt(c, n)
  \/ QueueAbandoned(c)

TaskSteps(j) ==
  \/ TaskCalls(j) \/ TaskStarts(j)
  \/ /\ LoopFree
     /\ \/ TaskLocks(j) \/ TaskPuts(j) \/ PrepareFails(j) \/ PollsPrompt(j) \/ PollsResult(j)
        \/ PollRaises(j) \/ Flushes(j) \/ FlushFails(j)

StdinSteps(s) == StdinGoesOn(s) \/ (LoopFree /\ (StdinReturns(s) \/ StdinFails(s)))

KernelSteps ==
  \/ \E j \in Jobs : RequestEnds(j)
  \/ \E j \in Jobs, p \in Prompts : AsksForInput(j, p)
  \/ \E k \in Kernels : KernelDies(k)

Next ==
  \/ \E a \in Actors : EnsureSteps(a)
  \/ \E c \in Callers : CallSteps(c)
  \/ \E j \in Jobs : TaskSteps(j)
  \/ \E s \in Senders : StdinSteps(s)
  \/ \E s \in Senders, j \in Jobs : StdinCall(s, j)
  \/ /\ LoopFree
     /\ \/ \E r \in RoomIds : DetachClient(r) \/ StopBegins(r) \/ StopEnds(r)
        \/ \E k \in Kernels : KernelRestarts(k)
        \/ \E n \in Notebooks : LabOpens(n)
  \/ KernelSteps

Spec == Init /\ [][Next]_vars

(* Tasks are run, calls that have the loop go on, the stack and Jupyter     *)
(* answer, a stop ends, and some client answers every prompt a job shows.   *)
Fairness ==
  /\ \A a \in Actors : WF_vars(EnsureSteps(a))
  /\ \A c \in Callers : WF_vars(call[c].pc = "returned" /\ CallSteps(c))
  /\ \A j \in Jobs : WF_vars(TaskSteps(j)) /\ WF_vars(RequestEnds(j))
  /\ \A s \in Senders : WF_vars(StdinSteps(s)) /\ WF_vars(\E j \in Jobs : StdinCall(s, j))
  /\ \A r \in RoomIds : WF_vars(LoopFree /\ StopEnds(r))

FairSpec == Spec /\ Fairness

-----------------------------------------------------------------------------
(* What must hold *)

Unanswered(k) ==
  {j \in Jobs : /\ req[j].status \in {"running", "input", "replied"}
                /\ task[j].room # NoRoom /\ KernelOf(j) = k}

(* A kernel has the request of one recorded job at a time: jobs of one      *)
(* notebook run one after the other (job_lock), never cell against cell,    *)
(* whatever rooms the notebook had.  It is not so for a kernel that a       *)
(* lookup adopted a second time: then two rooms, each with its own          *)
(* job_lock, stand for it.                                                  *)
SerialRequests ==
  \A k \in Kernels \ overtaken :
    \A i, j \in Unanswered(k) : Recorded(i) /\ Recorded(j) => i = j

(* A job that succeeded ran all its cells, and none after an error: the     *)
(* first error of a cell ends the job.                                      *)
FirstErrorEndsJob ==
  \A j \in Jobs :
    /\ ~task[j].ok => task[j].pc \in {"flushing", "ended"}
    /\ jobs[j].status = "succeeded" => task[j].ok /\ task[j].cell = task[j].last

(* send_stdin gives a reply to the kernel. *)
Delivers(s) == sender[s].job # NoJob /\ sender'[s] = Idle /\ req' # req

(* An execution the ledger shows as active is one some task still works on, *)
(* or whose task could not get a room when it started: only a reply that is *)
(* delivered late brings a job back of which the task has ended.            *)
ShownIdle(j) == jobs[j].status \in Active /\ task[j].pc = "ended"

ActiveJobHasTask ==
  [][\A j \in Jobs : ShownIdle(j)' /\ ~ShownIdle(j) =>
       \E s \in Senders : Delivers(s) /\ sender[s].job = j]_vars

(* A room that awaits input has a job at work in it, which will take it out *)
(* of that state: the GC reaps detached rooms only.                         *)
AwaitingRoomHasJob ==
  \A r \in registered : rooms[r].state = "awaiting-input" =>
    \E j \in Jobs : task[j].room = r /\ task[j].pc \in {"preparing", "polling", "flushing"}

(* The prompt a job is shown waiting for has had no reply of that job:      *)
(* polls that still report an answered prompt do not bring the job back to  *)
(* awaiting_input.                                                          *)
AwaitingIsReal ==
  \A j \in Jobs :
    jobs[j].status = "awaiting_input" /\ awaiting[j] # NoPrompt => resumed[j] # awaiting[j]

(* A reply reaches the kernel only while its job is awaiting input, which   *)
(* is what send_stdin checks before it awaits ensure_room                   *)
(* (src/hypernote/execution_orchestrator.py:429).                           *)
ReplyIsAwaited ==
  [][\A s \in Senders : Delivers(s) => jobs[sender[s].job].status = "awaiting_input"]_vars

(* The ledger keeps at most MaxCompleted finished jobs of a notebook. *)
HistoryBounded ==
  \A n \in Notebooks : MaxCompleted >= 0 =>
    Cardinality(FinishedJobs(jobs, n)) <= MaxCompleted

(* An active job leaves the ledger only with its whole notebook, or as it   *)
(* ends behind jobs created after it that have already ended.               *)
ActiveJobsKept ==
  [][\A j \in Jobs : jobs[j].status \in Active /\ jobs'[j].status = "gone" =>
       \/ \A k \in Jobs : jobs'[k].nb # jobs[j].nb
       \/ /\ task[j].pc # "ended" /\ task'[j].pc = "ended"
          /\ \E k \in FinishedJobs(jobs, jobs[j].nb) : jobs[k].created > jobs[j].created]_vars

(* The active_jobs of a notebook's runtime are jobs that have not ended. *)
RuntimeJobsActive ==
  \A n \in Notebooks : current[n] # NoRoom =>
    \A j \in rooms[current[n]].jobs : task[j].pc \notin {"ended", "died"}

(* Every job ends, if every prompt it shows is answered. *)
EveryJobEnds ==
  \A j \in Jobs : task[j].pc # "none" ~> task[j].pc \in {"ended", "died"}

=============================================================================
