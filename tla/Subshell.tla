------------------------------ MODULE Subshell ------------------------------
(***************************************************************************)
(* How cells reach the shells of one kernel, and how Stop and Restart do:  *)
(* src/hypernote/server/subshell.py with its callers in handlers.py and    *)
(* execution_orchestrator.py.                                              *)
(*                                                                         *)
(* A kernel has a main shell, where JupyterLab's cells run, and subshells, *)
(* where the cells of Hypernote's jobs should.  The execution stack (of    *)
(* jupyter_server_nbmodel, outside src/) keeps one client object and one   *)
(* worker for the kernel id; this code keeps its own state as attributes   *)
(* of that client.  One action is the code between two suspension points.  *)
(*                                                                         *)
(* A kernel id keeps its client over the crashes that the autorestarter    *)
(* repairs, and loses it to cleanup_after_restart.  ClientIds, Shells and  *)
(* MaxProcs bound how many clients, subshells and kernel processes there   *)
(* are; MaxQueued bounds the requests JupyterLab's users put on the main   *)
(* shell.                                                                  *)
(***************************************************************************)
EXTENDS Integers, Sequences

CONSTANTS
  Runners,    \* jobs that run cells on the kernel
  ClientIds,  \* client objects of the execution stack
  Shells,     \* subshell ids; no two processes give the same
  MaxProcs, MaxQueued,
  Main, NoShell, NoClient, Lab

ASSUME SubshellAssumption ==
  /\ MaxProcs \in Nat \ {0} /\ MaxQueued \in Nat
  /\ Main \notin Shells /\ NoShell \notin Shells \cup {Main}
  /\ NoClient \notin ClientIds /\ Lab \notin Runners

VARIABLES
  proc,     \* which process of the kernel this is
  alive,    \* it runs
  shells,   \* the process each subshell was created in; 0: not yet created
  client,   \* the client objects
  cached,   \* the one the stack keeps for the kernel id
  hooks,    \* the clients whose restart callback the kernel manager has
  runner,   \* the jobs
  main,     \* the main shell's requests, the first of which runs
  dropped,  \* a raising cell made the kernel drop the snippet of a Stop
  cleanup   \* cleanup_after_restart, for the last restart by the handler

kernelVars == <<proc, alive, shells, main, dropped>>
vars == <<proc, alive, shells, client, cached, hooks, runner, main, dropped, cleanup>>

(* _hypernote_subshell_id, _hypernote_routing_installed and                 *)
(* _hypernote_restart_hook_installed; open until stop_channels.             *)
Client ==
  [status : {"unmade", "open", "stopped"},
   shell  : Shells \cup {NoShell},
   routed : BOOLEAN,
   hooked : BOOLEAN]

(* The suspension points of a job on its way to the kernel: wait_for_ready, *)
(* the reply to create_subshell_request, the document, and the stack.       *)
Runner ==
  [pc     : {"idle", "waiting", "creating", "ensured", "queued", "sent"},
   client : ClientIds \cup {NoClient},
   reply  : Shells \cup {NoShell},         \* the kernel's answer, not yet read
   shell  : Shells \cup {Main, NoShell}]   \* where its request was sent

(* A cell, or the snippet of interrupt_subshell for a subshell *)
Request == [by : Runners \cup {Lab}, target : Shells \cup {NoShell}]

TypeOK ==
  /\ proc \in 1..MaxProcs /\ alive \in BOOLEAN
  /\ shells \in [Shells -> 0..MaxProcs]
  /\ client \in [ClientIds -> Client]
  /\ cached \in ClientIds \cup {NoClient}
  /\ hooks \subseteq ClientIds
  /\ runner \in [Runners -> Runner]
  /\ main \in Seq(Request)
  /\ dropped \in BOOLEAN
  /\ cleanup \in {"done", "due", "skipped"}

NewClient == [status |-> "open", shell |-> NoShell, routed |-> FALSE, hooked |-> FALSE]
IdleRunner == [pc |-> "idle", client |-> NoClient, reply |-> NoShell, shell |-> NoShell]
Cell(who) == [by |-> who, target |-> NoShell]
Snippet(s) == [by |-> Lab, target |-> s]

Init ==
  /\ proc = 1 /\ alive = TRUE
  /\ shells = [s \in Shells |-> 0]
  /\ client = [c \in ClientIds |-> [NewClient EXCEPT !.status = "unmade"]]
  /\ cached = NoClient
  /\ hooks = {}
  /\ runner = [r \in Runners |-> IdleRunner]
  /\ main = <<>> /\ dropped = FALSE
  /\ cleanup = "done"

-----------------------------------------------------------------------------
(* The client objects *)

(* ExecutionStack._get_client makes a client for a kernel id that has none. *)
UnmadeClients == {c \in ClientIds : client[c].status = "unmade"}
TheClient == IF cached # NoClient THEN cached ELSE CHOOSE c \in ClientIds : c \in UnmadeClients
CanGetClient == cached # NoClient \/ UnmadeClients # {}
ClientsWithMine ==
  IF cached # NoClient THEN client ELSE [client EXCEPT ![TheClient] = NewClient]

GetClient ==
  /\ CanGetClient
  /\ cached' = TheClient
  /\ client' = ClientsWithMine

(* Variant: routing is installed on the first client only. *)
PreparedOnce(c, s) ==
  /\ client' = [client EXCEPT ![c] = [@ EXCEPT !.shell = s, !.hooked = TRUE,
                                               !.routed = @ \/ hooks = {}]]
  /\ hooks' = IF client[c].hooked THEN hooks ELSE hooks \cup {c}

(* What follows ensure_subshell in _ensure_kernel_client_ready, without     *)
(* suspending: install_subshell_routing and register_restart_hook.          *)
Prepared(c, s) ==
  /\ client' = [client EXCEPT ![c] = [@ EXCEPT !.shell = s, !.routed = TRUE, !.hooked = TRUE]]
  /\ hooks' = IF client[c].hooked THEN hooks ELSE hooks \cup {c}

(* Variant: the main shell takes the place of the subshell. *)
ForgottenForMain(c) == [client[c] EXCEPT !.shell = Main]

(* reset_subshell_state *)
Forgotten(c) == [client[c] EXCEPT !.shell = NoShell]

-----------------------------------------------------------------------------
(* A job on its way to the kernel: _ensure_kernel_client_ready, then put *)

Step(r, pc, c) == runner' = [runner EXCEPT ![r] = [IdleRunner EXCEPT !.pc = pc, !.client = c]]

GetsReady(r) ==
  /\ runner[r].pc = "idle"
  /\ GetClient
  /\ Step(r, "waiting", TheClient)
  /\ UNCHANGED <<kernelVars, hooks, cleanup>>

(* wait_for_ready returns; ensure_subshell has an id or asks for one. *)
EnsuresSubshell(r) ==
  LET c == runner[r].client IN
  /\ runner[r].pc = "waiting"
  /\ alive /\ client[c].status = "open"
  /\ IF client[c].shell # NoShell
     THEN Prepared(c, client[c].shell) /\ Step(r, "ensured", c)
     ELSE Step(r, "creating", c) /\ UNCHANGED <<client, hooks>>
  /\ UNCHANGED <<kernelVars, cached, cleanup>>

(* The id is written to the client the job holds, evicted or not. *)
ReadsReply(r) ==
  /\ runner[r].pc = "creating"
  /\ runner[r].reply # NoShell
  /\ Prepared(runner[r].client, runner[r].reply)
  /\ Step(r, "ensured", runner[r].client)
  /\ UNCHANGED <<kernelVars, cached, cleanup>>

(* Timeout, a refusal, or stopped channels: the job goes on without one. *)
FallsBack(r) ==
  LET c == runner[r].client IN
  /\ runner[r].pc = "creating"
  /\ Prepared(c, client[c].shell)
  /\ Step(r, "ensured", c)
  /\ UNCHANGED <<kernelVars, cached, cleanup>>

(* wait_for_ready or the document raises: the job fails. *)
Fails(r) ==
  /\ runner[r].pc \in {"waiting", "ensured"}
  /\ runner' = [runner EXCEPT ![r] = IdleRunner]
  /\ UNCHANGED <<kernelVars, client, cached, hooks, cleanup>>

(* ExecutionStack.put, with the kernel id: the job's client plays no part. *)
Puts(r) ==
  /\ runner[r].pc = "ensured"
  /\ Step(r, "queued", NoClient)
  /\ UNCHANGED <<kernelVars, client, cached, hooks, cleanup>>

(* execute_via_subshell, or the client's own execute *)
Route(c) == IF client[c].routed /\ client[c].shell # NoShell THEN client[c].shell ELSE Main

(* The stack's worker takes one request at a time and executes it with the  *)
(* client the kernel id has by then.                                        *)
WorkerSends(r) ==
  LET shell == IF cached = NoClient THEN Main ELSE Route(cached) IN
  /\ runner[r].pc = "queued"
  /\ \A q \in Runners : runner[q].pc # "sent"
  /\ GetClient
  /\ runner' = [runner EXCEPT ![r] = [@ EXCEPT !.pc = "sent", !.shell = shell]]
  /\ main' = IF shell = Main /\ alive THEN Append(main, Cell(r)) ELSE main
  /\ UNCHANGED <<proc, alive, shells, hooks, dropped, cleanup>>

-----------------------------------------------------------------------------
(* Stop and Restart *)

(* Whether r's cell is in the kernel, running or behind others *)
InMain(r) == \E i \in 1..Len(main) : main[i] = Cell(r)
InSubshell(r) ==
  runner[r].pc = "sent" /\ alive /\ runner[r].shell \in Shells /\ shells[runner[r].shell] = proc
Executing(r) == InMain(r) \/ InSubshell(r)

(* A cell of the main shell raises: the kernel drops what is queued behind  *)
(* it, the snippet of a Stop included.                                      *)
CellRaises ==
  /\ main' = <<>>
  /\ runner' = [r \in Runners |-> IF InMain(r) THEN IdleRunner ELSE runner[r]]
  /\ dropped' = (dropped \/ \E i \in 1..Len(main) : main[i].target # NoShell)

MainRunsCell == main # <<>> /\ Head(main).target = NoShell

(* SIGINT ends what the main shell runs and nothing else. *)
Sigint == IF MainRunsCell THEN CellRaises ELSE UNCHANGED <<main, runner, dropped>>

(* KernelInterruptInterceptHandler, and orchestrator.interrupt: a client    *)
(* that has a subshell gets the snippet, whatever runs.                     *)
Stop ==
  LET s == ClientsWithMine[TheClient].shell IN
  /\ alive
  /\ GetClient
  /\ IF s = NoShell
     THEN Sigint
     ELSE /\ Len(main) < MaxQueued
          /\ main' = Append(main, Snippet(s)) /\ dropped' = FALSE
          /\ UNCHANGED runner
  /\ UNCHANGED <<proc, alive, shells, hooks, cleanup>>

(* KernelRestartInterceptHandler awaits restart_kernel, which has replaced  *)
(* the process and waits for the new one.                                   *)
KernelReplaced ==
  /\ cleanup # "due" /\ proc < MaxProcs
  /\ proc' = proc + 1 /\ alive' = TRUE
  /\ main' = <<>> /\ dropped' = FALSE
  /\ cleanup' = "due"
  /\ UNCHANGED <<shells, client, cached, hooks, runner>>

(* restart_kernel raises all the same (the new process does not answer in   *)
(* time): the handler answers 500, or with the HTTPError, and returns.  The *)
(* stack keeps its client, and the client its subshell id.                  *)
RestartRaises ==
  /\ cleanup = "due" /\ cleanup' = "skipped"
  /\ UNCHANGED <<kernelVars, client, cached, hooks, runner>>

(* restart_kernel returned: cleanup_after_restart.  The stack loses its     *)
(* worker, requests and results, so the jobs they were of fail; a cell the  *)
(* new process has got already runs on unseen.                              *)
CleanupAfterRestart ==
  /\ cleanup = "due" /\ cleanup' = "done"
  /\ cached' = NoClient
  /\ client' = IF cached = NoClient THEN client
               ELSE [client EXCEPT ![cached] =
                       [Forgotten(cached) EXCEPT !.status = "stopped", !.routed = FALSE,
                                                 !.hooked = FALSE]]
  /\ runner' = [r \in Runners |->
       IF runner[r].pc \in {"queued", "sent"} THEN IdleRunner ELSE runner[r]]
  /\ UNCHANGED <<proc, alive, shells, hooks, main, dropped>>

-----------------------------------------------------------------------------
(* The kernel and its users *)

(* create_subshell_request; the control channel is never blocked. *)
KernelCreates(r) ==
  /\ runner[r].pc = "creating" /\ runner[r].reply = NoShell
  /\ alive /\ client[runner[r].client].status = "open"
  /\ \E s \in Shells : shells[s] = 0
  /\ LET s == CHOOSE x \in Shells : shells[x] = 0 IN
       /\ shells' = [shells EXCEPT ![s] = proc]
       /\ runner' = [runner EXCEPT ![r] = [@ EXCEPT !.reply = s]]
  /\ UNCHANGED <<proc, alive, client, cached, hooks, main, dropped, cleanup>>

MainAdvances ==
  /\ main # <<>>
  /\ main' = Tail(main)
  /\ UNCHANGED <<proc, alive, shells, client, cached, hooks, dropped, cleanup>>

(* A cell of the main shell ends. *)
MainCellEnds ==
  /\ MainRunsCell
  /\ runner' = [r \in Runners |-> IF Head(main) = Cell(r) THEN IdleRunner ELSE runner[r]]
  /\ MainAdvances

MainCellRaises ==
  /\ MainRunsCell
  /\ CellRaises
  /\ UNCHANGED <<proc, alive, shells, client, cached, hooks, cleanup>>

SubshellCellEnds(r) ==
  /\ InSubshell(r)
  /\ runner' = [runner EXCEPT ![r] = IdleRunner]
  /\ UNCHANGED <<kernelVars, client, cached, hooks, cleanup>>

(* Variant: the snippet signals the process instead of the thread. *)
SnippetSignals ==
  /\ main # <<>> /\ Head(main).target # NoShell
  /\ UNCHANGED runner
  /\ MainAdvances

(* interrupt_subshell's snippet: KeyboardInterrupt in the subshell's thread *)
(* if there is one, or else SIGINT, which only the snippet itself receives. *)
SnippetRuns ==
  /\ main # <<>> /\ Head(main).target # NoShell
  /\ runner' = [r \in Runners |->
       IF InSubshell(r) /\ runner[r].shell = Head(main).target THEN IdleRunner ELSE runner[r]]
  /\ MainAdvances

(* A request that never reached the kernel, or whose process has gone *)
RequestLost(r) ==
  /\ runner[r].pc = "sent" /\ ~Executing(r)
  /\ runner' = [runner EXCEPT ![r] = IdleRunner]
  /\ UNCHANGED <<kernelVars, client, cached, hooks, cleanup>>

LabRunsCell ==
  /\ alive /\ Len(main) < MaxQueued
  /\ main' = Append(main, Cell(Lab))
  /\ UNCHANGED <<proc, alive, shells, client, cached, hooks, runner, dropped, cleanup>>

KernelCrashes ==
  /\ alive
  /\ alive' = FALSE /\ main' = <<>>
  /\ UNCHANGED <<proc, shells, client, cached, hooks, runner, dropped, cleanup>>

(* Variant: the callback does nothing. *)
AutorestartsUnheard ==
  /\ ~alive /\ proc < MaxProcs
  /\ proc' = proc + 1 /\ alive' = TRUE
  /\ cleanup' = IF cleanup = "skipped" THEN "done" ELSE cleanup
  /\ UNCHANGED <<shells, client, cached, hooks, runner, main, dropped>>

(* The autorestarter polls for dead kernels every few seconds, so a reply   *)
(* the kernel sent before it died has been read; it fires its callbacks,    *)
(* the on_restart of register_restart_hook, and starts a process.  With     *)
(* the callbacks nothing is left of a clean-up that was skipped.            *)
Autorestarts ==
  /\ ~alive /\ proc < MaxProcs
  /\ \A r \in Runners : runner[r].reply = NoShell
  /\ proc' = proc + 1 /\ alive' = TRUE
  /\ client' = [c \in ClientIds |-> IF c \in hooks THEN Forgotten(c) ELSE client[c]]
  /\ cleanup' = IF cleanup = "skipped" THEN "done" ELSE cleanup
  /\ UNCHANGED <<shells, cached, hooks, runner, main, dropped>>

-----------------------------------------------------------------------------
RunnerSteps(r) ==
  \/ GetsReady(r) \/ EnsuresSubshell(r) \/ ReadsReply(r) \/ FallsBack(r) \/ Fails(r)
  \/ Puts(r) \/ WorkerSends(r)

Next ==
  \/ \E r \in Runners :
       RunnerSteps(r) \/ KernelCreates(r) \/ SubshellCellEnds(r) \/ RequestLost(r)
  \/ Stop \/ KernelReplaced \/ RestartRaises \/ CleanupAfterRestart
  \/ MainCellEnds \/ MainCellRaises \/ SnippetRuns \/ LabRunsCell
  \/ KernelCrashes \/ Autorestarts

Spec == Init /\ [][Next]_vars

(* The cells of the main shell end and its snippets run; nothing says that  *)
(* a job's cell ever ends by itself.                                        *)
FairSpec == Spec /\ WF_vars(MainCellEnds) /\ WF_vars(SnippetRuns)

-----------------------------------------------------------------------------
(* What must hold *)

(* Stop finds the cell a job is running: it is either in the subshell that  *)
(* the stack's client remembers, or, when that remembers none, in the main  *)
(* shell, where SIGINT reaches it.                                          *)
StopFindsCell ==
  \A r \in Runners : runner[r].pc = "sent" /\ Executing(r) /\ cached # NoClient =>
    \/ runner[r].shell = client[cached].shell
    \/ runner[r].shell = Main /\ client[cached].shell = NoShell

(* No cell is sent to a subshell of an earlier process, which the new one   *)
(* does not know, but between a restart by the handler and its clean-up; if *)
(* restart_kernel raised, until the next restart that is cleaned up or that *)
(* the autorestarter's callbacks hear of.                                   *)
SubshellsAreKnown ==
  [][\A r \in Runners :
       runner[r].pc = "queued" /\ runner'[r].shell \in Shells /\ cleanup = "done" =>
         shells[runner'[r].shell] = proc]_vars

(* Stop ends the cell of a job (docs/runtime-model.md:59), however long it  *)
(* would run: a snippet for the subshell the client has ends it once the    *)
(* main shell gets to it, unless a cell before it raises.                   *)
StopQueued ==
  cached # NoClient /\ \E i \in 1..Len(main) :
    main[i].target # NoShell /\ main[i].target = client[cached].shell

StopEndsCell == \A r \in Runners : InSubshell(r) /\ StopQueued ~> ~InSubshell(r) \/ dropped

=============================================================================
