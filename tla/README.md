# Hypernote in TLA+

Specifications of Hypernote: notebooks as shared documents, run by agents and people through one Jupyter
kernel. This directory holds TLA+ modules translated from `src/hypernote/`, TLC configurations that check them
on small instances, and TLAPS proofs of what holds of every instance.

    tlc -workers 2 -config RuntimeSafety.cfg MCRuntimeManager     # one run
    tlapm RuntimeManager_proofs.tla                               # one module of proofs

Contents: the system, module by module; the runs; what is proved; what is not; the plan.

## 1. The system

Hypernote is a Jupyter Server extension, an SDK that speaks to it over HTTP, and a CLI over the SDK. All of the
server side runs on one asyncio event loop. A coroutine keeps the loop until it awaits something that suspends,
so what must be explored is how the stretches of code *between* awaits interleave. Nothing is persisted by
Hypernote except the notebook file; a server restart starts from nothing.

| Component (source) | State | Operations | Module |
|---|---|---|---|
| Runtime manager (`runtime_manager.py`) | `_rooms`, `_notebook_to_room`, the rooms (session, kernel, state, clients, jobs, last activity), the GC task | `ensure_room`, `open_runtime`, `get_runtime_status`, `attach`/`detach_client`, `stop_runtime`, `interrupt_runtime`, `set_runtime_state`, job marks, `gc_sweep`, `shutdown` | `RuntimeManager` |
| Ledger (`actor_ledger.py`) | jobs with status, runtime and request uids; which actor last executed and edited a cell | create, update, append uid, list, attribute, prune, evict | `ActorLedger` |
| Orchestrator (`execution_orchestrator.py`, class `ExecutionOrchestrator`) | a task per job, each room's `job_lock`, the input signatures awaited and resumed | `queue_execution`, `_run_job`, `_poll_request`, `send_stdin`, `interrupt` | `JobExecution` |
| Subshells, Stop and Restart (`server/subshell.py`, the two kernel handlers, `_ensure_kernel_client_ready`) | attributes on the kernel's client object: subshell id, routing, restart hook | ensure a subshell, route, interrupt, reset, clean up after a restart | `Subshell` |
| Shared document (same file, class `SharedNotebookAccessor`) | the Y document of a notebook (Jupyter's), its room | insert, replace, delete, move, clear outputs, read, flush, create, open the document room | `NotebookDocument`, `SharedNotebook` |
| REST handlers (`server/handlers.py`) | none | one call of the above each | with the components they call |
| Extension (`server/extension.py`) | one initialisation, its error | `_ensure_initialized`, `stop_extension` | `ExtensionInit`; `stop_extension` in `RuntimeManager` |
| SDK (`sdk.py`) | none but objects of the last answer | snapshot and diff; insert, run, wait, restart | `NotebookDiff`, `NotebookClient` |
| CLI (`cli/main.py`) | none | ix, exec, watch, await, run-all, restart-run-all | `NotebookClient` |

**How they interact.** A handler awaits the orchestrator, which awaits the runtime manager (`ensure_room`), the
document and the execution stack of `jupyter_server_nbmodel`, and writes the ledger. The runtime manager awaits
Jupyter's session manager; when it stops a room it calls the ledger back to evict the notebook. Jobs share a
kernel through the room object's `job_lock`. JupyterLab reaches the same sessions, documents and kernels without
passing through Hypernote, except for its Stop and Restart buttons, whose routes Hypernote overrides.

**What is hard.** Rooms are found by notebook through a map, checked, and used after an await. A stop suspends in
`delete_session` while everything else goes on, and its clean-up is by notebook. The garbage collector holds a
list of rooms over many awaits and is cancelled at shutdown wherever it is. A job outlives the room it got, its
ledger record and its kernel. Prompts are polled, told apart by their words, and answered by calls that check
and then await. A kernel id outlives processes, and state is cached on client objects that may have been evicted.
`PROJECT.json` lists each hazard at its line with the properties about it.

**What makes each component correct.**

- Runtime manager: one kernel per notebook; a room handed out is usable; the map, the registry, Jupyter's sessions and the
  ledger agree; a stop clears what it must and no kernel is forgotten; idle rooms are reaped; every call returns.
- Ledger: bounded history, no active job pruned, nothing left after an eviction.
- Orchestrator: one cell at a time in a kernel; every job ends, once, at its first error; a job shown as active has a
  task; a reply reaches the prompt it was given for.
- Subshells: a cell goes to a shell its kernel has; Stop reaches what runs and ends it.
- Document: no edit lost, positions follow the order, output of a late reader equals that of an early one.
- Extension: one initialisation whatever overlaps or fails, and no request left waiting for it.
- Clients: a diff says exactly what changed; a watch shows every output once; exit codes and batch results tell what happened.

## 2. The modules

Names follow the source. An action is the code between two suspension points; its comment names the function. A definition
headed "Variant" is not part of the specification: it is a definition as a plausible bug would have it, listed in
`PROJECT.json` under "mutants" with the property that then fails.

### RuntimeManager

| Code | Specification |
|---|---|
| `NotebookRoom` objects, in the registry or only held by a coroutine | `rooms` |
| `_rooms`, `_notebook_to_room` | `registry`, `nbRoom` |
| Jupyter's sessions, each with the kernel it owns | `sessions` (`by`: who started it) |
| the ledger's records, as far as a stop clears them | `records` (`runtime_id` of each job) |
| coroutines: handlers, the GC task | `act`: what call, and where it is suspended (`pc`) |
| | `removed`: history, how a room left the registry (`clean`, `failed` delete, `early` before its session, `cancelled` GC) |

`ensure_room` is `EnsureCall` (up to `get_session` or `create_session`), then `LookupFinds`/`LookupMisses`,
`CreateReturns`/`CreateFails`, then `OpenReturns` (`open_runtime`, other callers) or `QueueReturns` (`queue_execution`).
`stop_runtime` is `BeginStop` and `DeleteReturns`/`DeleteFails`; the GC is `GcWakes`, `SweepNext`, `SweepEnds`;
`stop_extension` is `ShutdownCall`, `GcUnwinds`, `ShutdownSweeps`. `returned` and `sweep` are not suspension points: an actor
there holds the event loop (`LoopFree`), which is how `ensure_room` returning and its caller going on are one stretch.
Jupyter is modelled by what the code may see of it: a lookup answers with a session of the path that is up or with 404,
creation and deletion succeed or fail at any moment, kernels die, Lab starts sessions of its own (`LabOpens`).

`NotebookRuntime` is the abstract promise of `docs/runtime-model.md`: a kernel is started only for a notebook that has none.
`RuntimeManager` implements it (`ImplementsPromise`, with `kernels[n]` as the sessions of `n` that are up) when one call runs at a time.

### ActorLedger and JobExecution

`ActorLedger` gives the ledger after each operation; the operations hold the ledger's lock and await nothing, so they are
atomic. `JobExecution` extends it with one `_run_job` task per job:

| Code | Specification |
|---|---|
| `_notebook_to_room`, `_rooms`, the room objects | `current`, `registered`, `rooms` |
| Jupyter's sessions and kernels | `session`, `up` |
| an `ensure_room` or a status lookup, suspended in `get_session` or `create_session` | `call[a]`, of a job's task, a handler or a reply |
| `ensure_room` | `EnsureCall`, `LookupFinds`/`LookupMisses`, `CreateReturns`/`CreateFails`, `Answers` |
| `queue_execution`, `interrupt`, `open_runtime` | `Calls`, then `QueueExecution`, `Interrupt`, `OpenRuntime` |
| `_run_job`: its own `ensure_room`, `job_lock`, the cell loop, `finally` | `TaskCalls`, `TaskStarts`, `TaskLocks`, `TaskPuts`, `Flushes`, `Ends` |
| `_ensure_kernel_client_ready` or the document raises | `PrepareFails` |
| `_poll_request` | `PollsPrompt`, `PollsResult`, `PollRaises` |
| `send_stdin` up to its first await, between its two, and from the second | `StdinCall`, `StdinGoesOn`, `StdinReturns`/`StdinFails` |
| `job_lock` | `lock[r]`, the holder first |
| the execution stack's request and result | `req[j]`: `replied` while the stack still reports an answered prompt, `lost` after a restart |

`ensure_room` suspends here as in `RuntimeManager`, and two lookups of a notebook may register a room each: a job's task, the call that
queued it and a reply may hold three different rooms. A room has the kernel its session has, so rooms that adopted one session share it, each with a
`job_lock` of its own. What a room of `RuntimeManager` has besides (kernelspecs, the sweep, the shutdown) is left out, and a detached room may be
idle at any time, which the code warrants because nothing renews `last_activity` while a job polls. `overtaken` is history: the kernels that a
lookup adopted although another call had given the notebook a room since the lookup began. `Disturbances` names what
else may happen in an instance: stops, dying kernels, restarts, interrupts, failing calls, attaching clients and status lookups, JupyterLab opening the notebook.

### Subshell

One kernel id over several processes. `client` holds the attributes this code sets on the stack's client objects, `cached` the
client the stack has now, `hooks` the clients whose `on_restart` the kernel manager has, `main` the main shell's queue. A job goes
`GetsReady`, `EnsuresSubshell`, `ReadsReply` or `FallsBack`, `Puts`, and the stack's worker sends with the client the kernel
id has *then*. `Stop` serves Lab's button and `orchestrator.interrupt`: a snippet on the main shell if the client has a subshell,
SIGINT otherwise. `KernelReplaced` and `CleanupAfterRestart` are the two halves of the Restart handler around its await; `RestartRaises` is a `restart_kernel`
that raises after it has replaced the process: the handler answers 500 and cleans nothing up (`cleanup = "skipped"`, until a later restart does).
`KernelCrashes` and `Autorestarts` are the other way a process is replaced. A cell that raises makes the kernel drop what is
queued behind it, snippets too (`dropped`).

### ExtensionInit, NotebookDocument and SharedNotebook

`ExtensionInit` has what each request passes first: `get_orch`, which awaits `_ensure_initialized`. `NotebookDocument` extends it, so its
requests are first requests too, and adds what they do next:

| Code | Specification |
|---|---|
| `_orchestrator`, `_runtime_mgr`, `_init_event`, `_init_error` | `ext` |
| a request in `get_orch` | `gate[h]` |
| `DocumentRoom` objects, the table of `ywebsocket_server` | `docs`, `served` |
| the notebook file, untitled files | `disk`, `untitled` |
| a handler, between two suspension points | `req[h]` |
| `last_editor_id` in the ledger | `editor` |

A handler goes `Begins` (validation, then `get_document_room` up to its first await), `Starts` (`add_room`, when it made the room), `Edits`
(`room.initialize` and the edit, which does not suspend), `Saves`, `SkipsSave` or `SaveFails` (`_save_room`, then `get_cell` and the attribution, `AfterSave`). A move is two steps, `PlansMove`
and `Sets`, since `aset` suspends. `create_notebook` is `CallsCreate`, `Renames`, `Stores`, then as a flush. JupyterLab opens, edits and never
touches position keys; the execution stack writes outputs. When `_save_to_disc` answers `None` the handler awaits nothing and answers success
all the same: `SkipsSave`, which leaves the file behind the document and notes the room in `skipped`, until some save of it.

`SharedNotebook` is the abstract document: a sequence of cells that changes by one whole edit of one cell at a time. Its one
exception is a move, which writes what it read (`BeginMove`, `EndMove`): edits that come between are lost, which is what `execution_orchestrator.py:187` does.
`NotebookDocument` implements it with `cells` as the cells of the room the server has, or of the file (`ImplementsSharedNotebook`).
`NotebookDiff` has the SDK's snapshot and diff as operators, next to a definition of what changed that knows no keys; `DiffIsExact` compares them in every state.

### NotebookClient

Commands of the CLI, each a sequence of HTTP requests; one action is a request and what the client makes of its answer.

| Code | Specification |
|---|---|
| `_insert_cell`, the cell's type, `_run_cells` | `Inserts`, `Types`, `Runs`/`RunRefused` |
| exec's validation; `run_all`'s list of cells; `job await` | `Checks`, `Lists`, `Joins` |
| `Job.refresh` in `Job.wait` and in `_watch_job`; the deadline | `Polls`, `Decides`, `DeadlinePasses` |
| the watch loop's two requests for a cell | `Looks`, `Takes` (with `Deltas` for `_output_deltas`; a stream is a string or a list, and of a list that has grown `str` is no continuation) |
| a batch's next cell, halt or summary | `BatchGoes`, `HaltReason`, `Reports` |
| `_brief_job_result`, `outputs_current`, `_exit_if_job_failed`, `_cli_errors` | `Current`, `ExitByJob`, `Raises` |
| `Runtime.stop`, `Runtime.ensure` | `Stops`, `Opens`/`OpenRefused` |

The server is what REST shows of it: cells, outputs, jobs, and one kernel that runs one job at a time, which `JobExecution` establishes where no
lookup adopts the kernel behind another call.
Jobs fail, ask for input, and are evicted by another client's stop at any moment between two requests. `Commands` lists which commands run together.

## 3. The runs

All configurations set `CHECK_DEADLOCK FALSE`: the systems may stop. Handlers need never be called, ids run out, a shutdown ends everything.

| Run | Instance | States | Shows |
|---|---|---|---|
| `runtime_safety` | 1 notebook, 3 rooms, 2 sessions, 2 handlers and the GC in flight, Lab acting | 1.5 M | the safety properties under every interleaving |
| `runtime_liveness` | 2 rooms, 1 handler and the GC, a client | 8 k | every call returns, idle rooms are reaped, stops end, shutdown ends |
| `runtime_serial` | 2 notebooks, 2 kernelspecs, one call at a time | 650 k | the refinement to `NotebookRuntime`; shutdown leaves no registered kernel |
| `job_safety` | 2 jobs, 2 rooms, 2 kernels, 2 calls and 1 reply in flight, 1 cell; stops, failures, dying kernels | 1.0 M | serial execution, ledger and tasks agree, history |
| `job_prompts` | 2 jobs of up to 2 cells, 2 prompts each, 1 client that answers, 1 other call in flight, 2 kernels; attach, restart, interrupts, JupyterLab | 419 k | every job ends, at its first error; prompts are shown once; a room awaits input only for a job |
| `subshell_routing` | 1 job at a time, 3 clients, 3 subshells, 3 processes, 2 queued requests | 89 k | after every restart that is cleaned up cells go to known shells, Stop finds and ends them |
| `document_edits` | 2 requests of any operation, 2 cells, JupyterLab edits once, a file that is missing, unkeyed or keyed | 389 k | one initialisation, every edit whole and saved before its answer if there is a save, exact diffs, every request answered |
| `client_commands` | 2 clients, 43 pairs of commands, batches of 2, 1 old cell, 2 outputs | 339 k | watching shows every output once, batches halt, exit codes and results tell what the jobs did, commands return |
| `concurrent_open`, `stale_reply`, `repeated_prompt`, `two_documents` | the smallest that show it | | each a disagreement of code and document, below |

**Why the bounds are enough.** Two handlers and the GC are all the parties a race between a check and an await has here:
one suspended, one that overtakes it, one that cleans up. Three rooms let a notebook's room be replaced and replaced again while a
stale one is held; ids are never reused, and a bound never cuts a call short (`CanOpen` leaves ids to the calls in flight).
Two jobs are the one that holds `job_lock` and the one that waits or starts on a newer room; `MaxCompleted = 1` makes the pruning bite.
Two calls in flight are what two rooms for one session take, and two kernels one that dies or is deleted and its successor; what would need a third room
or kernel is cut off there (`FreshRooms`, `FreshKernels`), which is why no property of `job_safety` is about progress.
`job_prompts` has neither stops nor failures, so its one room and its kernel stay, and `EveryJobEnds` is not about a restart that raises.
`QueueAbandoned` is a bound too: the job ids ran out while a room was made.
Three processes are a crash after a restart and the reverse. The reply of `job_safety` may be overtaken by the end of its job: the kernel dies, and the job fails while
`send_stdin` is between its check and the delivery. If another job asks by then, the reply goes to that one and writes RUNNING over the last status of the first. `ActiveJobHasTask` says that nothing else does.
`runtime_safety` has no attached client, to stay small; attachment is in the other two runs and in the proofs.
`document_edits` has `OpensOverlap = FALSE`: no two callers open the document at once. With `TRUE` there may be two documents (`two_documents`, the only run that is
about `OneDocument`), and all that speaks of the document of the notebook is false. Two requests overlap in every phase: both may initialise, create, move, or edit under a failing save.
JupyterLab's one edit is enough to make keys stale, to fall between the halves of a move, and to remove a cell a handler has just saved.
In `client_commands` the first client runs each kind of command and the second what may disturb it: a job on the same cell or on the inserted
one, a stop, a restart, a delete, another wait. Two cells are a batch with something before and after a halt; a stream that grows and a display are what
`_output_deltas` tells apart, a stream's text is a string or a list, and `MaxText = 2` lets a stream grow or be followed. Only the first inserted cell prints, to stay small.

**Fairness.** `RuntimeManager`: strong fairness of each actor's continuations and of the GC's waking. Jupyter answers every call, the
GC loop's sleep ends, and asyncio runs every ready coroutine in turn; strong, because an actor is enabled only while no other holds the
loop. No request is assumed to arrive and no kernel to die. `JobExecution`: each task is run, a call that has the loop goes on, Jupyter answers, a request in a living kernel ends
or asks, a stop ends, and somebody answers a prompt that is shown. `Subshell`: the main shell's cells end and its snippets run; no job's cell
is assumed to end, which is what Stop is for. `NotebookDocument`: files, rooms and the ledger answer, and the event loop runs what can go on; opening a
document ends. `NotebookClient`: each client's requests are answered, a deadline passes, and a job that may start does, and ends or asks for input; nobody is assumed to answer a prompt.

**Where code and documents disagree.** Four runs end in a counterexample, each quoted in `PROJECT.json`:

- `concurrent_open`: two overlapping opens start two kernels for one notebook (`runtime_manager.py:360`).
- `stale_reply`: a second reply answers the prompt after the one it was for (`execution_orchestrator.py:436`).
- `repeated_prompt`: a prompt in the words of the last one is never shown; the job cannot end (`execution_orchestrator.py:395`).
- `two_documents`: two first uses of a notebook make two document rooms, and one edits a document nobody sees (`execution_orchestrator.py:232`).

**Known, with no run of their own.** These follow from the models, and the properties above are stated so as to hold beside them:

- A failed or dead room hides the session JupyterLab has opened since (`runtime_manager.py:360`), so the next open starts a second kernel.
- A cell's attribution written after an eviction outlives the runtime (`execution_orchestrator.py:357`).
- After a job, JupyterLab's Stop no longer interrupts JupyterLab's own cells (`handlers.py:408`): the client keeps its subshell id, so a snippet
  queues behind the cell and no SIGINT is sent.
- Two calls look a notebook up at once. One misses and creates the session; the other then finds it and registers a second room for it
  (`runtime_manager.py:364`). Each room has a `job_lock`, so a job of either may run a cell in the one kernel at the same time: `SerialRequests` leaves out kernels adopted in this way
  (`overtaken`). Without that clause `job_safety` ends in a counterexample of 14 states with two recorded jobs running. No document promises
  more than a lock per room, so there is no run for it.
- `restart_kernel` may raise after it has replaced the process (`handlers.py:443`). No clean-up follows: the stack's client keeps the subshell id of the process that is gone,
  and cells are sent to it until the next restart that is cleaned up, or an autorestart. `SubshellsAreKnown` leaves that time out (`cleanup = "skipped"`).
- A stream whose text is a list is printed again from its beginning when it grows: `_output_deltas` compares `str(text)` (`cli/main.py:1054`), and a list's ends in a bracket.
  `WatchShowsAll` says of it only that all of it is shown in the end.
- A handler whose `_save_to_disc` answers `None` reports success with its edit only in the document (`execution_orchestrator.py:259`).
- A job overtaken by a restart between preparing its client and `put` runs its cell on the main shell. Jobs of two rooms of one session
  may replace each other's subshell id. A snippet dropped by a raising cell is not sent again (`StopEndsCell` says "or dropped").
- Records of interrupts and replies stay QUEUED for ever, which is why `ActiveJobHasTask` speaks of jobs whose task has ended and `HistoryBounded` of finished
  jobs. INTERRUPTED is a status the server never sets: a stopped job is FAILED. A job whose task died before it got a room stays QUEUED, and a wait without a timeout on it does not return.
- `create_notebook` leaves its untitled file when the rename fails. A move writes the document it read, over edits made meanwhile.
- A batch `ix` whose inserted cell is deleted before its results are read ends with exit code 1 and no summary, although its jobs ran. A watch of a cell
  that has outputs shows those first. A brief result of a job that failed or waits shows the outputs of the cells it did not reach as current.

## 4. What is proved

### Runtimes

For `RuntimeManager`, for any sets of notebooks, rooms, sessions, clients, jobs, kernel names and handlers. The assumptions are those in the module:
the GC is no handler, the null values are none of their sets, `DefaultKernel` is a kernel name. `RuntimeManager_proofs`
has what holds however calls overlap, `RuntimeManagerSerial_proofs` what holds of one call at a time.

| Theorem | Property |
|---|---|
| `TypeCorrect` | `TypeOK` |
| `MapIsConsistent` | the notebook map names registered rooms of that notebook |
| `EnsuredRoomIsUsable` | a room `ensure_room` hands out is live, with its kernel up and of the kernelspec asked for |
| `RoomsMatchSessions` | a room and its session agree |
| `KernelsAreAccountedFor` | a kernel Hypernote started is lost only through a failed, early or cancelled stop |
| `StopsClearControlPlane` | nothing of a stopped room stays in the ledger |
| `RoomsKeepTheirKernel` | a room never changes its kernel (an action property) |
| `StatesTellTheTruth` | a room that is not live has no kernel up, or a stop awaits its `delete_session` (`StatesInv`) |
| `ShutdownIsClean` | `ShutdownLeavesNoKernel`, assuming `MaxInFlight = 1` |
| `OneKernelWhenSerial` | `OneKernelPerNotebook`, assuming `MaxInFlight = 1` and `~LabActs` |
| `PromiseKept` | `ImplementsPromise`: the refinement of `NotebookRuntime`, under the same assumptions |

`TypeOK` is inductive; the others are not. `IInv` adds what they rest on:

- `AbsentRoomsUnknown`, `UnusedSessionsUnknown`: an id not given occurs nowhere, so giving it disturbs no other room or record.
- `RegistryHistory`: a room is in the registry exactly until a stop takes it out. `KernelAccountedFor` and `StopClearsControlPlane` speak of
  how it left; without this a room could come back.
- `CallsConsistent`: what each suspended call knows of its room. A creator's room has no session yet and belongs to its notebook; a
  deleter's room has one. This is what makes `CreateReturns` and `DeleteReturns` safe whatever happened to the room during the await.
- `CallsApart`: no two calls create a session for one room, and at most one actor holds the event loop.
- `GcOnlySweeps`: the GC's task runs no handler, so cancelling it interrupts at most a stop.

The proof has one lemma per action (`EnsureSafe`, `LookupFindsSafe`, ..., `GcUnwindsSafe`). Two pairs of lemmas carry it:
`RoomsStayConsistent` says when a step that writes rooms, sessions and records keeps the invariant's parts about rooms, with variants
for a step that adds a room and one that removes a room; `CallsStayConsistent` does the same for the actors. An action's lemma
only shows that its step meets their hypotheses. `SafetyInit` and `SafetyNext` combine into `Inductive == Spec => []IInv`, of which the
theorems are corollaries.

The states of rooms need an invariant of their own, `StatesInv`, because `IInv` says nothing of a room that is not live: the refresh
on every read, the write of `failed` when creation fails and the three ways a stop ends are what makes it true. It holds for any overlap. The theorems about serial calls
assume `MaxInFlight = 1`: one handler or sweep between its call and its return. That assumption cannot be dropped, for `concurrent_open`
is a behaviour with two calls and two kernels; nor can `~LabActs`, for JupyterLab may open a notebook whose room has failed. Kernels still die, creations and deletions fail,
clients attach and jobs set states between any two steps. The argument has three layers:

- `SerialInv`: who is in flight. Before `stop_extension` one actor at most; after it the shutdown, and a GC that is unwinding with no room in its hands, since it was not stopping one.
- `SweptInv`: in a shutdown that is sweeping, every registered room with its kernel up is still on its list, or is the one it deletes. A room the loop passes over is
  stopped or stopping; `StatesInv` says a stopped one has no kernel up, and `SerialInv` that nobody else is stopping one.
- `ServesInv`: the one kernel that serves a notebook is the one its current room holds. A call in `get_session` has no room for its notebook; a call in
  `create_session` has a room for a notebook no kernel serves. `QuietServes` keeps it over the steps that start no kernel, `RegisterServes` over those that register a room.

For the refinement each action is a `Start` (`CreateReturns`), an `End` (`DeleteReturns`, `SessionEnds`) or a stutter of `NotebookRuntime` (`ServesNext`).

### Documents

For `NotebookDocument`, for any number of requests, cells, rooms and edits by JupyterLab. Assumed is what the module
assumes: JupyterLab and the null values are none of the requests and rooms, and the file's cells have none of the ids that requests will give.
`NotebookDocument_proofs` is about initialisation, rooms and saves, `DocumentContents_proofs` about the cells.

| Theorem | Property |
|---|---|
| `OneControlPlaneAlways` | `OneControlPlane`: one initialisation has one manager with one GC loop, and no request goes on before it |
| `SavedBeforeAnsweredAlways` | `SavedBeforeAnswered`: an edit answered with success is saved, unless that handler had no save to await and none has come since |
| `TypeOKAlways` | `TypeOK` |
| `DiffIsExactAlways` | `DiffIsExact` |
| `SharedNotebookImplemented` | `ImplementsSharedNotebook`, assuming `~OpensOverlap` |

- `GateInv` ties `_init_event` to the initialisation: while it is not set there is no loop and at most one request initialises; once set, none begins. One loop follows.
- `Shape` says what a request between two suspension points holds: a room, and no planned move but in `setting`.
- `SavedInv`: who has edited a room without saving is a handler still at its save, one that had no save to await, one that was answered with failure, or JupyterLab. A save writes the
  whole room, so it clears the others' edits too; that is why a request overtaken by another's save is right to answer success.
- `RoomInv`: at most one room is starting or open; the one that starts has exactly one request behind it, and while it starts the server has none. This is where
  `~OpensOverlap` enters, and its only use.
- `DocumentInv` says of every document there is (of a room, of the file, of a move on its way, of the one a snapshot was taken of) that it is `Sound`: its cells are of their type and none
  has the id of a request that has yet to insert, and while JupyterLab has not edited, a key that is there is the cell's position. New ids stay distinct from those in use, which makes a diff by id exact.
- `ExactChanges` is the diff itself, for two documents: additions and deletions by id, edits by source, runs by output, moves by key.
- `LoadedInv`: a handler that edits or saves has a room that was loaded; so loading never changes a document that is seen.

For the refinement, `Edits` is an `Insert`, `Replace`, `Delete` or `SetOutputs` of `SharedNotebook`, `PlansMove` its `BeginMove`, `Sets` its `EndMove`, `LabEdits` any one edit,
`OutputArrives` a `SetOutputs`; opening, loading, saving and answering are stutters, because the cells of the room are those of the file until the room is edited.

### Jobs

For `JobExecution` with `ActorLedger`, for any finite set of jobs (a record's creation time is the number of ids given so far), any rooms, notebooks,
prompts, replies, numbers of cells, bound on the history, and any `Disturbances`. `LedgerAssumption` and `ExecutionAssumption` are the modules' own.
`ActorLedger_proofs` has lemmas on each operation of the ledger, `JobExecution_proofs` the inductive invariant and what follows about results, the history and prompts.

| Theorem | Property |
|---|---|
| `TypeCorrect` | `TypeOK` |
| `JobsAreSerial` | `SerialRequests`: a kernel that no lookup adopted behind another call has the request of one recorded job at a time |
| `PrunedBounded` | pruning leaves at most `MaxCompleted` finished jobs of the notebook |
| `HistoryBoundedAlways` | `HistoryBounded`, hence in every state |
| `FirstErrorEndsJobAlways` | `FirstErrorEndsJob` |
| `RuntimeJobsActiveAlways` | `RuntimeJobsActive` |
| `ActiveJobHasTaskAlways` | `ActiveJobHasTask`: a job whose task has ended is not shown as active, unless a reply delivered late makes it so |
| `AwaitingRoomHasJobAlways` | `AwaitingRoomHasJob`: a registered room in `awaiting-input`, which the GC never reaps, has a job at work that will take it out of it |
| `ActiveJobsKeptAlways` | `ActiveJobsKept`, assuming `MaxCompleted # 0`: with 0 every job's record goes as it ends |
| `AwaitingIsRealAlways` | `AwaitingIsReal`, assuming `[][NewWords]_vars`: a cell does not ask again with the words of the prompt last answered |

`SerialRequests` is not inductive. `IInv` adds:

- `LockInv`: the queue of a `job_lock` holds the tasks that say they hold or await it, each once, and the task that works stands first.
- `RequestsInv`: a request without a result is the one its task polls, unless the job's record is gone (an eviction ends nothing in the kernel, which is why
  the property speaks of recorded jobs).
- `TasksInv`, `RoomsInv`, `SendersInv`: what a task, a room and a reply in flight know of each other: a recorded job's task is for the record's notebook, and a room it has got
  is one that was in use, is registered as long as the job is recorded, and keeps its kernel.
- `CallsInv`: what a suspended `ensure_room` knows: a room whose session is being created has no kernel and no other creator; one that is answered has one.
- `SessionsInv`, `MapInv`: a room's kernel was started for the room's notebook; the map names a room as long as a recorded job has got one, because a stop that forgets the room forgets the records.
- `OneInCharge`: a room is in charge if the map names it, a recorded job has it, or a call is about to go on with it. Of a kernel that is not `overtaken`, one room is. A lookup
  that finds a session while the map is empty cannot meet another room in charge: a recorded job would keep the map from being empty (`MapInv`). A lookup that finds it
  while the map is not empty is what `overtaken` records.

Two recorded jobs with open requests in one kernel then have one room, and both stand first in its lock. `JobExecution_proofs` then describes each action once by how it may move a single job
(`JobStep`) and derives the outcome properties from that.
A reply that comes late writes RUNNING over a last status (`stale_reply` shows how), so `ActiveJobHasTask` is a property of steps: it names the one step that may.
`PrunedBounded` counts: the jobs that pruning keeps have different numbers of finished jobs created after them, all below the bound, so there are no more
than the bound. `HistoryInv` adds that creation times of records are distinct and in the past.

- `NamedInv`, for `ActiveJobsKept`: a record has a notebook exactly while it is there. So an eviction, which goes by notebook, takes all records of it or none, and
  pruning, which goes by rank, never takes the record that was just created.
- `PromptsInv`, for `AwaitingIsReal`: a prompt is remembered as awaited only while its request is polled; a prompt the request asks and the task has not seen is not the
  one last answered. `NewWords` is what makes the second part survive `AsksForInput`, and its only use. It cannot be dropped: the code tells prompts apart by words (see
  `repeated_prompt`), and with three prompts, the third in the words of the first and the second answered by a late reply of another job, TLC finds a job shown as waiting
  for a prompt that counts as answered. `job_prompts` has two prompts, which excludes it.

### Subshells

For `Subshell`, for any number of jobs on the kernel at once (the run has one), client objects, subshells and processes, in `Subshell_proofs`.

| Theorem | Property |
|---|---|
| `TypeCorrect` | `TypeOK` |
| `SubshellsAreKnownAlways` | `SubshellsAreKnown`: no cell goes to a subshell of a process that has gone |
| `StopFindsCellAlways` | `StopFindsCell`, assuming one job at a time on the kernel |

- `HookedInv`: a client that remembers a subshell has its restart callback registered, so an autorestart clears it.
- `KnownInv`: but between a replacement of the process and its clean-up, which may never come, the subshell the stack's client remembers, and the one in a reply to a job that holds that client, are of the running process.
- `MadeInv`, `HoldInv`: a client someone holds has been made, so the fresh one the stack makes after an eviction is nobody's.
- `SentInv`: only the stack's worker says where a request was sent.

`Autorestarts` waits for replies of the dead process to be read; that is the one timing assumption the theorem rests on, stated at the action.

`StopFindsCell` rests on three more parts. One job at a time is what the `job_lock` of a room gives; two rooms of one session have two locks, and then it is false.

- `DownInv`: a kernel that is down runs nothing.
- `CreatedInv`: a client routes to the subshell it remembers, and that one, like one in a reply, was created in a process there has been.
- `FoundInv`: a cell that was sent is where Stop looks (`Found`), or in a subshell lost with its process. A step that replaces the process
  loses every subshell with it and lets clients at most forget theirs; the clean-up of a restart, which evicts the client, leaves no job's cell sent; and only the one job that has
  the kernel gives the client another subshell, before its cell is sent.

### Clients

For `NotebookClient`, in `NotebookClient_proofs`, for any set of clients, cells, lengths of a batch and amounts of text, and for any commands the command line takes:
`Accepted` has what its validation lets through (`CommandsAssumption`), `ClientAssumption` that ids are distinct.

| Theorem | Property |
|---|---|
| `TypeOKAlways` | `TypeOK` |
| `WatchShowsAllAlways` | `WatchShowsAll`: a watch prints what its job prints, in order, nothing twice and nothing left out, if streams are strings; and every output whole if they are lists |
| `BatchStopsAtHaltAlways` | `BatchStopsAtHalt`: a batch inserts a cell only after those before it succeeded, and its summary tells where it halted |
| `ExitTellsOutcomeAlways` | `ExitTellsOutcome`: the exit code tells how the jobs ended |
| `ResultsAreFreshAlways` | `ResultsAreFresh`: outputs called current are those of the command's own run, unless the job was read to have failed or to await input |

The last three follow from one invariant, `IInv`. Of the server it has `JobFacts` (a job has run the cells before the one it is at, all of which were in the notebook) and `DocInv` (a cell
is put in once, behind those of its command); of each client `AtStep`, `Inserted`, `Follows`, `Owns`, `Tells` and `Restarted`: where it can be in its command, what it has inserted, the job it follows and
how much of that job's end it has read, that the jobs of earlier cells succeeded, what its report means, and which kernel it runs in. A client reads the server in one request and acts in
the next, with other clients' requests in between; `Grows` is what every step leaves as it was (a job's cells and its end, a cell once inserted, one once removed), and a lemma for each part (`KeepsFollows`, `KeepsOwns`, ...)
says that such a step keeps it. Only the client's own step then needs a proof per action.

`WatchShowsAll` needs `WatchInv`: an inserted cell nobody has run has no outputs, who ran a cell has come to it, and what was shown of a cell that only the job runs is what was seen (`ShownOf`), which the
outputs have grown from; all of it once the end was read, because the loop reads the job's status before the cells (`Complete`). Its core is two lemmas, for any outputs `p` that `o` has grown from:
`DeltasShow`, that `Printed(p) \o Deltas(p, o) = Printed(o)` if no stream is a list, and `DeltasWhole`, that what shows each output of `p` whole then shows each of `o` whole, the last one at the end.
All are flattened sequences, so this takes induction. The library's theorems take the formula as an operator;
`SetInduction` is induction over the set of naturals at which a formula holds, from the least element, which needs none.
The property's hypotheses are those of the code: a batch ignores `--watch`, and of a cell another job runs too, or one named twice, the loop shows a mixture.

**Only model-checked:** liveness, because fairness is out of the prover's reach: `EveryJobEnds`, `StopEndsCell`, and that calls, stops, requests and commands end. Every invariant and every other action
property of the passing runs is proved, some under the hypotheses named above; the runs check them without, in their instance.

## 5. What is not modelled

- Formatting: rendering, previews, hints, argument parsing, HTTP status codes and the encoding of requests.
- Kernelspec resolution, which is the choice of a kernel name. Jupyter, the execution stack and the kernel are modelled as this code uses them.
- `validate_nbmodel_internals` and the route checks of the extension, which only log.
- Commands that are one request (`status`, `cat`, `diff`, `create`), or that are about processes and packages (`setup`, `doctor`, `serve`).
  `create --empty` deletes the cells the document has, one request each.
- Two notebooks with one document, and rooms of documents that Jupyter closes when their last client leaves: a room once served stays.
- The execution stack's own saves, and a crash of the server, after which nothing of Hypernote's state is left and the file is what was saved.

## 6. Plan

Done: `RuntimeManager` with `NotebookRuntime`, `ActorLedger`, `JobExecution`, `Subshell`, `ExtensionInit`, `NotebookDocument` with `SharedNotebook`,
`NotebookDiff`, `NotebookClient`; proofs about all of them.

What would come next:

1. `Subshell` over two rooms that share a session, composed with the adoption race of `JobExecution`.
2. Document rooms that close, and JupyterLab reconnecting to one.
3. `OneKernelPerNotebook` under a weaker hypothesis: that only the calls of one notebook come one at a time.
