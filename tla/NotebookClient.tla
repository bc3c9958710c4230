--------------------------- MODULE NotebookClient ---------------------------
(***************************************************************************)
(* Commands of the CLI (src/hypernote/cli/main.py) and the SDK calls under *)
(* them (src/hypernote/sdk.py), by several clients of one notebook.        *)
(*                                                                         *)
(* A command is a sequence of HTTP requests, and anything may happen on    *)
(* the server between two of them.  One action of a client is a request    *)
(* with what the client makes of its answer.  Reads that only repeat one   *)
(* are left out: connect's of a notebook that exists, the second read of a *)
(* cell's type, the kernelspec, the runtime a command prints.              *)
(*                                                                         *)
(* The server is what its REST interface shows of it: the document, each   *)
(* cell's outputs, the jobs and one kernel, which a job runs in while no   *)
(* other job does (JobExecution's SerialRequests).                         *)
(*                                                                         *)
(* Commands has the commands that the clients run together, Printing the   *)
(* cells whose source prints, and MaxText bounds what one run prints.  A   *)
(* cell that ix inserts and the job that runs it are both named by the     *)
(* client and the cell's place in the command; the other commands make the *)
(* job of place 1.                                                         *)
(***************************************************************************)
EXTENDS Integers, FiniteSets, SequencesExt

CONSTANTS Clients, OldCells, Printing, Commands, MaxBatch, MaxText, NoJob, Before

VARIABLES
  doc,      \* the cells of the notebook, in order
  out,      \* the outputs of each cell
  runs,     \* the jobs that have run each cell
  job,      \* the server's jobs
  kernel,   \* the number of the runtime's kernel, or 0
  kernels,  \* how many kernels there have been
  cmd,      \* each client's command
  cl,       \* each client's progress
  late      \* whether the deadline of its wait has passed

serverVars == <<doc, out, runs, job, kernel, kernels>>
vars == <<doc, out, runs, job, kernel, kernels, cmd, cl, late>>

Jobs == Clients \X (1..MaxBatch)
CellIds == ToSet(OldCells) \cup Jobs

(* An output: a stream, whose text grows, or a display.  The text of a      *)
(* stream is a string or a list of strings: then the name is "lines".       *)
(* Texts of different runs differ.                                          *)
Names == {"stream", "lines", "display"}
Output == [name : Names, by : Jobs \cup {Before}, len : 1..MaxText]
Outputs == UNION {[1..n -> Output] : n \in 0..MaxText}
Text(o) == [n \in 1..o.len |-> o.name]
Printed(outputs) == FlattenSeq([i \in DOMAIN outputs |-> Text(outputs[i])])

(* Python's str() of a text: a list's ends in a bracket, however it grows.  *)
Shapes == Names \cup {"[", "]"}
Str(o) == IF o.name = "lines" THEN <<"[">> \o Text(o) \o <<"]">> ELSE Text(o)

JobStatus == {"queued", "running", "awaiting", "succeeded", "failed"}
Job == [status : JobStatus \cup {"none"}, cells : Seq(CellIds), at : Nat,
        kernel : Nat, evicted : BOOLEAN]

(* What a command line says.  cells: those exec names, or the one edit      *)
(* delete does; of: the job that job await names.                           *)
Command ==
  [op : {"ix", "exec", "run-all", "restart", "restart-run-all", "await", "stop", "delete"},
   kinds : Seq({"code", "markdown"}), cells : Seq(CellIds), of : Jobs \cup {NoJob},
   form : {"json", "brief", "watch"}, wait : BOOLEAN, timed : BOOLEAN]

(* What the command line takes: ix is given cells (of none it makes no      *)
(* request) and waits for several; exec and edit delete are given cells,    *)
(* job await a job.                                                         *)
Accepted(c) ==
  /\ c.kinds # <<>> <=> c.op = "ix"
  /\ Len(c.kinds) <= MaxBatch
  /\ Len(c.kinds) > 1 => c.wait
  /\ c.op \in {"exec", "delete"} => c.cells # <<>>
  /\ c.of # NoJob <=> c.op = "await"
  /\ c.op = "await" => c.wait

ASSUME CommandsAssumption ==
  /\ Commands \subseteq [Clients -> Command]
  /\ \A cs \in Commands : \A k \in Clients : Accepted(cs[k])
ASSUME ClientAssumption ==
  /\ MaxBatch \in Nat \ {0} /\ MaxText \in Nat \ {0}
  /\ OldCells \in Seq(ToSet(OldCells)) /\ ToSet(OldCells) \cap Jobs = {}
  /\ NoJob \notin Jobs /\ Before \notin Jobs

Steps == {"insert", "type", "check", "list", "run", "join", "poll", "look", "take", "decide",
          "next", "report", "stop", "open", "delete", "done"}
Halts == {"none", "job_failed", "awaiting_input"}

(* i: the cell of the batch it is at; status: the job's, as last read;      *)
(* todo: cells the watch loop has yet to read; seen, shown: seen_outputs    *)
(* and what was printed of them; current: the cells reported with outputs   *)
(* of the job; halt, count: the summary of a batch (count 0: not written);  *)
(* since: how many kernels there had been when it had stopped the runtime.  *)
Client ==
  [pc : Steps, i : 1..MaxBatch, inserted : SUBSET CellIds, job : Jobs \cup {NoJob},
   status : JobStatus \cup {"none"}, cells : Seq(CellIds), todo : Seq(CellIds),
   seen : [CellIds -> Outputs], shown : [CellIds -> Seq(Shapes)],
   current : SUBSET CellIds, halt : Halts, count : 0..MaxBatch, since : Nat,
   exit : {"none", "ok", "error", "failed"}]

TypeOK ==
  /\ doc \in Seq(CellIds)
  /\ out \in [CellIds -> Outputs]
  /\ runs \in [CellIds -> SUBSET Jobs]
  /\ job \in [Jobs -> Job]
  /\ kernel \in 0..kernels /\ kernels \in Nat
  /\ cmd \in [Clients -> Command]
  /\ cl \in [Clients -> Client]
  /\ late \in [Clients -> BOOLEAN]

NoOutputs == [c \in CellIds |-> <<>>]
FirstStep(op) ==
  CASE op = "ix" -> "insert" [] op = "run-all" -> "list" [] op = "await" -> "join"
    [] op \in {"exec", "delete"} -> "check" [] OTHER -> "stop"

Init ==
  /\ doc = OldCells
  /\ out = [c \in CellIds |-> IF c \in ToSet(OldCells)
              THEN <<[name |-> "stream", by |-> Before, len |-> 1]>> ELSE <<>>]
  /\ runs = [c \in CellIds |-> {}]
  /\ job = [j \in Jobs |-> [status |-> "none", cells |-> <<>>, at |-> 0, kernel |-> 0, evicted |-> FALSE]]
  /\ kernel = 0 /\ kernels = 0
  /\ cmd \in Commands
  /\ cl = [k \in Clients |->
       [pc |-> FirstStep(cmd[k].op), i |-> 1, inserted |-> {}, job |-> NoJob, status |-> "none",
        cells |-> <<>>, todo |-> <<>>, seen |-> NoOutputs, shown |-> NoOutputs,
        current |-> {}, halt |-> "none", count |-> 0, since |-> 0, exit |-> "none"]]
  /\ late = [k \in Clients |-> FALSE]

-----------------------------------------------------------------------------
(* The server *)

Live(j) == job[j].status \in {"running", "awaiting"} /\ job[j].kernel = kernel
InDoc(c) == c \in ToSet(doc)

(* ensure_room *)
EnsuresKernel ==
  /\ kernel' = IF kernel = 0 THEN kernels + 1 ELSE kernel
  /\ kernels' = IF kernel = 0 THEN kernels + 1 ELSE kernels

(* queue_execution *)
Queues(j, cells) ==
  /\ EnsuresKernel
  /\ job' = [job EXCEPT ![j] = [@ EXCEPT !.status = "queued", !.cells = cells]]

(* _run_job: its own ensure_room and the lock.  A job whose record was      *)
(* evicted goes on, with nobody to see it.                                  *)
JobStarts(j) ==
  /\ job[j].status = "queued" /\ \A o \in Jobs : ~Live(o)
  /\ EnsuresKernel
  /\ job' = [job EXCEPT ![j] = [@ EXCEPT !.status = "running", !.kernel = kernel']]
  /\ UNCHANGED <<doc, out, runs, cmd, cl, late>>

(* The next cell runs, its outputs cleared; a missing one fails the job.    *)
CellRuns(j) ==
  LET c == job[j].cells[job[j].at + 1]
  IN /\ Live(j) /\ job[j].status = "running" /\ job[j].at < Len(job[j].cells)
     /\ IF InDoc(c)
        THEN /\ job' = [job EXCEPT ![j] = [@ EXCEPT !.at = job[j].at + 1]]
             /\ out' = [out EXCEPT ![c] = <<>>]
             /\ runs' = [runs EXCEPT ![c] = @ \cup {j}]
        ELSE /\ job' = [job EXCEPT ![j] = [@ EXCEPT !.status = "failed"]]
             /\ UNCHANGED <<out, runs>>
     /\ UNCHANGED <<doc, kernel, kernels, cmd, cl, late>>

(* It prints: a stream's text is appended to that stream if it is the last  *)
(* output.                                                                  *)
Longer(o) == [o EXCEPT !.len = @ + 1]
Extended(outputs, name, j) ==
  LET n == Len(outputs)
  IN IF n > 0 /\ name # "display" /\ outputs[n].name = name
     THEN [outputs EXCEPT ![n] = Longer(@)]
     ELSE Append(outputs, [name |-> name, by |-> j, len |-> 1])

CellPrints(j) ==
  LET c == job[j].cells[job[j].at]
  IN /\ Live(j) /\ job[j].status = "running" /\ job[j].at > 0
     /\ c \in Printing /\ InDoc(c) /\ Len(Printed(out[c])) < MaxText
     /\ \E name \in Names : out' = [out EXCEPT ![c] = Extended(@, name, j)]
     /\ UNCHANGED <<doc, runs, job, kernel, kernels, cmd, cl, late>>

JobEnds(j) ==
  /\ Live(j) /\ job[j].status = "running" /\ job[j].at = Len(job[j].cells)
  /\ job' = [job EXCEPT ![j] = [@ EXCEPT !.status = "succeeded"]]
  /\ UNCHANGED <<doc, out, runs, kernel, kernels, cmd, cl, late>>

(* An error, a Stop, a restart, a lost request *)
JobFails(j) ==
  /\ Live(j) /\ job[j].status = "running" /\ job[j].at > 0
  /\ job' = [job EXCEPT ![j] = [@ EXCEPT !.status = "failed"]]
  /\ UNCHANGED <<doc, out, runs, kernel, kernels, cmd, cl, late>>

JobAsks(j) ==
  /\ Live(j) /\ job[j].status = "running" /\ job[j].at > 0
  /\ job' = [job EXCEPT ![j] = [@ EXCEPT !.status = "awaiting"]]
  /\ UNCHANGED <<doc, out, runs, kernel, kernels, cmd, cl, late>>

JobIsAnswered(j) ==
  /\ Live(j) /\ job[j].status = "awaiting"
  /\ job' = [job EXCEPT ![j] = [@ EXCEPT !.status = "running"]]
  /\ UNCHANGED <<doc, out, runs, kernel, kernels, cmd, cl, late>>

-----------------------------------------------------------------------------
(* What a client makes of answers *)

Goes(k, c) == cl' = [cl EXCEPT ![k] = c]
At(k, pc) == [cl[k] EXCEPT !.pc = pc]
Exit(c, code) == [c EXCEPT !.pc = "done", !.exit = code]

(* _cli_errors: an exception of the SDK ends the command with exit code 1.  *)
Raises(k) == Goes(k, Exit(cl[k], "error"))

IsBatch(k) == Len(cmd[k].kinds) > 1
OwnJob(k) == <<k, cl[k].i>>

(* _output_deltas, as it is printed: of a stream whose str() has grown the  *)
(* rest, of every other output that is new or another the whole.            *)
Deltas(previous, current) ==
  LET Grown(p, o) == /\ o.name # "display" /\ p.name = o.name /\ p.by = o.by
                     /\ IsPrefix(Str(p), Str(o))
      Delta(i) ==
        IF i > Len(previous) THEN Str(current[i])
        ELSE IF previous[i] = current[i] THEN <<>>
        ELSE IF Grown(previous[i], current[i])
             THEN SubSeq(Str(current[i]), Len(Str(previous[i])) + 1, Len(Str(current[i])))
        ELSE Str(current[i])
  IN FlattenSeq([i \in DOMAIN current |-> Delta(i)])

(* TERMINAL_STATUSES *)
Terminal == {"succeeded", "failed", "awaiting"}

(* Variant: the status itself *)
HaltIsStatus(status) == status

(* _halt_reason *)
HaltReason(status) ==
  CASE status = "failed" -> "job_failed" [] status = "awaiting" -> "awaiting_input" [] OTHER -> "none"

(* Variant: a job that awaits input does not stop a batch. *)
HaltsOnFailure(status) == status = "failed"

(* The statuses at which ix stops *)
HaltsBatch(status) == status \in {"failed", "awaiting"}

(* Variant: the exit code tells whether there is a result. *)
ExitWithResult(c) == Exit(c, "ok")

(* _exit_if_job_failed *)
ExitByJob(c) == Exit(c, IF c.status = "failed" THEN "failed" ELSE "ok")

(* ix goes on to its next cell, or to its results. *)
Continued(k, c) ==
  IF c.i < Len(cmd[k].kinds) THEN [c EXCEPT !.pc = "insert", !.i = @ + 1] ELSE [c EXCEPT !.pc = "report"]

-----------------------------------------------------------------------------
(* Requests *)

(* _insert_cell: at the end, or behind the cell inserted before it *)
Inserts(k) ==
  LET c == cl[k]
      place == IF c.i = 1 THEN Len(doc) + 1 ELSE 1 + CHOOSE n \in DOMAIN doc : doc[n] = <<k, c.i - 1>>
  IN /\ c.pc = "insert"
     /\ IF c.i > 1 /\ ~InDoc(<<k, c.i - 1>>)
        THEN Raises(k) /\ UNCHANGED doc
        ELSE /\ doc' = InsertAt(doc, place, <<k, c.i>>)
             /\ Goes(k, [c EXCEPT !.pc = "type", !.inserted = @ \cup {<<k, c.i>>}])
     /\ UNCHANGED <<out, runs, job, kernel, kernels, cmd, late>>

(* inserted.type *)
Types(k) ==
  LET c == cl[k]
  IN /\ c.pc = "type"
     /\ IF ~InDoc(<<k, c.i>>) THEN Raises(k)
        ELSE IF cmd[k].kinds[c.i] = "markdown" THEN Goes(k, Continued(k, c))
        ELSE Goes(k, [c EXCEPT !.pc = "run", !.cells = <<<<k, c.i>>>>])
     /\ UNCHANGED <<serverVars, cmd, late>>

IsCode(c) == c \notin Jobs \/ cmd[c[1]].kinds[c[2]] = "code"

(* exec and edit delete read the cells they are given: all must be there,   *)
(* and exec's must be code.                                                 *)
Checks(k) ==
  /\ cl[k].pc = "check"
  /\ IF \A c \in ToSet(cmd[k].cells) : InDoc(c) /\ (cmd[k].op = "exec" => IsCode(c))
     THEN Goes(k, [At(k, IF cmd[k].op = "delete" THEN "delete" ELSE "run") EXCEPT !.cells = cmd[k].cells])
     ELSE Raises(k)
  /\ UNCHANGED <<serverVars, cmd, late>>

Deletes(k) ==
  LET c == cmd[k].cells[1]
  IN /\ cl[k].pc = "delete"
     /\ IF InDoc(c)
        THEN doc' = RemoveAt(doc, CHOOSE n \in DOMAIN doc : doc[n] = c) /\ Goes(k, Exit(cl[k], "ok"))
        ELSE Raises(k) /\ UNCHANGED doc
     /\ UNCHANGED <<out, runs, job, kernel, kernels, cmd, late>>

(* run_all: the code cells of the document as it is now *)
Lists(k) ==
  LET cells == FlattenSeq([n \in DOMAIN doc |-> IF IsCode(doc[n]) THEN <<doc[n]>> ELSE <<>>])
  IN /\ cl[k].pc = "list"
     /\ IF cells = <<>> THEN Raises(k) ELSE Goes(k, [At(k, "run") EXCEPT !.cells = cells])
     /\ UNCHANGED <<serverVars, cmd, late>>

(* The first step after the job is there; every wait has its own deadline.  *)
Waiting(k, c) ==
  [c EXCEPT !.pc = IF c.status \in Terminal /\ cmd[k].form # "watch"
                   THEN "decide" ELSE "poll"]

(* _run_cells *)
Runs(k) ==
  LET c == [cl[k] EXCEPT !.job = OwnJob(k), !.status = "queued"]
  IN /\ cl[k].pc = "run"
     /\ Queues(OwnJob(k), c.cells)
     /\ Goes(k, IF cmd[k].wait THEN Waiting(k, c) ELSE [c EXCEPT !.pc = "report"])
     /\ late' = [late EXCEPT ![k] = FALSE]
     /\ UNCHANGED <<doc, out, runs, cmd>>

(* The runtime does not open, or has another kernelspec. *)
RunRefused(k) ==
  /\ cl[k].pc = "run"
  /\ Raises(k)
  /\ UNCHANGED <<serverVars, cmd, late>>

(* job await *)
Joins(k) ==
  LET j == cmd[k].of
  IN /\ cl[k].pc = "join"
     /\ IF job[j].status = "none" \/ job[j].evicted THEN Raises(k)
        ELSE Goes(k, Waiting(k, [cl[k] EXCEPT !.job = j, !.status = job[j].status, !.cells = job[j].cells]))
     /\ UNCHANGED <<serverVars, cmd, late>>


(* Job.refresh *)
Polls(k) ==
  LET c == cl[k]
      watches == cmd[k].form = "watch" /\ ~IsBatch(k)
  IN /\ c.pc = "poll"
     /\ IF job[c.job].evicted THEN Raises(k)
        ELSE Goes(k, [c EXCEPT !.status = job[c.job].status, !.pc = IF watches THEN "look" ELSE "decide",
                               !.todo = IF watches THEN c.cells ELSE <<>>])
     /\ UNCHANGED <<serverVars, cmd, late>>

(* The watch loop's read of a cell: one that is missing is passed over. *)
Looks(k) ==
  LET c == cl[k]
  IN /\ c.pc = "look"
     /\ IF c.todo = <<>> THEN Goes(k, At(k, "decide"))
        ELSE IF InDoc(Head(c.todo)) THEN Goes(k, At(k, "take"))
        ELSE Goes(k, [c EXCEPT !.todo = Tail(@)])
     /\ UNCHANGED <<serverVars, cmd, late>>

(* ... and of its outputs, where a missing one raises. *)
Takes(k) ==
  LET c == cl[k]
      cell == Head(c.todo)
      shown == [c.shown EXCEPT ![cell] = @ \o Deltas(c.seen[cell], out[cell])]
      seen == [c.seen EXCEPT ![cell] = out[cell]]
  IN /\ c.pc = "take"
     /\ IF ~InDoc(cell) THEN Raises(k)
        ELSE Goes(k, [c EXCEPT !.pc = "look", !.todo = Tail(@), !.shown = shown, !.seen = seen])
     /\ UNCHANGED <<serverVars, cmd, late>>

Ended(k, c) == IF IsBatch(k) THEN [c EXCEPT !.pc = "next"] ELSE [c EXCEPT !.pc = "report"]

(* Variant: the status is read when the cells have been. *)
DecidesOnLaterStatus(k) ==
  LET c == [cl[k] EXCEPT !.status = job[cl[k].job].status]
  IN /\ cl[k].pc = "decide"
     /\ IF c.status \in Terminal THEN Goes(k, Ended(k, c))
        ELSE IF cmd[k].timed /\ late[k] THEN Raises(k)
        ELSE Goes(k, [c EXCEPT !.pc = "poll"])
     /\ UNCHANGED <<serverVars, cmd, late>>

(* The end of a round of Job.wait and of the watch loop *)
Decides(k) ==
  LET c == cl[k]
  IN /\ c.pc = "decide"
     /\ IF c.status \in Terminal THEN Goes(k, Ended(k, c))
        ELSE IF cmd[k].timed /\ late[k] THEN Raises(k)
        ELSE Goes(k, [c EXCEPT !.pc = "poll"])
     /\ UNCHANGED <<serverVars, cmd, late>>

(* A batch that has run a cell prints its result, unless brief, and halts   *)
(* or goes on.                                                              *)
BatchGoes(k) ==
  LET c == cl[k]
  IN /\ c.pc = "next"
     /\ IF cmd[k].form # "brief" /\ ~InDoc(<<k, c.i>>) THEN Raises(k)
        ELSE IF HaltsBatch(c.status)
        THEN Goes(k, [c EXCEPT !.pc = "report",
                               !.halt = IF c.i < Len(cmd[k].kinds) THEN HaltReason(c.status) ELSE "none"])
        ELSE Goes(k, Continued(k, c))
     /\ UNCHANGED <<serverVars, cmd, late>>

(* The cells that a result reads again *)
Reported(k) ==
  IF cmd[k].form = "watch" /\ cmd[k].wait /\ ~IsBatch(k) /\ cl[k].job # NoJob THEN {}
  ELSE cl[k].inserted \cup (IF cmd[k].form = "brief" /\ ~IsBatch(k) THEN ToSet(cl[k].cells) ELSE {})

(* Variant: what a brief result shows counts as the job's, whatever its status. *)
CurrentAlways(k) == Reported(k)

(* outputs_current *)
Current(k) == IF cl[k].status \in Terminal THEN Reported(k) ELSE {}

(* _run_command_output, _job_result, _brief_job_result and ix's own results *)
Reports(k) ==
  LET c == [cl[k] EXCEPT !.current = Current(k), !.count = IF IsBatch(k) THEN cl[k].i ELSE 0]
  IN /\ cl[k].pc = "report"
     /\ IF \E d \in Reported(k) : ~InDoc(d) THEN Raises(k) ELSE Goes(k, ExitByJob(c))
     /\ UNCHANGED <<serverVars, cmd, late>>

(* Runtime.stop, which evicts the notebook's jobs; 404 if there is nothing. *)
Stops(k) ==
  /\ cl[k].pc = "stop"
  /\ kernel' = 0
  /\ job' = IF kernel = 0 THEN job
            ELSE [j \in Jobs |-> [job[j] EXCEPT !.evicted = @ \/ job[j].status # "none"]]
  /\ Goes(k, IF cmd[k].op = "stop" THEN Exit(cl[k], "ok")
             ELSE [At(k, "open") EXCEPT !.since = kernels])
  /\ UNCHANGED <<doc, out, runs, kernels, cmd, late>>

(* Runtime.ensure *)
Opens(k) ==
  /\ cl[k].pc = "open"
  /\ EnsuresKernel
  /\ Goes(k, IF cmd[k].op = "restart" THEN Exit(cl[k], "ok") ELSE At(k, "list"))
  /\ UNCHANGED <<doc, out, runs, job, cmd, late>>

OpenRefused(k) ==
  /\ cl[k].pc = "open"
  /\ Raises(k)
  /\ UNCHANGED <<serverVars, cmd, late>>

DeadlinePasses(k) ==
  /\ cmd[k].timed /\ ~late[k] /\ cl[k].pc \in {"poll", "look", "take", "decide"}
  /\ late' = [late EXCEPT ![k] = TRUE]
  /\ UNCHANGED <<serverVars, cmd, cl>>

-----------------------------------------------------------------------------
ClientStep(k) ==
  \/ Inserts(k) \/ Types(k) \/ Checks(k) \/ Deletes(k) \/ Lists(k) \/ Runs(k) \/ RunRefused(k) \/ Joins(k)
  \/ Polls(k) \/ Looks(k) \/ Takes(k) \/ Decides(k) \/ BatchGoes(k) \/ Reports(k)
  \/ Stops(k) \/ Opens(k) \/ OpenRefused(k)

JobStep(j) ==
  JobStarts(j) \/ CellRuns(j) \/ CellPrints(j) \/ JobEnds(j) \/ JobFails(j) \/ JobAsks(j) \/ JobIsAnswered(j)

Next ==
  \/ \E k \in Clients : ClientStep(k) \/ DeadlinePasses(k)
  \/ \E j \in Jobs : JobStep(j)

Spec == Init /\ [][Next]_vars

(* Requests are answered and time passes; a job that may start, starts, and *)
(* ends or asks for input some day.                                         *)
Fairness ==
  /\ \A k \in Clients : WF_vars(ClientStep(k)) /\ WF_vars(DeadlinePasses(k))
  /\ \A j \in Jobs : WF_vars(JobStarts(j)) /\ WF_vars(CellRuns(j) \/ JobEnds(j))

FairSpec == Spec /\ Fairness

-----------------------------------------------------------------------------
(* Properties *)

Done(k) == cl[k].pc = "done"
JobsOf(k) == {j \in Jobs : j[1] = k /\ job[j].status # "none"} \cup ({cl[k].job} \ {NoJob})
RunBy(c, j) == runs[c] \subseteq {j}
Once(c, cells) == \A m, n \in DOMAIN cells : cells[m] = c /\ cells[n] = c => m = n

(* The watch loop reads a job's status and then its cells, over and over.   *)
(* Of a cell that only this job runs, and runs once, it has shown every     *)
(* output whole once it has seen the job end; and if no stream's text is a  *)
(* list, what it has shown is at any moment the beginning of what the job   *)
(* printed there, none of it twice and nothing left out, and all of it in   *)
(* the end.  (A list that has grown is shown again, from its beginning.  A  *)
(* batch of ix is never watched.)                                           *)
Strings(outputs) == \A i \in DOMAIN outputs : outputs[i].name # "lines"
Within(s, t) == \E n \in 0..(Len(t) - Len(s)) : SubSeq(t, n + 1, n + Len(s)) = s

WatchShowsAll ==
  \A k \in Clients : \A c \in ToSet(cl[k].cells) \ ToSet(OldCells) :
    (cmd[k].form = "watch" /\ ~IsBatch(k) /\ InDoc(c) /\ RunBy(c, cl[k].job) /\ Once(c, cl[k].cells)) =>
      LET shown == cl[k].shown[c]
          ended == Done(k) /\ cl[k].exit # "error" /\ cl[k].status \in {"succeeded", "failed"}
      IN /\ Strings(out[c]) => IsPrefix(shown, Printed(out[c])) /\ (ended => shown = Printed(out[c]))
         /\ ended => \A i \in DOMAIN out[c] : Within(Str(out[c][i]), shown)

(* A batch ix inserts a cell only after every code cell before it ran to    *)
(* success on the server, its cells stand in the notebook in the order      *)
(* given, and its summary counts the cells inserted and names a halt if and *)
(* only if there are cells it did not insert.                               *)
BatchStopsAtHalt ==
  \A k \in Clients : IsBatch(k) =>
    /\ \A i, e \in DOMAIN cmd[k].kinds : (e < i /\ <<k, i>> \in cl[k].inserted) =>
         /\ cmd[k].kinds[e] = "code" => job[<<k, e>>].status = "succeeded"
         /\ \A m, n \in DOMAIN doc : (doc[m] = <<k, e>> /\ doc[n] = <<k, i>>) => m < n
    /\ cl[k].count > 0 =>
         /\ cl[k].count = Cardinality(cl[k].inserted)
         /\ cl[k].halt = "none" <=> cl[k].count = Len(cmd[k].kinds)
         /\ cl[k].halt = "job_failed" => job[<<k, cl[k].count>>].status = "failed"

(* A script branches on the exit code.  A command that waited and exits 0   *)
(* saw its jobs succeed, or its last one wait for input; one whose result   *)
(* is followed by exit 1 has a job that failed; and once the job is there   *)
(* an error is the deadline's, a Stop's or that of a cell deleted since.    *)
ExitTellsOutcome ==
  \A k \in Clients : Done(k) =>
    /\ (cl[k].exit = "ok" /\ cmd[k].wait /\ cl[k].status # "awaiting") =>
         \A j \in JobsOf(k) : job[j].status = "succeeded"
    /\ cl[k].exit = "failed" => job[cl[k].job].status = "failed"
    /\ (cl[k].exit = "error" /\ cl[k].job \in {OwnJob(k), cmd[k].of} \ {NoJob}) =>
         \/ cmd[k].timed /\ late[k]
         \/ job[cl[k].job].evicted
         \/ \E c \in cl[k].inserted \cup ToSet(cl[k].cells) : ~InDoc(c)

(* A result shows a code cell's outputs as current only if the command's    *)
(* own job has run the cell.  It says nothing of a job that was read to     *)
(* have failed or to await input: that one may have stopped before it got   *)
(* to the cell.  And what restart-run-all runs, it runs in a kernel that    *)
(* was started after it stopped the runtime.                                *)
ResultsAreFresh ==
  \A k \in Clients :
    /\ cl[k].status \notin {"failed", "awaiting"} =>
         \A c \in cl[k].current : IsCode(c) => \E j \in JobsOf(k) : j \in runs[c]
    /\ cmd[k].op = "restart-run-all" =>
         \A j \in JobsOf(k) : job[j].kernel # 0 => job[j].kernel > cl[k].since


=============================================================================
