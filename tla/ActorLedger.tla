---------------------------- MODULE ActorLedger ----------------------------
(***************************************************************************)
(* The in-memory ledger of jobs and cell attribution,                      *)
(* src/hypernote/actor_ledger.py.                                          *)
(*                                                                         *)
(* Every operation holds the ledger's lock and awaits nothing inside it,   *)
(* so it is atomic; an operator below gives the ledger after one.          *)
(* _job_ids_by_notebook lists the ids in creation order, which "created"   *)
(* keeps: an id that is listed is exactly one that is recorded.            *)
(***************************************************************************)
EXTENDS FiniteSets, Integers

CONSTANTS
  Notebooks,     \* notebook paths
  Jobs,          \* job ids; none is given twice
  NCells,        \* a notebook has the cells 1..NCells
  RoomIds,       \* runtime ids
  MaxCompleted,  \* max_completed_jobs_per_notebook; negative: no bound
  NoJob, NoNotebook, NoRoom

ASSUME LedgerAssumption ==
  /\ IsFiniteSet(Jobs) /\ MaxCompleted \in Int /\ NCells \in Nat \ {0}
  /\ NoJob \notin Jobs /\ NoRoom \notin RoomIds /\ NoNotebook \notin Notebooks

VARIABLES
  jobs,        \* _jobs_by_id, and which ids were not yet given
  attribution  \* _cell_attribution: the job that last executed each cell

Cells == 1..NCells

Finished == {"succeeded", "failed", "interrupted"}
Active == {"queued", "running", "awaiting_input"}
JobStatus == Active \cup Finished

JobAction == {"execute", "interrupt", "stdin_reply"}

(* uids counts the request_uids. *)
Job ==
  [nb      : Notebooks \cup {NoNotebook},
   action  : JobAction,
   status  : JobStatus \cup {"unused", "gone"},
   runtime : RoomIds \cup {NoRoom},
   uids    : Nat,
   created : Nat]

UnusedJob ==
  [nb |-> NoNotebook, action |-> "execute", status |-> "unused",
   runtime |-> NoRoom, uids |-> 0, created |-> 0]

GoneJob == [UnusedJob EXCEPT !.status = "gone"]

Unattributed == [c \in Cells |-> NoJob]

LedgerInit ==
  /\ jobs = [j \in Jobs |-> UnusedJob]
  /\ attribution = [n \in Notebooks |-> Unattributed]

Recorded(j) == jobs[j].status \in JobStatus

(* uuid4: which unused id is taken makes no difference. *)
UnusedJobs == {j \in Jobs : jobs[j].status = "unused"}
NextJob == CHOOSE j \in Jobs : j \in UnusedJobs

FinishedJobs(ledger, n) ==
  {j \in Jobs : ledger[j].nb = n /\ ledger[j].status \in Finished}

(* Variant: jobs that have not finished count, and are dropped, too. *)
PrunedAnyStatus(ledger, n) ==
  LET all == {j \in Jobs : ledger[j].nb = n /\ ledger[j].status \in JobStatus}
      stale == {j \in all :
        MaxCompleted >= 0 /\
        Cardinality({k \in all : ledger[k].created > ledger[j].created}) >= MaxCompleted}
  IN [j \in Jobs |-> IF j \in stale THEN GoneJob ELSE ledger[j]]

(* _prune_completed_jobs_locked: of the notebook's finished jobs, the last  *)
(* MaxCompleted created stay.                                               *)
Pruned(ledger, n) ==
  LET done == FinishedJobs(ledger, n)
      stale == {j \in done :
        MaxCompleted >= 0 /\
        Cardinality({k \in done : ledger[k].created > ledger[j].created}) >= MaxCompleted}
  IN [j \in Jobs |-> IF j \in stale THEN GoneJob ELSE ledger[j]]

(* create_job *)
Created(ledger, j, n, action, r) ==
  LET new == [nb |-> n, action |-> action, status |-> "queued", runtime |-> r, uids |-> 0,
              created |-> Cardinality({k \in Jobs : ledger[k].status # "unused"})]
  IN Pruned([ledger EXCEPT ![j] = new], n)

(* Variant: a finished job is not pruned when its status is written. *)
UpdatedUnpruned(ledger, j, status, r) ==
  IF ledger[j].status \notin JobStatus
  THEN ledger
  ELSE [ledger EXCEPT ![j] = [@ EXCEPT !.status = status,
                                       !.runtime = IF r = NoRoom THEN @ ELSE r]]

(* update_job_status: silent when the job is gone; without a runtime_id the *)
(* record keeps the one it has.                                             *)
Updated(ledger, j, status, r) ==
  LET new == [ledger[j] EXCEPT !.status = status,
                               !.runtime = IF r = NoRoom THEN @ ELSE r]
  IN IF ledger[j].status \notin JobStatus
     THEN ledger
     ELSE Pruned([ledger EXCEPT ![j] = new], new.nb)

(* append_request_uid, of a job that is recorded *)
WithUid(ledger, j) == [ledger EXCEPT ![j] = [@ EXCEPT !.uids = ledger[j].uids + 1]]

(* evict_notebook *)
Evicted(ledger, n) ==
  [j \in Jobs |->
     IF ledger[j].nb = n /\ ledger[j].status \in JobStatus THEN GoneJob ELSE ledger[j]]

(* update_cell_attribution with an executor *)
Attributed(n, c, j) == [attribution EXCEPT ![n] = [@ EXCEPT ![c] = j]]

=============================================================================
