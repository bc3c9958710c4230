------------------------- MODULE ActorLedger_proofs -------------------------
(* What the operations of ActorLedger do, for every ledger. *)
EXTENDS ActorLedger, FiniteSetTheorems, TLAPS

-----------------------------------------------------------------------------
(* What the ledger's operations leave of a record *)

(* A record stays, or goes once it has finished. *)
Kept(was, is) == is = was \/ (is = GoneJob /\ was.status \in Finished)

LEMMA GoneTyped == UnusedJob \in Job /\ GoneJob \in Job
BY DEF UnusedJob, GoneJob, Job, JobAction

LEMMA PrunedKeeps ==
  ASSUME NEW ledger \in [Jobs -> Job], NEW n
  PROVE  /\ Pruned(ledger, n) \in [Jobs -> Job]
         /\ \A k \in Jobs : Kept(ledger[k], Pruned(ledger, n)[k])
BY GoneTyped DEF Pruned, FinishedJobs, Kept

LEMMA CreatedKeeps ==
  ASSUME NEW ledger \in [Jobs -> Job], NEW j \in Jobs, NEW n \in Notebooks,
         NEW action \in JobAction, NEW r \in RoomIds
  PROVE  LET after == Created(ledger, j, n, action, r)
         IN /\ after \in [Jobs -> Job]
            /\ \A k \in Jobs \ {j} : Kept(ledger[k], after[k])
            /\ after[j].status = "queued" /\ after[j].nb = n
<1> DEFINE given == {k \in Jobs : ledger[k].status # "unused"}
           new == [nb |-> n, action |-> action, status |-> "queued", runtime |-> r, uids |-> 0,
                   created |-> Cardinality(given)]
           with == [ledger EXCEPT ![j] = new]
<1>1. Cardinality(given) \in Nat
  BY LedgerAssumption, FS_Subset, FS_CardinalityType
<1>2. new \in Job
  BY <1>1 DEF Job, JobStatus, Active
<1>3. with \in [Jobs -> Job] /\ with[j] = new /\ \A k \in Jobs \ {j} : with[k] = ledger[k]
  BY <1>2
<1>4. Created(ledger, j, n, action, r) = Pruned(with, n)
  BY DEF Created
<1> HIDE DEF with
<1>5. Pruned(with, n) \in [Jobs -> Job] /\ \A k \in Jobs : Kept(with[k], Pruned(with, n)[k])
  BY <1>3, PrunedKeeps
<1>6. Pruned(with, n)[j] = new
  BY <1>3, <1>5 DEF Kept, Finished
<1> QED
  BY <1>3, <1>4, <1>5, <1>6

LEMMA UpdatedKeeps ==
  ASSUME NEW ledger \in [Jobs -> Job], NEW j \in Jobs, NEW status \in JobStatus,
         NEW r \in RoomIds \cup {NoRoom}
  PROVE  LET after == Updated(ledger, j, status, r)
         IN /\ after \in [Jobs -> Job]
            /\ \A k \in Jobs \ {j} : Kept(ledger[k], after[k])
            /\ ledger[j].status \notin JobStatus => after[j] = ledger[j]
            /\ ledger[j].status \in JobStatus =>
                 \/ after[j].status = status /\ after[j].nb = ledger[j].nb
                 \/ after[j] = GoneJob /\ status \in Finished
<1> DEFINE new == [ledger[j] EXCEPT !.status = status, !.runtime = IF r = NoRoom THEN @ ELSE r]
           with == [ledger EXCEPT ![j] = new]
<1>1. CASE ledger[j].status \notin JobStatus
  BY <1>1 DEF Updated, Kept
<1>2. CASE ledger[j].status \in JobStatus
  <2>1. new \in Job /\ new.status = status /\ new.nb = ledger[j].nb
    BY DEF Job, JobStatus
  <2>2. with \in [Jobs -> Job] /\ with[j] = new /\ \A k \in Jobs \ {j} : with[k] = ledger[k]
    BY <2>1
  <2>3. Updated(ledger, j, status, r) = Pruned(with, new.nb)
    BY <1>2 DEF Updated
  <2> HIDE DEF with
  <2>4. Pruned(with, new.nb) \in [Jobs -> Job] /\ \A k \in Jobs : Kept(with[k], Pruned(with, new.nb)[k])
    BY <2>2, PrunedKeeps
  <2> QED
    BY <1>2, <2>1, <2>2, <2>3, <2>4 DEF Kept
<1> QED
  BY <1>1, <1>2

LEMMA EvictedForgets ==
  ASSUME NEW ledger \in [Jobs -> Job], NEW n
  PROVE  LET after == Evicted(ledger, n)
         IN /\ after \in [Jobs -> Job]
            /\ \A k \in Jobs : \/ after[k] = ledger[k] /\ (ledger[k].nb # n \/ ledger[k].status \notin JobStatus)
                               \/ after[k] = GoneJob
            /\ \A k \in Jobs : after[k] = GoneJob => ledger[k].status \in JobStatus \cup {"gone"}
            /\ \A k \in Jobs : after[k].status \in JobStatus => ledger[k].nb # n
BY GoneTyped DEF Evicted, GoneJob, JobStatus, Active, Finished, UnusedJob

LEMMA WithUidKeeps ==
  ASSUME NEW ledger \in [Jobs -> Job], NEW j \in Jobs
  PROVE  LET after == WithUid(ledger, j)
         IN /\ after \in [Jobs -> Job]
            /\ \A k \in Jobs \ {j} : after[k] = ledger[k]
            /\ after[j].status = ledger[j].status /\ after[j].nb = ledger[j].nb
<1>1. ledger[j] \in Job /\ ledger[j].uids + 1 \in Nat
  BY DEF Job
<1>2. [ledger[j] EXCEPT !.uids = ledger[j].uids + 1] \in Job
  BY <1>1 DEF Job
<1> QED
  BY <1>1, <1>2 DEF WithUid, Job

-----------------------------------------------------------------------------
(* The bound of the history *)

Given(ledger) == {k \in Jobs : ledger[k].status # "unused"}

(* No two records were created at one time, and none after now. *)
Clocked(ledger) ==
  \A j \in Jobs : ledger[j].status \in JobStatus =>
    /\ ledger[j].created < Cardinality(Given(ledger))
    /\ \A k \in Jobs : ledger[k].status \in JobStatus /\ ledger[k].created = ledger[j].created => k = j

Bounded(ledger) ==
  \A n \in Notebooks : MaxCompleted >= 0 => Cardinality(FinishedJobs(ledger, n)) <= MaxCompleted

(* The jobs that pruning keeps have different numbers of finished jobs      *)
(* created after them, all below MaxCompleted.                              *)
THEOREM PrunedBounded ==
  ASSUME NEW ledger \in [Jobs -> Job], Clocked(ledger), NEW n, MaxCompleted >= 0
  PROVE  Cardinality(FinishedJobs(Pruned(ledger, n), n)) <= MaxCompleted
<1> DEFINE done == FinishedJobs(ledger, n)
           newer(j) == {k \in done : ledger[k].created > ledger[j].created}
           kept == FinishedJobs(Pruned(ledger, n), n)
           rank == [j \in kept |-> Cardinality(newer(j))]
<1>1. \A j \in Jobs : newer(j) \subseteq done /\ done \subseteq Jobs
  BY DEF FinishedJobs
<1>2. IsFiniteSet(done)
  BY <1>1, LedgerAssumption, FS_Subset DEF FinishedJobs
<1>3. \A j \in Jobs : IsFiniteSet(newer(j)) /\ Cardinality(newer(j)) \in Nat
  BY <1>1, <1>2, FS_Subset, FS_CardinalityType
<1>4. MaxCompleted \in Nat
  BY LedgerAssumption
<1>5. \A j \in kept : j \in done /\ j \in Jobs /\ Cardinality(newer(j)) < MaxCompleted
  <2> SUFFICES ASSUME NEW j \in kept
               PROVE  j \in done /\ j \in Jobs /\ Cardinality(newer(j)) < MaxCompleted
    OBVIOUS
  <2>1. j \in Jobs /\ Pruned(ledger, n)[j].nb = n /\ Pruned(ledger, n)[j].status \in Finished
    BY DEF FinishedJobs
  <2>2. ~(j \in done /\ Cardinality(newer(j)) >= MaxCompleted) /\ Pruned(ledger, n)[j] = ledger[j]
    BY <2>1, <1>4 DEF Pruned, GoneJob, UnusedJob, Finished
  <2> HIDE DEF newer
  <2> QED
    BY <1>3, <1>4, <2>1, <2>2 DEF FinishedJobs
<1>6. \A a, b \in kept : rank[a] = rank[b] => a = b
  <2>1. ASSUME NEW a \in kept, NEW b \in kept, ledger[a].created > ledger[b].created
        PROVE  Cardinality(newer(a)) # Cardinality(newer(b))
    <3>1. \A k \in Jobs : ledger[k].created \in Nat
      BY DEF Job
    <3>2. newer(a) \subseteq newer(b) /\ a \in newer(b) /\ a \notin newer(a)
      <4>1. a \in done /\ a \in Jobs /\ b \in Jobs /\ done \subseteq Jobs
        BY <1>1, <1>5
      <4> HIDE DEF done
      <4> QED
        BY <2>1, <3>1, <4>1
    <3> HIDE DEF newer
    <3> QED
      BY <1>3, <1>5, <3>2, FS_Subset
  <2>2. \A a, b \in kept : ledger[a].created = ledger[b].created => a = b
    BY <1>5 DEF Clocked, FinishedJobs, JobStatus
  <2>3. \A a \in kept : ledger[a].created \in Nat
    BY <1>5 DEF Job
  <2> HIDE DEF newer, kept
  <2> QED
    BY <2>1, <2>2, <2>3
<1>7. rank \in Injection(kept, 0..(MaxCompleted - 1))
  <2>1. rank \in [kept -> 0..(MaxCompleted - 1)]
    <3> HIDE DEF newer, kept
    <3> QED
      BY <1>3, <1>4, <1>5
  <2> HIDE DEF rank, kept
  <2> QED
    BY <1>6, <2>1 DEF Injection, IsInjective
<1>8. IsFiniteSet(0..(MaxCompleted - 1)) /\ Cardinality(0..(MaxCompleted - 1)) = MaxCompleted
  BY <1>4, FS_Interval
<1> QED
  <2> HIDE DEF rank, kept
  <2>1. Cardinality(kept) <= MaxCompleted
    BY <1>7, <1>8, FS_Injection
  <2> QED
    BY <2>1 DEF kept

LEMMA ClockedOnward ==
  ASSUME NEW ledger \in [Jobs -> Job], NEW after \in [Jobs -> Job], Clocked(ledger),
         \A k \in Jobs : /\ after[k].status = "unused" <=> ledger[k].status = "unused"
                         /\ after[k].status \in JobStatus =>
                              ledger[k].status \in JobStatus /\ after[k].created = ledger[k].created
  PROVE  Clocked(after)
<1>1. Given(after) = Given(ledger)
  BY DEF Given
<1> QED
  BY <1>1 DEF Clocked

LEMMA BoundedOnward ==
  ASSUME NEW ledger, NEW after, Bounded(ledger),
         \A n \in Notebooks : FinishedJobs(after, n) \subseteq FinishedJobs(ledger, n)
  PROVE  Bounded(after)
<1> SUFFICES ASSUME NEW n \in Notebooks, MaxCompleted >= 0
             PROVE  Cardinality(FinishedJobs(after, n)) <= MaxCompleted
  BY DEF Bounded
<1>1. FinishedJobs(ledger, n) \subseteq Jobs
  BY DEF FinishedJobs
<1>2. IsFiniteSet(FinishedJobs(ledger, n)) /\ IsFiniteSet(FinishedJobs(after, n))
      /\ Cardinality(FinishedJobs(after, n)) <= Cardinality(FinishedJobs(ledger, n))
  BY <1>1, LedgerAssumption, FS_Subset
<1>3. Cardinality(FinishedJobs(ledger, n)) <= MaxCompleted
  BY DEF Bounded
<1> QED
  BY <1>2, <1>3, FS_CardinalityType, LedgerAssumption

LEMMA KeptOnly ==
  ASSUME NEW ledger \in [Jobs -> Job], NEW after \in [Jobs -> Job],
         \A k \in Jobs : Kept(ledger[k], after[k])
  PROVE  /\ Clocked(ledger) => Clocked(after)
         /\ \A n : FinishedJobs(after, n) \subseteq FinishedJobs(ledger, n)
<1>1. \A k \in Jobs : /\ after[k].status = "unused" <=> ledger[k].status = "unused"
                      /\ after[k].status \in JobStatus => after[k] = ledger[k]
  BY DEF Kept, GoneJob, UnusedJob, JobStatus, Active, Finished
<1>2. \A n : FinishedJobs(after, n) \subseteq FinishedJobs(ledger, n)
  BY <1>1 DEF FinishedJobs, JobStatus
<1> QED
  BY <1>1, <1>2, ClockedOnward

(* The history's invariant, of every operation *)
LEMMA CreatedHistory ==
  ASSUME NEW ledger \in [Jobs -> Job], Clocked(ledger), Bounded(ledger),
         NEW j \in Jobs, ledger[j].status = "unused", NEW n \in Notebooks,
         NEW action \in JobAction, NEW r \in RoomIds
  PROVE  Clocked(Created(ledger, j, n, action, r)) /\ Bounded(Created(ledger, j, n, action, r))
<1> DEFINE new == [nb |-> n, action |-> action, status |-> "queued", runtime |-> r, uids |-> 0,
                   created |-> Cardinality(Given(ledger))]
           with == [ledger EXCEPT ![j] = new]
<1>1. IsFiniteSet(Given(ledger)) /\ Cardinality(Given(ledger)) \in Nat /\ Given(ledger) \subseteq Jobs
  BY LedgerAssumption, FS_Subset, FS_CardinalityType DEF Given
<1>2. new \in Job /\ new.status = "queued" /\ new.created = Cardinality(Given(ledger))
  BY <1>1 DEF Job, JobStatus, Active
<1>3. Created(ledger, j, n, action, r) = Pruned(with, n)
  BY DEF Created, Given
<1> HIDE DEF new
<1>4. with \in [Jobs -> Job] /\ with[j] = new /\ \A k \in Jobs \ {j} : with[k] = ledger[k]
  BY <1>2
<1> HIDE DEF with
<1>5. Cardinality(Given(with)) = Cardinality(Given(ledger)) + 1
  <2>1. Given(with) = Given(ledger) \cup {j} /\ j \notin Given(ledger)
    BY <1>2, <1>4 DEF Given
  <2> QED
    BY <1>1, <2>1, FS_AddElement
<1>6. Clocked(with)
  <2>1. \A k \in Jobs : ledger[k].created \in Nat
    BY DEF Job
  <2>2. \A k \in Jobs \ {j} : with[k].status \in JobStatus =>
          with[k].created < Cardinality(Given(ledger)) /\ with[k].created \in Nat
    BY <1>4, <2>1 DEF Clocked
  <2> QED
    BY <1>1, <1>2, <1>4, <1>5, <2>2 DEF Clocked
<1>7. \A m \in Notebooks : FinishedJobs(with, m) \subseteq FinishedJobs(ledger, m)
  BY <1>2, <1>4 DEF FinishedJobs, Finished
<1>8. Pruned(with, n) \in [Jobs -> Job] /\ \A k \in Jobs : Kept(with[k], Pruned(with, n)[k])
  BY <1>4, PrunedKeeps
<1>9. Clocked(Pruned(with, n)) /\ \A m : FinishedJobs(Pruned(with, n), m) \subseteq FinishedJobs(with, m)
  BY <1>4, <1>6, <1>8, KeptOnly
<1>10. Bounded(Pruned(with, n))
  BY <1>7, <1>9, BoundedOnward
<1> QED
  BY <1>3, <1>9, <1>10

LEMMA UpdatedHistory ==
  ASSUME NEW ledger \in [Jobs -> Job], Clocked(ledger), Bounded(ledger),
         NEW j \in Jobs, NEW status \in JobStatus, NEW r \in RoomIds \cup {NoRoom}
  PROVE  Clocked(Updated(ledger, j, status, r)) /\ Bounded(Updated(ledger, j, status, r))
<1> DEFINE new == [ledger[j] EXCEPT !.status = status, !.runtime = IF r = NoRoom THEN @ ELSE r]
           with == [ledger EXCEPT ![j] = new]
<1>1. CASE ledger[j].status \notin JobStatus
  BY <1>1 DEF Updated
<1>2. CASE ledger[j].status \in JobStatus
  <2>1. new \in Job /\ new.status = status /\ new.nb = ledger[j].nb /\ new.created = ledger[j].created
    BY DEF Job, JobStatus
  <2>2. Updated(ledger, j, status, r) = Pruned(with, new.nb)
    BY <1>2 DEF Updated
  <2>3. with \in [Jobs -> Job] /\ with[j] = new /\ \A k \in Jobs \ {j} : with[k] = ledger[k]
    BY <2>1
  <2> HIDE DEF new, with
  <2>4. Clocked(with)
    <3>1. \A k \in Jobs : /\ with[k].status = "unused" <=> ledger[k].status = "unused"
                          /\ with[k].status \in JobStatus =>
                               ledger[k].status \in JobStatus /\ with[k].created = ledger[k].created
      BY <1>2, <2>1, <2>3 DEF JobStatus, Active, Finished
    <3> QED
      BY <2>3, <3>1, ClockedOnward
  <2>5. Pruned(with, new.nb) \in [Jobs -> Job] /\ \A k \in Jobs : Kept(with[k], Pruned(with, new.nb)[k])
    BY <2>3, PrunedKeeps
  <2>6. /\ Clocked(Pruned(with, new.nb))
        /\ \A m : FinishedJobs(Pruned(with, new.nb), m) \subseteq FinishedJobs(with, m)
    BY <2>3, <2>4, <2>5, KeptOnly
  <2>7. Bounded(Pruned(with, new.nb))
    <3> SUFFICES ASSUME NEW m \in Notebooks, MaxCompleted >= 0
                 PROVE  Cardinality(FinishedJobs(Pruned(with, new.nb), m)) <= MaxCompleted
      BY DEF Bounded
    <3>1. CASE m = new.nb
      BY <2>3, <2>4, <3>1, PrunedBounded
    <3>2. CASE m # new.nb
      <4>1. FinishedJobs(with, m) \subseteq FinishedJobs(ledger, m) /\ FinishedJobs(ledger, m) \subseteq Jobs
        BY <2>1, <2>3, <3>2 DEF FinishedJobs
      <4>2. FinishedJobs(Pruned(with, new.nb), m) \subseteq FinishedJobs(ledger, m)
        BY <2>6, <4>1
      <4>3. IsFiniteSet(FinishedJobs(ledger, m)) /\ IsFiniteSet(FinishedJobs(Pruned(with, new.nb), m))
            /\ Cardinality(FinishedJobs(Pruned(with, new.nb), m)) <= Cardinality(FinishedJobs(ledger, m))
        BY <4>1, <4>2, LedgerAssumption, FS_Subset
      <4>4. Cardinality(FinishedJobs(ledger, m)) <= MaxCompleted
        BY DEF Bounded
      <4> QED
        BY <4>3, <4>4, FS_CardinalityType, LedgerAssumption
    <3> QED
      BY <3>1, <3>2
  <2> QED
    BY <2>2, <2>6, <2>7
<1> QED
  BY <1>1, <1>2

LEMMA EvictedHistory ==
  ASSUME NEW ledger \in [Jobs -> Job], Clocked(ledger), Bounded(ledger), NEW n
  PROVE  Clocked(Evicted(ledger, n)) /\ Bounded(Evicted(ledger, n))
<1> DEFINE after == Evicted(ledger, n)
<1>1. /\ after \in [Jobs -> Job]
      /\ \A k \in Jobs : after[k] = ledger[k] \/ after[k] = GoneJob
      /\ \A k \in Jobs : after[k] = GoneJob => ledger[k].status \in JobStatus \cup {"gone"}
  BY EvictedForgets
<1> HIDE DEF after
<1>2. \A k \in Jobs : /\ after[k].status = "unused" <=> ledger[k].status = "unused"
                      /\ after[k].status \in JobStatus => after[k] = ledger[k]
  BY <1>1 DEF GoneJob, UnusedJob, JobStatus, Active, Finished
<1>3. Clocked(after)
  BY <1>1, <1>2, ClockedOnward
<1>4. \A m \in Notebooks : FinishedJobs(after, m) \subseteq FinishedJobs(ledger, m)
  BY <1>2 DEF FinishedJobs, JobStatus
<1>5. Bounded(after)
  BY <1>4, BoundedOnward
<1> QED
  BY <1>3, <1>5 DEF after

LEMMA WithUidHistory ==
  ASSUME NEW ledger \in [Jobs -> Job], Clocked(ledger), Bounded(ledger), NEW j \in Jobs
  PROVE  Clocked(WithUid(ledger, j)) /\ Bounded(WithUid(ledger, j))
<1> DEFINE after == WithUid(ledger, j)
<1>1. after \in [Jobs -> Job]
  BY WithUidKeeps
<1>2. \A k \in Jobs : /\ after[k].status = ledger[k].status /\ after[k].nb = ledger[k].nb
                      /\ after[k].created = ledger[k].created
  BY DEF WithUid, Job
<1> HIDE DEF after
<1>3. Clocked(after)
  BY <1>1, <1>2, ClockedOnward
<1>4. \A m \in Notebooks : FinishedJobs(after, m) \subseteq FinishedJobs(ledger, m)
  BY <1>2 DEF FinishedJobs
<1>5. Bounded(after)
  BY <1>4, BoundedOnward
<1> QED
  BY <1>3, <1>5 DEF after

=============================================================================
