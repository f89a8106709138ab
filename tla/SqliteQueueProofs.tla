-------------------------- MODULE SqliteQueueProofs --------------------------
(***************************************************************************)
(* What TLAPS proves about SqliteQueue, for any number of pump loops,      *)
(* messages, sends, faults, delays and limits.                             *)
(***************************************************************************)
EXTENDS SqliteQueue, TLAPS

-----------------------------------------------------------------------------
(* The types of the operators the actions are built from                   *)

\* Every job has a numeric priority.
LEMMA PriorityType == \A m : jobPriority(m) \in Nat
  BY DEF jobPriority, githubWebhookPriority, agentRegatePriority

\* The larger of two numbers is one of them.
LEMMA Max2Type ==
  /\ \A a, b \in Nat : Max2(a, b) \in Nat
  /\ \A a, b \in Int : Max2(a, b) \in Int
  /\ \A a \in Int : Max2(a, 0) \in Nat /\ Max2(0, a) \in Nat
  BY DEF Max2

\* The empty row and the empty job have the types of rows and jobs.
LEMMA EmptyType == NoRow \in Row /\ NoJob \in Job
  <1>1. NoMsg \in Msg
    BY DEF NoMsg, Msg, JobTypes
  <1>2. NoRow \in Row
    BY <1>1 DEF NoRow, Row
  <1>3. NoJob \in Job
    BY <1>1 DEF NoJob, Job
  <1> QED
    BY <1>2, <1>3

\* A payload is charged to an installation there is, or to none.
LEMMA InstallationType ==
  \A m \in Msg : installationConcurrencyKeyForJob(m) \in Installations \cup {"none"}
  BY DEF Msg, installationConcurrencyKeyForJob, githubRateLimitAdmissionKeyForJob

\* Merging two incremental indexes gives a payload.
LEMMA MergedType == \A old, m \in Msg : MergedPayload(old, m) \in Msg
  BY DEF Msg, MergedPayload

\* A coalescing UPDATE leaves a row.
LEMMA CoalesceType ==
  ASSUME NEW row \in Row, NEW m \in Msg, NEW n \in Ids, NEW delay \in Nat,
         NEW gone \in SUBSET Ids
  PROVE  Coalesce(row, m, n, delay, gone) \in Row
  <1> DEFINE new == Coalesce(row, m, n, delay, gone)
  <1>1. n \in Nat
    BY QueueAssumption DEF Ids
  <1>2. /\ Max2(row.run_after, delay) \in Int
        /\ Max2(row.priority, jobPriority(m)) \in Nat
        /\ Max2(row.notBefore, delay) \in Nat
    <2>1. row.run_after \in Int /\ row.priority \in Nat /\ row.notBefore \in Nat
      BY DEF Row
    <2>2. jobPriority(m) \in Nat
      BY PriorityType
    <2> QED
      BY <2>1, <2>2 DEF Max2
  <1>3. row.covers \cup {n} \cup gone \in SUBSET Ids
    BY DEF Row
  <1> QED
    BY <1>1, <1>2, <1>3 DEF Coalesce, Row

\* An INSERT makes a row.
LEMMA NewRowType ==
  ASSUME NEW m \in Msg, NEW n \in Ids, NEW delay \in Nat
  PROVE  NewRow(m, n, delay) \in Row
  <1>1. n \in Nat /\ {n} \in SUBSET Ids /\ delay \in Int /\ jobPriority(m) \in Nat
    BY PriorityType DEF Ids
  <1> QED
    BY <1>1 DEF NewRow, Row

\* Time leaves a row a row.
LEMMA AgedType == ASSUME NEW row \in Row PROVE Aged(row) \in Row
  <1>1. /\ Min2(row.age + 1, MaxAge) \in Nat
        /\ Max2(row.notBefore - 1, 0) \in Nat
        /\ Max2(row.run_after - 1, 0) \in Int
        /\ Max2(row.run_after - 1, -ProcessingTimeout) \in Int
    BY QueueAssumption DEF Row, Max2, Min2
  <1> QED
    BY <1>1 DEF Aged, Row

-----------------------------------------------------------------------------
(* Type correctness                                                        *)

\* Messages and delays have the types a row needs.
LEMMA InputType == /\ \A m \in Messages : m \in Msg
                   /\ \A d \in EnqueueDelays \cup RetryDelays \cup Jitters : d \in Nat
  BY QueueAssumption

\* A step that gives no row to an id without one keeps the rows of the table in order.
LEMMA TableUpdate ==
  ASSUME TypeOK, sends' = sends, jobs' \in [Ids -> Row],
         \A i \in Ids : jobs[i] = NoRow => jobs'[i] = jobs[i]
  PROVE  TableOK'
  BY DEF TypeOK, TableOK

\* An existing row is one of an id that was given.
LEMMA RowExists ==
  ASSUME TypeOK, NEW i \in Ids, jobs[i].status # "none"
  PROVE  i \in 1 .. sends /\ jobs[i] \in Row
  BY QueueAssumption DEF TypeOK, TableOK, WorldOK, NoRow, Ids

\* Whatever branch it takes, enqueue leaves a well-formed table.
LEMMA EnqueueType ==
  ASSUME TypeOK, NEW m \in Messages, NEW delay \in EnqueueDelays, Enqueue(m, delay)
  PROVE  TypeOK'
  <1> DEFINE n == sends + 1
  <1>1. m \in Msg /\ delay \in Nat
    BY InputType
  <1>2. PICK over : AcceptSend(m, over)
    BY Zenon DEF Enqueue, EnqueueAbsorbed, EnqueueMerged, EnqueueSuperseding,
       EnqueueCoalesced, EnqueueInserted
  <1>3. sends' = n /\ n \in Ids /\ n \in Nat /\ sends \in Nat
    <2>1. Accepting
      BY Zenon DEF Enqueue, EnqueueAbsorbed, EnqueueMerged, EnqueueSuperseding,
         EnqueueCoalesced, EnqueueInserted
    <2>2. sends \in 0 .. MaxSends
      BY DEF TypeOK, WorldOK
    <2> QED
      BY <1>2, <2>1, <2>2, QueueAssumption DEF AcceptSend, Accepting, Ids
  <1>5. LoopsOK'
    BY <1>2, <1>3 DEF AcceptSend, TypeOK, LoopsOK
  <1>6. WorldOK'
    <2>1. queuedEvents' \subseteq 1 .. sends' /\ settled' \subseteq 1 .. sends'
      <3>1. 1 .. sends \subseteq 1 .. n /\ n \in 1 .. n
        BY <1>3
      <3>2. queuedEvents \subseteq 1 .. sends /\ settled \subseteq 1 .. sends
        BY DEF TypeOK, WorldOK
      <3>3. settled' = settled /\ queuedEvents' \subseteq queuedEvents \cup {n}
        BY <1>2 DEF AcceptSend
      <3> QED
        BY <3>1, <3>2, <3>3, <1>3
    <2> QED
      BY <2>1, <1>2, <1>3 DEF AcceptSend, TypeOK, WorldOK, Ids
  <1>4. jobs' \in [Ids -> Row] /\ \A i \in Ids : i > n => jobs'[i] = NoRow
    <2>1. CASE EnqueueAbsorbed(m)
      <3>1. PICK i \in AbsorbingRows(m) : jobs' = [jobs EXCEPT ![i] = [jobs[i] EXCEPT !.covers = @ \cup {n}]]
        BY <2>1 DEF EnqueueAbsorbed
      <3>2. i \in Ids /\ i \in 1 .. sends /\ jobs[i] \in Row
        BY <3>1, RowExists DEF AbsorbingRows, Pending
      <3>3. [jobs[i] EXCEPT !.covers = @ \cup {n}] \in Row
        BY <3>2, <1>3 DEF Row
      <3>4. PICK row \in Row : jobs' = [jobs EXCEPT ![i] = row]
        BY <3>1, <3>3, Zenon
      <3> QED
        BY <3>2, <3>4, <1>3 DEF TypeOK, TableOK
    <2>2. CASE EnqueueMerged(m, delay)
      <3>1. PICK i \in MergeRows(m) : jobs' = [jobs EXCEPT ![i] =
              [Coalesce(jobs[i], MergedPayload(jobs[i].msg, m), n, delay, {}) EXCEPT !.age = 0]]
        BY <2>2 DEF EnqueueMerged
      <3>2. i \in Ids /\ i \in 1 .. sends /\ jobs[i] \in Row
        BY <3>1, RowExists DEF MergeRows, Preferred, Pending
      <3>3. MergedPayload(jobs[i].msg, m) \in Msg
        BY <3>2, <1>1, MergedType DEF Row
      <3>4. Coalesce(jobs[i], MergedPayload(jobs[i].msg, m), n, delay, {}) \in Row
        BY <3>2, <3>3, <1>1, <1>3, CoalesceType
      <3>5. [Coalesce(jobs[i], MergedPayload(jobs[i].msg, m), n, delay, {}) EXCEPT !.age = 0] \in Row
        BY <3>4 DEF Row
      <3>6. PICK row \in Row : jobs' = [jobs EXCEPT ![i] = row]
        BY <3>1, <3>5, Zenon
      <3> QED
        BY <3>2, <3>6, <1>3 DEF TypeOK, TableOK
    <2>3. CASE EnqueueSuperseding(m, delay)
      <3>1. PICK i \in Preferred(jobs, SupersededRows(m)) :
              LET gone == SupersededRows(m) \ {i} IN
              jobs' = [j \in Ids |->
                         IF j = i THEN Coalesce(jobs[i], m, n, delay,
                                                UNION {jobs[k].covers : k \in gone})
                         ELSE IF j \in gone THEN NoRow ELSE jobs[j]]
        BY <2>3 DEF EnqueueSuperseding
      <3>2. i \in Ids /\ i \in 1 .. sends /\ jobs[i] \in Row
        BY <3>1, RowExists DEF SupersededRows, Preferred, Pending
      <3> DEFINE taken == UNION {jobs[k].covers : k \in SupersededRows(m) \ {i}}
      <3>3. taken \in SUBSET Ids
        BY DEF TypeOK, TableOK, SupersededRows, Pending, Row
      <3>4. Coalesce(jobs[i], m, n, delay, taken) \in Row
        BY <3>2, <3>3, <1>1, <1>3, CoalesceType
      <3> QED
        BY <3>1, <3>2, <3>4, <1>3, EmptyType DEF TypeOK, TableOK
    <2>4. CASE EnqueueCoalesced(m, delay)
      <3>1. PICK i \in Preferred(jobs, SameKeyRows(m)) :
              jobs' = [jobs EXCEPT ![i] = Coalesce(@, m, n, delay, {})]
        BY <2>4 DEF EnqueueCoalesced
      <3>2. i \in Ids /\ i \in 1 .. sends /\ jobs[i] \in Row
        BY <3>1, RowExists DEF SameKeyRows, Preferred, Pending
      <3>3. Coalesce(jobs[i], m, n, delay, {}) \in Row
        BY <3>2, <1>1, <1>3, CoalesceType
      <3> QED
        BY <3>1, <3>2, <3>3, <1>3 DEF TypeOK, TableOK
    <2>5. CASE EnqueueInserted(m, delay)
      <3>1. jobs' = [jobs EXCEPT ![n] = NewRow(m, n, delay)]
        BY <2>5 DEF EnqueueInserted
      <3>2. NewRow(m, n, delay) \in Row
        BY <1>1, <1>3, NewRowType
      <3>3. jobs' \in [Ids -> Row]
        BY <3>1, <3>2, <1>3 DEF TypeOK, TableOK
      <3>4. \A i \in Ids : i # n => jobs'[i] = jobs[i]
        BY <3>1 DEF TypeOK, TableOK
      <3>5. \A i \in Ids : i > n => i # n /\ i > sends
        BY <1>3 DEF Ids
      <3> QED
        BY <3>3, <3>4, <3>5 DEF TypeOK, TableOK
    <2> QED
      BY <2>1, <2>2, <2>3, <2>4, <2>5 DEF Enqueue
  <1> QED
    BY <1>3, <1>4, <1>5, <1>6 DEF TypeOK, TableOK

-----------------------------------------------------------------------------
(* Rescheduling: what the sweeps, the recoveries and time do to the table  *)

Ceiling == MaxRetries + ExtraAttempts

\* Two rows stand for the same sends, with the same payload and attempts.
SameContent(old, new) == /\ new.msg = old.msg /\ new.ver = old.ver
                         /\ new.covers = old.covers /\ new.attempts = old.attempts

\* A row is rescheduled: it may become pending, a dead one only below the ceiling.
RowRescheduled(old, new) ==
  /\ new \in Row /\ SameContent(old, new)
  /\ new.status \in {old.status, "pending"}
  /\ old.status = "none" => new = old
  /\ (old.status = "dead" /\ new.status # "dead") => old.attempts < Ceiling

Rescheduled(J, K) ==
  /\ K \in [Ids -> Row]
  /\ \A i \in Ids : RowRescheduled(J[i], K[i])

\* A row is a rescheduling of itself.
LEMMA SameRow == \A row \in Row : RowRescheduled(row, row)
  BY DEF RowRescheduled, SameContent

\* An UPDATE that makes a row claimable leaves a row with the same content.
LEMMA RependType ==
  ASSUME NEW row \in Row, NEW d \in Int
  PROVE  /\ Repend(row, d) \in Row /\ SameContent(row, Repend(row, d))
         /\ Repend(row, d).status = "pending"
  BY DEF Repend, Row, SameContent

\* Making an existing row claimable, as it was or tagged, reschedules it.
LEMMA RependReschedules ==
  ASSUME NEW row \in Row, NEW d \in Int, row.status # "none",
         row.status = "dead" => row.attempts < Ceiling
  PROVE  RowRescheduled(row, Repend(row, d)) /\ Repend(row, d).status = "pending"
  BY RependType DEF RowRescheduled

LEMMA DeferReschedules ==
  ASSUME NEW row \in Row, NEW d \in Int, NEW tag \in Gates \cup {"none", "lock_contended"},
         row.status \in {"pending", "processing"}
  PROVE  RowRescheduled(row, Defer(row, d, tag)) /\ Defer(row, d, tag).status = "pending"
  <1>1. Defer(row, d, tag) \in Row
    BY DEF Defer, Row
  <1>2. SameContent(row, Defer(row, d, tag)) /\ Defer(row, d, tag).status = "pending"
    BY DEF Defer, Row, SameContent
  <1> QED
    BY <1>1, <1>2 DEF RowRescheduled

\* coalesce(deferred_by, tag) is a tag.
LEMMA TaggedType ==
  ASSUME NEW row \in Row, NEW tag \in Gates \cup {"none", "lock_contended"}
  PROVE  Tagged(row, tag) \in Gates \cup {"none", "lock_contended"}
  BY DEF Tagged, Row

\* Time reschedules a row without changing its status.
LEMMA AgedReschedules ==
  ASSUME NEW row \in Row
  PROVE  RowRescheduled(row, Aged(row)) /\ Aged(row).status = row.status
  <1>1. Aged(row) \in Row
    BY AgedType
  <1>2. SameContent(row, Aged(row)) /\ Aged(row).status = row.status
    BY DEF Aged, Row, SameContent
  <1> QED
    BY <1>1, <1>2 DEF RowRescheduled, Aged

\* A table of rescheduled rows is a rescheduled table.
LEMMA RescheduledTable ==
  ASSUME NEW J \in [Ids -> Row], NEW K, K = [i \in Ids |-> K[i]],
         \A i \in Ids : RowRescheduled(J[i], K[i])
  PROVE  Rescheduled(J, K)
  BY DEF Rescheduled, RowRescheduled

\* Rescheduling twice is rescheduling.
LEMMA RescheduledTwice ==
  ASSUME NEW J \in [Ids -> Row], NEW K, NEW L, Rescheduled(J, K), Rescheduled(K, L)
  PROVE  Rescheduled(J, L)
  <1>1. L \in [Ids -> Row]
    BY DEF Rescheduled
  <1>2. ASSUME NEW i \in Ids PROVE RowRescheduled(J[i], L[i])
    <2>1. RowRescheduled(J[i], K[i]) /\ RowRescheduled(K[i], L[i])
      BY DEF Rescheduled
    <2> QED
      BY <2>1 DEF RowRescheduled, SameContent
  <1> QED
    BY <1>1, <1>2 DEF Rescheduled

\* The lease reclaim reschedules processing rows that no pump loop is running, and no other row.
LEMMA ReclaimReschedules ==
  ASSUME TypeOK, NEW jitter \in [Expired(jobs) -> Jitters]
  PROVE  LET J == reclaimExpiredProcessingJobs(jobs, jitter) IN
         /\ Rescheduled(jobs, J)
         /\ \A i \in Ids : i \in ActiveIds => J[i] = jobs[i]
  <1> DEFINE J == reclaimExpiredProcessingJobs(jobs, jitter)
  <1>1. J = [i \in Ids |-> J[i]]
    BY DEF reclaimExpiredProcessingJobs
  <1>2. ASSUME NEW i \in Ids
        PROVE  RowRescheduled(jobs[i], J[i]) /\ (i \in ActiveIds => J[i] = jobs[i])
    <2>1. jobs[i] \in Row
      BY DEF TypeOK, TableOK
    <2>2. CASE i \in Expired(jobs)
      <3>1. jitter[i] \in Int /\ jobs[i].status = "processing" /\ i \notin ActiveIds
        BY <2>2, InputType DEF Expired
      <3>2. J[i] = Repend(jobs[i], jitter[i])
        BY <2>2 DEF reclaimExpiredProcessingJobs
      <3> QED
        BY <2>1, <3>1, <3>2, RependReschedules
    <2>3. CASE i \notin Expired(jobs)
      <3>1. J[i] = jobs[i]
        BY <2>3 DEF reclaimExpiredProcessingJobs
      <3> QED
        BY <2>1, <3>1, SameRow
    <2> QED
      BY <2>2, <2>3
  <1>3. jobs \in [Ids -> Row]
    BY DEF TypeOK, TableOK
  <1> QED
    BY <1>1, <1>2, <1>3, RescheduledTable

\* The foreground-liveness sweep reschedules pending rows only.
LEMMA SweepReschedules ==
  ASSUME NEW J \in [Ids -> Row]
  PROVE  LET K == releaseStaleForegroundDeferrals(J) IN
         /\ Rescheduled(J, K)
         /\ \A i \in Ids : K[i].status = J[i].status
  <1> DEFINE K == releaseStaleForegroundDeferrals(J)
  <1>1. K = [i \in Ids |-> K[i]]
    BY DEF releaseStaleForegroundDeferrals
  <1>2. ASSUME NEW i \in Ids
        PROVE  RowRescheduled(J[i], K[i]) /\ K[i].status = J[i].status
    <2>1. \/ K[i] = J[i]
          \/ i \in Deferrals(J) /\ K[i] = Defer(J[i], 0, "none")
      BY Zenon DEF releaseStaleForegroundDeferrals, selectForegroundDeferralsToRelease, Oldest, Newest
    <2>2. i \in Deferrals(J) => J[i].status = "pending"
      BY DEF Deferrals, Pending
    <2> QED
      BY <2>1, <2>2, SameRow, DeferReschedules
  <1> QED
    BY <1>1, <1>2, RescheduledTable

\* Boot's recovery and its spreading of due rows reschedule.
LEMMA RecoveryReschedules ==
  ASSUME NEW J \in [Ids -> Row], NEW live,
         \A i \in Ids : J[i].status \in {"pending", "processing"} => i \in live,
         NEW jitter \in [live -> Jitters]
  PROVE  LET K == recoverProcessingJobs(J, jitter) IN
         /\ Rescheduled(J, K)
         /\ \A i \in Ids : K[i].status \in {"pending", "processing"} => i \in live
         /\ \A i \in Ids : K[i].status # "processing"
  <1> DEFINE K == recoverProcessingJobs(J, jitter)
  <1>1. K = [i \in Ids |-> K[i]]
    BY DEF recoverProcessingJobs
  <1>2. ASSUME NEW i \in Ids
        PROVE  /\ RowRescheduled(J[i], K[i])
               /\ K[i].status \in {"pending", "processing"} => i \in live
               /\ K[i].status # "processing"
    <2>1. CASE J[i].status = "processing"
      <3>1. K[i] = Repend(J[i], jitter[i]) /\ jitter[i] \in Int /\ i \in live
        BY <2>1, InputType DEF recoverProcessingJobs
      <3> QED
        BY <2>1, <3>1, RependReschedules
    <2>2. CASE J[i].status # "processing"
      <3>1. K[i] = J[i]
        BY <2>2 DEF recoverProcessingJobs
      <3> QED
        BY <2>2, <3>1, SameRow
    <2> QED
      BY <2>1, <2>2
  <1> QED
    BY <1>1, <1>2, RescheduledTable

LEMMA SpreadReschedules ==
  ASSUME NEW J \in [Ids -> Row], NEW live,
         \A i \in Ids : J[i].status \in {"pending", "processing"} => i \in live,
         NEW jitter \in [live -> Jitters]
  PROVE  LET K == spreadDueJobsOnStartup(J, jitter) IN
         /\ Rescheduled(J, K)
         /\ \A i \in Ids : K[i].status = J[i].status
  <1> DEFINE K == spreadDueJobsOnStartup(J, jitter)
  <1>1. K = [i \in Ids |-> K[i]]
    BY DEF spreadDueJobsOnStartup
  <1>2. ASSUME NEW i \in Ids
        PROVE  RowRescheduled(J[i], K[i]) /\ K[i].status = J[i].status
    <2>1. \/ K[i] = J[i]
          \/ i \in Due(J) /\ K[i] = Repend(J[i], jitter[i])
      BY Zenon DEF spreadDueJobsOnStartup
    <2>2. i \in Due(J) => J[i].status = "pending"
      BY DEF Due, Pending
    <2>3. i \in live => jitter[i] \in Int
      BY InputType
    <2> QED
      BY <2>1, <2>2, <2>3, SameRow, RependReschedules
  <1> QED
    BY <1>1, <1>2, RescheduledTable

\* The budget sweep after a rate-limited consume reschedules pending rows only.
LEMMA BudgetSweepReschedules ==
  ASSUME TypeOK, NEW m, NEW delay \in RetryDelays,
         NEW jitter \in [SweptByRateLimit(m, delay) -> Jitters]
  PROVE  LET K == deferPendingJobsForRateLimit(m, delay, jitter) IN
         /\ Rescheduled(jobs, K)
         /\ \A i \in Ids : K[i].status = jobs[i].status
  <1> DEFINE K == deferPendingJobsForRateLimit(m, delay, jitter)
  <1>1. K = [i \in Ids |-> K[i]]
    BY DEF deferPendingJobsForRateLimit
  <1>2. ASSUME NEW i \in Ids
        PROVE  RowRescheduled(jobs[i], K[i]) /\ K[i].status = jobs[i].status
    <2>1. jobs[i] \in Row
      BY DEF TypeOK, TableOK
    <2>2. CASE i \in SweptByRateLimit(m, delay)
      <3> DEFINE d == Max2(jobs[i].run_after, delay + jitter[i])
      <3>1. jobs[i].status = "pending" /\ jitter[i] \in Nat /\ delay \in Nat
        BY <2>2, InputType DEF SweptByRateLimit, Pending
      <3>2. d \in Int
        BY <2>1, <3>1 DEF Row, Max2
      <3>3. Tagged(jobs[i], "rate_limit") \in Gates \cup {"none", "lock_contended"}
        BY <2>1, TaggedType DEF Gates
      <3>4. K[i] = Defer(jobs[i], d, Tagged(jobs[i], "rate_limit"))
        BY <2>2 DEF deferPendingJobsForRateLimit
      <3> HIDE DEF d
      <3> QED
        BY <2>1, <3>1, <3>2, <3>3, <3>4, DeferReschedules
    <2>3. CASE i \notin SweptByRateLimit(m, delay)
      <3>1. K[i] = jobs[i]
        BY <2>3 DEF deferPendingJobsForRateLimit
      <3> QED
        BY <2>1, <3>1, SameRow
    <2> QED
      BY <2>2, <2>3
  <1>3. jobs \in [Ids -> Row]
    BY DEF TypeOK, TableOK
  <1> QED
    BY <1>1, <1>2, <1>3, RescheduledTable

-----------------------------------------------------------------------------
(* The inductive invariant                                                 *)

\* The parts need one another: a settling write is right because the job owns its row; a claim
\* leaves the other jobs their rows because it takes a pending row.
Inv == /\ TypeOK /\ OwnedRows /\ OneProcessingRowPerKey /\ RetryBudget
       /\ NothingLost /\ NoStuckDelivery

\* RetryBudget, for one row.
RowBudget(row) ==
  /\ row.status \in {"pending", "processing"} => row.attempts < Ceiling
  /\ row.status = "dead" => row.attempts \in MaxRetries .. Ceiling

LEMMA BudgetByRow == RetryBudget <=> \A i \in Ids : RowBudget(jobs[i])
  BY DEF RetryBudget, RowBudget, Ceiling

\* The ceiling and the ids are numbers.
LEMMA Numbers == Ceiling \in Nat /\ MaxRetries \in Nat /\ MaxRetries <= Ceiling /\ Ids \subseteq Nat
  BY QueueAssumption DEF Ceiling, Ids

\* A rescheduled row stays within its budget.
LEMMA BudgetRescheduled ==
  \A old \in Row : \A new : RowBudget(old) /\ RowRescheduled(old, new) => RowBudget(new)
  BY Numbers DEF RowBudget, RowRescheduled, SameContent, Row

\* A step that only lets jobs go, and keeps the rows of those that stay, keeps rows owned and keys
\* exclusive: no row becomes 'processing' in it.
LEMMA NoClaim ==
  ASSUME Inv, TypeOK',
         \A w \in Workers : worker'[w] = worker[w] \/ worker'[w] = NoJob,
         \A w \in Busy' : /\ jobs'[worker[w].id].status = "processing"
                          /\ SameContent(jobs[worker[w].id], jobs'[worker[w].id]),
         \A i \in Ids : jobs'[i].status = "processing"
                         => jobs[i].status = "processing" /\ jobs'[i].msg = jobs[i].msg
  PROVE  OwnedRows' /\ OneProcessingRowPerKey'
  <1>1. ASSUME NEW w \in Busy' PROVE w \in Busy /\ worker'[w] = worker[w]
    BY DEF Busy, NoJob
  <1>2. OwnedRows'
    <2> SUFFICES ASSUME NEW w \in Busy'
                 PROVE  /\ jobs'[worker'[w].id].status = "processing"
                        /\ jobs'[worker'[w].id].msg = worker'[w].msg
                        /\ jobs'[worker'[w].id].ver = worker'[w].ver
                        /\ jobs'[worker'[w].id].covers = worker'[w].covers
                        /\ jobs'[worker'[w].id].attempts = worker'[w].attempts
                        /\ \A v \in Busy' \ {w} : worker'[v].id # worker'[w].id
      BY DEF OwnedRows
    <2>1. w \in Busy /\ worker'[w] = worker[w]
      BY <1>1
    <2>2. \A v \in Busy' : v \in Busy /\ worker'[v] = worker[v]
      BY <1>1
    <2>3. /\ jobs[worker[w].id].msg = worker[w].msg
          /\ jobs[worker[w].id].ver = worker[w].ver
          /\ jobs[worker[w].id].covers = worker[w].covers
          /\ jobs[worker[w].id].attempts = worker[w].attempts
          /\ \A v \in Busy \ {w} : worker[v].id # worker[w].id
      BY <2>1 DEF Inv, OwnedRows
    <2> QED
      BY <2>1, <2>2, <2>3 DEF SameContent
  <1>3. OneProcessingRowPerKey'
    BY DEF Inv, OneProcessingRowPerKey, KeyOf
  <1> QED
    BY <1>2, <1>3

\* A step that reschedules rows, and lets jobs go, keeps the invariant.
LEMMA ReschedulingStep ==
  ASSUME Inv, Rescheduled(jobs, jobs'), LoopsOK', WorldOK', sends' = sends, settled' = settled,
         queuedEvents' \subseteq queuedEvents,
         \A w \in Workers : worker'[w] = worker[w] \/ worker'[w] = NoJob,
         \A w \in Busy' : jobs'[worker[w].id].status = "processing"
  PROVE  Inv'
  <1>1. TypeOK'
    <2>1. \A i \in Ids : jobs[i] = NoRow => jobs'[i] = jobs[i]
      BY DEF Rescheduled, RowRescheduled, NoRow
    <2>2. TableOK'
      BY <2>1, TableUpdate DEF Inv, Rescheduled
    <2> QED
      BY <2>2 DEF TypeOK
  <1>2. OwnedRows' /\ OneProcessingRowPerKey'
    <2>1. \A i \in Ids : jobs'[i].status = "processing"
                          => jobs[i].status = "processing" /\ jobs'[i].msg = jobs[i].msg
      BY DEF Rescheduled, RowRescheduled, SameContent
    <2>2. ASSUME NEW w \in Busy' PROVE worker[w].id \in Ids
      <3>1. w \in Workers /\ worker[w].phase # "idle"
        BY <2>2 DEF Busy, NoJob
      <3>2. worker[w].id \in 1 .. sends /\ sends \in 0 .. MaxSends
        BY <3>1 DEF Inv, TypeOK, LoopsOK, WorldOK
      <3> QED
        BY <3>2, QueueAssumption DEF Ids
    <2>3. \A w \in Busy' : SameContent(jobs[worker[w].id], jobs'[worker[w].id])
      BY <2>2 DEF Rescheduled, RowRescheduled
    <2> QED
      BY <1>1, <2>1, <2>3, NoClaim
  <1>3. RetryBudget'
    <2>1. ASSUME NEW i \in Ids PROVE RowBudget(jobs'[i])
      <3>1. RowBudget(jobs[i])
        BY BudgetByRow DEF Inv
      <3>2. RowRescheduled(jobs[i], jobs'[i]) /\ jobs[i] \in Row
        BY DEF Rescheduled, Inv, TypeOK, TableOK
      <3> QED
        BY <3>1, <3>2, BudgetRescheduled
    <2> QED
      BY <2>1 DEF RetryBudget, RowBudget, Ceiling
  <1>4. NothingLost'
    <2>1. \A i \in Ids : jobs'[i].covers = jobs[i].covers
      BY DEF Rescheduled, RowRescheduled, SameContent
    <2>2. {jobs'[i].covers : i \in Ids} = {jobs[i].covers : i \in Ids}
      BY <2>1
    <2> QED
      BY <2>2 DEF Inv, NothingLost
  <1>5. NoStuckDelivery'
    <2>1. ASSUME NEW i \in Live(jobs)
          PROVE  i \in Live(jobs') /\ jobs'[i].ver = jobs[i].ver /\ jobs'[i].msg = jobs[i].msg
      BY DEF Rescheduled, RowRescheduled, SameContent, Live
    <2> QED
      BY <2>1 DEF Inv, NoStuckDelivery
  <1> QED
    BY <1>1, <1>2, <1>3, <1>4, <1>5 DEF Inv

-----------------------------------------------------------------------------
(* Steps that reschedule rows and let jobs go                              *)

\* A job in flight owns a row of the table.
LEMMA BusyRow ==
  ASSUME Inv, NEW w \in Busy
  PROVE  /\ w \in Workers /\ worker[w] \in Job
         /\ worker[w].id \in Ids /\ worker[w].id \in 1 .. sends
         /\ jobs[worker[w].id] \in Row
         /\ jobs[worker[w].id].status = "processing"
         /\ jobs[worker[w].id].msg = worker[w].msg
         /\ jobs[worker[w].id].ver = worker[w].ver
         /\ jobs[worker[w].id].covers = worker[w].covers
         /\ jobs[worker[w].id].attempts = worker[w].attempts
         /\ \A v \in Busy \ {w} : worker[v].id # worker[w].id
  <1>1. w \in Workers /\ worker[w].phase # "idle"
    BY DEF Busy
  <1>2. worker[w] \in Job /\ worker[w].id \in 1 .. sends /\ sends \in 0 .. MaxSends
    BY <1>1 DEF Inv, TypeOK, LoopsOK, WorldOK
  <1>3. worker[w].id \in Ids
    BY <1>2, QueueAssumption DEF Ids
  <1>4. jobs[worker[w].id] \in Row
    BY <1>3 DEF Inv, TypeOK, TableOK
  <1> QED
    BY <1>1, <1>2, <1>3, <1>4 DEF Inv, OwnedRows

\* The finally block of processOne leaves the loops and counters well-formed.
LEMMA ReleaseType ==
  ASSUME TypeOK, NEW w \in Workers, Release(w)
  PROVE  /\ LoopsOK' /\ sends' = sends
         /\ \A v \in Workers : worker'[v] = worker[v] \/ worker'[v] = NoJob
         /\ Busy' = Busy \ {w}
  <1>1. worker' = [worker EXCEPT ![w] = NoJob] /\ sends' = sends
    BY DEF Release
  <1>2. worker \in [Workers -> Job] /\ worker[w] \in Job
    BY DEF TypeOK, LoopsOK
  <1>3. worker' \in [Workers -> Job]
    BY <1>1, <1>2, EmptyType
  <1>4. worker'[w] = NoJob /\ \A v \in Workers : v # w => worker'[v] = worker[v]
    BY <1>1, <1>2
  <1>5. NoJob.phase = "idle"
    BY DEF NoJob
  <1>6. activeBackground' \in Nat
    <2>1. activeBackground \in Nat
      BY DEF TypeOK, LoopsOK
    <2>2. Max2(0, activeBackground - 1) \in Nat
      BY <2>1, Max2Type
    <2> QED
      BY <2>1, <2>2 DEF Release
  <1>7. instCount' \in [Installations -> Nat]
    <2>1. instCount \in [Installations -> Nat] /\ worker[w].inst \in Installations \cup {"none"}
      BY <1>2 DEF TypeOK, LoopsOK, Job
    <2>2. ASSUME NEW k \in Installations PROVE Max2(0, instCount[k] - 1) \in Nat
      <3>1. instCount[k] - 1 \in Int
        BY <2>1
      <3> QED
        BY <3>1, Max2Type
    <2> QED
      BY <2>1, <2>2 DEF Release
  <1>8. Busy' = Busy \ {w}
    BY <1>4, <1>5 DEF Busy
  <1>9. LoopsOK'
    BY <1>1, <1>3, <1>4, <1>5, <1>6, <1>7 DEF Release, TypeOK, LoopsOK
  <1> QED
    BY <1>1, <1>4, <1>8, <1>9

\* A settling job leaves the environment well-formed.
LEMMA ReleaseWorld ==
  ASSUME TypeOK, NEW w, Release(w), queuedEvents' \subseteq queuedEvents,
         settled' \subseteq 1 .. sends, faults' \in 0 .. MaxFaults
  PROVE  WorldOK'
  BY DEF Release, TypeOK, WorldOK

\* A job that is put back, whatever for, keeps the invariant.
LEMMA PutBack ==
  ASSUME Inv, NEW w \in Busy, Release(w), queuedEvents' \subseteq queuedEvents,
         settled' = settled, faults' \in 0 .. MaxFaults, Rescheduled(jobs, jobs'),
         \A i \in Ids : i # worker[w].id => jobs'[i].status = jobs[i].status
  PROVE  Inv'
  <1>1. TypeOK /\ w \in Workers
    BY DEF Inv, Busy
  <1>2. /\ LoopsOK' /\ sends' = sends
        /\ \A v \in Workers : worker'[v] = worker[v] \/ worker'[v] = NoJob
        /\ Busy' = Busy \ {w}
    BY <1>1, ReleaseType
  <1>3. settled \subseteq 1 .. sends
    BY DEF Inv, TypeOK, WorldOK
  <1>4. WorldOK'
    BY <1>1, <1>3, ReleaseWorld
  <1>5. ASSUME NEW v \in Busy' PROVE jobs'[worker[v].id].status = "processing"
    <2>1. v \in Busy /\ worker[v].id # worker[w].id
      BY <1>2, BusyRow
    <2>2. worker[v].id \in Ids /\ jobs[worker[v].id].status = "processing"
      BY <2>1, BusyRow
    <2> QED
      BY <2>1, <2>2
  <1> QED
    BY <1>2, <1>4, <1>5, ReschedulingStep

\* Replacing one row by a rescheduling of it reschedules the table.
LEMMA OneRowRescheduled ==
  ASSUME NEW J \in [Ids -> Row], NEW K, NEW i \in Ids, NEW row,
         K = [J EXCEPT ![i] = row], RowRescheduled(J[i], row)
  PROVE  Rescheduled(J, K) /\ \A j \in Ids : j # i => K[j] = J[j]
  <1>1. row \in Row
    BY DEF RowRescheduled
  <1>2. K \in [Ids -> Row] /\ K[i] = row /\ \A j \in Ids : j # i => K[j] = J[j]
    BY <1>1
  <1> QED
    BY <1>2, SameRow DEF Rescheduled

\* An admission gate's deferral puts the row back, and touches no other.
LEMMA FinishDeferRows ==
  ASSUME Inv, NEW w \in Workers, FinishDefer(w)
  PROVE  /\ w \in Busy /\ Rescheduled(jobs, jobs')
         /\ \A i \in Ids : i # worker[w].id => jobs'[i] = jobs[i]
  <1> DEFINE id == worker[w].id
  <1>1. w \in Busy /\ worker[w].phase \in Gates
    BY DEF FinishDefer, Busy, Gates
  <1>2. id \in Ids /\ jobs[id] \in Row /\ jobs[id].status = "processing"
    BY <1>1, BusyRow
  <1>3. PICK d \in RetryDelays :
          jobs' = [jobs EXCEPT ![id] =
                     Defer(jobs[id], Max2(jobs[id].run_after, d), Tagged(jobs[id], worker[w].phase))]
    BY DEF FinishDefer
  <1>4. Max2(jobs[id].run_after, d) \in Int
    <2>1. d \in Int /\ jobs[id].run_after \in Int
      BY <1>2, InputType DEF Row
    <2> QED
      BY <2>1, Max2Type
  <1>5. Tagged(jobs[id], worker[w].phase) \in Gates \cup {"none", "lock_contended"}
    BY <1>1, <1>2, TaggedType
  <1>6. RowRescheduled(jobs[id],
          Defer(jobs[id], Max2(jobs[id].run_after, d), Tagged(jobs[id], worker[w].phase)))
    BY <1>2, <1>4, <1>5, DeferReschedules
  <1>7. jobs \in [Ids -> Row]
    BY DEF Inv, TypeOK, TableOK
  <1> QED
    BY <1>1, <1>2, <1>3, <1>6, <1>7, OneRowRescheduled

LEMMA FinishDeferInv == ASSUME Inv, NEW w \in Workers, FinishDefer(w) PROVE Inv'
  <1>1. Release(w) /\ queuedEvents' = queuedEvents /\ settled' = settled /\ faults' = faults
    BY DEF FinishDefer
  <1>2. faults \in 0 .. MaxFaults
    BY DEF Inv, TypeOK, WorldOK
  <1> QED
    BY <1>1, <1>2, FinishDeferRows, PutBack

\* A job that lost the race for its pull request's lock is put back.
LEMMA ContendedRows ==
  ASSUME Inv, NEW w \in Workers, ConsumeContended(w)
  PROVE  /\ w \in Busy /\ Rescheduled(jobs, jobs')
         /\ \A i \in Ids : i # worker[w].id => jobs'[i] = jobs[i]
  <1> DEFINE id == worker[w].id
  <1>1. w \in Busy
    BY DEF ConsumeContended, Consumed, Busy
  <1>2. id \in Ids /\ jobs[id] \in Row /\ jobs[id].status = "processing"
    BY <1>1, BusyRow
  <1>3. PICK d \in RetryDelays : jobs' = [jobs EXCEPT ![id] = Defer(jobs[id], d, "lock_contended")]
    BY DEF ConsumeContended
  <1>4. RowRescheduled(jobs[id], Defer(jobs[id], d, "lock_contended"))
    BY <1>2, InputType, DeferReschedules
  <1>5. jobs \in [Ids -> Row]
    BY DEF Inv, TypeOK, TableOK
  <1> QED
    BY <1>1, <1>2, <1>3, <1>4, <1>5, OneRowRescheduled

LEMMA ContendedInv == ASSUME Inv, NEW w \in Workers, ConsumeContended(w) PROVE Inv'
  <1>1. Release(w) /\ queuedEvents' \subseteq queuedEvents /\ settled' = settled /\ faults' = faults
    BY DEF ConsumeContended, Consumed
  <1>2. faults \in 0 .. MaxFaults
    BY DEF Inv, TypeOK, WorldOK
  <1> QED
    BY <1>1, <1>2, ContendedRows, PutBack

\* A fault in the middle of processOne leaves the row for the lease reclaim.
LEMMA DriverFaultInv == ASSUME Inv, NEW w \in Workers, DriverFault(w) PROVE Inv'
  <1>1. w \in Busy
    BY DEF DriverFault, Busy
  <1>2. jobs' = jobs /\ Release(w) /\ queuedEvents' = queuedEvents /\ settled' = settled
    BY DEF DriverFault
  <1>3. faults' \in 0 .. MaxFaults
    BY QueueAssumption DEF DriverFault, Inv, TypeOK, WorldOK
  <1>4. Rescheduled(jobs, jobs')
    BY <1>2, SameRow DEF Inv, TypeOK, TableOK, Rescheduled
  <1> QED
    BY <1>1, <1>2, <1>3, <1>4, PutBack

-----------------------------------------------------------------------------
(* Sweeps, shutdown, boot and the environment                              *)

\* A step that leaves the loops alone leaves them well-formed.
LEMMA LoopsUnmoved ==
  ASSUME TypeOK, UNCHANGED <<worker, activeBackground, instCount, claimSeq, lastRepo, sends>>,
         pressureCache' \subseteq pressureCache, phase' = "down" => phase = "down"
  PROVE  LoopsOK'
  BY DEF TypeOK, LoopsOK

\* A step that reschedules rows no job holds, and leaves the loops alone, keeps the invariant.
LEMMA Sweeping ==
  ASSUME Inv, UNCHANGED <<worker, activeBackground, instCount, claimSeq, lastRepo, sends,
                          queuedEvents, settled>>,
         pressureCache' \subseteq pressureCache,
         phase' \in {"up", "draining", "down"}, phase' = "down" => phase = "down",
         hostHigh' \in BOOLEAN, faults' \in 0 .. MaxFaults,
         budget' \in [AdmissionKeys -> {"ok", "low", "out"}],
         Rescheduled(jobs, jobs'),
         \A i \in Ids : i \in ActiveIds => jobs'[i].status = jobs[i].status
  PROVE  Inv'
  <1>1. LoopsOK'
    BY LoopsUnmoved DEF Inv
  <1>2. WorldOK'
    BY DEF Inv, TypeOK, WorldOK
  <1>3. Busy' = Busy
    BY DEF Busy
  <1>4. ASSUME NEW w \in Busy' PROVE jobs'[worker[w].id].status = "processing"
    <2>1. worker[w].id \in Ids /\ jobs[worker[w].id].status = "processing"
      BY <1>3, BusyRow
    <2>2. worker[w].id \in ActiveIds
      BY <1>3 DEF ActiveIds
    <2> QED
      BY <2>1, <2>2
  <1> QED
    BY <1>1, <1>2, <1>4, ReschedulingStep

\* The world as it is.
LEMMA WorldTypes ==
  ASSUME Inv
  PROVE  /\ phase \in {"up", "draining", "down"} /\ hostHigh \in BOOLEAN
         /\ faults \in 0 .. MaxFaults /\ budget \in [AdmissionKeys -> {"ok", "low", "out"}]
         /\ jobs \in [Ids -> Row] /\ sends \in 0 .. MaxSends
  BY DEF Inv, TypeOK, WorldOK, TableOK

\* A table that does not change is rescheduled.
LEMMA SameTable == ASSUME Inv, jobs' = jobs PROVE Rescheduled(jobs, jobs')
  BY WorldTypes, SameRow DEF Rescheduled

\* No dead letter is held by a job in flight, and no pending row either.
LEMMA ActiveRows == ASSUME Inv, NEW i \in ActiveIds PROVE jobs[i].status = "processing"
  BY BusyRow DEF ActiveIds

\* Automatic revival stays below the ceiling.
LEMMA ReviveInv == ASSUME Inv, ReviveDeadLetterJobs PROVE Inv'
  <1>1. PICK jitter \in [Revivable -> Jitters] :
          jobs' = [i \in Ids |-> IF i \in Revivable THEN Repend(jobs[i], jitter[i]) ELSE jobs[i]]
    BY DEF ReviveDeadLetterJobs
  <1>2. ASSUME NEW i \in Ids PROVE RowRescheduled(jobs[i], jobs'[i])
    <2>1. jobs[i] \in Row
      BY WorldTypes
    <2>2. CASE i \in Revivable
      <3>1. jitter[i] \in Int /\ jobs[i].status = "dead" /\ jobs[i].attempts < Ceiling
        BY <2>2, InputType DEF Revivable, Ceiling
      <3>2. jobs'[i] = Repend(jobs[i], jitter[i])
        BY <1>1, <2>2
      <3> QED
        BY <2>1, <3>1, <3>2, RependReschedules
    <2>3. CASE i \notin Revivable
      <3>1. jobs'[i] = jobs[i]
        BY <1>1, <2>3
      <3> QED
        BY <2>1, <3>1, SameRow
    <2> QED
      BY <2>2, <2>3
  <1>3. Rescheduled(jobs, jobs')
    <2>1. jobs' = [i \in Ids |-> jobs'[i]]
      BY <1>1
    <2> QED
      BY <1>2, <2>1, WorldTypes, RescheduledTable
  <1>4. ASSUME NEW i \in Ids, i \in ActiveIds PROVE jobs'[i].status = jobs[i].status
    <2>1. i \notin Revivable
      BY <1>4, ActiveRows DEF Revivable
    <2> QED
      BY <1>1, <2>1
  <1>5. /\ UNCHANGED <<worker, activeBackground, instCount, claimSeq, lastRepo, sends,
                       queuedEvents, settled>>
        /\ UNCHANGED <<pressureCache, phase, hostHigh, faults, budget>>
    BY DEF ReviveDeadLetterJobs, Quiet
  <1> QED
    BY <1>3, <1>4, <1>5, WorldTypes, Sweeping

\* The foreground-liveness sweep keeps the invariant.
LEMMA LivenessSweepInv == ASSUME Inv, ReleaseStaleForegroundDeferrals PROVE Inv'
  <1>1. Rescheduled(jobs, jobs') /\ \A i \in Ids : jobs'[i].status = jobs[i].status
    BY WorldTypes, SweepReschedules DEF ReleaseStaleForegroundDeferrals
  <1>2. /\ UNCHANGED <<worker, activeBackground, instCount, claimSeq, lastRepo, sends,
                       queuedEvents, settled>>
        /\ UNCHANGED <<pressureCache, phase, hostHigh, faults, budget>>
    BY DEF ReleaseStaleForegroundDeferrals, Quiet
  <1> QED
    BY <1>1, <1>2, WorldTypes, Sweeping

\* stop() only closes the door.
LEMMA StopInv == ASSUME Inv, Stop PROVE Inv'
  <1>1. jobs' = jobs /\ phase' = "draining" /\ faults' = faults + 1 /\ faults < MaxFaults
    BY DEF Stop
  <1>2. /\ UNCHANGED <<worker, activeBackground, instCount, claimSeq, lastRepo, sends,
                       queuedEvents, settled>>
        /\ UNCHANGED <<pressureCache, hostHigh, budget>>
    BY DEF Stop, Quiet
  <1>3. faults' \in 0 .. MaxFaults
    BY <1>1, WorldTypes, QueueAssumption
  <1>4. Rescheduled(jobs, jobs')
    BY <1>1, SameTable
  <1> QED
    BY <1>1, <1>2, <1>3, <1>4, WorldTypes, Sweeping

\* What the end of the process does to the loops.
LEMMA ForgetInv ==
  ASSUME Inv, Forget, faults' \in 0 .. MaxFaults, Rescheduled(jobs, jobs')
  PROVE  Inv'
  <1>1. worker' = [w \in Workers |-> NoJob] /\ NoJob.phase = "idle"
    BY DEF Forget, NoJob
  <1>2. Busy' = {}
    BY <1>1 DEF Busy
  <1>3. \A w \in Workers : worker'[w] = NoJob
    BY <1>1
  <1>4. LoopsOK'
    BY <1>1, EmptyType DEF Forget, Inv, TypeOK, LoopsOK
  <1>5. WorldOK'
    BY DEF Forget, Inv, TypeOK, WorldOK
  <1>6. sends' = sends /\ settled' = settled /\ queuedEvents' = queuedEvents
    BY DEF Forget
  <1> QED
    BY <1>2, <1>3, <1>4, <1>5, <1>6, ReschedulingStep

\* A shutdown gives the rows of the jobs it abandons back.
LEMMA ExitRows ==
  ASSUME Inv, Exit
  PROVE  Rescheduled(jobs, jobs') /\ \A i \in Ids : jobs[i].status = "dead" => jobs'[i] = jobs[i]
  <1>1. jobs' = [i \in Ids |-> IF i \in ActiveIds /\ jobs[i].status = "processing"
                               THEN Repend(jobs[i], 0) ELSE jobs[i]]
    BY DEF Exit
  <1>2. ASSUME NEW i \in Ids PROVE RowRescheduled(jobs[i], jobs'[i])
    <2>1. jobs[i] \in Row
      BY WorldTypes
    <2>2. \/ jobs'[i] = jobs[i]
          \/ jobs[i].status = "processing" /\ jobs'[i] = Repend(jobs[i], 0)
      BY <1>1
    <2> QED
      BY <2>1, <2>2, SameRow, RependReschedules
  <1>3. jobs' = [i \in Ids |-> jobs'[i]] /\ \A i \in Ids : jobs[i].status = "dead" => jobs'[i] = jobs[i]
    BY <1>1
  <1> QED
    BY <1>2, <1>3, WorldTypes, RescheduledTable

LEMMA ExitInv == ASSUME Inv, Exit PROVE Inv'
  <1>1. Forget /\ faults' \in 0 .. MaxFaults
    BY WorldTypes DEF Exit
  <1> QED
    BY <1>1, ExitRows, ForgetInv

\* A crash leaves the table as it is.
LEMMA CrashInv == ASSUME Inv, Crash PROVE Inv'
  <1>1. Forget /\ jobs' = jobs /\ faults' \in 0 .. MaxFaults
    BY WorldTypes, QueueAssumption DEF Crash
  <1> QED
    BY <1>1, SameTable, ForgetInv

\* A boot gives every row of the previous run back, and leaves the dead letters dead.
LEMMA BootRows ==
  ASSUME Inv, Boot
  PROVE  /\ Rescheduled(jobs, jobs')
         /\ \A i \in Ids : jobs[i].status = "dead" => jobs'[i].status = "dead"
  <1> DEFINE live == {i \in Ids : jobs[i].status \in {"pending", "processing"}}
  <1>1. PICK recovery \in [live -> Jitters], startup \in [live -> Jitters] :
          jobs' = releaseStaleForegroundDeferrals(
                    spreadDueJobsOnStartup(recoverProcessingJobs(jobs, recovery), startup))
    BY DEF Boot
  <1> DEFINE J == recoverProcessingJobs(jobs, recovery)
             K == spreadDueJobsOnStartup(J, startup)
  <1>2. /\ Rescheduled(jobs, J)
        /\ \A i \in Ids : J[i].status \in {"pending", "processing"} => i \in live
    <2>1. \A i \in Ids : jobs[i].status \in {"pending", "processing"} => i \in live
      OBVIOUS
    <2> HIDE DEF live
    <2> QED
      BY <2>1, WorldTypes, RecoveryReschedules
  <1>3. J \in [Ids -> Row]
    BY <1>2 DEF Rescheduled
  <1>4. Rescheduled(J, K)
    <2> HIDE DEF live, J
    <2> QED
      BY <1>2, <1>3, SpreadReschedules
  <1>5. K \in [Ids -> Row]
    BY <1>4 DEF Rescheduled
  <1>6. Rescheduled(K, jobs')
    <2>1. jobs' = releaseStaleForegroundDeferrals(K)
      BY <1>1
    <2> HIDE DEF K
    <2> QED
      BY <1>5, <2>1, SweepReschedules
  <1>7. Rescheduled(jobs, jobs')
    <2>1. jobs \in [Ids -> Row]
      BY WorldTypes
    <2> HIDE DEF J, K
    <2>2. Rescheduled(jobs, K)
      BY <1>2, <1>4, <2>1, RescheduledTwice
    <2> QED
      BY <1>6, <2>1, <2>2, RescheduledTwice
  <1>8. ASSUME NEW i \in Ids, jobs[i].status = "dead" PROVE jobs'[i].status = "dead"
    <2>1. J[i] = jobs[i]
      BY <1>8 DEF recoverProcessingJobs
    <2>2. K[i].status = J[i].status
      <3> HIDE DEF live, J
      <3> QED
        BY <1>2, <1>3, SpreadReschedules
    <2>3. jobs' = releaseStaleForegroundDeferrals(K)
      BY <1>1
    <2> HIDE DEF K
    <2>4. jobs'[i].status = K[i].status
      BY <1>5, <2>3, SweepReschedules
    <2> QED
      BY <1>8, <2>1, <2>2, <2>4
  <1> QED
    BY <1>7, <1>8

\* A boot finds no job in flight.
LEMMA BootInv == ASSUME Inv, Boot PROVE Inv'
  <1>1. ActiveIds = {}
    <2>1. \A w \in Workers : worker[w].phase = "idle"
      BY DEF Boot, Inv, TypeOK, LoopsOK
    <2> QED
      BY <2>1 DEF ActiveIds, Busy
  <1>2. /\ UNCHANGED <<worker, activeBackground, instCount, claimSeq, lastRepo, sends,
                       queuedEvents, settled>>
        /\ UNCHANGED <<pressureCache, hostHigh, faults, budget>>
        /\ phase' = "up"
    BY DEF Boot, Quiet
  <1> QED
    BY <1>1, <1>2, BootRows, WorldTypes, Sweeping

\* The environment and the clock keep the invariant.
LEMMA BudgetInv ==
  ASSUME Inv, NEW k \in AdmissionKeys, NEW level \in BudgetLevels, ChangeBudget(k, level)
  PROVE  Inv'
  <1>1. /\ UNCHANGED <<worker, activeBackground, instCount, claimSeq, lastRepo, sends,
                       queuedEvents, settled>>
        /\ UNCHANGED <<jobs, pressureCache, hostHigh, faults, phase>>
        /\ budget' = [budget EXCEPT ![k] = level]
    BY DEF ChangeBudget, Still
  <1>2. budget' \in [AdmissionKeys -> {"ok", "low", "out"}]
    BY <1>1, WorldTypes, QueueAssumption
  <1>3. Rescheduled(jobs, jobs')
    BY <1>1, SameTable
  <1> QED
    BY <1>1, <1>2, <1>3, WorldTypes, Sweeping

LEMMA HostInv == ASSUME Inv, NEW h \in HostLoads, ChangeHost(h) PROVE Inv'
  <1>1. /\ UNCHANGED <<worker, activeBackground, instCount, claimSeq, lastRepo, sends,
                       queuedEvents, settled>>
        /\ UNCHANGED <<jobs, pressureCache, budget, faults, phase>>
        /\ hostHigh' = h
    BY DEF ChangeHost, Still
  <1>2. hostHigh' \in BOOLEAN
    BY <1>1, QueueAssumption
  <1>3. Rescheduled(jobs, jobs')
    BY <1>1, SameTable
  <1> QED
    BY <1>1, <1>2, <1>3, WorldTypes, Sweeping

LEMMA CacheInv == ASSUME Inv, CacheExpires PROVE Inv'
  <1>1. /\ UNCHANGED <<worker, activeBackground, instCount, claimSeq, lastRepo, sends,
                       queuedEvents, settled>>
        /\ UNCHANGED <<jobs, hostHigh, budget, faults, phase>>
        /\ pressureCache' = {}
    BY DEF CacheExpires, Still
  <1>2. Rescheduled(jobs, jobs')
    BY <1>1, SameTable
  <1> QED
    BY <1>1, <1>2, WorldTypes, Sweeping

LEMMA TickInv == ASSUME Inv, Tick PROVE Inv'
  <1>1. /\ UNCHANGED <<worker, activeBackground, instCount, claimSeq, lastRepo, sends,
                       queuedEvents, settled>>
        /\ UNCHANGED <<hostHigh, budget, faults, phase>>
        /\ pressureCache' = {} /\ jobs' = [i \in Ids |-> Aged(jobs[i])]
    BY DEF Tick, Still
  <1>2. \A i \in Ids : RowRescheduled(jobs[i], jobs'[i]) /\ jobs'[i].status = jobs[i].status
    BY <1>1, WorldTypes, AgedReschedules
  <1>3. Rescheduled(jobs, jobs')
    <2>1. jobs' = [i \in Ids |-> jobs'[i]]
      BY <1>1
    <2> QED
      BY <1>2, <2>1, WorldTypes, RescheduledTable
  <1> QED
    BY <1>1, <1>2, <1>3, WorldTypes, Sweeping

LEMMA StutterInv == ASSUME Inv, UNCHANGED vars PROVE Inv'
  <1>1. /\ UNCHANGED <<worker, activeBackground, instCount, claimSeq, lastRepo, sends,
                       queuedEvents, settled>>
        /\ UNCHANGED <<jobs, pressureCache, hostHigh, budget, faults, phase>>
    BY DEF vars
  <1>2. Rescheduled(jobs, jobs')
    BY <1>1, SameTable
  <1> QED
    BY <1>1, <1>2, WorldTypes, Sweeping

-----------------------------------------------------------------------------
(* Jobs that settle                                                        *)

\* A settling job that touches no row another job is processing keeps the rows in order.
LEMMA SettlingStep ==
  ASSUME Inv, NEW w \in Busy, Release(w), jobs' \in [Ids -> Row],
         queuedEvents' \subseteq queuedEvents, settled' \subseteq 1 .. sends,
         faults' \in 0 .. MaxFaults,
         \A i \in Ids : jobs[i] = NoRow => jobs'[i] = jobs[i],
         jobs'[worker[w].id].status # "processing",
         \A i \in Ids : i # worker[w].id =>
           /\ SameContent(jobs[i], jobs'[i]) \/ jobs[i].status # "processing"
           /\ jobs'[i].status = "processing" <=> jobs[i].status = "processing"
  PROVE  TypeOK' /\ OwnedRows' /\ OneProcessingRowPerKey'
  <1>1. TypeOK /\ w \in Workers
    BY DEF Inv, Busy
  <1>2. /\ LoopsOK' /\ sends' = sends
        /\ \A v \in Workers : worker'[v] = worker[v] \/ worker'[v] = NoJob
        /\ Busy' = Busy \ {w}
    BY <1>1, ReleaseType
  <1>3. WorldOK'
    BY <1>1, ReleaseWorld
  <1>4. TableOK'
    BY <1>1, <1>2, TableUpdate
  <1>5. TypeOK'
    BY <1>2, <1>3, <1>4 DEF TypeOK
  <1>6. ASSUME NEW v \in Busy'
        PROVE  /\ jobs'[worker[v].id].status = "processing"
               /\ SameContent(jobs[worker[v].id], jobs'[worker[v].id])
    <2>1. v \in Busy /\ worker[v].id # worker[w].id
      BY <1>2, BusyRow
    <2>2. worker[v].id \in Ids /\ jobs[worker[v].id].status = "processing"
      BY <2>1, BusyRow
    <2> QED
      BY <2>1, <2>2 DEF SameContent
  <1>7. \A i \in Ids : jobs'[i].status = "processing"
                      => jobs[i].status = "processing" /\ jobs'[i].msg = jobs[i].msg
    BY DEF SameContent
  <1> QED
    BY <1>2, <1>5, <1>6, <1>7, NoClaim

\* A delivery that is not the settling job's keeps its row, when only that job's row is gone.
LEMMA SettlingDelivery ==
  ASSUME Inv, NEW w \in Busy, queuedEvents' = queuedEvents \ {worker[w].ver},
         \A i \in Ids : i # worker[w].id =>
           /\ jobs[i].status \in {"pending", "processing"}
                => jobs'[i].status \in {"pending", "processing"}
           /\ jobs'[i].ver = jobs[i].ver /\ jobs'[i].msg = jobs[i].msg
  PROVE  NoStuckDelivery'
  <1> SUFFICES ASSUME NEW n \in queuedEvents'
               PROVE  \E i \in Live(jobs') :
                        jobs'[i].ver = n /\ jobs'[i].msg.type = "github-webhook"
    BY DEF NoStuckDelivery
  <1>1. n \in queuedEvents /\ n # worker[w].ver
    OBVIOUS
  <1>2. PICK i \in Live(jobs) : jobs[i].ver = n /\ jobs[i].msg.type = "github-webhook"
    BY <1>1 DEF Inv, NoStuckDelivery
  <1>3. i # worker[w].id
    BY <1>1, <1>2, BusyRow
  <1> QED
    BY <1>2, <1>3 DEF Live

\* A settling job's own ver and covers are those of its row.
LEMMA SucceedsInv == ASSUME Inv, NEW w \in Workers, ConsumeSucceeds(w) PROVE Inv'
  <1> DEFINE id == worker[w].id
  <1>1. /\ w \in Busy /\ Release(w) /\ queuedEvents' = queuedEvents \ {worker[w].ver}
        /\ jobs' = [jobs EXCEPT ![id] = NoRow] /\ settled' = settled \cup worker[w].covers
        /\ faults' = faults
    BY DEF ConsumeSucceeds, Consumed, Busy
  <1>2. id \in Ids /\ jobs[id].covers = worker[w].covers /\ jobs[id].status = "processing"
    BY <1>1, BusyRow
  <1>3. jobs' \in [Ids -> Row] /\ jobs'[id] = NoRow /\ \A i \in Ids : i # id => jobs'[i] = jobs[i]
    BY <1>1, <1>2, WorldTypes, EmptyType
  <1>4. /\ NoRow.status = "none" /\ NoRow.covers = {}
    BY DEF NoRow
  <1>5. sends' = sends
    BY <1>1 DEF Release
  <1>6. NothingLost'
    <2>1. UNION {jobs[i].covers : i \in Ids}
            = worker[w].covers \cup UNION {jobs'[i].covers : i \in Ids}
      BY <1>2, <1>3, <1>4
    <2> QED
      BY <1>1, <1>5, <2>1 DEF Inv, NothingLost
  <1>7. settled' \subseteq 1 .. sends
    BY <1>5, <1>6 DEF NothingLost
  <1>8. TypeOK' /\ OwnedRows' /\ OneProcessingRowPerKey'
    BY <1>1, <1>3, <1>4, <1>7, WorldTypes, SettlingStep DEF SameContent
  <1>9. NoStuckDelivery'
    BY <1>1, <1>3, SettlingDelivery
  <1>10. RetryBudget'
    BY <1>3, <1>4 DEF Inv, RetryBudget
  <1> QED
    BY <1>6, <1>8, <1>9, <1>10 DEF Inv

\* Charging an attempt makes the row pending again or a dead letter, within its budget.
LEMMA FailsRows ==
  ASSUME Inv, NEW w \in Workers, ConsumeFails(w)
  PROVE  LET id == worker[w].id IN
         /\ w \in Busy /\ id \in Ids /\ jobs[id].status = "processing"
         /\ jobs' \in [Ids -> Row] /\ \A i \in Ids : i # id => jobs'[i] = jobs[i]
         /\ jobs'[id].msg = jobs[id].msg /\ jobs'[id].ver = jobs[id].ver
         /\ jobs'[id].covers = jobs[id].covers
         /\ jobs'[id].status \in {"pending", "dead"} /\ RowBudget(jobs'[id])
  <1> DEFINE id == worker[w].id
             attempts == worker[w].attempts + 1
  <1>1. /\ w \in Busy /\ Release(w) /\ queuedEvents' = queuedEvents \ {worker[w].ver}
        /\ settled' = settled /\ faults' = faults
    BY DEF ConsumeFails, Consumed, Busy
  <1>2. /\ id \in Ids /\ jobs[id] \in Row /\ jobs[id].status = "processing"
        /\ jobs[id].attempts = worker[w].attempts
    BY <1>1, BusyRow
  <1>3. attempts \in Nat /\ attempts <= Ceiling
    <2>1. jobs[id].attempts < Ceiling /\ jobs[id].attempts \in Nat
      BY <1>2, BudgetByRow DEF Inv, RowBudget, Row
    <2> QED
      BY <1>2, <2>1, Numbers
  <1>4. PICK row \in Row :
          /\ jobs' = [jobs EXCEPT ![id] = row]
          /\ row.msg = jobs[id].msg /\ row.ver = jobs[id].ver /\ row.covers = jobs[id].covers
          /\ row.status \in {"pending", "dead"} /\ RowBudget(row)
    <2>1. CASE attempts >= MaxRetries
      <3> DEFINE row == [jobs[id] EXCEPT !.status = "dead", !.attempts = attempts]
      <3>1. jobs' = [jobs EXCEPT ![id] = row]
        BY <2>1 DEF ConsumeFails
      <3>2. row \in Row
        BY <1>2, <1>3 DEF Row
      <3>3. /\ row.msg = jobs[id].msg /\ row.ver = jobs[id].ver /\ row.covers = jobs[id].covers
            /\ row.status = "dead" /\ row.attempts = attempts
        BY <1>2 DEF Row
      <3>4. RowBudget(row)
        BY <1>3, <2>1, <3>3, Numbers DEF RowBudget
      <3> HIDE DEF row
      <3> QED
        BY <3>1, <3>2, <3>3, <3>4
    <2>2. CASE ~(attempts >= MaxRetries)
      <3>1. PICK d \in RetryDelays :
              jobs' = [jobs EXCEPT ![id] = [Repend(jobs[id], d) EXCEPT !.attempts = attempts]]
        BY <2>2 DEF ConsumeFails
      <3> DEFINE row == [Repend(jobs[id], d) EXCEPT !.attempts = attempts]
      <3>2. /\ Repend(jobs[id], d) \in Row /\ SameContent(jobs[id], Repend(jobs[id], d))
            /\ Repend(jobs[id], d).status = "pending"
        BY <1>2, InputType, RependReschedules DEF RowRescheduled
      <3>3. row \in Row
        BY <1>3, <3>2 DEF Row
      <3>4. /\ row.msg = jobs[id].msg /\ row.ver = jobs[id].ver /\ row.covers = jobs[id].covers
            /\ row.status = "pending" /\ row.attempts = attempts
        BY <3>2 DEF Row, SameContent
      <3>5. RowBudget(row)
        BY <1>3, <2>2, <3>4, Numbers DEF RowBudget
      <3> HIDE DEF row
      <3>6. jobs' = [jobs EXCEPT ![id] = row]
        BY <3>1 DEF row
      <3> QED
        BY <3>3, <3>4, <3>5, <3>6
    <2> QED
      BY <2>1, <2>2
  <1>5. jobs' \in [Ids -> Row] /\ jobs'[id] = row /\ \A i \in Ids : i # id => jobs'[i] = jobs[i]
    BY <1>2, <1>4, WorldTypes
  <1> QED
    BY <1>1, <1>2, <1>4, <1>5

LEMMA FailsInv == ASSUME Inv, NEW w \in Workers, ConsumeFails(w) PROVE Inv'
  <1> DEFINE id == worker[w].id
  <1>1. /\ w \in Busy /\ Release(w) /\ queuedEvents' = queuedEvents \ {worker[w].ver}
        /\ settled' = settled /\ faults' = faults
    BY DEF ConsumeFails, Consumed, Busy
  <1>2. /\ w \in Busy /\ id \in Ids /\ jobs[id].status = "processing"
        /\ jobs' \in [Ids -> Row] /\ \A i \in Ids : i # id => jobs'[i] = jobs[i]
        /\ jobs'[id].msg = jobs[id].msg /\ jobs'[id].ver = jobs[id].ver
        /\ jobs'[id].covers = jobs[id].covers
        /\ jobs'[id].status \in {"pending", "dead"} /\ RowBudget(jobs'[id])
    BY FailsRows
  <1>3. settled' \subseteq 1 .. sends
    BY <1>1 DEF Inv, TypeOK, WorldOK
  <1>4. jobs[id] # NoRow
    BY <1>2 DEF NoRow
  <1>5. TypeOK' /\ OwnedRows' /\ OneProcessingRowPerKey'
    BY <1>1, <1>2, <1>3, <1>4, WorldTypes, SettlingStep DEF SameContent
  <1>6. NoStuckDelivery'
    BY <1>1, <1>2, SettlingDelivery
  <1>7. RetryBudget'
    <2>1. \A i \in Ids : RowBudget(jobs'[i])
      BY <1>2, BudgetByRow DEF Inv
    <2> QED
      BY <2>1 DEF RetryBudget, RowBudget, Ceiling
  <1>8. NothingLost'
    <2>1. \A i \in Ids : jobs'[i].covers = jobs[i].covers
      BY <1>2
    <2>2. {jobs'[i].covers : i \in Ids} = {jobs[i].covers : i \in Ids}
      BY <2>1
    <2>3. sends' = sends
      BY <1>1 DEF Release
    <2> QED
      BY <1>1, <2>2, <2>3 DEF Inv, NothingLost
  <1> QED
    BY <1>5, <1>6, <1>7, <1>8 DEF Inv

\* The row of a rate-limited job is deleted, and a pending row takes over its sends.
Folded(id, twin) ==
  /\ twin \in Ids /\ twin # id /\ jobs[twin].status = "pending"
  /\ jobs' \in [Ids -> Row] /\ jobs'[id] = NoRow
  /\ jobs'[twin].status = "pending" /\ jobs'[twin].attempts = jobs[twin].attempts
  /\ jobs'[twin].msg = jobs[twin].msg /\ jobs'[twin].ver = jobs[twin].ver
  /\ jobs'[twin].covers = jobs[twin].covers \cup jobs[id].covers
  /\ \A i \in Ids : i # twin /\ i # id =>
       /\ jobs'[i].status = jobs[i].status /\ SameContent(jobs[i], jobs'[i])
       /\ jobs[i] = NoRow => jobs'[i] = NoRow

\* A rate-limited job is put back, or folded into a pending row of its key.
LEMMA RateLimitedRows ==
  ASSUME Inv, NEW w \in Workers, ConsumeRateLimited(w)
  PROVE  LET id == worker[w].id IN
         /\ w \in Busy /\ id \in Ids /\ jobs[id].status = "processing"
         /\ \/ /\ Rescheduled(jobs, jobs')
               /\ \A i \in Ids : i # id => jobs'[i].status = jobs[i].status
            \/ \E twin : Folded(id, twin)
  <1> DEFINE id == worker[w].id
  <1>1. w \in Busy
    BY DEF ConsumeRateLimited, Consumed, Busy
  <1>2. id \in Ids /\ jobs[id].status = "processing"
    BY <1>1, BusyRow
  <1>2a. PICK delay \in RetryDelays :
          \E jitter \in [SweptByRateLimit(worker[w].msg, delay) -> Jitters] : \E own \in Jitters :
          LET J == deferPendingJobsForRateLimit(worker[w].msg, delay, jitter) IN
          \/ \E twin \in Preferred(J, Twins(J, id)) :
               jobs' = mergeRescheduledJobIntoPending(J, twin, id, delay + own)
          \/ jobs' = [J EXCEPT ![id] = Defer(J[id], delay + own, "rate_limit")]
    BY Zenon DEF ConsumeRateLimited
  <1>3. PICK jitter \in [SweptByRateLimit(worker[w].msg, delay) -> Jitters], own \in Jitters :
          LET J == deferPendingJobsForRateLimit(worker[w].msg, delay, jitter) IN
          \/ \E twin \in Preferred(J, Twins(J, id)) :
               jobs' = mergeRescheduledJobIntoPending(J, twin, id, delay + own)
          \/ jobs' = [J EXCEPT ![id] = Defer(J[id], delay + own, "rate_limit")]
    BY <1>2a, Zenon
  <1> DEFINE J == deferPendingJobsForRateLimit(worker[w].msg, delay, jitter)
  <1>4. Rescheduled(jobs, J) /\ \A i \in Ids : J[i].status = jobs[i].status
    BY BudgetSweepReschedules DEF Inv
  <1>5. delay + own \in Int
    BY InputType
  <1>6. \/ \E twin \in Preferred(J, Twins(J, id)) :
             jobs' = mergeRescheduledJobIntoPending(J, twin, id, delay + own)
        \/ jobs' = [J EXCEPT ![id] = Defer(J[id], delay + own, "rate_limit")]
    BY <1>3, Zenon
  <1> HIDE DEF J
  <1>7. J \in [Ids -> Row]
    BY <1>4 DEF Rescheduled
  <1>8. CASE jobs' = [J EXCEPT ![id] = Defer(J[id], delay + own, "rate_limit")]
    <2>1. "rate_limit" \in Gates \cup {"none", "lock_contended"}
      BY DEF Gates
    <2>2. RowRescheduled(J[id], Defer(J[id], delay + own, "rate_limit"))
      BY <1>2, <1>4, <1>5, <1>7, <2>1, DeferReschedules
    <2>3. Rescheduled(J, jobs') /\ \A i \in Ids : i # id => jobs'[i] = J[i]
      BY <1>2, <1>7, <1>8, <2>2, OneRowRescheduled
    <2>4. Rescheduled(jobs, jobs')
      BY <1>4, <2>3, WorldTypes, RescheduledTwice
    <2> QED
      BY <1>1, <1>2, <1>4, <2>3, <2>4
  <1>9. ASSUME NEW twin \in Preferred(J, Twins(J, id)),
               jobs' = mergeRescheduledJobIntoPending(J, twin, id, delay + own)
        PROVE  Folded(id, twin)
    <2>1. twin \in Ids /\ twin # id /\ J[twin].status = "pending" /\ J[twin] \in Row /\ J[id] \in Row
      BY <1>2, <1>7 DEF Preferred, Twins, Pending
    <2> DEFINE deferred == Defer(J[twin], Max2(J[twin].run_after, delay + own),
                                 Tagged(J[twin], "rate_limit"))
               folded == [deferred EXCEPT !.covers = @ \cup J[id].covers]
    <2>2. RowRescheduled(J[twin], deferred) /\ deferred.status = "pending"
      <3>1. Max2(J[twin].run_after, delay + own) \in Int
        BY <1>5, <2>1, Max2Type DEF Row
      <3>2. Tagged(J[twin], "rate_limit") \in Gates \cup {"none", "lock_contended"}
        BY <2>1, TaggedType DEF Gates
      <3> QED
        BY <2>1, <3>1, <3>2, DeferReschedules
    <2>3. jobs' = [i \in Ids |-> IF i = twin THEN folded ELSE IF i = id THEN NoRow ELSE J[i]]
      BY <1>9, Zenon DEF mergeRescheduledJobIntoPending
    <2> HIDE DEF deferred
    <2>4. /\ folded \in Row /\ folded.status = "pending" /\ folded.attempts = J[twin].attempts
          /\ folded.msg = J[twin].msg /\ folded.ver = J[twin].ver
          /\ folded.covers = J[twin].covers \cup J[id].covers
      <3>1. deferred \in Row /\ SameContent(J[twin], deferred)
        BY <2>2 DEF RowRescheduled
      <3> QED
        BY <2>1, <2>2, <3>1 DEF Row, SameContent
    <2> HIDE DEF folded
    <2>5. /\ jobs' \in [Ids -> Row] /\ jobs'[twin] = folded /\ jobs'[id] = NoRow
          /\ \A i \in Ids : i # twin /\ i # id => jobs'[i] = J[i]
      BY <1>2, <1>7, <2>1, <2>3, <2>4, EmptyType
    <2>6. \A i \in Ids : SameContent(jobs[i], J[i]) /\ (jobs[i] = NoRow => J[i] = NoRow)
      BY <1>4 DEF Rescheduled, RowRescheduled, NoRow
    <2>7. /\ J[twin].covers = jobs[twin].covers /\ J[id].covers = jobs[id].covers
          /\ J[twin].attempts = jobs[twin].attempts /\ J[twin].msg = jobs[twin].msg
          /\ J[twin].ver = jobs[twin].ver
      BY <1>2, <2>1, <2>6 DEF SameContent
    <2> QED
      BY <1>2, <1>4, <2>1, <2>4, <2>5, <2>6, <2>7 DEF Folded
  <1>10. CASE \E twin \in Preferred(J, Twins(J, id)) :
                jobs' = mergeRescheduledJobIntoPending(J, twin, id, delay + own)
    BY <1>1, <1>2, <1>9, <1>10, Zenon
  <1> QED
    BY <1>6, <1>8, <1>10

LEMMA RateLimitedInv == ASSUME Inv, NEW w \in Workers, ConsumeRateLimited(w) PROVE Inv'
  <1> DEFINE id == worker[w].id
  <1>1. /\ w \in Busy /\ Release(w) /\ queuedEvents' = queuedEvents \ {worker[w].ver}
        /\ settled' = settled /\ faults' = faults
    BY DEF ConsumeRateLimited, Consumed, Busy
  <1>2. id \in Ids /\ jobs[id].status = "processing"
    BY <1>1, BusyRow
  <1>3. CASE Rescheduled(jobs, jobs') /\ \A i \in Ids : i # id => jobs'[i].status = jobs[i].status
    BY <1>1, <1>3, WorldTypes, PutBack
  <1>4. ASSUME NEW twin, Folded(id, twin) PROVE Inv'
    <2>1. /\ twin \in Ids /\ twin # id /\ jobs[twin].status = "pending"
          /\ jobs' \in [Ids -> Row] /\ jobs'[id] = NoRow
          /\ jobs'[twin].status = "pending" /\ jobs'[twin].attempts = jobs[twin].attempts
          /\ jobs'[twin].msg = jobs[twin].msg /\ jobs'[twin].ver = jobs[twin].ver
          /\ jobs'[twin].covers = jobs[twin].covers \cup jobs[id].covers
          /\ \A i \in Ids : i # twin /\ i # id =>
               /\ jobs'[i].status = jobs[i].status /\ SameContent(jobs[i], jobs'[i])
               /\ jobs[i] = NoRow => jobs'[i] = NoRow
      BY <1>4 DEF Folded
    <2>2. NoRow.status = "none" /\ NoRow.covers = {}
      BY DEF NoRow
    <2>3. settled' \subseteq 1 .. sends /\ sends' = sends
      BY <1>1 DEF Inv, TypeOK, WorldOK, Release
    <2>4. \A i \in Ids : jobs[i] = NoRow => jobs'[i] = jobs[i]
      BY <1>2, <2>1, <2>2
    <2>5. TypeOK' /\ OwnedRows' /\ OneProcessingRowPerKey'
      <3>1. \A i \in Ids : i # id =>
              /\ SameContent(jobs[i], jobs'[i]) \/ jobs[i].status # "processing"
              /\ jobs'[i].status = "processing" <=> jobs[i].status = "processing"
        BY <2>1
      <3> QED
        BY <1>1, <2>1, <2>2, <2>3, <2>4, <3>1, WorldTypes, SettlingStep
    <2>6. NoStuckDelivery'
      <3>1. \A i \in Ids : i # id =>
              /\ jobs[i].status \in {"pending", "processing"}
                   => jobs'[i].status \in {"pending", "processing"}
              /\ jobs'[i].ver = jobs[i].ver /\ jobs'[i].msg = jobs[i].msg
        BY <2>1 DEF SameContent
      <3> QED
        BY <1>1, <3>1, SettlingDelivery
    <2>7. RetryBudget'
      <3>1. ASSUME NEW i \in Ids PROVE RowBudget(jobs'[i])
        <4>1. RowBudget(jobs[i])
          BY BudgetByRow DEF Inv
        <4> QED
          BY <2>1, <2>2, <4>1 DEF RowBudget, SameContent
      <3> QED
        BY <3>1 DEF RetryBudget, RowBudget, Ceiling
    <2>8. NothingLost'
      <3>1. UNION {jobs'[i].covers : i \in Ids} = UNION {jobs[i].covers : i \in Ids}
        BY <1>2, <2>1, <2>2 DEF SameContent
      <3> QED
        BY <1>1, <2>3, <3>1 DEF Inv, NothingLost
    <2> QED
      BY <2>5, <2>6, <2>7, <2>8 DEF Inv
  <1> QED
    BY <1>3, <1>4, RateLimitedRows

-----------------------------------------------------------------------------
(* The operator's dead-letter actions                                      *)

\* A step that leaves the loops and every processing row alone.
LEMMA OperatorStep ==
  ASSUME Inv, Quiet, phase' = phase, jobs' \in [Ids -> Row],
         settled' \subseteq 1 .. sends, faults' \in 0 .. MaxFaults,
         \A i \in Ids : jobs[i].status # "dead" => jobs'[i] = jobs[i],
         \A i \in Ids : jobs[i].status = "dead" => jobs'[i].status # "processing"
  PROVE  TypeOK' /\ OwnedRows' /\ OneProcessingRowPerKey' /\ NoStuckDelivery'
  <1>1. /\ UNCHANGED <<worker, activeBackground, instCount, claimSeq, lastRepo, sends>>
        /\ UNCHANGED <<pressureCache, budget, hostHigh, queuedEvents>>
    BY DEF Quiet
  <1>2. LoopsOK'
    BY <1>1, LoopsUnmoved DEF Inv
  <1>3. WorldOK'
    BY <1>1 DEF Inv, TypeOK, WorldOK
  <1>4. TableOK'
    <2>1. \A i \in Ids : jobs[i] = NoRow => jobs'[i] = jobs[i]
      BY DEF NoRow
    <2> QED
      BY <1>1, <2>1, TableUpdate DEF Inv
  <1>5. TypeOK'
    BY <1>2, <1>3, <1>4 DEF TypeOK
  <1>6. ASSUME NEW w \in Busy'
        PROVE  /\ jobs'[worker[w].id].status = "processing"
               /\ SameContent(jobs[worker[w].id], jobs'[worker[w].id])
    <2>1. w \in Busy
      BY <1>1 DEF Busy
    <2>2. worker[w].id \in Ids /\ jobs[worker[w].id].status = "processing"
      BY <2>1, BusyRow
    <2> QED
      BY <2>2 DEF SameContent
  <1>7. \A i \in Ids : jobs'[i].status = "processing"
                      => jobs[i].status = "processing" /\ jobs'[i].msg = jobs[i].msg
    OBVIOUS
  <1>8. OwnedRows' /\ OneProcessingRowPerKey'
    BY <1>1, <1>5, <1>6, <1>7, NoClaim
  <1>9. NoStuckDelivery'
    <2>1. \A i \in Live(jobs) : i \in Live(jobs') /\ jobs'[i] = jobs[i]
      BY DEF Live
    <2> QED
      BY <1>1, <2>1 DEF Inv, NoStuckDelivery
  <1> QED
    BY <1>5, <1>8, <1>9

\* A replay starts the attempts again.
LEMMA ReplayInv == ASSUME Inv, NEW i \in Ids, ReplayDeadLetterJob(i) PROVE Inv'
  <1> DEFINE row == [Repend(jobs[i], 0) EXCEPT !.attempts = 0]
  <1>1. /\ jobs[i].status = "dead" /\ jobs' = [jobs EXCEPT ![i] = row] /\ faults < MaxFaults
        /\ faults' = faults + 1 /\ Quiet /\ phase' = phase /\ settled' = settled
    BY DEF ReplayDeadLetterJob, Dead
  <1>2. jobs[i] \in Row
    BY WorldTypes
  <1>3. row \in Row /\ row.status = "pending" /\ row.attempts = 0 /\ row.covers = jobs[i].covers
    <2>1. /\ Repend(jobs[i], 0) \in Row /\ Repend(jobs[i], 0).status = "pending"
          /\ Repend(jobs[i], 0).covers = jobs[i].covers
      BY <1>2, RependType DEF SameContent
    <2> QED
      BY <2>1 DEF Row
  <1> HIDE DEF row
  <1>4. jobs' \in [Ids -> Row] /\ jobs'[i] = row /\ \A j \in Ids : j # i => jobs'[j] = jobs[j]
    BY <1>1, <1>3, WorldTypes
  <1>5. settled' \subseteq 1 .. sends /\ faults' \in 0 .. MaxFaults
    BY <1>1, QueueAssumption DEF Inv, TypeOK, WorldOK
  <1>6. TypeOK' /\ OwnedRows' /\ OneProcessingRowPerKey' /\ NoStuckDelivery'
    BY <1>1, <1>3, <1>4, <1>5, OperatorStep
  <1>7. RetryBudget'
    <2>1. RowBudget(row)
      BY <1>3, QueueAssumption DEF RowBudget, Ceiling
    <2>2. \A j \in Ids : RowBudget(jobs'[j])
      BY <1>4, <2>1, BudgetByRow DEF Inv
    <2> QED
      BY <2>2 DEF RetryBudget, RowBudget, Ceiling
  <1>8. NothingLost'
    <2>1. {jobs'[j].covers : j \in Ids} = {jobs[j].covers : j \in Ids}
      BY <1>3, <1>4
    <2> QED
      BY <1>1, <2>1 DEF Inv, NothingLost, Quiet
  <1> QED
    BY <1>6, <1>7, <1>8 DEF Inv

\* A discarded dead letter is counted as settled by the operator.
LEMMA DiscardInv == ASSUME Inv, NEW S \in SUBSET Dead, Discard(S) PROVE Inv'
  <1>1. /\ jobs' = [i \in Ids |-> IF i \in S THEN NoRow ELSE jobs[i]]
        /\ settled' = settled \cup UNION {jobs[i].covers : i \in S}
        /\ Quiet /\ phase' = phase /\ faults' = faults
    BY DEF Discard
  <1>2. NoRow.status = "none" /\ NoRow.covers = {}
    BY DEF NoRow
  <1>3. \A i \in S : i \in Ids /\ jobs[i].status = "dead"
    BY DEF Dead
  <1>4. jobs' \in [Ids -> Row]
    BY <1>1, WorldTypes, EmptyType
  <1>5. NothingLost'
    <2>1. UNION {jobs[i].covers : i \in Ids}
            = (UNION {jobs[i].covers : i \in S}) \cup (UNION {jobs'[i].covers : i \in Ids})
      BY <1>1, <1>2, <1>3
    <2> QED
      BY <1>1, <2>1 DEF Inv, NothingLost, Quiet
  <1>6. settled' \subseteq 1 .. sends
    BY <1>1, <1>5 DEF NothingLost, Quiet
  <1>7. TypeOK' /\ OwnedRows' /\ OneProcessingRowPerKey' /\ NoStuckDelivery'
    BY <1>1, <1>2, <1>3, <1>4, <1>6, WorldTypes, OperatorStep
  <1>8. RetryBudget'
    BY <1>1, <1>2 DEF Inv, RetryBudget
  <1> QED
    BY <1>5, <1>7, <1>8 DEF Inv

-----------------------------------------------------------------------------
(* Claims                                                                  *)

\* A claim, of whatever lane, takes a pending row whose key no processing row has.
LEMMA ClaimIsFree ==
  ASSUME NEW J, NEW i \in ForegroundClaim(J) \cup BackgroundClaim(J)
  PROVE  i \in Ids /\ J[i].status = "pending" /\ ~KeyBusy(J, i)
  <1>1. \E S : i \in claimNextWhere(J, S)
    BY Zenon DEF ForegroundClaim, BackgroundClaim, claimNextForegroundLane
  <1> QED
    BY <1>1 DEF claimNextWhere, Due, Pending

\* The claiming UPDATE leaves a row with the same content.
LEMMA LeasedType ==
  ASSUME NEW row \in Row
  PROVE  Leased(row) \in Row /\ SameContent(row, Leased(row)) /\ Leased(row).status = "processing"
  <1>1. Leased(row) \in Row
    <2>1. ASSUME NEW d \in Int
          PROVE  [row EXCEPT !.status = "processing", !.run_after = d] \in Row
      BY DEF Row
    <2>2. 0 \in Int
      OBVIOUS
    <2> QED
      BY <2>1, <2>2, Zenon DEF Leased
  <1>2. SameContent(row, Leased(row)) /\ Leased(row).status = "processing"
    BY DEF Leased, Row, SameContent
  <1> QED
    BY <1>1, <1>2

\* claim_sequence stays a number.
LEMMA NextSeqType == ASSUME TypeOK PROVE NextSeq \in Nat
  <1> DEFINE period == FairnessWindow * (FairnessWindow + 1)
  <1>1. FairnessWindow \in Nat \ {0}
    BY QueueAssumption DEF FairnessWindow
  <1>2. period \in Nat \ {0}
    BY <1>1
  <1>3. claimSeq + 1 \in Nat
    BY DEF TypeOK, LoopsOK
  <1> HIDE DEF period
  <1>4. (claimSeq + 1) % period \in Nat
    BY <1>2, <1>3
  <1> QED
    BY <1>4 DEF NextSeq, period

\* A pressure reading has three flags, cached or not.
LEMMA SignalsType ==
  ASSUME TypeOK, NEW J
  PROVE  CachedSignals(J) \in [live : BOOLEAN, pending : BOOLEAN, host : BOOLEAN]
  <1>1. PressureSignals(J) \in [live : BOOLEAN, pending : BOOLEAN, host : BOOLEAN]
    <2>1. hostHigh \in BOOLEAN
      BY DEF TypeOK, WorldOK
    <2>2. \A a, b, c, d : [live |-> a \/ b \/ c, pending |-> d > MaxMaintenancePending, host |-> hostHigh]
                           \in [live : BOOLEAN, pending : BOOLEAN, host : BOOLEAN]
      BY <2>1
    <2> QED
      BY <2>2 DEF PressureSignals
  <1>2. CASE pressureCache = {}
    BY <1>1, <1>2 DEF CachedSignals
  <1>3. CASE pressureCache # {}
    <2>1. (CHOOSE s \in pressureCache : TRUE) \in pressureCache
      BY <1>3
    <2> QED
      BY <1>3, <2>1 DEF CachedSignals, TypeOK, LoopsOK
  <1> QED
    BY <1>2, <1>3

\* A claimed job is deferred by one of the three gates, or consumed.
LEMMA AdmissionType == \A J, i : Admission(J, i) \in Gates \cup {"consuming"}
  BY DEF Admission, Gates

\* A claim makes one row 'processing' and one loop busy with it.
LEMMA ClaimInv ==
  ASSUME Inv, NEW w \in Workers, worker[w].phase = "idle", phase = "up",
         NEW jitter \in [Expired(jobs) -> Jitters], NEW J,
         J = reclaimExpiredProcessingJobs(jobs, jitter),
         NEW i \in ForegroundClaim(J) \cup BackgroundClaim(J), NEW slot \in BOOLEAN,
         Claim(w, J, i, slot), claimSeq' = NextSeq,
         UNCHANGED <<phase, budget, hostHigh, sends, queuedEvents, settled, faults>>
  PROVE  Inv'
  <1>1. i \in Ids /\ J[i].status = "pending" /\ ~KeyBusy(J, i)
    BY ClaimIsFree
  <1>2. Rescheduled(jobs, J) /\ \A j \in Ids : j \in ActiveIds => J[j] = jobs[j]
    BY ReclaimReschedules DEF Inv
  <1>3. J \in [Ids -> Row]
    BY <1>2 DEF Rescheduled
  <1>4. /\ jobs' = [J EXCEPT ![i] = Leased(J[i])]
        /\ Leased(J[i]) \in Row /\ SameContent(J[i], Leased(J[i]))
        /\ Leased(J[i]).status = "processing"
    BY <1>1, <1>3, LeasedType DEF Claim
  <1>5. /\ jobs' \in [Ids -> Row] /\ SameContent(J[i], jobs'[i]) /\ jobs'[i].status = "processing"
        /\ \A j \in Ids : j # i => jobs'[j] = J[j]
    BY <1>1, <1>3, <1>4
  <1>6. PICK gate \in Gates \cup {"consuming"}, inst \in Installations \cup {"none"} :
          /\ worker' = [worker EXCEPT ![w] =
               [id |-> i, msg |-> J[i].msg, ver |-> J[i].ver, covers |-> J[i].covers,
                attempts |-> J[i].attempts, slot |-> slot, inst |-> inst, phase |-> gate]]
          /\ instCount' = IF inst = "none" THEN instCount ELSE [instCount EXCEPT ![inst] = @ + 1]
    <2>1. installationConcurrencyKeyForJob(J[i].msg) \in Installations \cup {"none"}
      BY <1>1, <1>3, InstallationType DEF Row
    <2>2. Admission([J EXCEPT ![i] = Leased(J[i])], i) \in Gates \cup {"consuming"}
      BY AdmissionType
    <2> QED
      BY <2>1, <2>2 DEF Claim
  <1> DEFINE job == [id |-> i, msg |-> J[i].msg, ver |-> J[i].ver, covers |-> J[i].covers,
                     attempts |-> J[i].attempts, slot |-> slot, inst |-> inst, phase |-> gate]
  <1>7. /\ job \in Job /\ job.phase # "idle" /\ job.id = i /\ job.msg = J[i].msg
        /\ job.ver = J[i].ver /\ job.covers = J[i].covers /\ job.attempts = J[i].attempts
    <2>1. /\ i \in Nat /\ J[i].msg \in Msg /\ J[i].ver \in Nat /\ J[i].covers \in SUBSET Ids
          /\ J[i].attempts \in Nat
      BY <1>1, <1>3, Numbers DEF Row
    <2>2. gate \in Gates \cup {"idle", "consuming"} /\ gate # "idle"
      BY <1>6 DEF Gates
    <2> QED
      BY <1>6, <2>1, <2>2 DEF Job
  <1> HIDE DEF job
  <1>8. /\ worker' \in [Workers -> Job] /\ worker'[w] = job
        /\ \A v \in Workers : v # w => worker'[v] = worker[v]
    BY <1>6, <1>7 DEF job, Inv, TypeOK, LoopsOK
  <1>9. Busy' = Busy \cup {w}
    BY <1>7, <1>8 DEF Busy
  <1>10. ASSUME NEW v \in Busy
         PROVE  v # w /\ worker'[v] = worker[v] /\ worker[v].id # i
                /\ J[worker[v].id] = jobs[worker[v].id] /\ jobs'[worker[v].id] = jobs[worker[v].id]
    <2>1. v \in Workers /\ v # w /\ worker[v].id \in ActiveIds
      BY DEF Busy, ActiveIds
    <2>2. worker[v].id \in Ids /\ jobs[worker[v].id].status = "processing"
      BY BusyRow
    <2>3. J[worker[v].id] = jobs[worker[v].id] /\ worker[v].id # i
      BY <1>1, <1>2, <2>1, <2>2
    <2> QED
      BY <1>5, <1>8, <2>1, <2>2, <2>3
  <1>11. i \in 1 .. sends
    <2>1. jobs[i].status # "none"
      BY <1>1, <1>2, <1>3 DEF Rescheduled, RowRescheduled
    <2> QED
      BY <1>1, <2>1, RowExists DEF Inv
  <1>12. TypeOK'
    <2>1. TableOK'
      <3>1. ASSUME NEW j \in Ids, jobs[j] = NoRow PROVE jobs'[j] = jobs[j]
        <4>1. jobs[j].status = "none"
          BY <3>1 DEF NoRow
        <4>2. J[j] = jobs[j]
          BY <1>2, <4>1 DEF Rescheduled, RowRescheduled
        <4> QED
          BY <1>1, <1>5, <4>1, <4>2
      <3> QED
        BY <1>5, <3>1, TableUpdate DEF Inv
    <2>2. activeBackground' \in Nat
      BY DEF Claim, Inv, TypeOK, LoopsOK
    <2>3. instCount' \in [Installations -> Nat]
      BY <1>6 DEF Inv, TypeOK, LoopsOK
    <2>4. lastRepo' \in Nat
      <3>1. J[i].msg.repo \in Nat /\ lastRepo \in Nat
        BY <1>1, <1>3 DEF Row, Msg, Inv, TypeOK, LoopsOK
      <3>2. lastRepo' = J[i].msg.repo \/ lastRepo' = lastRepo
        BY Zenon DEF Claim
      <3> QED
        BY <3>1, <3>2
    <2>5. pressureCache' \subseteq [live : BOOLEAN, pending : BOOLEAN, host : BOOLEAN]
      <3>1. PICK K : pressureCache' = {CachedSignals(K)} \/ pressureCache' = pressureCache
        BY Zenon DEF Claim
      <3>2. CachedSignals(K) \in [live : BOOLEAN, pending : BOOLEAN, host : BOOLEAN]
        BY SignalsType DEF Inv
      <3>3. pressureCache \subseteq [live : BOOLEAN, pending : BOOLEAN, host : BOOLEAN]
        BY DEF Inv, TypeOK, LoopsOK
      <3> QED
        BY <3>1, <3>2, <3>3
    <2>6. claimSeq' \in Nat
      BY NextSeqType DEF Inv
    <2>7. \A v \in Workers : worker'[v].phase # "idle" => worker'[v].id \in 1 .. sends' /\ phase' # "down"
      BY <1>7, <1>8, <1>11 DEF Inv, TypeOK, LoopsOK
    <2>8. LoopsOK'
      BY <1>8, <2>2, <2>3, <2>4, <2>5, <2>6, <2>7 DEF LoopsOK
    <2>9. WorldOK'
      BY DEF Inv, TypeOK, WorldOK
    <2> QED
      BY <2>1, <2>8, <2>9 DEF TypeOK
  <1>13. OwnedRows'
    <2> SUFFICES ASSUME NEW v \in Busy'
                 PROVE  /\ jobs'[worker'[v].id].status = "processing"
                        /\ jobs'[worker'[v].id].msg = worker'[v].msg
                        /\ jobs'[worker'[v].id].ver = worker'[v].ver
                        /\ jobs'[worker'[v].id].covers = worker'[v].covers
                        /\ jobs'[worker'[v].id].attempts = worker'[v].attempts
                        /\ \A u \in Busy' \ {v} : worker'[u].id # worker'[v].id
      BY DEF OwnedRows
    <2>1. CASE v = w
      <3>1. \A u \in Busy' \ {v} : worker'[u].id # worker'[v].id
        BY <1>7, <1>8, <1>9, <1>10, <2>1
      <3> QED
        BY <1>5, <1>7, <1>8, <2>1, <3>1 DEF SameContent
    <2>2. CASE v # w
      <3>1. v \in Busy /\ worker'[v] = worker[v] /\ jobs'[worker[v].id] = jobs[worker[v].id]
            /\ worker[v].id # i
        BY <1>9, <1>10, <2>2
      <3>2. \A u \in Busy' \ {v} : worker'[u].id # worker'[v].id
        <4>1. \A u \in Busy \ {v} : worker'[u].id # worker'[v].id
          BY <1>10, <3>1, BusyRow
        <4> QED
          BY <1>7, <1>8, <1>9, <3>1, <4>1
      <3> QED
        BY <3>1, <3>2, BusyRow
    <2> QED
      BY <2>1, <2>2
  <1>14. OneProcessingRowPerKey'
    <2> SUFFICES ASSUME NEW a \in Ids, NEW b \in Ids, a # b,
                        jobs'[a].status = "processing", jobs'[b].status = "processing",
                        jobCoalesceKey(jobs'[a].msg) # NoKey
                 PROVE  jobCoalesceKey(jobs'[a].msg) # jobCoalesceKey(jobs'[b].msg)
      BY DEF OneProcessingRowPerKey, KeyOf
    <2>1. \A j \in Ids : jobs'[j].msg = J[j].msg
      BY <1>5 DEF SameContent
    <2>2. \A j \in Ids : J[j].status = "processing"
                         => jobCoalesceKey(J[i].msg) = NoKey
                            \/ jobCoalesceKey(J[j].msg) # jobCoalesceKey(J[i].msg)
      BY <1>1 DEF KeyBusy, KeyOf
    <2>3. CASE a = i
      BY <1>5, <2>1, <2>2, <2>3
    <2>4. CASE b = i
      BY <1>5, <2>1, <2>2, <2>4
    <2>5. CASE a # i /\ b # i
      <3>1. J[a].status = "processing" /\ J[b].status = "processing"
        BY <1>5, <2>5
      <3>2. /\ jobs[a].status = "processing" /\ jobs[b].status = "processing"
            /\ jobs[a].msg = J[a].msg /\ jobs[b].msg = J[b].msg
        BY <1>2, <3>1 DEF Rescheduled, RowRescheduled, SameContent
      <3> QED
        BY <2>1, <3>2 DEF Inv, OneProcessingRowPerKey, KeyOf
    <2> QED
      BY <2>3, <2>4, <2>5
  <1>15. \A j \in Ids : SameContent(jobs[j], jobs'[j])
    BY <1>2, <1>5 DEF Rescheduled, RowRescheduled, SameContent
  <1>16. RetryBudget'
    <2>1. ASSUME NEW j \in Ids PROVE RowBudget(jobs'[j])
      <3>1. RowBudget(jobs[j]) /\ RowRescheduled(jobs[j], J[j])
        BY <1>2, BudgetByRow DEF Inv, Rescheduled
      <3>2. RowBudget(J[j])
        BY <3>1, WorldTypes, BudgetRescheduled
      <3> QED
        BY <1>1, <1>5, <3>2 DEF RowBudget, SameContent
    <2> QED
      BY <2>1 DEF RetryBudget, RowBudget, Ceiling
  <1>17. NothingLost'
    <2>1. {jobs'[j].covers : j \in Ids} = {jobs[j].covers : j \in Ids}
      BY <1>15 DEF SameContent
    <2> QED
      BY <2>1 DEF Inv, NothingLost
  <1>18. NoStuckDelivery'
    <2>1. ASSUME NEW j \in Live(jobs)
          PROVE  j \in Live(jobs') /\ jobs'[j].ver = jobs[j].ver /\ jobs'[j].msg = jobs[j].msg
      <3>1. J[j].status \in {"pending", "processing"} /\ j \in Ids
        BY <1>2 DEF Live, Rescheduled, RowRescheduled
      <3> QED
        BY <1>5, <1>15, <3>1 DEF Live, SameContent
    <2> QED
      BY <2>1 DEF Inv, NoStuckDelivery
  <1> QED
    BY <1>12, <1>13, <1>14, <1>16, <1>17, <1>18 DEF Inv

\* processOne, up to its first await, keeps the invariant, whether it finds a row or not.
LEMMA ProcessOneInv == ASSUME Inv, NEW w \in Workers, ProcessOne(w) PROVE Inv'
  <1>1. /\ worker[w].phase = "idle" /\ phase = "up" /\ claimSeq' = NextSeq
        /\ UNCHANGED <<phase, budget, hostHigh, sends, queuedEvents, settled, faults>>
    BY DEF ProcessOne
  <1>2. PICK jitter \in [Expired(jobs) -> Jitters] :
          LET J == reclaimExpiredProcessingJobs(jobs, jitter) IN
          \/ \E i \in ForegroundClaim(J) : Claim(w, J, i, FALSE)
          \/ \E i \in BackgroundClaim(J) : Claim(w, J, i, TRUE)
          \/ jobs' = J /\ UNCHANGED <<worker, activeBackground, instCount, lastRepo, pressureCache>>
    BY Zenon DEF ProcessOne
  <1> DEFINE J == reclaimExpiredProcessingJobs(jobs, jitter)
  <1>3. CASE \E i \in ForegroundClaim(J) \cup BackgroundClaim(J), slot \in BOOLEAN : Claim(w, J, i, slot)
    <2> HIDE DEF J
    <2> QED
      BY <1>1, <1>3, ClaimInv DEF J
  <1>4. CASE jobs' = J /\ UNCHANGED <<worker, activeBackground, instCount, lastRepo, pressureCache>>
    <2>1. Rescheduled(jobs, J) /\ \A i \in Ids : i \in ActiveIds => J[i] = jobs[i]
      BY ReclaimReschedules DEF Inv
    <2> HIDE DEF J
    <2>2. LoopsOK'
      BY <1>1, <1>4, NextSeqType DEF Inv, TypeOK, LoopsOK
    <2>3. WorldOK'
      BY <1>1 DEF Inv, TypeOK, WorldOK
    <2>4. ASSUME NEW v \in Busy' PROVE jobs'[worker[v].id].status = "processing"
      <3>1. v \in Busy
        BY <1>4 DEF Busy
      <3>2. worker[v].id \in Ids /\ worker[v].id \in ActiveIds
        BY <3>1, BusyRow DEF ActiveIds
      <3> QED
        BY <1>4, <2>1, <3>2, ActiveRows
    <2> QED
      BY <1>1, <1>4, <2>1, <2>2, <2>3, <2>4, ReschedulingStep
  <1> QED
    BY <1>2, <1>3, <1>4

-----------------------------------------------------------------------------
(* Enqueues                                                                *)

\* What a coalescing UPDATE keeps and what it takes from the message.
LEMMA CoalesceFields ==
  ASSUME NEW row \in Row, NEW m, NEW n, NEW delay, NEW gone
  PROVE  /\ Coalesce(row, m, n, delay, gone).status = row.status
         /\ Coalesce(row, m, n, delay, gone).attempts = row.attempts
         /\ Coalesce(row, m, n, delay, gone).msg = m
         /\ Coalesce(row, m, n, delay, gone).ver = n
         /\ Coalesce(row, m, n, delay, gone).covers = row.covers \cup {n} \cup gone
  BY DEF Coalesce, Row

\* Row i takes a message; the pending rows of gone are deleted for it.  No delivery that stays
\* 'queued' loses its row, and a delivery that is new has row i.
Takes(m, i, gone) ==
  /\ i \in Ids /\ gone \subseteq Ids /\ i \notin gone
  /\ jobs[i].status \in {"pending", "none"} /\ \A j \in gone : jobs[j].status = "pending"
  /\ jobs'[i].status = "pending" /\ jobs'[i].attempts < Ceiling
  /\ jobs'[i].covers = jobs[i].covers \cup {sends + 1} \cup UNION {jobs[j].covers : j \in gone}
  /\ \A j \in Ids : j # i => jobs'[j] = IF j \in gone THEN NoRow ELSE jobs[j]
  /\ \A j \in gone \cup {i} : (jobs[j].status = "pending" /\ jobs[j].msg.type = "github-webhook")
                              => jobs[j].ver \notin queuedEvents' \ {sends + 1}
  /\ m.type = "github-webhook" => jobs'[i].ver = sends + 1 /\ jobs'[i].msg = m

\* Every branch of enqueue gives the message to a row that is not running.
LEMMA EnqueueTakes ==
  ASSUME Inv, NEW m \in Messages, NEW delay \in EnqueueDelays, Enqueue(m, delay)
  PROVE  \E i, gone : Takes(m, i, gone)
  <1> DEFINE n == sends + 1
  <1>1. \A i \in Ids : jobs[i] \in Row /\ (jobs[i].status = "pending" => jobs[i].attempts < Ceiling)
    BY WorldTypes, BudgetByRow DEF Inv, RowBudget
  <1>2. jobs \in [Ids -> Row]
    BY WorldTypes
  <1>3. CASE EnqueueAbsorbed(m)
    <2>1. PICK i \in AbsorbingRows(m) :
            jobs' = [jobs EXCEPT ![i] = [jobs[i] EXCEPT !.covers = jobs[i].covers \cup {n}]]
      BY <1>3 DEF EnqueueAbsorbed
    <2>2. /\ i \in Ids /\ jobs[i].status = "pending" /\ jobs[i].msg.type = "rag-index-repo"
          /\ m.type = "rag-index-repo"
      BY DEF AbsorbingRows, Pending, AbsorbedBy, IsRagIndex
    <2> DEFINE row == [jobs[i] EXCEPT !.covers = jobs[i].covers \cup {n}]
    <2>3. /\ row.status = "pending" /\ row.attempts = jobs[i].attempts
          /\ row.covers = jobs[i].covers \cup {n}
      BY <1>1, <2>2 DEF Row
    <2> HIDE DEF row
    <2>4. jobs'[i] = row /\ \A j \in Ids : j # i => jobs'[j] = jobs[j]
      BY <1>2, <2>1, <2>2 DEF row
    <2>5. Takes(m, i, {})
      BY <1>1, <2>2, <2>3, <2>4 DEF Takes
    <2> QED
      BY <2>5
  <1>4. CASE EnqueueMerged(m, delay)
    <2>1. PICK i \in MergeRows(m) : jobs' = [jobs EXCEPT ![i] =
            [Coalesce(jobs[i], MergedPayload(jobs[i].msg, m), n, delay, {}) EXCEPT !.age = 0]]
      BY <1>4 DEF EnqueueMerged
    <2>2. /\ i \in Ids /\ jobs[i].status = "pending" /\ jobs[i].msg.type = "rag-index-repo"
          /\ m.type = "rag-index-repo"
      BY DEF MergeRows, Preferred, Pending, MergesWith, IsRagIndex
    <2> DEFINE taken == Coalesce(jobs[i], MergedPayload(jobs[i].msg, m), n, delay, {})
               row == [taken EXCEPT !.age = 0]
    <2>3. /\ taken.status = "pending" /\ taken.attempts = jobs[i].attempts
          /\ taken.covers = jobs[i].covers \cup {n} \cup {}
      BY <1>1, <2>2, CoalesceFields
    <2>3a. row.status = taken.status /\ row.attempts = taken.attempts /\ row.covers = taken.covers
      BY DEF Coalesce
    <2> HIDE DEF row, taken
    <2>4. jobs'[i] = row /\ \A j \in Ids : j # i => jobs'[j] = jobs[j]
      BY <1>2, <2>1, <2>2 DEF row, taken
    <2>5. Takes(m, i, {})
      BY <1>1, <2>2, <2>3, <2>3a, <2>4 DEF Takes
    <2> QED
      BY <2>5
  <1>5. CASE EnqueueSuperseding(m, delay)
    <2>1. PICK i \in Preferred(jobs, SupersededRows(m)) :
            LET gone == SupersededRows(m) \ {i} IN
            jobs' = [j \in Ids |->
                       IF j = i THEN Coalesce(jobs[i], m, n, delay,
                                              UNION {jobs[k].covers : k \in gone})
                       ELSE IF j \in gone THEN NoRow ELSE jobs[j]]
      BY <1>5 DEF EnqueueSuperseding
    <2> DEFINE gone == SupersededRows(m) \ {i}
               row == Coalesce(jobs[i], m, n, delay, UNION {jobs[k].covers : k \in gone})
    <2>2. /\ i \in Ids /\ gone \subseteq Ids /\ i \notin gone /\ m.type = "rag-index-repo"
          /\ \A j \in gone \cup {i} :
               jobs[j].status = "pending" /\ jobs[j].msg.type = "rag-index-repo"
      BY DEF SupersededRows, Preferred, Pending, Supersedes, IsRagIndex
    <2>3. /\ row.status = "pending" /\ row.attempts = jobs[i].attempts
          /\ row.covers = jobs[i].covers \cup {n} \cup UNION {jobs[k].covers : k \in gone}
      BY <1>1, <2>2, CoalesceFields
    <2>4. jobs' = [j \in Ids |-> IF j = i THEN row ELSE IF j \in gone THEN NoRow ELSE jobs[j]]
      BY <2>1, Zenon
    <2> HIDE DEF row, gone
    <2>5. /\ jobs'[i] = row
          /\ \A j \in Ids : j # i => jobs'[j] = IF j \in gone THEN NoRow ELSE jobs[j]
      BY <2>2, <2>4
    <2>6. Takes(m, i, gone)
      BY <1>1, <2>2, <2>3, <2>5 DEF Takes
    <2> QED
      BY <2>6
  <1>6. CASE EnqueueCoalesced(m, delay)
    <2>1. PICK i \in Preferred(jobs, SameKeyRows(m)) :
            /\ jobs' = [jobs EXCEPT ![i] = Coalesce(jobs[i], m, n, delay, {})]
            /\ AcceptSend(m, {jobs[i].ver})
      BY <1>6 DEF EnqueueCoalesced
    <2>2. i \in Ids /\ jobs[i].status = "pending"
      BY DEF SameKeyRows, Preferred, Pending
    <2> DEFINE row == Coalesce(jobs[i], m, n, delay, {})
    <2>3. /\ row.status = "pending" /\ row.attempts = jobs[i].attempts /\ row.msg = m /\ row.ver = n
          /\ row.covers = jobs[i].covers \cup {n} \cup {}
      BY <1>1, <2>2, CoalesceFields
    <2> HIDE DEF row
    <2>4. jobs'[i] = row /\ \A j \in Ids : j # i => jobs'[j] = jobs[j]
      BY <1>2, <2>1, <2>2 DEF row
    <2>5. jobs[i].ver \notin queuedEvents' \ {n}
      BY <2>1 DEF AcceptSend
    <2>6. Takes(m, i, {})
      BY <1>1, <2>2, <2>3, <2>4, <2>5 DEF Takes
    <2> QED
      BY <2>6
  <1>7. CASE EnqueueInserted(m, delay)
    <2>1. jobs' = [jobs EXCEPT ![n] = NewRow(m, n, delay)] /\ n \in Ids
      BY <1>7, WorldTypes, QueueAssumption DEF EnqueueInserted, Accepting, Ids
    <2>2. jobs[n].status = "none" /\ jobs[n].covers = {}
      <3>1. n > sends
        BY WorldTypes
      <3>2. jobs[n] = NoRow
        BY <2>1, <3>1 DEF Inv, TypeOK, TableOK
      <3> QED
        BY <3>2 DEF NoRow
    <2>3. /\ NewRow(m, n, delay).status = "pending" /\ NewRow(m, n, delay).attempts = 0
          /\ NewRow(m, n, delay).msg = m /\ NewRow(m, n, delay).ver = n
          /\ NewRow(m, n, delay).covers = {n}
      BY DEF NewRow
    <2>4. jobs'[n] = NewRow(m, n, delay) /\ \A j \in Ids : j # n => jobs'[j] = jobs[j]
      BY <1>2, <2>1
    <2>5. 0 < Ceiling
      BY QueueAssumption DEF Ceiling
    <2>6. Takes(m, n, {})
      BY <2>1, <2>2, <2>3, <2>4, <2>5 DEF Takes
    <2> QED
      BY <2>6
  <1> QED
    BY <1>3, <1>4, <1>5, <1>6, <1>7 DEF Enqueue

\* An enqueue keeps the invariant.
LEMMA EnqueueInv ==
  ASSUME Inv, NEW m \in Messages, NEW delay \in EnqueueDelays, Enqueue(m, delay)
  PROVE  Inv'
  <1>1. TypeOK'
    BY EnqueueType DEF Inv
  <1>2. PICK i, gone : Takes(m, i, gone)
    BY EnqueueTakes
  <1>3. PICK over : AcceptSend(m, over)
    BY Zenon DEF Enqueue, EnqueueAbsorbed, EnqueueMerged, EnqueueSuperseding,
       EnqueueCoalesced, EnqueueInserted
  <1>4. worker' = worker /\ settled' = settled /\ sends' = sends + 1 /\ sends \in Nat
    BY <1>3, WorldTypes DEF AcceptSend
  <1>5. NoRow.status = "none" /\ NoRow.covers = {}
    BY DEF NoRow
  <1>6. OwnedRows' /\ OneProcessingRowPerKey'
    <2>1. \A j \in Ids : jobs[j].status = "processing" => jobs'[j] = jobs[j]
      BY <1>2 DEF Takes
    <2>2. \A j \in Ids : jobs'[j].status = "processing" => jobs'[j] = jobs[j]
      BY <1>2, <1>5 DEF Takes
    <2>3. ASSUME NEW w \in Busy'
          PROVE  /\ jobs'[worker[w].id].status = "processing"
                 /\ SameContent(jobs[worker[w].id], jobs'[worker[w].id])
      <3>1. w \in Busy
        BY <1>4 DEF Busy
      <3>2. worker[w].id \in Ids /\ jobs[worker[w].id].status = "processing"
        BY <3>1, BusyRow
      <3> QED
        BY <2>1, <3>2 DEF SameContent
    <2> QED
      BY <1>1, <1>4, <2>2, <2>3, NoClaim
  <1>7. RetryBudget'
    <2>1. ASSUME NEW j \in Ids PROVE RowBudget(jobs'[j])
      <3>1. RowBudget(jobs[j])
        BY BudgetByRow DEF Inv
      <3> QED
        BY <1>2, <1>5, <3>1 DEF Takes, RowBudget
    <2> QED
      BY <2>1 DEF RetryBudget, RowBudget, Ceiling
  <1>8. NothingLost'
    <2>1. UNION {jobs'[j].covers : j \in Ids} = {sends + 1} \cup UNION {jobs[j].covers : j \in Ids}
      BY <1>2, <1>5 DEF Takes
    <2>2. 1 .. sends' = (1 .. sends) \cup {sends + 1}
      BY <1>4
    <2> QED
      BY <1>4, <2>1, <2>2 DEF Inv, NothingLost
  <1>9. NoStuckDelivery'
    <2> SUFFICES ASSUME NEW x \in queuedEvents'
                 PROVE  \E j \in Live(jobs') :
                          jobs'[j].ver = x /\ jobs'[j].msg.type = "github-webhook"
      BY DEF NoStuckDelivery
    <2>1. CASE x = sends + 1
      <3>1. m.type = "github-webhook"
        <4>1. x \notin queuedEvents
          BY <1>4, <2>1 DEF Inv, TypeOK, WorldOK
        <4> QED
          BY <1>3, <4>1 DEF AcceptSend
      <3>2. i \in Live(jobs') /\ jobs'[i].ver = x /\ jobs'[i].msg = m
        BY <1>2, <2>1, <3>1 DEF Takes, Live
      <3> QED
        BY <3>1, <3>2
    <2>2. CASE x # sends + 1
      <3>1. x \in queuedEvents
        BY <1>3, <2>2 DEF AcceptSend
      <3>2. PICK j \in Live(jobs) : jobs[j].ver = x /\ jobs[j].msg.type = "github-webhook"
        BY <3>1 DEF Inv, NoStuckDelivery
      <3>3. j # i /\ j \notin gone
        BY <1>2, <2>2, <3>2 DEF Takes, Live
      <3>4. j \in Ids /\ jobs'[j] = jobs[j]
        BY <1>2, <3>2, <3>3 DEF Takes, Live
      <3> QED
        BY <3>2, <3>4 DEF Live
    <2> QED
      BY <2>1, <2>2
  <1> QED
    BY <1>1, <1>6, <1>7, <1>8, <1>9 DEF Inv

-----------------------------------------------------------------------------
(* Theorems                                                                *)

\* The empty queue of a process that has just been installed.
LEMMA Initially == Init => Inv
  <1> SUFFICES ASSUME Init PROVE Inv
    OBVIOUS
  <1>1. /\ NoRow \in Row /\ NoRow.status = "none" /\ NoRow.covers = {}
        /\ NoJob \in Job /\ NoJob.phase = "idle"
    BY EmptyType DEF NoRow, NoJob
  <1>2. \A i \in Ids : jobs[i] = NoRow
    BY DEF Init
  <1>3. \A w \in Workers : worker[w] = NoJob
    BY DEF Init
  <1>4. TypeOK
    <2>1. TableOK
      BY <1>1, <1>2 DEF Init, TableOK
    <2>2. LoopsOK
      BY <1>1, <1>3 DEF Init, LoopsOK
    <2>3. WorldOK
      <3>1. hostHigh \in BOOLEAN /\ budget \in [AdmissionKeys -> {"ok", "low", "out"}]
        BY DEF Init
      <3>2. sends \in 0 .. MaxSends /\ faults \in 0 .. MaxFaults
        BY QueueAssumption DEF Init
      <3> QED
        BY <3>1, <3>2 DEF Init, WorldOK
    <2> QED
      BY <2>1, <2>2, <2>3 DEF TypeOK
  <1>5. Busy = {}
    BY <1>1, <1>3 DEF Busy
  <1>6. OwnedRows /\ OneProcessingRowPerKey /\ RetryBudget
    BY <1>1, <1>2, <1>5 DEF OwnedRows, OneProcessingRowPerKey, RetryBudget
  <1>7. NothingLost
    <2>1. \A i \in Ids : jobs[i].covers = {}
      BY <1>1, <1>2
    <2>2. UNION {jobs[i].covers : i \in Ids} = {}
      BY <2>1
    <2> QED
      BY <2>2 DEF NothingLost, Init
  <1>8. NoStuckDelivery
    BY DEF Init, NoStuckDelivery
  <1> QED
    BY <1>4, <1>6, <1>7, <1>8 DEF Inv

\* Every step of the queue keeps the invariant.
LEMMA Inductive == Inv /\ [Next]_vars => Inv'
  <1> SUFFICES ASSUME Inv, [Next]_vars PROVE Inv'
    OBVIOUS
  <1>1. ASSUME NEW m \in Messages, NEW delay \in EnqueueDelays, Enqueue(m, delay) PROVE Inv'
    BY <1>1, EnqueueInv
  <1>2. ASSUME NEW w \in Workers, ProcessOne(w) PROVE Inv'
    BY <1>2, ProcessOneInv
  <1>3. ASSUME NEW w \in Workers, FinishDefer(w) PROVE Inv'
    BY <1>3, FinishDeferInv
  <1>4. ASSUME NEW w \in Workers, FinishConsume(w) PROVE Inv'
    BY <1>4, SucceedsInv, ContendedInv, RateLimitedInv, FailsInv DEF FinishConsume
  <1>5. ASSUME NEW w \in Workers, DriverFault(w) PROVE Inv'
    BY <1>5, DriverFaultInv
  <1>6. CASE ReviveDeadLetterJobs
    BY <1>6, ReviveInv
  <1>7. CASE ReleaseStaleForegroundDeferrals
    BY <1>7, LivenessSweepInv
  <1>8. ASSUME NEW i \in Ids, ReplayDeadLetterJob(i) PROVE Inv'
    BY <1>8, ReplayInv
  <1>9. ASSUME NEW i \in Ids, DeleteDeadLetterJob(i) PROVE Inv'
    BY <1>9, DiscardInv DEF DeleteDeadLetterJob
  <1>10. CASE PurgeDeadLetterJobs
    BY <1>10, DiscardInv DEF PurgeDeadLetterJobs
  <1>11. CASE Stop \/ Exit \/ Crash \/ Boot
    BY <1>11, StopInv, ExitInv, CrashInv, BootInv
  <1>12. ASSUME NEW k \in AdmissionKeys, NEW level \in BudgetLevels, ChangeBudget(k, level) PROVE Inv'
    BY <1>12, BudgetInv
  <1>13. ASSUME NEW h \in HostLoads, ChangeHost(h) PROVE Inv'
    BY <1>13, HostInv
  <1>14. CASE CacheExpires \/ Tick
    BY <1>14, CacheInv, TickInv
  <1>15. CASE UNCHANGED vars
    BY <1>15, StutterInv
  <1> QED
    BY <1>1, <1>2, <1>3, <1>4, <1>5, <1>6, <1>7, <1>8, <1>9, <1>10, <1>11, <1>12, <1>13, <1>14,
       <1>15 DEF Next

\* The invariant holds always.
THEOREM Invariance == Spec => []Inv
  BY Initially, Inductive, PTL DEF Spec

\* Every variable of the queue keeps its type.
THEOREM TypeCorrect == Spec => []TypeOK
  <1>1. Inv => TypeOK
    BY DEF Inv
  <1> QED
    BY <1>1, Invariance, PTL

\* A job in flight owns its row, whatever enqueues, sweeps, reclaims and restarts do meanwhile, so
\* the writes of processOne that say WHERE id=? alone never touch a row of somebody else.
THEOREM JobsOwnTheirRows == Spec => []OwnedRows
  <1>1. Inv => OwnedRows
    BY DEF Inv
  <1> QED
    BY <1>1, Invariance, PTL

\* Two jobs of one key never run at the same time: both rows would be 'processing', and
\* claimNextWhere lets at most one row of a key be that.
THEOREM Exclusion == Spec => []KeyExclusion
  <1>1. Inv => KeyExclusion
    <2> SUFFICES ASSUME Inv, NEW v \in Busy, NEW w \in Busy, v # w,
                        jobCoalesceKey(worker[v].msg) # NoKey
                 PROVE  jobCoalesceKey(worker[v].msg) # jobCoalesceKey(worker[w].msg)
      BY DEF KeyExclusion
    <2>1. /\ worker[v].id \in Ids /\ worker[w].id \in Ids /\ worker[v].id # worker[w].id
          /\ jobs[worker[v].id].status = "processing" /\ jobs[worker[w].id].status = "processing"
          /\ jobs[worker[v].id].msg = worker[v].msg /\ jobs[worker[w].id].msg = worker[w].msg
      BY BusyRow
    <2> QED
      BY <2>1 DEF Inv, OneProcessingRowPerKey, KeyOf
  <1> QED
    BY <1>1, Invariance, PTL

\* No row runs beyond its retries and automatic revivals, and none dies before its retries are used.
THEOREM WithinBudget == Spec => []RetryBudget
  <1>1. Inv => RetryBudget
    BY DEF Inv
  <1> QED
    BY <1>1, Invariance, PTL

\* No accepted message is lost by coalescing, merging, superseding, folding, sweeps or restarts.
THEOREM Lossless == Spec => []NothingLost
  <1>1. Inv => NothingLost
    BY DEF Inv
  <1> QED
    BY <1>1, Invariance, PTL

\* A webhook delivery that is shown as 'queued' has a row that will still run with its payload.
THEOREM DeliveriesTracked == Spec => []NoStuckDelivery
  <1>1. Inv => NoStuckDelivery
    BY DEF Inv
  <1> QED
    BY <1>1, Invariance, PTL

=============================================================================
