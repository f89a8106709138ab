----------------------------- MODULE SqliteQueue -----------------------------
(***************************************************************************)
(* The self-host durable job queue on SQLite: createSqliteQueue of         *)
(* src/selfhost/sqlite-queue.ts.                                           *)
(*                                                                         *)
(* One Node process owns the table.  node:sqlite is synchronous, so the    *)
(* code between two awaits is one step, and an action here is exactly one  *)
(* such stretch: an enqueue, the claim half of processOne (up to its first *)
(* await), the half that runs when an admission deferral or a consume      *)
(* settles, a timer sweep, an operator's dead-letter request, a shutdown   *)
(* or a boot.  Up to |Workers| pump loops interleave between those steps.  *)
(*                                                                         *)
(* Time is kept relative to now, so that it needs no horizon: run_after is *)
(* "from now" (a lease counts down from 0), age is how long ago created_at *)
(* was, saturating at MaxAge.  Tick is one unit of it.  job_key and        *)
(* foreground_lane are functions of the payload in every write the code    *)
(* makes, so they are computed from it.  Rows the claim orders by          *)
(* claim_sort_key, run_after and id within one priority are claimed in any *)
(* order.  The length of a retry delay and of a jitter is any member of    *)
(* RetryDelays and Jitters.                                                *)
(***************************************************************************)
EXTENDS JobCatalog, Integers, FiniteSets

CONSTANTS
  Workers,               \* the pump loops: concurrency of them
  BackgroundConcurrency, \* how many may run background jobs at once
  MaxRetries,            \* maxRetries
  ExtraAttempts,         \* queueDeadLetterAutoRetryMaxExtraAttempts
  Messages,              \* what producers may send
  EnqueueDelays,         \* the delaySeconds they may send it with
  RetryDelays,           \* backoff, retry-after and admission deferral delays
  Jitters,               \* recovery and startup jitter
  Outcomes,              \* how a consume may settle
  BudgetLevels,          \* GitHub budget readings: "ok", "low" (background floor), "out"
  HostLoads,             \* the host readings that occur: load or memory high, or not
  InstLimit,             \* maxConcurrentPerInstallation
  ProcessingTimeout,     \* processingTimeoutMs
  MaxAge,                \* where ages saturate
  MaxDeferAge,           \* foreground liveness maxDeferMs
  AttemptFreeAge,        \* ATTEMPT_FREE_RETRY_DEADLINE_MS
  MaxStarveAge,          \* DEFAULT_FOREGROUND_LANE_MAX_STARVE_AGE_MS
  TrickleAge,            \* maintenance maxDeferAgeMs
  DrainAge,              \* maintenanceDrainAgeMs
  MaxLiveAge,            \* maintenance maxLiveJobAgeMs
  MaxLiveRunnable,       \* maintenance maxLivePendingCount
  MaxBacklogPending,     \* maintenance maxBacklogConvergencePendingCount
  MaxMaintenancePending, \* maintenance maxMaintenancePendingCount
  MaxReleasePerSweep,    \* foreground liveness maxReleasePerSweep
  StartupMinJobs,        \* queueStartupJitterMinJobs
  BacklogPer, FreshPer,  \* DEFAULT_FOREGROUND_LANE_RATIO
  MaxSends,              \* bound: messages accepted in one behaviour
  MaxFaults              \* bound: crashes, shutdowns, driver faults and replays in one behaviour

\* What the environment of the queue can be configured to; every default satisfies it.
ASSUME QueueAssumption ==
  /\ MaxRetries \in Nat \ {0} /\ ExtraAttempts \in Nat /\ BackgroundConcurrency \in Nat
  /\ Messages \subseteq Msg
  /\ EnqueueDelays \subseteq Nat /\ RetryDelays \subseteq Nat /\ Jitters \subseteq Nat
  /\ InstLimit \in Nat \ {0} /\ BudgetLevels \subseteq {"ok", "low", "out"} /\ HostLoads \subseteq BOOLEAN
  /\ Outcomes \subseteq {"success", "contended", "rate_limited", "error"}
  /\ MaxSends \in Nat /\ MaxFaults \in Nat
  /\ MaxAge \in Nat /\ ProcessingTimeout \in Nat \ {0}
  /\ BacklogPer \in Nat \ {0} /\ FreshPer \in Nat \ {0}

\* The pump loops are so many that concurrency counts them.
ASSUME WorkersAssumption == IsFiniteSet(Workers)

VARIABLES
  jobs,             \* _selfhost_jobs, by id; a row that does not exist has status "none"
  worker,           \* what each pump loop is in the middle of (activeJobIds is its ids)
  activeBackground, \* background slots reserved
  instCount,        \* InstallationConcurrencyTracker
  claimSeq,         \* claim_sequence, modulo its period
  lastRepo,         \* last_backlog_repo
  pressureCache,    \* cachedPressureSignals
  phase,            \* the process: "up", "draining" (stop() waits) or "down"
  budget,           \* the governing GitHub reading of each admission key
  hostHigh,         \* whether host load or memory is above its threshold
  sends,            \* messages accepted so far; a new row takes this number as its id
  queuedEvents,     \* deliveries whose webhook_events row is still 'queued'
  settled,          \* history: sends consumed to success, or discarded by an operator
  faults            \* faults so far

vars == <<jobs, worker, activeBackground, instCount, claimSeq, lastRepo, pressureCache,
          phase, budget, hostHigh, sends, queuedEvents, settled, faults>>

Ids == 1 .. MaxSends
AdmissionKeys == Installations \cup {"none", "public"}
Gates == {"rate_limit", "maintenance_admission", "installation_concurrency"}

\* An age passes every threshold at MaxAge, so saturating it there loses nothing.
ASSUME MaxAgeAssumption ==
  \A a \in {MaxDeferAge, AttemptFreeAge, MaxStarveAge, TrickleAge, DrainAge} : a \in 0 .. MaxAge

\* A row of the table.  ver is the send its payload came from.  covers and notBefore are history:
\* the sends the row stands for, and how much of the delay its producer asked for is left.
Row == [status : {"none", "pending", "processing", "dead"}, msg : Msg, ver : Nat,
        attempts : Nat, run_after : Int, age : Nat, priority : Nat,
        deferred_by : Gates \cup {"none", "lock_contended"},
        covers : SUBSET Ids, notBefore : Nat]

NoMsg == [type |-> "none", repo |-> 0, pr |-> 0, family |-> "none", origin |-> "none",
          inst |-> "none", paths |-> {}, scope |-> "none"]
NoRow == [status |-> "none", msg |-> NoMsg, ver |-> 0, attempts |-> 0, run_after |-> 0,
          age |-> 0, priority |-> 0, deferred_by |-> "none", covers |-> {}, notBefore |-> 0]

\* The JobRow processOne works on, copied when it was claimed, and how far it has come.
Job == [id : Nat, msg : Msg, ver : Nat, covers : SUBSET Ids, attempts : Nat,
        slot : BOOLEAN, inst : Installations \cup {"none"}, phase : Gates \cup {"idle", "consuming"}]
NoJob == [id |-> 0, msg |-> NoMsg, ver |-> 0, covers |-> {}, attempts |-> 0,
          slot |-> FALSE, inst |-> "none", phase |-> "idle"]

Max2(a, b) == IF a >= b THEN a ELSE b
Min2(a, b) == IF a <= b THEN a ELSE b

\* Every UPDATE that makes a row claimable d from now: as it was, or tagged with what deferred it.
Repend(row, d) == [row EXCEPT !.status = "pending", !.run_after = d]
Defer(row, d, tag) == [row EXCEPT !.status = "pending", !.run_after = d, !.deferred_by = tag]
\* The claiming UPDATE: run_after becomes the moment of the claim, from which the lease counts.
Leased(row) == [row EXCEPT !.status = "processing", !.run_after = 0]
\* coalesce(deferred_by, tag)
Tagged(row, tag) == IF row.deferred_by = "none" THEN tag ELSE row.deferred_by

KeyOf(J, i) == jobCoalesceKey(J[i].msg)
Live(J) == {i \in Ids : J[i].status \in {"pending", "processing"}}
Pending(J) == {i \in Ids : J[i].status = "pending"}
Busy == {w \in Workers : worker[w].phase # "idle"}
ActiveIds == {worker[w].id : w \in Busy}

Init ==
  /\ jobs = [i \in Ids |-> NoRow]
  /\ worker = [w \in Workers |-> NoJob]
  /\ activeBackground = 0
  /\ instCount = [k \in Installations |-> 0]
  /\ claimSeq = 0 /\ lastRepo = 0 /\ pressureCache = {}
  /\ phase = "up"
  /\ budget = [k \in AdmissionKeys |-> "ok"]
  /\ hostHigh = FALSE
  /\ sends = 0 /\ queuedEvents = {} /\ settled = {} /\ faults = 0

-----------------------------------------------------------------------------
(* enqueue                                                                 *)

\* ORDER BY priority DESC, run_after DESC: the rows an enqueue may pick as "the" existing one.
Preferred(J, S) ==
  {i \in S : \A j \in S : \/ J[i].priority > J[j].priority
                          \/ J[i].priority = J[j].priority /\ J[i].run_after >= J[j].run_after}

\* The columns every coalescing UPDATE writes; created_at is not one of them.
Coalesce(row, m, n, delay, gone) ==
  [row EXCEPT !.msg = m, !.ver = n,
              !.run_after = Max2(@, delay), !.priority = Max2(@, jobPriority(m)),
              !.deferred_by = "none",
              !.covers = @ \cup {n} \cup gone, !.notBefore = Max2(@, delay)]

Accepting == phase # "down" /\ sends < MaxSends

\* The message is accepted as send number sends + 1.  The webhook handler has just recorded a
\* github-webhook delivery as 'queued'; over is the delivery markSupersededWebhookEvent closes.
AcceptSend(m, over) ==
  /\ sends' = sends + 1
  /\ queuedEvents' = (queuedEvents \ over)
                     \cup (IF m.type = "github-webhook" THEN {sends + 1} ELSE {})
  /\ UNCHANGED <<worker, activeBackground, instCount, claimSeq, lastRepo, pressureCache,
                 phase, budget, hostHigh, settled, faults>>

\* Mutation: a full index that is already running absorbs the message too.
AbsorbingRowsOfAnyStatus(m) == {i \in Live(jobs) : AbsorbedBy(m, jobs[i].msg)}
AbsorbingRows(m) == {i \in Pending(jobs) : AbsorbedBy(m, jobs[i].msg)}
MergeRows(m) == Preferred(jobs, {i \in Pending(jobs) : MergesWith(m, jobs[i].msg)})
SupersededRows(m) == {i \in Pending(jobs) : Supersedes(m, jobs[i].msg)}
SameKeyRows(m) == {i \in Pending(jobs) : jobCoalesceKey(m) # NoKey
                                         /\ KeyOf(jobs, i) = jobCoalesceKey(m)}

\* No earlier branch of enqueue has returned: nothing absorbs m, no merge candidate fits.
Unmerged(m) == /\ AbsorbingRows(m) = {}
               /\ MergeRows(m) = {} \/ \E i \in MergeRows(m) : ~MergeFits(jobs[i].msg, m)

\* A pending full index already covers this incremental one: the message is dropped.
EnqueueAbsorbed(m) ==
  /\ Accepting
  /\ \E i \in AbsorbingRows(m) : jobs' = [jobs EXCEPT ![i].covers = @ \cup {sends + 1}]
  /\ AcceptSend(m, {})

\* Two incremental indexes become one row, whose created_at is overwritten with now.
EnqueueMerged(m, delay) ==
  /\ Accepting /\ AbsorbingRows(m) = {}
  /\ \E i \in MergeRows(m) :
       /\ MergeFits(jobs[i].msg, m)
       /\ jobs' = [jobs EXCEPT ![i] =
            [Coalesce(@, MergedPayload(@.msg, m), sends + 1, delay, {}) EXCEPT !.age = 0]]
  /\ AcceptSend(m, {})

\* A full index takes over one pending index of its repository and deletes the others.
EnqueueSuperseding(m, delay) ==
  /\ Accepting /\ Unmerged(m)
  /\ \E i \in Preferred(jobs, SupersededRows(m)) :
       LET gone == SupersededRows(m) \ {i} IN
       jobs' = [j \in Ids |->
                  IF j = i THEN Coalesce(jobs[i], m, sends + 1, delay,
                                         UNION {jobs[k].covers : k \in gone})
                  ELSE IF j \in gone THEN NoRow ELSE jobs[j]]
  /\ AcceptSend(m, {})

\* Mutation: markSupersededWebhookEvent is not called.
EnqueueCoalescedUnmarked(m, delay) ==
  /\ Accepting /\ Unmerged(m) /\ SupersededRows(m) = {}
  /\ \E i \in Preferred(jobs, SameKeyRows(m)) :
       /\ jobs' = [jobs EXCEPT ![i] = Coalesce(@, m, sends + 1, delay, {})]
       /\ AcceptSend(m, {})

\* A pending row of the same key takes the new payload, keeping its attempts and created_at.
EnqueueCoalesced(m, delay) ==
  /\ Accepting /\ Unmerged(m) /\ SupersededRows(m) = {}
  /\ \E i \in Preferred(jobs, SameKeyRows(m)) :
       /\ jobs' = [jobs EXCEPT ![i] = Coalesce(@, m, sends + 1, delay, {})]
       /\ AcceptSend(m, {jobs[i].ver})

NewRow(m, n, delay) ==
  [status |-> "pending", msg |-> m, ver |-> n, attempts |-> 0, run_after |-> delay, age |-> 0,
   priority |-> jobPriority(m), deferred_by |-> "none", covers |-> {n}, notBefore |-> delay]

EnqueueInserted(m, delay) ==
  /\ Accepting /\ Unmerged(m) /\ SupersededRows(m) = {} /\ SameKeyRows(m) = {}
  /\ jobs' = [jobs EXCEPT ![sends + 1] = NewRow(m, sends + 1, delay)]
  /\ AcceptSend(m, {})

Enqueue(m, delay) ==
  \/ EnqueueAbsorbed(m)
  \/ EnqueueMerged(m, delay)
  \/ EnqueueSuperseding(m, delay)
  \/ EnqueueCoalesced(m, delay)
  \/ EnqueueInserted(m, delay)

-----------------------------------------------------------------------------
(* claimNext                                                               *)

Due(J) == {i \in Pending(J) : J[i].run_after <= 0}
Foreground(J, i) == isForegroundJobPriority(J[i].priority)
Lane(J, i) == foregroundLaneForJob(J[i].msg)

\* Mutation: the NOT EXISTS of claimNextWhere is forgotten.
KeyNeverBusy(J, i) == FALSE

\* claimNextWhere: due, no row of the same key processing; the highest priority first.
KeyBusy(J, i) == KeyOf(J, i) # NoKey /\ \E p \in Ids : J[p].status = "processing"
                                                      /\ KeyOf(J, p) = KeyOf(J, i)
claimNextWhere(J, S) ==
  LET free == {i \in Due(J) \cap S : ~KeyBusy(J, i)} IN
  {i \in free : \A j \in free : J[i].priority >= J[j].priority}

FairnessWindow == BacklogPer + FreshPer
nextForegroundLane(seq) == IF seq % FairnessWindow < BacklogPer THEN "backlog" ELSE "fresh"
\* claim_sequence matters modulo the lane cycle and modulo the cycle of unscoped slots.
NextSeq == (claimSeq + 1) % (FairnessWindow * (FairnessWindow + 1))

DueInLane(J, lane) == {i \in Due(J) : Lane(J, i) = lane}

\* Mutation: the age escape of the gate is forgotten.
LaneGateWithoutEscape(J, lane) ==
  {i \in DueInLane(J, lane) : /\ Foreground(J, i)
                              /\ \A u \in DueInLane(J, "none") :
                                   Foreground(J, u) => J[i].priority > J[u].priority}

\* lanePriorityGate: beat every due unclassified foreground row, unless the lane has starved.
LaneGate(J, lane) ==
  LET unclassified == {i \in DueInLane(J, "none") : Foreground(J, i)}
      starved == \E i \in DueInLane(J, lane) : J[i].age >= MaxStarveAge
  IN {i \in DueInLane(J, lane) :
        IF unclassified = {} \/ starved THEN Foreground(J, i)
        ELSE \A u \in unclassified : J[i].priority > J[u].priority}

\* pickBacklogRepo: repositories by their oldest due backlog row, round robin after lastRepo.
\* Foreground rows never have their created_at rewritten, so the older row is the one of lower id.
BacklogRows(J) == {i \in DueInLane(J, "backlog") : KeyOf(J, i) # NoKey}
BacklogRepos(J) == {J[i].msg.repo : i \in BacklogRows(J)}
pickBacklogRepo(J) ==
  LET repos == BacklogRepos(J)
      before(r, q) == \E i \in BacklogRows(J) : /\ J[i].msg.repo = r
                                                /\ \A j \in BacklogRows(J) : J[j].msg.repo = q => i < j
      later == {r \in repos : lastRepo \in repos /\ before(lastRepo, r)}
      turn == IF later = {} THEN repos ELSE later
  IN CHOOSE r \in turn : \A q \in turn \ {r} : before(r, q)

\* claimNextForegroundLane: the row the lane of this cycle would claim; none in an unscoped slot.
claimNextForegroundLane(J) ==
  IF claimSeq % (FairnessWindow + 1) = FairnessWindow THEN {}
  ELSE IF nextForegroundLane(claimSeq) = "fresh" THEN claimNextWhere(J, LaneGate(J, "fresh"))
  ELSE IF BacklogRepos(J) = {} THEN {}
  ELSE claimNextWhere(J, {i \in LaneGate(J, "backlog") : J[i].msg.repo = pickBacklogRepo(J)})

ForegroundClaim(J) ==
  IF claimNextForegroundLane(J) # {} THEN claimNextForegroundLane(J)
  ELSE claimNextWhere(J, {i \in Ids : Foreground(J, i)})
BackgroundClaim(J) ==
  IF activeBackground < BackgroundConcurrency
  THEN claimNextWhere(J, {i \in Ids : ~Foreground(J, i)}) ELSE {}

-----------------------------------------------------------------------------
(* The three admission gates.                                              *)

\* githubObservedRateLimitDelayMs: the webhook floor blocks only on "out", the background one (the
\* reserved headroom) already on "low".
BelowFloor(kind, level) == level = "out" \/ (kind = "background" /\ level = "low")

\* githubRateLimitAdmissionDelayMs: the governing reading (the newest of the key's own, else the
\* unkeyed fallback) against the floor of the kind.
AdmissionDelayed(target) == BelowFloor(target.kind, budget[target.key])

\* rateLimitAdmissionDelayMs: whether the gate defers m.
RateLimited(m) == LET target == githubRateLimitAdmissionTargetForJob(m) IN
                  target # NoTarget /\ AdmissionDelayed(target)

\* maintenancePressureSignals, reduced to what evaluateMaintenanceAdmission compares.
PressureSignals(J) ==
  LET foreground == {i \in Live(J) : Foreground(J, i)}
      runnable == {i \in foreground : J[i].status = "processing" \/ J[i].run_after <= 0}
      backlog == {i \in Live(J) : Lane(J, i) = "backlog"}
      maintenance == {i \in Live(J) : isMaintenanceJobType(J[i].msg.type)}
  IN [live |-> \/ Cardinality(runnable) > MaxLiveRunnable
               \/ \E i \in Due(J) \cap foreground : J[i].age > MaxLiveAge
               \/ Cardinality(backlog) > MaxBacklogPending,
      pending |-> Cardinality(maintenance) > MaxMaintenancePending,
      host |-> hostHigh]

\* getMaintenancePressureSignals: one reading is reused until its TTL, less than a Tick, is over.
CachedSignals(J) == IF pressureCache = {} THEN PressureSignals(J)
                    ELSE CHOOSE s \in pressureCache : TRUE

\* evaluateMaintenanceAdmission: the age escape first, then each pressure signal in turn.
evaluateMaintenanceAdmission(s, age) ==
  \/ age >= TrickleAge
  \/ /\ ~s.live /\ ~s.host
     /\ s.pending => age >= DrainAge

evaluateInstallationConcurrencyAdmission(currentCount) == ~(currentCount >= InstLimit)

SubjectToMaintenance(J, i) == ~Foreground(J, i) /\ isMaintenanceJobType(J[i].msg.type)

\* The gate that defers the claimed row i, or "consuming" when all three admit it.
Admission(J, i) ==
  LET m == J[i].msg
      inst == installationConcurrencyKeyForJob(m)
  IN IF RateLimited(m) THEN "rate_limit"
     ELSE IF SubjectToMaintenance(J, i)
             /\ ~evaluateMaintenanceAdmission(CachedSignals(J), J[i].age)
          THEN "maintenance_admission"
     ELSE IF inst # "none" /\ ~evaluateInstallationConcurrencyAdmission(instCount[inst]) THEN "installation_concurrency"
     ELSE "consuming"

-----------------------------------------------------------------------------
(* processOne, up to its first await                                       *)

\* Mutation: the activeJobIds check is forgotten.
ExpiredEvenIfActive(J) == {i \in Ids : /\ J[i].status = "processing"
                                       /\ J[i].run_after <= -ProcessingTimeout}

\* A lease that ran out, of a job no pump loop of this process is running.
Expired(J) == {i \in Ids : /\ J[i].status = "processing"
                           /\ J[i].run_after <= -ProcessingTimeout
                           /\ i \notin ActiveIds}
reclaimExpiredProcessingJobs(J, jitter) ==
  [i \in Ids |-> IF i \in Expired(J) THEN Repend(J[i], jitter[i]) ELSE J[i]]

\* Row i is claimed, passes or fails the gates, and is counted, in one synchronous stretch.
Claim(w, J, i, slot) ==
  LET claimed == [J EXCEPT ![i] = Leased(@)]
      gate == Admission(claimed, i)
      inst == IF gate = "consuming" THEN installationConcurrencyKeyForJob(J[i].msg) ELSE "none"
      byBacklog == ~slot /\ i \in claimNextForegroundLane(J)
                   /\ nextForegroundLane(claimSeq) = "backlog"
  IN /\ jobs' = claimed
     /\ worker' = [worker EXCEPT ![w] =
          [id |-> i, msg |-> J[i].msg, ver |-> J[i].ver, covers |-> J[i].covers,
           attempts |-> J[i].attempts, slot |-> slot, inst |-> inst, phase |-> gate]]
     /\ activeBackground' = IF slot THEN activeBackground + 1 ELSE activeBackground
     /\ instCount' = IF inst = "none" THEN instCount ELSE [instCount EXCEPT ![inst] = @ + 1]
     /\ lastRepo' = IF byBacklog THEN J[i].msg.repo ELSE lastRepo
     /\ pressureCache' = IF SubjectToMaintenance(J, i) /\ ~RateLimited(J[i].msg)
                         THEN {CachedSignals(claimed)} ELSE pressureCache

\* claimNext: foreground first; background only while a background slot is free.
ProcessOne(w) ==
  /\ phase = "up" /\ worker[w].phase = "idle"
  /\ \E jitter \in [Expired(jobs) -> Jitters] :
       LET J == reclaimExpiredProcessingJobs(jobs, jitter) IN
       \/ \E i \in ForegroundClaim(J) : Claim(w, J, i, FALSE)
       \/ /\ ForegroundClaim(J) = {}
          /\ \E i \in BackgroundClaim(J) : Claim(w, J, i, TRUE)
       \/ /\ ForegroundClaim(J) = {} /\ BackgroundClaim(J) = {}
          /\ jobs' = J
          /\ UNCHANGED <<worker, activeBackground, instCount, lastRepo, pressureCache>>
  /\ claimSeq' = NextSeq
  /\ UNCHANGED <<phase, budget, hostHigh, sends, queuedEvents, settled, faults>>

-----------------------------------------------------------------------------
(* processOne, once its await has settled.  Its writes say WHERE id=? and  *)
(* nothing about the status.                                               *)

\* Mutation: a slot is given back by every job, reserved or not, and not clamped at zero.
ReleaseUnreserved(w) ==
  /\ worker' = [worker EXCEPT ![w] = NoJob]
  /\ activeBackground' = activeBackground - 1
  /\ instCount' = IF worker[w].inst = "none" THEN instCount
                  ELSE [instCount EXCEPT ![worker[w].inst] = Max2(0, @ - 1)]
  /\ UNCHANGED <<claimSeq, lastRepo, pressureCache, phase, budget, hostHigh, sends>>

\* Mutation: the installation tracker is not decremented.
ReleaseWithoutDecrement(w) ==
  /\ worker' = [worker EXCEPT ![w] = NoJob]
  /\ activeBackground' = IF worker[w].slot THEN Max2(0, activeBackground - 1)
                                           ELSE activeBackground
  /\ UNCHANGED <<instCount, claimSeq, lastRepo, pressureCache, phase, budget, hostHigh, sends>>

\* The finally block: activeJobIds, the background slot, the installation tracker.
Release(w) ==
  /\ worker' = [worker EXCEPT ![w] = NoJob]
  /\ activeBackground' = IF worker[w].slot THEN Max2(0, activeBackground - 1)
                                           ELSE activeBackground
  /\ instCount' = IF worker[w].inst = "none" THEN instCount
                  ELSE [instCount EXCEPT ![worker[w].inst] = Max2(0, @ - 1)]
  /\ UNCHANGED <<claimSeq, lastRepo, pressureCache, phase, budget, hostHigh, sends>>

\* The deferral UPDATE of an admission gate: no attempt is charged.
FinishDefer(w) ==
  /\ worker[w].phase \in Gates
  /\ \E d \in RetryDelays :
       jobs' = [jobs EXCEPT ![worker[w].id] =
                  Defer(@, Max2(@.run_after, d), Tagged(@, worker[w].phase))]
  /\ Release(w)
  /\ UNCHANGED <<queuedEvents, settled, faults>>

\* The consumer records a delivery as processed or failed before it returns; here it counts as
\* 'queued' until the job settles, which is later, so NoStuckDelivery asks no less of the queue.
Consumed(w) ==
  /\ worker[w].phase = "consuming"
  /\ queuedEvents' = queuedEvents \ {worker[w].ver}
  /\ Release(w)
  /\ UNCHANGED faults

ConsumeSucceeds(w) ==
  /\ "success" \in Outcomes
  /\ Consumed(w)
  /\ jobs' = [jobs EXCEPT ![worker[w].id] = NoRow]
  /\ settled' = settled \cup worker[w].covers

\* isAttemptFreeRetry and its deadline: another pass holds the PR's actuation lock, and the job is
\* still young enough to wait for it without being charged an attempt.
AttemptFree(row) == row.age < AttemptFreeAge

\* Mutation: the age bound is forgotten.
ConsumeContendedForEver(w) ==
  /\ "contended" \in Outcomes
  /\ Consumed(w)
  /\ \E d \in RetryDelays :
       jobs' = [jobs EXCEPT ![worker[w].id] = Defer(@, d, "lock_contended")]
  /\ UNCHANGED settled

ConsumeContended(w) ==
  /\ "contended" \in Outcomes
  /\ Consumed(w)
  /\ AttemptFree(jobs[worker[w].id])
  /\ \E d \in RetryDelays :
       jobs' = [jobs EXCEPT ![worker[w].id] = Defer(@, d, "lock_contended")]
  /\ UNCHANGED settled

\* deferPendingJobsForRateLimit: rows of the exhausted budget that would be due before it resets.
SweptByRateLimit(m, delay) ==
  LET blocked == githubRateLimitAdmissionTargetForJob(m) IN
  {i \in Pending(jobs) :
     /\ blocked # NoTarget
     /\ jobs[i].run_after <= delay
     /\ matchesGitHubRateLimitAdmissionTarget(
          githubRateLimitAdmissionTargetForJob(jobs[i].msg), blocked)}
deferPendingJobsForRateLimit(m, delay, jitter) ==
  [i \in Ids |-> IF i \in SweptByRateLimit(m, delay)
                 THEN Defer(jobs[i], Max2(jobs[i].run_after, delay + jitter[i]),
                            Tagged(jobs[i], "rate_limit"))
                 ELSE jobs[i]]

\* mergeRescheduledJobIntoPending: the pending rows a rate-limited job may be folded into.
Twins(J, id) == {i \in Pending(J) \ {id} : KeyOf(J, i) # NoKey /\ KeyOf(J, i) = KeyOf(J, id)}
\* Mutation: the row that was folded is not deleted, so that its sends have two rows.
FoldWithoutDelete(J, twin, id, retryAfter) ==
  LET later == Defer(J[twin], Max2(J[twin].run_after, retryAfter), Tagged(J[twin], "rate_limit"))
  IN [i \in Ids |-> IF i = twin THEN [later EXCEPT !.covers = @ \cup J[id].covers] ELSE J[i]]
mergeRescheduledJobIntoPending(J, twin, id, retryAfter) ==
  LET later == Defer(J[twin], Max2(J[twin].run_after, retryAfter), Tagged(J[twin], "rate_limit"))
  IN [i \in Ids |-> IF i = twin THEN [later EXCEPT !.covers = @ \cup J[id].covers]
                    ELSE IF i = id THEN NoRow ELSE J[i]]

ConsumeRateLimited(w) ==
  /\ "rate_limited" \in Outcomes
  /\ Consumed(w)
  /\ LET id == worker[w].id IN
     \E delay \in RetryDelays : \E jitter \in [SweptByRateLimit(worker[w].msg, delay) -> Jitters] :
     \E own \in Jitters :
       LET J == deferPendingJobsForRateLimit(worker[w].msg, delay, jitter) IN
       \/ \E twin \in Preferred(J, Twins(J, id)) :
            jobs' = mergeRescheduledJobIntoPending(J, twin, id, delay + own)
       \/ /\ Twins(J, id) = {}
          /\ jobs' = [J EXCEPT ![id] = Defer(@, delay + own, "rate_limit")]
  /\ UNCHANGED settled

\* Any other failure charges an attempt; the last one makes the row a dead letter.
ConsumeFails(w) ==
  /\ Consumed(w)
  /\ \/ "error" \in Outcomes
     \/ "contended" \in Outcomes /\ ~AttemptFree(jobs[worker[w].id])
  /\ LET attempts == worker[w].attempts + 1 IN
     IF attempts >= MaxRetries
     THEN jobs' = [jobs EXCEPT ![worker[w].id] =
                     [@ EXCEPT !.status = "dead", !.attempts = attempts]]
     ELSE \E d \in RetryDelays :
            jobs' = [jobs EXCEPT ![worker[w].id] = [Repend(@, d) EXCEPT !.attempts = attempts]]
  /\ UNCHANGED settled

\* A statement of processOne throws (SQLITE_BUSY, I/O): pump logs it, the finally block still
\* runs, and the row stays 'processing' until its lease expires.
DriverFault(w) ==
  /\ worker[w].phase # "idle" /\ faults < MaxFaults
  /\ faults' = faults + 1
  /\ Release(w)
  /\ UNCHANGED <<jobs, queuedEvents, settled>>

FinishConsume(w) == ConsumeSucceeds(w) \/ ConsumeContended(w) \/ ConsumeRateLimited(w)
                    \/ ConsumeFails(w)

-----------------------------------------------------------------------------
(* Timer sweeps                                                            *)

\* Mutation: a dead letter at its ceiling is revived once more.
RevivableAtCeiling == {i \in Ids : /\ jobs[i].status = "dead"
                                   /\ jobs[i].attempts <= MaxRetries + ExtraAttempts}

\* reviveEligibleDeadJobs: attempts are kept, so a revived job dies on its next failure.
Revivable == {i \in Ids : /\ jobs[i].status = "dead"
                          /\ jobs[i].attempts < MaxRetries + ExtraAttempts}

Quiet == UNCHANGED <<worker, activeBackground, instCount, claimSeq, lastRepo, pressureCache,
                     budget, hostHigh, sends, queuedEvents>>

ReviveDeadLetterJobs ==
  /\ phase = "up" /\ Revivable # {}
  /\ \E jitter \in [Revivable -> Jitters] :
       jobs' = [i \in Ids |-> IF i \in Revivable THEN Repend(jobs[i], jitter[i]) ELSE jobs[i]]
  /\ Quiet /\ UNCHANGED <<phase, settled, faults>>

\* The k rows of S that no k rows of S are older (newer) than.
Oldest(S, k) == {i \in S : Cardinality({j \in S : j < i}) < k}
Newest(S, k) == {i \in S : Cardinality({j \in S : j > i}) < k}

\* Foreground rows an admission gate (or a lock, or a budget sweep) pushed into the future.
Deferrals(J) == {i \in Pending(J) : /\ Foreground(J, i)
                                    /\ J[i].run_after > 0
                                    /\ J[i].deferred_by # "none"}

\* Mutation: staleness is measured from run_after, which every new deferral moves.
AgeStaleByRunAfter(J, i) == J[i].run_after <= -MaxDeferAge

\* isForegroundDeferralStale, and the recheck of isRateLimitAdmissionNowClear.
AgeStale(J, i) == J[i].age >= MaxDeferAge
RateLimitClear(J, i) == J[i].deferred_by = "rate_limit" /\ ~RateLimited(J[i].msg)

\* selectForegroundDeferralsToRelease: clear buckets first, then the oldest.
selectForegroundDeferralsToRelease(clear, stale) ==
  LET k == MaxReleasePerSweep
      left == Max2(0, k - Cardinality(clear))
  IN Oldest(clear, k) \cup Oldest(stale \ clear, left)

releaseStaleForegroundDeferrals(J) ==
  LET shown == Oldest(Deferrals(J), MaxReleasePerSweep) \cup Newest(Deferrals(J), MaxReleasePerSweep)
      release == selectForegroundDeferralsToRelease({i \in shown : RateLimitClear(J, i)},
                                                    {i \in shown : AgeStale(J, i)})
  IN [i \in Ids |-> IF i \in release THEN Defer(J[i], 0, "none") ELSE J[i]]

ReleaseStaleForegroundDeferrals ==
  /\ phase = "up" /\ Deferrals(jobs) # {}
  /\ jobs' = releaseStaleForegroundDeferrals(jobs)
  /\ Quiet /\ UNCHANGED <<phase, settled, faults>>

-----------------------------------------------------------------------------
(* The operator's dead-letter actions                                      *)

Dead == {i \in Ids : jobs[i].status = "dead"}

ReplayDeadLetterJob(i) ==
  /\ phase # "down" /\ i \in Dead /\ faults < MaxFaults
  /\ jobs' = [jobs EXCEPT ![i] = [Repend(@, 0) EXCEPT !.attempts = 0]]
  /\ faults' = faults + 1
  /\ Quiet /\ UNCHANGED <<phase, settled>>

Discard(S) ==
  /\ phase # "down" /\ S # {}
  /\ jobs' = [i \in Ids |-> IF i \in S THEN NoRow ELSE jobs[i]]
  /\ settled' = settled \cup UNION {jobs[i].covers : i \in S}
  /\ Quiet /\ UNCHANGED <<phase, faults>>
\* Mutation: the DELETE does not ask for status='dead', so a job that waits for its retry goes too.
DeleteWaitingJob(i) == (i \in Dead \/ i \in Pending(jobs)) /\ Discard({i})
DeleteDeadLetterJob(i) == i \in Dead /\ Discard({i})
PurgeDeadLetterJobs == Discard(Dead)

-----------------------------------------------------------------------------
(* Shutdown, crash and boot                                                *)

\* What the process forgets when it ends.
Forget ==
  /\ phase' = "down"
  /\ worker' = [w \in Workers |-> NoJob]
  /\ activeBackground' = 0
  /\ instCount' = [k \in Installations |-> 0]
  /\ pressureCache' = {}
  /\ UNCHANGED <<claimSeq, lastRepo, budget, hostHigh, sends, queuedEvents, settled>>

\* stop(): the timers are cleared and no pump claims another job; the running ones go on.
Stop ==
  /\ phase = "up" /\ faults < MaxFaults
  /\ phase' = "draining" /\ faults' = faults + 1
  /\ Quiet /\ UNCHANGED <<jobs, settled>>

\* stop() returns, drained or at its deadline: the rows this process is abandoning are pending
\* again at once.  The caller closes the database in the same stretch, then exits.
Exit ==
  /\ phase = "draining"
  /\ jobs' = [i \in Ids |-> IF i \in ActiveIds /\ jobs[i].status = "processing"
                            THEN Repend(jobs[i], 0) ELSE jobs[i]]
  /\ Forget /\ UNCHANGED faults

\* The process is killed: every row stays as it is.
Crash ==
  /\ phase # "down" /\ faults < MaxFaults
  /\ faults' = faults + 1
  /\ Forget /\ UNCHANGED jobs

\* createSqliteQueue: every row of the previous run is claimable again, attempts unchanged.
recoverProcessingJobs(J, jitter) ==
  [i \in Ids |-> IF J[i].status = "processing" THEN Repend(J[i], jitter[i]) ELSE J[i]]
\* A large due backlog is spread out, so that it is not claimed in one burst.
spreadDueJobsOnStartup(J, jitter) ==
  [i \in Ids |-> IF i \in Due(J) /\ Cardinality(Due(J)) >= StartupMinJobs
                 THEN Repend(J[i], jitter[i]) ELSE J[i]]

Boot ==
  /\ phase = "down"
  /\ phase' = "up"
  /\ \E recovery, startup \in [{i \in Ids : jobs[i].status \in {"pending", "processing"}} -> Jitters] :
       jobs' = releaseStaleForegroundDeferrals(
                 spreadDueJobsOnStartup(recoverProcessingJobs(jobs, recovery), startup))
  /\ Quiet /\ UNCHANGED <<settled, faults>>

-----------------------------------------------------------------------------
(* The environment                                                         *)

Still == UNCHANGED <<worker, activeBackground, instCount, claimSeq, lastRepo, phase, sends,
                     queuedEvents, settled, faults>>

\* A consumer's response headers, or a reset, change the reading that governs a budget.
ChangeBudget(k, level) ==
  /\ \E m \in Messages : /\ githubRateLimitAdmissionTargetForJob(m) # NoTarget
                         /\ githubRateLimitAdmissionTargetForJob(m).key = k
  /\ budget[k] # level
  /\ budget' = [budget EXCEPT ![k] = level]
  /\ Still /\ UNCHANGED <<jobs, pressureCache, hostHigh>>

ChangeHost(h) ==
  /\ hostHigh # h /\ hostHigh' = h
  /\ Still /\ UNCHANGED <<jobs, pressureCache, budget>>

\* pressureSignalsCacheTtlMs is over.
CacheExpires ==
  /\ pressureCache # {} /\ pressureCache' = {}
  /\ Still /\ UNCHANGED <<jobs, budget, hostHigh>>

\* One unit of time; the cache lives for less than one.
Aged(row) ==
  IF row.status = "none" THEN row
  ELSE [row EXCEPT !.age = Min2(@ + 1, MaxAge),
                   !.notBefore = Max2(@ - 1, 0),
                   !.run_after = IF row.status = "pending" THEN Max2(@ - 1, 0)
                                 ELSE IF row.status = "processing"
                                      THEN Max2(@ - 1, -ProcessingTimeout) ELSE @]
Tick ==
  /\ jobs' = [i \in Ids |-> Aged(jobs[i])]
  /\ pressureCache' = {}
  /\ Still /\ UNCHANGED <<budget, hostHigh>>

-----------------------------------------------------------------------------

Next ==
  \/ \E m \in Messages, delay \in EnqueueDelays : Enqueue(m, delay)
  \/ \E w \in Workers : ProcessOne(w) \/ FinishDefer(w) \/ FinishConsume(w) \/ DriverFault(w)
  \/ ReviveDeadLetterJobs \/ ReleaseStaleForegroundDeferrals
  \/ \E i \in Ids : ReplayDeadLetterJob(i) \/ DeleteDeadLetterJob(i)
  \/ PurgeDeadLetterJobs
  \/ Stop \/ Exit \/ Crash \/ Boot
  \/ \E k \in AdmissionKeys, level \in BudgetLevels : ChangeBudget(k, level)
  \/ \E h \in HostLoads : ChangeHost(h)
  \/ CacheExpires \/ Tick

Spec == Init /\ [][Next]_vars

\* The next step of a pump loop: exactly one of the three is possible at a time.
PumpStep(w) == ProcessOne(w) \/ FinishDefer(w) \/ FinishConsume(w)

\* The event loop runs every pump loop and timer again and again, a consume settles (it is
\* bounded by its own timeouts), stop() has a deadline, and a supervisor restarts the process.
Fairness ==
  /\ WF_vars(Tick) /\ WF_vars(Exit) /\ WF_vars(Boot)
  /\ WF_vars(ReleaseStaleForegroundDeferrals)
  /\ \A w \in Workers : WF_vars(PumpStep(w))

FairSpec == Spec /\ Fairness

-----------------------------------------------------------------------------
(* Properties                                                              *)

TableOK ==
  /\ jobs \in [Ids -> Row]
  /\ \A i \in Ids : i > sends => jobs[i] = NoRow
LoopsOK ==
  /\ worker \in [Workers -> Job]
  /\ \A w \in Workers : worker[w].phase # "idle" => worker[w].id \in 1 .. sends /\ phase # "down"
  /\ activeBackground \in Nat
  /\ instCount \in [Installations -> Nat]
  /\ claimSeq \in Nat /\ lastRepo \in Nat
  /\ pressureCache \subseteq [live : BOOLEAN, pending : BOOLEAN, host : BOOLEAN]
WorldOK ==
  /\ phase \in {"up", "draining", "down"}
  /\ budget \in [AdmissionKeys -> {"ok", "low", "out"}]
  /\ hostHigh \in BOOLEAN
  /\ sends \in 0 .. MaxSends
  /\ queuedEvents \subseteq 1 .. sends /\ settled \subseteq 1 .. sends
  /\ faults \in 0 .. MaxFaults

\* Every variable holds what the code keeps in it.  Only ids that a producer was given have a row,
\* and a pump loop works on one of those, while the process is alive.
TypeOK == TableOK /\ LoopsOK /\ WorldOK

\* A job in flight owns its row: it is still 'processing', no other pump loop has it, and neither
\* an enqueue, nor the lease reclaim, nor a sweep has touched the payload it is working from.  The
\* writes that settle it say WHERE id=? alone, so all of them rest on this.
OwnedRows ==
  \A w \in Busy :
    LET row == jobs[worker[w].id] IN
    /\ row.status = "processing"
    /\ row.msg = worker[w].msg /\ row.ver = worker[w].ver /\ row.covers = worker[w].covers
    /\ row.attempts = worker[w].attempts
    /\ \A v \in Busy \ {w} : worker[v].id # worker[w].id

\* At most one row of a key is 'processing': what claimNextWhere's NOT EXISTS maintains, counting
\* rows whose pump loop is gone (a driver fault, a crash) until they are recovered.
OneProcessingRowPerKey ==
  \A i, j \in Ids :
    (i # j /\ jobs[i].status = "processing" /\ jobs[j].status = "processing"
       /\ KeyOf(jobs, i) # NoKey) => KeyOf(jobs, i) # KeyOf(jobs, j)

\* Two jobs of one coalescing key never run at the same time (claimNextWhere's NOT EXISTS), across
\* re-pends, lease reclaims, reboots and revivals that leave several rows with that key.
KeyExclusion ==
  \A v, w \in Busy :
    (v # w /\ jobCoalesceKey(worker[v].msg) # NoKey)
      => jobCoalesceKey(worker[v].msg) # jobCoalesceKey(worker[w].msg)

\* Every message accepted by send() is still represented by a row, or was consumed by a run that
\* succeeded, or was discarded by an operator: no coalescing, merging, superseding, folding or
\* restart loses one.
NothingLost ==
  1 .. sends = settled \cup UNION {jobs[i].covers : i \in Ids}

\* A row that can still run has attempts left, counting those of automatic revival; a dead letter
\* has used its retries, and never more than retries and revivals together.
RetryBudget ==
  \A i \in Ids :
    /\ jobs[i].status \in {"pending", "processing"} => jobs[i].attempts < MaxRetries + ExtraAttempts
    /\ jobs[i].status = "dead" => jobs[i].attempts \in MaxRetries .. (MaxRetries + ExtraAttempts)

\* A webhook delivery recorded as 'queued' has a webhook row that will still run with its payload:
\* when that payload is overwritten by a coalesced delivery, or fails for good, the delivery has been
\* marked superseded or failed.
NoStuckDelivery ==
  \A n \in queuedEvents :
    \E i \in Live(jobs) : jobs[i].ver = n /\ jobs[i].msg.type = "github-webhook"

\* The jobs that hold a background slot, and those counted against an installation.
SlotHolders == {w \in Busy : worker[w].slot}
Counted(k) == {w \in Busy : worker[w].inst = k}

\* The in-memory counters agree with the jobs that hold a slot, and no limit is exceeded: a leaked
\* background slot would starve the whole lane until a restart.
SlotAccounting ==
  /\ activeBackground = Cardinality(SlotHolders)
  /\ activeBackground <= BackgroundConcurrency
  /\ \A k \in Installations :
       /\ instCount[k] = Cardinality(Counted(k))
       /\ instCount[k] <= InstLimit

\* A deliberate delay is honoured: no row runs before the delaySeconds its producer asked for.
DelayHonoured == \A w \in Busy : jobs[worker[w].id].notBefore = 0

\* A row that stands for several sends carries the payload of the latest of them.
LatestPayload ==
  \A i \in Ids : IsRagIndex(jobs[i].msg) \/ \A n \in jobs[i].covers : n <= jobs[i].ver

\* Every job ends, with its row gone or a dead letter an operator can see, even against a lock that
\* is never released (waiting for it is free of attempts, but not for ever), pressure that never
\* ends (which defers maintenance, but not for ever) and a restart.
EveryJobSettles ==
  \A i \in Ids : jobs[i].status \in {"pending", "processing"} ~> jobs[i].status \in {"none", "dead"}

\* A backlog or fresh row is claimed in the end, however much unclassified work of a higher or
\* equal priority is always due.
LaneProgress ==
  \A i \in Ids :
    (jobs[i].status = "pending" /\ Lane(jobs, i) # "none") ~> jobs[i].status # "pending"

\* A deferred foreground row is released again and again, even when every rate-limited job in
\* flight pushes it into the future.
DeferralsEnd == \A i \in Ids : []<>(i \notin Deferrals(jobs))
=============================================================================
