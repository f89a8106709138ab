------------------------------- MODULE PgQueue -------------------------------
(***************************************************************************)
(* The self-host job queue on Postgres: createPgQueue of                   *)
(* src/selfhost/pg-queue.ts.  Several processes share one table, and every *)
(* operation awaits its statements one by one, so a step here is one       *)
(* statement (or one stretch of code around it) and everything read before *)
(* it may be out of date.  What tells this backend from SqliteQueue is     *)
(* modelled: the SELECT and the UPDATE of an enqueue, the reclaim of       *)
(* expired leases, the claim and its statement snapshot, the writes that   *)
(* settle a job by id alone, the fold of a rate-limited job, revival, boot *)
(* recovery, shutdown, crashes and the lease heartbeat.  Lanes, gates and  *)
(* delays are as in SqliteQueue: a gate that defers is one more way a job  *)
(* ends, any due row of the right priority class may be claimed, and since *)
(* a due row may be left unclaimed at will a jitter needs no values.       *)
(*                                                                         *)
(* run_after is relative to now: above 0 a row waits, a lease counts down  *)
(* from 0 and is over at -Timeout.                                         *)
(***************************************************************************)
EXTENDS JobCatalog, Integers

CONSTANTS
  Procs,                 \* the app processes on one database
  Loops,                 \* their pump loops
  Senders,               \* their producers: each is in one enqueue() at a time
  Homes,                 \* the deployments: which process a loop or producer belongs to
  Messages,              \* what producers send; no rag-index-repo (see SqliteQueue)
  Outcomes,              \* how processOne may end a job it has claimed
  BackgroundConcurrency, \* background jobs one process may run at once
  MaxRetries,            \* maxRetries
  ExtraAttempts,         \* queueDeadLetterAutoRetryMaxExtraAttempts
  Timeout,               \* processingTimeoutMs
  MaxSends,              \* bound: messages accepted in one behaviour
  MaxFaults              \* bound: crashes, shutdowns, lost heartbeats, failed statements, replays

\* Loops and producers are so many that they can be counted; no loop is "none", the owner of a row nobody claimed.
ASSUME FiniteAssumption == IsFiniteSet(Loops) /\ IsFiniteSet(Senders) /\ "none" \notin Loops

ASSUME PgAssumption ==
  /\ Homes \subseteq [Loops \cup Senders -> Procs]
  /\ Messages \subseteq {m \in Msg : m.type # "rag-index-repo"}
  /\ Outcomes \subseteq {"success", "deferred", "contended", "rate_limited", "error"}
  /\ {BackgroundConcurrency, ExtraAttempts, MaxSends, MaxFaults} \subseteq Nat
  /\ {MaxRetries, Timeout} \subseteq Nat \ {0}

VARIABLES
  home,    \* the deployment of this behaviour
  jobs,    \* _selfhost_jobs, by id; a row that does not exist has status "none"
  loop,    \* how far processOne has come in each pump loop
  sender,  \* how far enqueue() has come in each producer
  bg,      \* activeBackground of each process
  up,      \* "booting", "up", "draining" (stop() waits), "stopping" (it has returned), "down"
  chores,  \* rows the boot recovery or the dead-letter reviver of a process has still to update
  sends,   \* messages accepted so far; a new row takes this number as its id
  settled, \* history: sends consumed to success, or discarded by an operator
  raced,   \* history: sends a write by id has put at risk, its row no longer what was read
  faults   \* faults so far

vars == <<home, jobs, loop, sender, bg, up, chores, sends, settled, raced, faults>>

Ids == 1 .. MaxSends
NoMsg == [type |-> "none", repo |-> 0, pr |-> 0, family |-> "none", origin |-> "none",
          inst |-> "none", paths |-> {}, scope |-> "none"]

\* A row; covers (the sends it stands for) and owner (the loop that claimed it last) are history.
Row == [status : {"none", "pending", "processing", "dead"}, msg : Msg, attempts : Nat,
        run_after : Int, covers : SUBSET Ids, owner : Loops \cup {"none"}]
NoRow == [status |-> "none", msg |-> NoMsg, attempts |-> 0, run_after |-> 0, covers |-> {},
          owner |-> "none"]

\* stale is what the reclaim SELECT returned, seen the rows the snapshot of the claim statement
\* offers; msg, covers and attempts are the JobRow copied at the claim.  slot: a background slot is
\* reserved.  blind is history: the snapshot had missed that the key is busy.
Loop == [at : {"idle", "reclaiming", "claiming", "working", "folding"},
         stale : SUBSET (Ids \X Nat), seen : SUBSET Ids, id : Nat, msg : Msg,
         covers : SUBSET Ids, attempts : Nat, twin : Nat, slot : BOOLEAN, blind : BOOLEAN]
Idle == [at |-> "idle", stale |-> {}, seen |-> {}, id |-> 0, msg |-> NoMsg, covers |-> {},
         attempts |-> 0, twin |-> 0, slot |-> FALSE, blind |-> FALSE]

Quiet == [at |-> "idle", msg |-> NoMsg, target |-> 0]

KeyOf(i) == jobCoalesceKey(jobs[i].msg)
InStatus(s) == {i \in Ids : jobs[i].status = s}
Working == {w \in Loops : loop[w].at \in {"working", "folding"}}
ActiveIds(p) == {loop[w].id : w \in {v \in Working : home[v] = p}}
Owns(w) == jobs[loop[w].id].status = "processing" /\ jobs[loop[w].id].owner = w
Deployed == {home[x] : x \in Loops \cup Senders}
Max2(a, b) == IF a >= b THEN a ELSE b

Repend(row, d) == [row EXCEPT !.status = "pending", !.run_after = d]

Init ==
  /\ home \in Homes
  /\ jobs = [i \in Ids |-> NoRow]
  /\ loop = [w \in Loops |-> Idle]
  /\ sender = [s \in Senders |-> Quiet]
  /\ bg = [p \in Procs |-> 0]
  /\ up = [p \in Procs |-> IF p \in Deployed THEN "up" ELSE "down"]
  /\ chores = [p \in Procs |-> {}]
  /\ sends = 0 /\ settled = {} /\ raced = {} /\ faults = 0

Fault == faults < MaxFaults /\ faults' = faults + 1

-----------------------------------------------------------------------------
(* enqueue                                                                 *)

Writing == {s \in Senders : sender[s].at = "writing"}

\* The SELECT of the pending row to coalesce into; 0 when there is none, or the message has no key.
Select(s, m) ==
  /\ sender[s].at = "idle" /\ up[home[s]] \in {"up", "draining"}
  /\ sends + Cardinality(Writing) < MaxSends
  /\ LET same == {i \in InStatus("pending") : jobCoalesceKey(m) # NoKey /\ KeyOf(i) = jobCoalesceKey(m)} IN
     \E i \in (IF same = {} THEN {0} ELSE same) :
       sender' = [sender EXCEPT ![s] = [at |-> "writing", msg |-> m, target |-> i]]
  /\ UNCHANGED <<home, jobs, loop, bg, up, chores, sends, settled, raced, faults>>

\* The UPDATE says WHERE id=$5 alone and its rowCount is not looked at.
Coalesce(i, m, n) ==
  /\ jobs' = IF jobs[i].status = "none" THEN jobs
             ELSE [jobs EXCEPT ![i].msg = m, ![i].covers = @ \cup {n},
                               ![i].run_after = Max2(@, 0)]
  /\ raced' = IF jobs[i].status = "pending" THEN raced ELSE raced \cup {n}

Insert(m, n) ==
  /\ jobs' = [jobs EXCEPT ![n] = [NoRow EXCEPT !.status = "pending", !.msg = m, !.covers = {n}]]
  /\ UNCHANGED raced

\* The write, after which send() resolves: the message has been accepted.
Write(s) ==
  /\ sender[s].at = "writing"
  /\ LET n == sends + 1  i == sender[s].target  m == sender[s].msg IN
     IF i = 0 THEN Insert(m, n) ELSE Coalesce(i, m, n)
  /\ sends' = sends + 1
  /\ sender' = [sender EXCEPT ![s] = Quiet]
  /\ UNCHANGED <<home, loop, bg, up, chores, settled, faults>>

-----------------------------------------------------------------------------
(* processOne, up to the claim                                             *)

Expired == {i \in InStatus("processing") : jobs[i].run_after <= -Timeout}

\* reclaimExpiredProcessingJobs, its SELECT.
Look(w) ==
  /\ loop[w].at = "idle" /\ up[home[w]] = "up" /\ Expired # {}
  /\ loop' = [loop EXCEPT ![w] = [Idle EXCEPT !.at = "reclaiming",
                                              !.stale = {<<i, jobs[i].attempts>> : i \in Expired}]]
  /\ UNCHANGED <<home, jobs, sender, bg, up, chores, sends, settled, raced, faults>>

\* Mutation: a job that used up its attempts is dropped, not buried.
ReclaimedOrDropped(row, attempts) ==
  IF row.status # "processing" THEN row
  ELSE IF attempts >= MaxRetries THEN NoRow
  ELSE [Repend(row, 0) EXCEPT !.attempts = attempts]

\* The UPDATE of one of its rows, WHERE ... AND status='processing'; a reclaim costs an attempt.
Reclaimed(row, attempts) ==
  IF row.status # "processing" THEN row
  ELSE IF attempts >= MaxRetries THEN [row EXCEPT !.status = "dead", !.attempts = attempts]
  ELSE [Repend(row, 0) EXCEPT !.attempts = attempts]

Reclaim(w) ==
  /\ loop[w].at = "reclaiming"
  /\ \E r \in loop[w].stale :
       /\ jobs' = IF r[1] \in ActiveIds(home[w]) THEN jobs
                  ELSE [jobs EXCEPT ![r[1]] = Reclaimed(@, r[2] + 1)]
       /\ loop' = [loop EXCEPT ![w].stale = @ \ {r}]
  /\ UNCHANGED <<home, sender, bg, up, chores, sends, settled, raced, faults>>

\* Mutation: claimNextWhere's NOT EXISTS is forgotten.
NeverBusy(i) == FALSE

KeyBusy(i) == KeyOf(i) # NoKey /\ \E j \in InStatus("processing") : KeyOf(j) = KeyOf(i)

\* The rows the snapshot of a claim statement offers to one priority class.
Offered(background) ==
  {i \in InStatus("pending") : /\ jobs[i].run_after <= 0 /\ ~KeyBusy(i)
                               /\ isForegroundJobPriority(jobPriority(jobs[i].msg)) = ~background}

ClaimStatement(background) ==
  [Idle EXCEPT !.at = "claiming", !.slot = background, !.seen = Offered(background)]

\* claimNext goes on to the background, reserving its slot before it awaits the statement.  Here and
\* below, a statement whose snapshot offers nothing is passed over: it returns no row.
AskBackground(w) ==
  IF bg[home[w]] < BackgroundConcurrency /\ Offered(TRUE) # {}
  THEN /\ loop' = [loop EXCEPT ![w] = ClaimStatement(TRUE)]
       /\ bg' = [bg EXCEPT ![home[w]] = @ + 1]
  ELSE /\ loop' = [loop EXCEPT ![w] = Idle]
       /\ UNCHANGED bg

\* Nothing (more) to reclaim: claimNext begins with the foreground.
StartClaim(w) ==
  /\ \/ loop[w].at = "idle" /\ up[home[w]] = "up" /\ Expired = {}
     \/ loop[w].at = "reclaiming" /\ loop[w].stale = {}
  /\ \/ /\ Offered(FALSE) # {}
        /\ loop' = [loop EXCEPT ![w] = ClaimStatement(FALSE)]
        /\ UNCHANGED bg
     \/ Offered(FALSE) = {} /\ AskBackground(w)
  /\ UNCHANGED <<home, jobs, sender, up, chores, sends, settled, raced, faults>>

Claimable(w) == {i \in loop[w].seen : jobs[i].status = "pending" /\ jobs[i].run_after <= 0}
Leased(row, w) == [row EXCEPT !.status = "processing", !.run_after = 0, !.owner = w]

\* The statement runs: FOR UPDATE rechecks the row itself, the NOT EXISTS keeps to the snapshot.
Claim(w) ==
  /\ loop[w].at = "claiming"
  /\ \E i \in Claimable(w) :
       /\ jobs' = [jobs EXCEPT ![i] = Leased(@, w)]
       /\ loop' = [loop EXCEPT ![w] =
            [Idle EXCEPT !.at = "working", !.id = i, !.msg = jobs[i].msg, !.covers = jobs[i].covers,
                         !.attempts = jobs[i].attempts, !.slot = loop[w].slot, !.blind = KeyBusy(i)]]
  /\ UNCHANGED <<home, sender, bg, up, chores, sends, settled, raced, faults>>

\* It returns no row, also because SKIP LOCKED or an advisory lock hid one; the background claim
\* gives its slot back.
ClaimNothing(w) ==
  /\ loop[w].at = "claiming"
  /\ Claimable(w) = {} \/ \E v \in Loops \ {w} : loop[v].at = "claiming"
  /\ \/ ~loop[w].slot /\ AskBackground(w)
     \/ /\ loop[w].slot
        /\ loop' = [loop EXCEPT ![w] = Idle]
        /\ bg' = [bg EXCEPT ![home[w]] = @ - 1]
  /\ UNCHANGED <<home, jobs, sender, up, chores, sends, settled, raced, faults>>

\* Mutation: the slot is not given back when the claim throws.
RolledBackNever(w) == bg

\* Mutation: a slot is given back that was not reserved.
RolledBackAlways(w) == [bg EXCEPT ![home[w]] = @ - 1]

\* The catch of claimNext around the background claim.
RolledBack(w) == IF loop[w].slot THEN [bg EXCEPT ![home[w]] = @ - 1] ELSE bg

\* A statement throws outside processOne's try: pump ends.  When it is the UPDATE of
\* last_backlog_repo, a row has been claimed that no loop knows of.
ClaimThrows(w) ==
  /\ loop[w].at \in {"reclaiming", "claiming"}
  /\ \/ UNCHANGED jobs
     \/ \E i \in Claimable(w) : /\ foregroundLaneForJob(jobs[i].msg) = "backlog"
                                /\ jobs' = [jobs EXCEPT ![i] = Leased(@, "none")]
  /\ loop' = [loop EXCEPT ![w] = Idle]
  /\ bg' = RolledBack(w)
  /\ Fault /\ UNCHANGED <<home, sender, up, chores, sends, settled, raced>>

-----------------------------------------------------------------------------
(* processOne, from the claim on.  The writes that end a job say           *)
(* WHERE id=$n alone: they hit whatever has become of the row.             *)

Finally(w) ==
  /\ loop' = [loop EXCEPT ![w] = Idle]
  /\ bg' = IF loop[w].slot THEN [bg EXCEPT ![home[w]] = Max2(0, @ - 1)] ELSE bg

Ends(w, outcome) ==
  /\ loop[w].at = "working" /\ outcome \in Outcomes
  /\ UNCHANGED <<home, sender, up, chores, sends, faults>>

\* DELETE: the sends of a row that was not this loop's any more go with it.
Succeed(w) ==
  /\ Ends(w, "success")
  /\ jobs' = [jobs EXCEPT ![loop[w].id] = NoRow]
  /\ settled' = settled \cup loop[w].covers
  /\ raced' = IF Owns(w) THEN raced ELSE raced \cup jobs[loop[w].id].covers
  /\ Finally(w)

\* The UPDATE by id of a row that may be gone.
Update(i, row) == jobs' = IF jobs[i].status = "none" THEN jobs ELSE [jobs EXCEPT ![i] = row]

\* A gate defers the job, or the PR's lock is taken: pending again, no attempt charged.
PutBack(w) ==
  /\ Ends(w, "deferred") \/ Ends(w, "contended")
  /\ Update(loop[w].id, Repend(jobs[loop[w].id], 1))
  /\ Finally(w) /\ UNCHANGED <<settled, raced>>

Fail(w) ==
  /\ Ends(w, "error")
  /\ LET row == jobs[loop[w].id]  attempts == loop[w].attempts + 1 IN
     Update(loop[w].id, IF attempts >= MaxRetries
                        THEN [row EXCEPT !.status = "dead", !.attempts = attempts]
                        ELSE [Repend(row, 1) EXCEPT !.attempts = attempts])
  /\ Finally(w) /\ UNCHANGED <<settled, raced>>

\* deferPendingJobsForRateLimit: every pending row of the budget waits (guarded, so pending it is).
Swept(m) ==
  [i \in Ids |-> IF /\ jobs[i].status = "pending"
                    /\ matchesGitHubRateLimitAdmissionTarget(
                         githubRateLimitAdmissionTargetForJob(jobs[i].msg),
                         githubRateLimitAdmissionTargetForJob(m))
                 THEN [jobs[i] EXCEPT !.run_after = 1] ELSE jobs[i]]
Twins(id, m) == {i \in InStatus("pending") \ {id} : jobCoalesceKey(m) # NoKey
                                                    /\ KeyOf(i) = jobCoalesceKey(m)}

\* A rate limit: the sweep, then the SELECT of mergeRescheduledJobIntoPending, or the UPDATE.
RateLimited(w) ==
  /\ Ends(w, "rate_limited")
  /\ LET id == loop[w].id  m == loop[w].msg  J == Swept(m) IN
     \/ \E i \in Twins(id, m) :
          /\ jobs' = J
          /\ loop' = [loop EXCEPT ![w].at = "folding", ![w].twin = i]
          /\ UNCHANGED bg
     \/ /\ Twins(id, m) = {}
        /\ jobs' = IF J[id].status = "none" THEN J ELSE [J EXCEPT ![id] = Repend(@, 1)]
        /\ Finally(w)
  /\ UNCHANGED <<settled, raced>>

\* Its UPDATE of the twin, which keeps a pending twin from being claimed, and its DELETE.
Fold(w) ==
  /\ loop[w].at = "folding"
  /\ LET id == loop[w].id  t == loop[w].twin IN
     /\ jobs' = [i \in Ids |->
                   IF i = id THEN NoRow
                   ELSE IF i = t /\ jobs[t].status # "none"
                        THEN [jobs[t] EXCEPT !.run_after = Max2(@, 1),
                                             !.covers = @ \cup jobs[id].covers]
                   ELSE jobs[i]]
     /\ raced' = IF jobs[t].status = "pending" THEN raced ELSE raced \cup jobs[id].covers
  /\ Finally(w)
  /\ UNCHANGED <<home, sender, up, chores, sends, settled, faults>>

\* The connection is lost for good: the row is left 'processing' for the reclaim.
LeaveForReclaim(w) ==
  /\ w \in Working
  /\ Finally(w) /\ Fault
  /\ UNCHANGED <<home, jobs, sender, up, chores, sends, settled, raced>>

End(w) == Succeed(w) \/ PutBack(w) \/ Fail(w) \/ RateLimited(w) \/ Fold(w)

-----------------------------------------------------------------------------
(* Revival, boot recovery, the operator                                    *)

Revivable == {i \in InStatus("dead") : jobs[i].attempts < MaxRetries + ExtraAttempts}

\* reviveEligibleDeadJobs, its SELECT.
LookDead(p) ==
  /\ up[p] = "up" /\ chores[p] = {} /\ Revivable # {}
  /\ chores' = [chores EXCEPT ![p] = {<<"dead", i>> : i \in Revivable}]
  /\ UNCHANGED <<home, jobs, loop, sender, bg, up, sends, settled, raced, faults>>

\* Mutation: the UPDATE does not ask whether the row is still what the SELECT saw.
StillInAnyStatus(i, s) == jobs[i].status # "none"

\* AND status='dead' (the reviver), AND status='processing' (the boot recovery).
StillIn(i, s) == jobs[i].status = s

\* The UPDATE of one of the rows; neither changes attempts.
DoChore(p) ==
  /\ up[p] # "down"
  /\ \E c \in chores[p] :
       /\ jobs' = IF StillIn(c[2], c[1]) THEN [jobs EXCEPT ![c[2]] = Repend(@, 0)] ELSE jobs
       /\ chores' = [chores EXCEPT ![p] = @ \ {c}]
  /\ UNCHANGED <<home, loop, sender, bg, up, sends, settled, raced, faults>>

ReplayDeadLetterJob(i) ==
  /\ i \in InStatus("dead")
  /\ jobs' = [jobs EXCEPT ![i] = [Repend(@, 0) EXCEPT !.attempts = 0]]
  /\ Fault /\ UNCHANGED <<home, loop, sender, bg, up, chores, sends, settled, raced>>

\* deleteDeadLetterJob, and purgeDeadLetterJobs for all of them.
Discard(S) ==
  /\ S # {}
  /\ jobs' = [i \in Ids |-> IF i \in S THEN NoRow ELSE jobs[i]]
  /\ settled' = settled \cup UNION {jobs[i].covers : i \in S}
  /\ UNCHANGED <<home, loop, sender, bg, up, chores, sends, raced, faults>>

-----------------------------------------------------------------------------
(* Processes and time                                                      *)

\* What a process forgets when it ends.
Forget(p) ==
  /\ up' = [up EXCEPT ![p] = "down"]
  /\ loop' = [w \in Loops |-> IF home[w] = p THEN Idle ELSE loop[w]]
  /\ sender' = [s \in Senders |-> IF home[s] = p THEN Quiet ELSE sender[s]]
  /\ bg' = [bg EXCEPT ![p] = 0]
  /\ chores' = [chores EXCEPT ![p] = {}]
  /\ UNCHANGED <<home, jobs, sends, settled, raced>>

Crash(p) == up[p] # "down" /\ Forget(p) /\ Fault

\* stop(): no loop begins another processOne.
Stop(p) ==
  /\ up[p] = "up" /\ up' = [up EXCEPT ![p] = "draining"]
  /\ Fault /\ UNCHANGED <<home, jobs, loop, sender, bg, chores, sends, settled, raced>>

\* stop() returns, drained or at its deadline, with the rows in activeJobIds pending again if they
\* are 'processing'; what the loops do goes on until the process exits.
Abandon(p) ==
  /\ up[p] = "draining" /\ up' = [up EXCEPT ![p] = "stopping"]
  /\ jobs' = [i \in Ids |-> IF i \in ActiveIds(p) /\ jobs[i].status = "processing"
                            THEN Repend(jobs[i], 0) ELSE jobs[i]]
  /\ UNCHANGED <<home, loop, sender, bg, chores, sends, settled, raced, faults>>

Exit(p) == up[p] = "stopping" /\ Forget(p) /\ UNCHANGED faults

\* init(): recoverProcessingJobs looks for leases that are over; start() comes after its updates.
Boot(p) ==
  /\ p \in Deployed /\ up[p] = "down" /\ up' = [up EXCEPT ![p] = "booting"]
  /\ chores' = [chores EXCEPT ![p] = {<<"processing", i>> : i \in Expired}]
  /\ UNCHANGED <<home, jobs, loop, sender, bg, sends, settled, raced, faults>>
Start(p) ==
  /\ up[p] = "booting" /\ chores[p] = {} /\ up' = [up EXCEPT ![p] = "up"]
  /\ UNCHANGED <<home, jobs, loop, sender, bg, chores, sends, settled, raced, faults>>

\* heartbeatProcessingLease: WHERE id=$2 AND status='processing', whoever runs the row by now.
Beaten(silent) == {loop[w].id : w \in Working \ silent}

\* One unit of time, in which every loop at work, except the silent ones, has refreshed its lease.
Aged(row, beaten) ==
  [row EXCEPT !.run_after = IF row.status = "pending" THEN Max2(@ - 1, 0)
                            ELSE IF row.status # "processing" THEN @
                            ELSE IF beaten THEN 0 ELSE Max2(@ - 1, -Timeout)]
Tick ==
  /\ \E silent \in SUBSET Working :
       /\ jobs' = [i \in Ids |-> Aged(jobs[i], i \in Beaten(silent))]
       /\ IF silent = {} THEN UNCHANGED faults ELSE Fault
  /\ UNCHANGED <<home, loop, sender, bg, up, chores, sends, settled, raced>>

-----------------------------------------------------------------------------

LoopStep(w) == Look(w) \/ Reclaim(w) \/ StartClaim(w) \/ Claim(w) \/ ClaimNothing(w) \/ End(w)
ProcStep(p) == Abandon(p) \/ Exit(p) \/ Boot(p) \/ Start(p) \/ DoChore(p)

Next ==
  \/ \E s \in Senders : Write(s) \/ \E m \in Messages : Select(s, m)
  \/ \E w \in Loops : LoopStep(w) \/ ClaimThrows(w) \/ LeaveForReclaim(w)
  \/ \E p \in Procs : ProcStep(p) \/ LookDead(p) \/ Crash(p) \/ Stop(p)
  \/ \E i \in Ids : ReplayDeadLetterJob(i) \/ (i \in InStatus("dead") /\ Discard({i}))
  \/ Discard(InStatus("dead"))
  \/ Tick

Spec == Init /\ [][Next]_vars

-----------------------------------------------------------------------------
(* Properties                                                              *)

\* Every variable holds what the code keeps in it, only numbers that were given out have a row, and
\* a process that is down runs nothing.
TypeOK ==
  /\ jobs \in [Ids -> Row] /\ \A i \in Ids : i > sends => jobs[i] = NoRow
  /\ loop \in [Loops -> Loop]
  /\ sender \in [Senders -> [at : {"idle", "writing"}, msg : Msg, target : 0 .. MaxSends]]
  /\ bg \in [Procs -> Nat]
  /\ up \in [Procs -> {"booting", "up", "draining", "stopping", "down"}]
  /\ \A p \in Procs : up[p] = "down" => \A w \in Loops : home[w] = p => loop[w] = Idle
  /\ chores \in [Procs -> SUBSET ({"dead", "processing"} \X Ids)]
  /\ sends \in 0 .. MaxSends /\ settled \cup raced \subseteq 1 .. sends /\ faults \in 0 .. MaxFaults

\* activeBackground agrees with the loops that hold a background slot or are asking for a job with
\* one, whatever throws in between, and never exceeds its limit.
SlotAccounting ==
  \A p \in Procs :
    /\ bg[p] = Cardinality({w \in Loops : home[w] = p /\ loop[w].slot})
    /\ bg[p] <= BackgroundConcurrency

Covered == UNION {jobs[i].covers : i \in Ids}

\* An accepted message is lost only by a write by id that met its row in another state than the
\* writer had read: no crash, lease reclaim, double run, retry or shutdown loses one by itself.
LossNeedsRace == (1 .. sends) \ raced \subseteq settled \cup Covered

\* Two loops that both hold their claim run jobs of one key only when the claim statement of one
\* had taken its snapshot before the other's claim was committed.
SharedKeyHasCause ==
  \A v, w \in Working :
    (v # w /\ Owns(v) /\ Owns(w) /\ jobCoalesceKey(loop[v].msg) # NoKey
       /\ jobCoalesceKey(loop[v].msg) = jobCoalesceKey(loop[w].msg))
      => loop[v].blind \/ loop[w].blind

\* A running job loses its row only when its lease is over, when its own process shuts down, when a
\* reclaim or recovery that had seen an expired lease on that row comes late, or when a loop that
\* had lost the same row before writes to it.
Excused(w) ==
  LET i == loop[w].id IN
  \/ i \in Expired
  \/ up[home[w]] = "draining"
  \/ \E v \in Loops : \E r \in loop[v].stale : r[1] = i
  \/ \E p \in Procs : <<"processing", i>> \in chores[p]
  \/ \E v \in Working \ {w} : i \in {loop[v].id, loop[v].twin}
TakenForCause ==
  [][\A w \in Working : (Owns(w) /\ loop'[w] = loop[w] /\ ~Owns(w)') => Excused(w)]_vars

\* Every accepted message is still represented by a row, or was run to success, or was discarded by
\* an operator: the contract of the SQLite queue.
NothingLost == 1 .. sends \subseteq settled \cup Covered
=============================================================================
