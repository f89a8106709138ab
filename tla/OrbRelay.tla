------------------------------ MODULE OrbRelay ------------------------------
(***************************************************************************)
(* The event relay of the central Orb, for one installation of its GitHub   *)
(* App: a webhook is recorded and answered, then forwarded to the self-host *)
(* container enrolled for the installation, by a POST or through a table    *)
(* that the container drains; a forward that fails is kept in another table *)
(* and tried again by a cron job (src/orb/webhook.ts, relay.ts, broker.ts,  *)
(* fleet-config-push.ts, broker-client.ts, selfhost/monitored-work.ts and,  *)
(* in the container, github/webhook.ts).                                    *)
(*                                                                         *)
(* A step is one statement of a database or one message, so that forwards,  *)
(* the cron job, the drains and the receivers interleave at their awaits.   *)
(* Time passes in ticks of at least ten minutes.  Deliveries are numbered   *)
(* by the order of their ids.                                               *)
(***************************************************************************)
EXTENDS Integers, Sequences, FiniteSets

CONSTANTS
  Events,      \* deliveries of GitHub that may be forwarded
  Notices,     \* config-push notices of the Orb's operator
  Key,         \* githubWebhookCoalesceKey of each event, or NoKey
  NoKey,
  Noise,       \* events that isNonActionableWebhookNoise
  Enrollments, \* enrolments of the installation, numbered as they are issued; each has a container
  Scenes,      \* what may happen to the installation, see scene
  Cap,         \* RELAY_PENDING_MAX_PER_INSTALLATION
  Batch,       \* RELAY_PENDING_BATCH_SIZE
  PendingTTL,  \* RELAY_PENDING_TTL_HOURS, in ticks
  FailureTTL,  \* the hour a failed forward is kept, in ticks
  MaxAttempts  \* RELAY_RETRY_MAX_ATTEMPTS

Ids == Events \cup Notices
Nobody == 0   \* enroll_id IS NULL

ASSUME RelayAssumption ==
  /\ Ids \subseteq Nat /\ Events \cap Notices = {} /\ Noise \subseteq Events /\ Key \in [Events -> Nat] /\ NoKey \in Nat
  /\ Enrollments \subseteq Nat \ {Nobody} /\ 1 \in Enrollments
  /\ Scenes \subseteq [ids : SUBSET Ids, modes : SUBSET {"push", "pull"}, changes : Nat, faults : Nat,
                       faulty : SUBSET {"orb", "queue", "wire", "box"}]
  /\ {Cap, Batch, PendingTTL, FailureTTL, MaxAttempts} \subseteq Nat \ {0}

VARIABLES
  scene,    \* the ids that arrive, the relay modes a container may be started with, and how many changes of
            \* enrolment and how many faults, of which kinds, may happen
  recorded, \* orb_webhook_events: "none", "error" or "received"
  enr,      \* orb_enrollments: state, relay_mode, whether a relay is registered
  ranking,  \* enrolments issued, in the order forwardOrbEvent reads them
  pending,  \* orb_relay_pending, by delivery_id; before has the rows whose rowid is smaller
  failures, \* orb_relay_failures: age, attempts, and whether the last attempt is less than a tick ago
  fwd,      \* each forward: where it is, the enrolment it chose, its outcome, and whether it is a retry
  box,      \* each container: up, relay mode, registered, ids to acknowledge, drain, events in hand
  hook,     \* webhook_events of each container: status, and whether it was received long ago
  jobs,     \* the events each container has sent to its job queue
  hand,     \* each run of enqueueWebhookByEnv, for a POST of an id or the drain of a container
  excuse,   \* history: what became of an id that is not on its way any more
  changes, faults

orb == <<recorded, enr, ranking, pending, failures>>
self == <<box, hook, jobs, hand>>
vars == <<scene, orb, fwd, self, excuse, changes, faults>>

Resting == [pc |-> "idle", to |-> Nobody, out |-> "none", retry |-> FALSE]
Free == [pc |-> "idle", at |-> Nobody, id |-> 0]
Posts == {<<"post", i>> : i \in Events}
Drains == {<<"drain", e>> : e \in Enrollments}
Off(mode) == [up |-> FALSE, mode |-> mode, registered |-> FALSE, ack |-> {}, drain |-> "idle", todo |-> <<>>]
Unseen == [status |-> "none", old |-> FALSE]

Init ==
  /\ scene \in Scenes
  /\ recorded = [i \in Ids |-> "none"]
  /\ \E mode \in scene.modes :
       /\ enr = [e \in Enrollments |-> IF e = 1 THEN [state |-> "enrolled", mode |-> mode, url |-> TRUE]
                                       ELSE [state |-> "none", mode |-> "push", url |-> FALSE]]
       /\ box = [e \in Enrollments |-> IF e = 1 THEN [Off(mode) EXCEPT !.up = TRUE, !.registered = TRUE] ELSE Off("pull")]
  /\ ranking = <<1>>
  /\ pending = <<>> /\ failures = <<>>
  /\ fwd = [i \in Ids |-> Resting]
  /\ hook = [e \in Enrollments |-> [i \in Ids |-> Unseen]]
  /\ jobs = [e \in Enrollments |-> {}]
  /\ hand = [h \in Posts \cup Drains |-> Free]
  /\ excuse = [i \in Ids |-> "none"]
  /\ changes = 0 /\ faults = 0

\* A statement of the pull branch fails, another one of the Orb or its process does, a message is lost, or a
\* container fails.
Fault(kind) == kind \in scene.faulty /\ faults < scene.faults /\ faults' = faults + 1
Excuse(S, why) == excuse' = [i \in Ids |-> IF i \in S THEN why ELSE excuse[i]]

-----------------------------------------------------------------------------
(* Ingress                                                                 *)

\* handleOrbWebhook: a delivery already received is a duplicate; otherwise its side effects are applied, the
\* event is recorded, GitHub is answered and the forward goes on in waitUntil.  When a side effect fails the row
\* says so, and the delivery may come again.
handleOrbWebhook(i) ==
  /\ i \in scene.ids /\ recorded[i] # "received"
  /\ \/ /\ recorded' = [recorded EXCEPT ![i] = "received"]
        /\ fwd' = [fwd EXCEPT ![i] = [Resting EXCEPT !.pc = "read"]]
        /\ UNCHANGED faults
     \/ recorded' = [recorded EXCEPT ![i] = "error"] /\ Fault("orb") /\ UNCHANGED fwd
  /\ UNCHANGED <<scene, enr, ranking, pending, failures, self, excuse, changes>>

\* pushFleetConfig for this installation.
pushFleetConfig(i) ==
  /\ i \in scene.ids /\ recorded[i] = "none"
  /\ recorded' = [recorded EXCEPT ![i] = "received"]
  /\ fwd' = [fwd EXCEPT ![i] = [Resting EXCEPT !.pc = "insert"]]
  /\ UNCHANGED <<scene, enr, ranking, pending, failures, self, excuse, changes, faults>>

-----------------------------------------------------------------------------
(* Forwarding                                                              *)

Goto(i, pc) == fwd' = [fwd EXCEPT ![i].pc = pc]
Ends(i, out) == fwd' = [fwd EXCEPT ![i].pc = "settle", ![i].out = out]

\* The live enrolments, and the first of them.
liveRows == {e \in Enrollments : enr[e].state = "enrolled"}
First(e) == \E n \in DOMAIN ranking : ranking[n] = e /\ \A m \in 1 .. n - 1 : ranking[m] \notin liveRows

\* forwardOrbEvent reads the enrolments and branches on the first of them.
ReadEnrollment(i) ==
  /\ fwd[i].pc = "read"
  /\ \/ liveRows = {} /\ Ends(i, "ignored") /\ UNCHANGED faults
     \/ \E e \in liveRows :
        /\ First(e)
        /\ \/ enr[e].mode = "pull" /\ fwd' = [fwd EXCEPT ![i].pc = "insert", ![i].to = e] /\ UNCHANGED faults
           \/ enr[e].mode = "push" /\ enr[e].url /\ fwd' = [fwd EXCEPT ![i].pc = "post", ![i].to = e] /\ UNCHANGED faults
           \/ enr[e].mode = "push" /\ ~enr[e].url /\ Ends(i, "skipped") /\ UNCHANGED faults
           \/ enr[e].mode = "push" /\ enr[e].url /\ Ends(i, "skipped") /\ Fault("orb")  \* no TOKEN_ENCRYPTION_SECRET
     \/ Ends(i, "failed") /\ Fault("orb")
  /\ UNCHANGED <<scene, orb, self, excuse, changes>>

\* Mutation: expired rows are kept.
NeverExpired(row) == FALSE
Expired(row) == row.age > PendingTTL
Without(S) == [i \in DOMAIN pending \ S |-> [pending[i] EXCEPT !.before = @ \ S]]

\* pruneRelayPending: rows beyond their retention are deleted, with an error log.
Dropped == {i \in DOMAIN pending : Expired(pending[i])}

\* Prune and INSERT ... ON CONFLICT DO NOTHING.
Insert(i) ==
  /\ fwd[i].pc = "insert"
  /\ LET key == IF i \in Notices THEN NoKey ELSE Key[i]
         rows == DOMAIN pending \ Dropped
         row == [key |-> key, to |-> fwd[i].to, age |-> 0, before |-> rows]
     IN /\ pending' = [j \in rows \cup {i} |-> IF j \in rows THEN Without(Dropped)[j] ELSE row]
        /\ Goto(i, IF i \notin rows /\ key # NoKey THEN "coalesce" ELSE "cap")
  /\ Excuse(Dropped, "logged")
  /\ UNCHANGED <<scene, recorded, enr, ranking, failures, self, changes, faults>>

\* Rows of the same key that were inserted before are superseded, whatever their enrolment.
Coalesce(i) ==
  /\ fwd[i].pc = "coalesce"
  /\ pending' = Without({j \in DOMAIN pending : pending[j].key = Key[i] /\ i \in DOMAIN pending /\ j \in pending[i].before})
  /\ Goto(i, "cap")
  /\ UNCHANGED <<scene, recorded, enr, ranking, failures, self, excuse, changes, faults>>

\* By created_at, then delivery_id.
Older(i, j) == pending[i].age > pending[j].age \/ (pending[i].age = pending[j].age /\ i < j)

\* The oldest rows beyond the cap are sampled, logged and deleted; a notice's insert deletes without the log.
EnforceCap(i) ==
  /\ fwd[i].pc = "cap"
  /\ LET over == {j \in DOMAIN pending : Cardinality({k \in DOMAIN pending : Older(j, k)}) >= Cap}
     IN pending' = Without(over) /\ Excuse(over, IF i \in Notices THEN "evicted" ELSE "logged")
  /\ Ends(i, "queued")
  /\ UNCHANGED <<scene, recorded, enr, ranking, failures, self, changes, faults>>

\* One of the statements of the pull branch throws.
EnqueueThrows(i) ==
  /\ fwd[i].pc \in {"insert", "coalesce", "cap"} /\ Fault("queue")
  /\ Ends(i, "failed")
  /\ UNCHANGED <<scene, orb, self, excuse, changes>>

\* The POST is sent; it may be lost, or find nobody.
Post(i) ==
  /\ fwd[i].pc = "post"
  /\ \/ /\ box[fwd[i].to].up /\ Goto(i, "wait") /\ UNCHANGED faults
        /\ hand' = [hand EXCEPT ![<<"post", i>>] = [pc |-> "check", at |-> fwd[i].to, id |-> i]]
     \/ ~box[fwd[i].to].up /\ Ends(i, "failed") /\ UNCHANGED <<hand, faults>>
     \/ box[fwd[i].to].up /\ Fault("wire") /\ Ends(i, "failed") /\ UNCHANGED hand
  /\ UNCHANGED <<scene, orb, box, hook, jobs, excuse, changes>>

\* The receiver answers; the Orb may have stopped waiting.
Answer(i) ==
  /\ i \in Events /\ hand[<<"post", i>>].pc \in {"taken", "refused"}
  /\ IF fwd[i].pc = "wait" THEN Ends(i, IF hand[<<"post", i>>].pc = "taken" THEN "forwarded" ELSE "failed")
     ELSE UNCHANGED fwd
  /\ hand' = [hand EXCEPT ![<<"post", i>>] = Free]
  /\ UNCHANGED <<scene, orb, box, hook, jobs, excuse, changes, faults>>

\* The POST times out after 10 s: the container is slow, or gone.
PostTimeout(i) ==
  /\ fwd[i].pc = "wait"
  /\ Ends(i, "failed")
  /\ UNCHANGED <<scene, orb, self, excuse, changes, faults>>

\* Mutation: an event for a relay that is not registered yet is not kept.
PersistFailedOnly(out) == out = "failed"
\* A failed forward is kept, and so is one that found no registered relay.
shouldPersistRelayFailure(out) == out \in {"failed", "skipped"}

\* INSERT ... ON CONFLICT DO NOTHING.
storeRelayFailure(i) ==
  [j \in DOMAIN failures \cup {i} |->
     IF j \in DOMAIN failures THEN failures[j] ELSE [age |-> 0, attempts |-> 0, hot |-> FALSE]]

\* persistRelayForwardOutcome; when the insert throws, relayForward logs the loss.
Persist(i) ==
  /\ fwd[i].pc = "settle" /\ ~fwd[i].retry /\ i \in Events
  /\ \/ /\ shouldPersistRelayFailure(fwd[i].out)
        /\ failures' = storeRelayFailure(i)
        /\ UNCHANGED <<excuse, faults>>
     \/ /\ shouldPersistRelayFailure(fwd[i].out) /\ Fault("orb")
        /\ Excuse({i}, "logged") /\ UNCHANGED failures
     \/ /\ ~shouldPersistRelayFailure(fwd[i].out)
        /\ Excuse(IF fwd[i].out = "ignored" THEN {i} ELSE {}, "ignored") /\ UNCHANGED <<failures, faults>>
  /\ fwd' = [fwd EXCEPT ![i] = Resting]
  /\ UNCHANGED <<scene, recorded, enr, ranking, pending, self, changes>>

\* What the request reports of a notice's target.
ReportTarget(i) ==
  /\ fwd[i].pc = "settle" /\ i \in Notices
  /\ Excuse(IF fwd[i].out = "failed" THEN {i} ELSE {}, "reported")
  /\ fwd' = [fwd EXCEPT ![i] = Resting]
  /\ UNCHANGED <<scene, orb, self, changes, faults>>

-----------------------------------------------------------------------------
(* The retry cron job                                                      *)

\* Mutation: one attempt too many.
SpentLate(row) == row.age > FailureTTL \/ row.attempts > MaxAttempts
Spent(row) == row.age > FailureTTL \/ row.attempts >= MaxAttempts

\* retryFailedRelays drops what is spent, with an error log, and forwards what is not in its backoff.  One run
\* of the job is over before the next one starts, and a receiver whose POST timed out ends before the job runs.
retryFailedRelays ==
  /\ DOMAIN failures # {} /\ \A i \in Events : ~fwd[i].retry
  /\ LET spent == {i \in DOMAIN failures : Spent(failures[i])}
         due == {i \in DOMAIN failures \ spent : ~failures[i].hot /\ hand[<<"post", i>>] = Free}
     IN /\ spent \cup due # {}
        /\ failures' = [i \in DOMAIN failures \ spent |-> failures[i]]
        /\ fwd' = [i \in Ids |-> IF i \in due THEN [Resting EXCEPT !.pc = "read", !.retry = TRUE] ELSE fwd[i]]
        /\ Excuse(spent, "logged")
  /\ UNCHANGED <<scene, recorded, enr, ranking, pending, self, changes, faults>>

isRelayFailureRetryTerminal(out) == out \in {"forwarded", "queued", "ignored"}

\* finalizeRelayFailureRetryRow: a write that fails leaves the row as it was.
Finalize(i) ==
  /\ fwd[i].pc = "settle" /\ fwd[i].retry
  /\ \/ /\ isRelayFailureRetryTerminal(fwd[i].out)
        /\ failures' = [j \in DOMAIN failures \ {i} |-> failures[j]]
        /\ Excuse(IF fwd[i].out = "ignored" THEN {i} ELSE {}, "ignored")
        /\ UNCHANGED faults
     \/ /\ ~isRelayFailureRetryTerminal(fwd[i].out)
        /\ failures' = [failures EXCEPT ![i].attempts = @ + 1, ![i].hot = TRUE]
        /\ UNCHANGED <<excuse, faults>>
     \/ Fault("orb") /\ UNCHANGED <<failures, excuse>>
  /\ fwd' = [fwd EXCEPT ![i] = Resting]
  /\ UNCHANGED <<scene, recorded, enr, ranking, pending, self, changes>>

\* A call for another installation prunes the pending table, fleet-wide.
PruneElsewhere ==
  /\ Dropped # {}
  /\ pending' = Without(Dropped)
  /\ Excuse(Dropped, "logged")
  /\ UNCHANGED <<scene, recorded, enr, ranking, failures, fwd, self, changes, faults>>

\* The Orb's process dies with its deferred forwards; a retry's row stays where it is.
OrbDies ==
  /\ \E i \in Ids : fwd[i] # Resting
  /\ Fault("orb")
  /\ Excuse({i \in Ids : fwd[i] # Resting /\ ~fwd[i].retry}, "died")
  /\ fwd' = [i \in Ids |-> Resting]
  /\ UNCHANGED <<scene, orb, self, changes>>

-----------------------------------------------------------------------------
(* Enrolment                                                               *)

Change == changes < scene.changes /\ changes' = changes + 1

\* Registered enrolments come first, newest registration first, then the others, newest first.
Registered(e) == enr[e].url \/ enr[e].mode = "pull"

\* issueOrbEnrollment inserts a row that has no relay yet.
issueOrbEnrollment(e) ==
  /\ enr[e].state = "none" /\ \A d \in Enrollments : d < e => enr[d].state # "none"
  /\ Change
  /\ enr' = [enr EXCEPT ![e] = [state |-> "enrolled", mode |-> "push", url |-> FALSE]]
  /\ \E n \in 0 .. Len(ranking) :
       /\ \A m \in DOMAIN ranking : Registered(ranking[m]) <=> m <= n
       /\ ranking' = SubSeq(ranking, 1, n) \o <<e>> \o SubSeq(ranking, n + 1, Len(ranking))
  /\ UNCHANGED <<scene, recorded, pending, failures, fwd, self, excuse, faults>>

\* One enrolment is revoked, or every live one; a rotation does the latter and then issues a new one.
revokeEnrollments(S) ==
  /\ \E e \in S : enr[e].state = "enrolled"
  /\ Change
  /\ enr' = [e \in Enrollments |-> IF e \in S /\ enr[e].state = "enrolled" THEN [enr[e] EXCEPT !.state = "revoked"]
                                  ELSE enr[e]]
  /\ UNCHANGED <<scene, recorded, ranking, pending, failures, fwd, self, excuse, faults>>

\* registerOrbRelayTargetWithRetry in the container, registerValidatedOrbRelay at the Orb.
Register(e) ==
  /\ box[e].up /\ ~box[e].registered /\ enr[e].state = "enrolled"
  /\ box' = [box EXCEPT ![e].registered = TRUE]
  /\ enr' = [enr EXCEPT ![e].mode = box[e].mode, ![e].url = @ \/ box[e].mode = "push"]
  /\ \E n \in DOMAIN ranking :
       ranking[n] = e /\ ranking' = <<e>> \o SubSeq(ranking, 1, n - 1) \o SubSeq(ranking, n + 1, Len(ranking))
  /\ UNCHANGED <<scene, recorded, pending, failures, fwd, hook, jobs, hand, excuse, changes, faults>>

-----------------------------------------------------------------------------
(* The container                                                           *)

\* A container starts with one of the two relay modes.
Boot(e, mode) ==
  /\ ~box[e].up /\ enr[e].state # "none"
  /\ box' = [box EXCEPT ![e] = [Off(mode) EXCEPT !.up = TRUE]]
  /\ UNCHANGED <<scene, orb, fwd, hook, jobs, hand, excuse, changes, faults>>

\* Its memory goes with it, the ids it was to acknowledge included.
Crash(e) ==
  /\ box[e].up /\ Fault("box")
  /\ box' = [box EXCEPT ![e] = Off(box[e].mode)]
  /\ hand' = [h \in DOMAIN hand |-> IF hand[h].at = e THEN Free ELSE hand[h]]
  /\ UNCHANGED <<scene, orb, fwd, hook, jobs, excuse, changes>>

\* Mutation: a drain is scoped to the installation only.
AnyRow(e, row) == TRUE
\* A drain is scoped to the rows of its enrolment and those of none.
Own(e, row) == row.to \in {e, Nobody}

\* pullRelayPending, first half: prune, and delete what the container acknowledges of its own rows.
PullAck(e) ==
  /\ box[e].up /\ box[e].mode = "pull" /\ box[e].drain = "idle" /\ box[e].todo = <<>> /\ hand[<<"drain", e>>] = Free
  /\ enr[e].state = "enrolled"
  /\ pending' = Without(Dropped \cup {i \in DOMAIN pending : Own(e, pending[i]) /\ i \in box[e].ack})
  /\ Excuse(Dropped, "logged")
  /\ box' = [box EXCEPT ![e].drain = "asked"]
  /\ UNCHANGED <<scene, recorded, enr, ranking, failures, fwd, hook, jobs, hand, changes, faults>>

\* The rows of S, oldest first, as many as a batch has.
IsBatch(rows, S) ==
  /\ \A n \in DOMAIN rows : {i \in S : Older(i, rows[n])} = {rows[m] : m \in 1 .. n - 1}
  /\ Len(rows) = Batch \/ S = {rows[n] : n \in DOMAIN rows}

\* Second half: the oldest of its rows are returned; the container forgets what it acknowledged.
PullBatch(e) ==
  /\ box[e].drain = "asked"
  /\ LET own == {i \in DOMAIN pending : Own(e, pending[i])}
     IN \E n \in 0 .. Batch : \E rows \in [1 .. n -> own] :
          IsBatch(rows, own) /\ box' = [box EXCEPT ![e].drain = "idle", ![e].ack = {}, ![e].todo = rows]
  /\ UNCHANGED <<scene, orb, fwd, hook, jobs, hand, excuse, changes, faults>>

\* The answer is lost, or a statement threw: the next drain acknowledges the same ids again.
PullFails(e) ==
  /\ box[e].drain = "asked" /\ Fault("wire")
  /\ box' = [box EXCEPT ![e].drain = "idle"]
  /\ UNCHANGED <<scene, orb, fwd, hook, jobs, hand, excuse, changes>>

\* drainOrbRelayWithMonitor takes the events in hand one by one.
TakeUp(e) ==
  /\ box[e].todo # <<>> /\ hand[<<"drain", e>>] = Free
  /\ LET i == Head(box[e].todo)
     IN hand' = [hand EXCEPT ![<<"drain", e>>] = [pc |-> IF i \in Notices THEN "show" ELSE "check", at |-> e, id |-> i]]
  /\ box' = [box EXCEPT ![e].todo = Tail(@)]
  /\ UNCHANGED <<scene, orb, fwd, hook, jobs, excuse, changes, faults>>

\* What was taken is acknowledged with the next drain, what was refused is not.
Finish(e) ==
  /\ hand[<<"drain", e>>].pc \in {"taken", "refused"}
  /\ box' = IF hand[<<"drain", e>>].pc = "taken" THEN [box EXCEPT ![e].ack = @ \cup {hand[<<"drain", e>>].id}] ELSE box
  /\ hand' = [hand EXCEPT ![<<"drain", e>>] = Free]
  /\ UNCHANGED <<scene, orb, fwd, hook, jobs, excuse, changes, faults>>

\* handleConfigPushRelayEvent.
Show(h) ==
  /\ hand[h].pc = "show"
  /\ hook' = [hook EXCEPT ![hand[h].at][hand[h].id] = [status |-> "processed", old |-> FALSE]]
  /\ hand' = [hand EXCEPT ![h].pc = "taken"]
  /\ UNCHANGED <<scene, orb, fwd, box, jobs, excuse, changes, faults>>

-----------------------------------------------------------------------------
(* enqueueWebhookByEnv                                                     *)

Row(h) == hook[hand[h].at][hand[h].id]
Step(h, pc) == hand' = [hand EXCEPT ![h].pc = pc]
\* recordWebhookEvent: received_at is that of the first receipt.
Mark(h, status) == hook' = [hook EXCEPT ![hand[h].at][hand[h].id].status = status]

\* "queued" stands for "superseded" too, which the container's queue writes when it coalesces.
\* Suppressed: processed, or recorded with this payload and neither failed nor stuck for ten minutes.
Duplicate(row) == row.status = "processed" \/ (row.status = "queued" /\ ~row.old)

\* getWebhookEvent and the decision taken from it.
Check(h) ==
  /\ hand[h].pc = "check"
  /\ Step(h, IF Duplicate(Row(h)) THEN "taken" ELSE "record")
  /\ UNCHANGED <<scene, orb, fwd, box, hook, jobs, excuse, changes, faults>>

\* The event is recorded as queued, or as processed when it is noise.
Record(h) ==
  /\ hand[h].pc = "record"
  /\ IF hand[h].id \in Noise THEN Mark(h, "processed") /\ Step(h, "taken") ELSE Mark(h, "queued") /\ Step(h, "send")
  /\ UNCHANGED <<scene, orb, fwd, box, jobs, excuse, changes, faults>>

\* WEBHOOKS.send; when it throws the row is to be marked as an error.
Send(h) ==
  /\ hand[h].pc = "send"
  /\ \/ /\ jobs' = [jobs EXCEPT ![hand[h].at] = @ \cup {hand[h].id}]
        /\ Step(h, "taken") /\ UNCHANGED faults
     \/ Fault("box") /\ Step(h, "mend") /\ UNCHANGED jobs
  /\ UNCHANGED <<scene, orb, fwd, box, hook, excuse, changes>>

Mend(h) ==
  /\ hand[h].pc = "mend"
  /\ Mark(h, "error") /\ Step(h, "refused")
  /\ UNCHANGED <<scene, orb, fwd, box, jobs, excuse, changes, faults>>

\* A statement throws: the drain goes on to its next event, the receiver answers 500.
Throws(h) ==
  /\ hand[h].pc \in {"show", "check", "record", "mend"} /\ Fault("box")
  /\ Step(h, "refused")
  /\ UNCHANGED <<scene, orb, fwd, box, hook, jobs, excuse, changes>>

\* The container's queue runs the job, and the processor records it as processed.
Process(e, i) ==
  /\ i \in jobs[e] /\ hook[e][i].status # "processed"
  /\ hook' = [hook EXCEPT ![e][i].status = "processed"]
  /\ UNCHANGED <<scene, orb, fwd, box, jobs, hand, excuse, changes, faults>>

-----------------------------------------------------------------------------
\* A tick of at least ten minutes: rows age, backoffs end.  A forward takes seconds (its POST times out after 10 s).
Tick ==
  /\ \A i \in Ids : fwd[i] = Resting
  /\ pending' = [i \in DOMAIN pending |-> [pending[i] EXCEPT !.age = IF @ > PendingTTL THEN @ ELSE @ + 1]]
  /\ failures' = [i \in DOMAIN failures |-> [failures[i] EXCEPT !.age = IF @ > FailureTTL THEN @ ELSE @ + 1, !.hot = FALSE]]
  /\ hook' = [e \in Enrollments |-> [i \in Ids |-> [hook[e][i] EXCEPT !.old = hook[e][i].status \in {"queued", "error"}]]]
  /\ <<pending, failures, hook>>' # <<pending, failures, hook>>
  /\ UNCHANGED <<scene, recorded, enr, ranking, fwd, box, jobs, hand, excuse, changes, faults>>

Forward(i) ==
  \/ ReadEnrollment(i) \/ Insert(i) \/ Coalesce(i) \/ EnforceCap(i) \/ EnqueueThrows(i)
  \/ Post(i) \/ Answer(i) \/ PostTimeout(i) \/ Persist(i) \/ ReportTarget(i) \/ Finalize(i)
Enqueue(h) == Show(h) \/ Check(h) \/ Record(h) \/ Send(h) \/ Mend(h) \/ Throws(h)
Drain(e) == PullAck(e) \/ PullBatch(e) \/ PullFails(e) \/ TakeUp(e) \/ Finish(e)

Next ==
  \/ \E i \in Events : handleOrbWebhook(i)
  \/ \E i \in Notices : pushFleetConfig(i)
  \/ \E i \in Ids : Forward(i)
  \/ retryFailedRelays \/ PruneElsewhere \/ OrbDies
  \/ \E S \in {Enrollments} \cup {{e} : e \in Enrollments} : revokeEnrollments(S)
  \/ \E e \in Enrollments : \/ issueOrbEnrollment(e) \/ Register(e) \/ Crash(e) \/ Drain(e)
                            \/ \E mode \in scene.modes : Boot(e, mode)
                            \/ \E i \in Events : Process(e, i)
  \/ \E h \in DOMAIN hand : Enqueue(h)
  \/ Tick

Fairness ==
  /\ WF_vars(\E i \in Ids : Forward(i)) /\ WF_vars(\E h \in DOMAIN hand : Enqueue(h))
  /\ WF_vars(retryFailedRelays) /\ WF_vars(PruneElsewhere) /\ WF_vars(Tick)

Spec == Init /\ [][Next]_vars /\ Fairness

-----------------------------------------------------------------------------
Outcomes == {"none", "forwarded", "queued", "skipped", "ignored", "failed"}

\* Every variable keeps the shape of what it stands for: rows of the relay's tables, forwards, containers, receivers.
TypeOK ==
  /\ scene \in Scenes
  /\ recorded \in [Ids -> {"none", "error", "received"}]
  /\ enr \in [Enrollments -> [state : {"none", "enrolled", "revoked"}, mode : {"push", "pull"}, url : BOOLEAN]]
  /\ ranking \in Seq(Enrollments)
  /\ DOMAIN pending \subseteq Ids
  /\ pending \in [DOMAIN pending -> [key : Nat, to : Enrollments \cup {Nobody}, age : 0 .. PendingTTL + 1,
                                       before : SUBSET DOMAIN pending]]
  /\ DOMAIN failures \subseteq Events
  /\ failures \in [DOMAIN failures -> [age : 0 .. FailureTTL + 1, attempts : 0 .. MaxAttempts, hot : BOOLEAN]]
  /\ fwd \in [Ids -> [pc : {"idle", "read", "insert", "coalesce", "cap", "post", "wait", "settle"},
                       to : Enrollments \cup {Nobody}, out : Outcomes, retry : BOOLEAN]]
  /\ box \in [Enrollments -> [up : BOOLEAN, mode : {"push", "pull"}, registered : BOOLEAN, ack : SUBSET Ids,
                               drain : {"idle", "asked"}, todo : Seq(Ids)]]
  /\ hook \in [Enrollments -> [Ids -> [status : {"none", "queued", "processed", "error"}, old : BOOLEAN]]]
  /\ jobs \in [Enrollments -> SUBSET Events]
  /\ hand \in [Posts \cup Drains -> [pc : {"idle", "show", "check", "record", "send", "mend", "taken", "refused"},
                                      at : Enrollments \cup {Nobody}, id : Ids \cup {0}]]
  /\ excuse \in [Ids -> {"none", "logged", "evicted", "reported", "ignored", "died"}]
  /\ changes \in 0 .. scene.changes /\ faults \in 0 .. scene.faults

OnItsWay(i) == fwd[i] # Resting \/ i \in DOMAIN pending \/ i \in DOMAIN failures
TakenIn(i) == \E e \in Enrollments : hook[e][i].status \in {"queued", "processed"} \/ i \in jobs[e]
Kept(i) == OnItsWay(i) \/ TakenIn(i) \/ excuse[i] # "none"

\* An event the Orb has answered GitHub for is on its way, or a container has recorded it, or it was given up
\* for a reason that leaves a trace (a drop log, no live enrolment, the cap, a dead process), or another event
\* of its key stands for it: no failed statement, lost answer, refused enqueue, re-enrolment or crash of a
\* container makes it vanish (relay.ts: "zero-trace-loss doctrine").  OrbRelayProofs has the premise under which
\* this holds for every number of faults.
Accounted ==
  \A i \in Ids : recorded[i] = "received" =>
     Kept(i) \/ (i \in Events /\ \E j \in Events \ {i} : Key[j] = Key[i] /\ Key[i] # NoKey /\ Kept(j) /\ recorded[j] = "received")

\* A row queued for one enrolment, which that enrolment's container has not seen, is never taken away by another
\* live enrolment of the installation: it goes only when it expires, is evicted, or is superseded by an event of
\* its key (relay.ts #9150, "a stale re-enrolled container").
NotStolen ==
  [][\A i \in DOMAIN pending : LET row == pending[i] IN
       i \notin DOMAIN pending' /\ row.to # Nobody /\ hook[row.to][i].status = "none" =>
         \/ excuse'[i] \in {"logged", "evicted"}
         \/ \E j \in Events \ {i} : j \in DOMAIN pending' /\ Key[j] = row.key /\ row.key # NoKey]_vars

\* Nothing stays in the relay for ever: retries are bounded by attempts and age, and rows nobody drains expire.
LeavesRelay == \A i \in Ids : OnItsWay(i) ~> ~OnItsWay(i)

\* What a container acknowledges, and the Orb then deletes, is in its job queue (api/routes.ts: "acks the
\* delivery_ids it durably accepted on its previous pull").
DurablyAccepted == \A e \in Enrollments : box[e].ack \cap Events \subseteq jobs[e] \cup Noise
=============================================================================
