----------------------------- MODULE ReviewLocks -----------------------------
(***************************************************************************)
(* The transient locks that keep two passes over one pull request apart,   *)
(* and the passes that take them: src/queue/transient-locks.ts,            *)
(* held-lock-registry.ts, ai-review-orchestration.ts (the AI-review lock), *)
(* selfhost/redis-cache.ts, and the call sites of queue/processors.ts and  *)
(* server.ts, for a self-hosted install (Redis, no Durable Object).        *)
(*                                                                         *)
(* One pull request, one head and one author, so three keys: "pr" (the     *)
(* actuation lock), "ai" (the review lock), "cap" (the contributor cap).   *)
(* A pass is a job of the queue; several processes run passes.  A Redis    *)
(* command takes effect when it is sent, and the pass goes on when the     *)
(* reply is handled: that is two steps, since other passes run in between. *)
(* randomUUID makes every owner token new; here a pass takes one token for *)
(* all its claims, and a new one, known to nobody, when it is retried.     *)
(*                                                                         *)
(* Time is counted in Ticks; a heartbeat timer fires on time, so a Tick    *)
(* waits for the renewals that are due.                                    *)
(***************************************************************************)
EXTENDS Integers, Sequences, FiniteSets

CONSTANTS
  Procs,           \* the processes that share the Redis
  Passes,          \* the passes
  Tokens,          \* owner tokens
  Kinds,           \* the kind each pass may have, see kind
  Ttl,             \* the TTL of a lock
  Interval,        \* the heartbeat interval
  SingleInstance,  \* LOOPOVER_SINGLE_INSTANCE
  ForceRelease,    \* whether LOOPOVER_SHUTDOWN_LOCK_RELEASE_AFTER_MS is set
  None,            \* no token, no process
  MaxFaults        \* bound: Redis and GitHub errors, signals and kills in one behaviour

\* Math.floor(ttl / 3), with a TTL of at least three seconds.
ASSUME LocksAssumption ==
  /\ Kinds \subseteq [Passes -> [path : {"sweep", "webhook", "capclose"}, forced : BOOLEAN, recheck : BOOLEAN]]
  /\ Ttl \in Nat /\ Interval \in Nat \ {0} /\ 3 * Interval <= Ttl
  /\ MaxFaults \in Nat /\ ForceRelease \in BOOLEAN
  /\ None \notin Tokens /\ None \notin Procs

\* A deployment that says it has one process has one.
ASSUME SingleInstanceAssumption ==
  SingleInstance \in BOOLEAN /\ (SingleInstance => \A P, Q \in Procs : P = Q)

VARIABLES
  kind,     \* where a pass comes from: reReviewStoredPullRequest ("sweep", which renews the actuation
            \* lock), a webhook, or maybeCloseForContributorCapOnOpen ("capclose"); whether a maintainer
            \* forced it, so that its review claim steals; and whether a merge re-checks the contributor
            \* cap (contributorCapMergeRecheck)
  store,    \* Redis: the token of each key
  left,     \* Redis: what is left of its TTL
  pc,       \* where each pass is, and on which key
  proc,     \* the process a pass runs in
  cur,      \* the ownerToken of the pass
  token,    \* the keys for which a pass has an ownerToken and has not released it
  beat,     \* the keys a pass keeps a heartbeat for
  since,    \* time since the last renewal of each was sent
  lost,     \* actuationLockLost, aiReviewLockLost
  aborting, \* passes on their way out of a try block that threw
  replies,  \* claims answered but not yet seen by their pass, per connection
  held,     \* heldLocks, the registry of each process
  bulk,     \* what releaseAllHeldLocksAtShutdown has still to release
  life,     \* each process: "up", "draining", "releasing" or "down"
  late,     \* history: keys a pass claimed a Tick or more ago and has not renewed since
  lapsed,   \* history: keys of a pass whose TTL ran out
  fails,    \* history: renewals that failed since one succeeded, up to 2
  stolen,   \* history: passes whose review lock a forced pass overwrote
  faults    \* faults so far

redis == <<store, left>>
own   == <<proc, cur, token, aborting>>
beats == <<beat, since, lost, late, lapsed, fails>>
host  == <<held, bulk, life>>
vars  == <<kind, redis, pc, own, beats, replies, host, stolen, faults>>

Keys == {"pr", "ai", "cap"}
Stages == {"queued", "await", "claim", "refresh", "publish", "review", "persist", "check", "mutate",
           "release", "done"}
At(stage, k) == [stage |-> stage, key |-> k]
Stage(p) == pc[p].stage

Running(p) == Stage(p) \notin {"queued", "done"}
RunningIn(P) == {p \in Passes : Running(p) /\ proc[p] = P}
NoEntry == [k \in Keys |-> None]
Zero == [k \in Keys |-> 0]
Min2(a, b) == IF a <= b THEN a ELSE b

Init ==
  /\ kind \in Kinds
  /\ store = NoEntry /\ left = Zero
  /\ pc = [p \in Passes |-> At("queued", "pr")]
  /\ proc = [p \in Passes |-> None] /\ cur = [p \in Passes |-> None]
  /\ token = [p \in Passes |-> {}] /\ beat = [p \in Passes |-> {}]
  /\ lost = [p \in Passes |-> {}] /\ late = [p \in Passes |-> {}] /\ lapsed = [p \in Passes |-> {}]
  /\ since = [p \in Passes |-> Zero] /\ fails = [p \in Passes |-> Zero]
  /\ aborting = {} /\ stolen = {}
  /\ replies = [P \in Procs |-> <<>>]
  /\ held = [P \in Procs |-> NoEntry] /\ bulk = [P \in Procs |-> NoEntry]
  /\ life = [P \in Procs |-> "up"]
  /\ faults = 0

-----------------------------------------------------------------------------
(* Claiming                                                                *)

\* Mutation: SET without EX.
WriteForEver(k, t) == store' = [store EXCEPT ![k] = t] /\ UNCHANGED left
\* SET ... EX: the token, with its TTL.
Write(k, t) == store' = [store EXCEPT ![k] = t] /\ left' = [left EXCEPT ![k] = Ttl]

\* claim is SET NX, the steal of a forced review a plain SET: <<the answer, whether it writes>>.
ClaimAnswer(p, k) ==
  IF store[k] = None \/ (k = "ai" /\ kind[p].forced) THEN <<"ok", TRUE>> ELSE <<"denied", FALSE>>

\* The command reaches Redis, or fails before or after it took effect (then the caller fails open).
\* t is the token of the claim, P the process whose connection carries it.
SendClaim(p, k, t, P) ==
  /\ \E answer \in {ClaimAnswer(p, k), <<"open", ClaimAnswer(p, k)[2]>>, <<"open", FALSE>>} :
       /\ faults' = IF answer[1] = "open" THEN faults + 1 ELSE faults
       /\ faults' <= MaxFaults
       /\ IF answer[2] THEN Write(k, t) ELSE UNCHANGED redis
       /\ stolen' = (IF k = "ai" THEN stolen \ {p} ELSE stolen)
                    \cup {q \in Passes \ {p} : answer[2] /\ store[k] # None /\ cur[q] = store[k]}
       /\ replies' = [replies EXCEPT ![P] = Append(@, [pass |-> p, key |-> k, answer |-> answer[1]])]
  /\ pc' = [pc EXCEPT ![p] = At("await", k)]
  /\ UNCHANGED <<token, aborting, beats, host>>

\* A process takes the job; the first thing a pass needs is a lock.
FirstKey(p) == IF kind[p].path = "capclose" THEN "cap" ELSE "pr"
Fresh == {t \in Tokens : /\ \A k \in Keys : store[k] # t
                         /\ \A k \in Keys : \A P \in Procs : held[P][k] # t /\ bulk[P][k] # t
                         /\ \A p \in Passes : cur[p] # t}
Begin(p, P) ==
  /\ Stage(p) = "queued" /\ life[P] = "up"
  /\ proc' = [proc EXCEPT ![p] = P]
  /\ \E t \in Fresh : /\ cur' = [cur EXCEPT ![p] = t]
                      /\ SendClaim(p, FirstKey(p), t, P)

\* maybePublishPrPublicSurface comes to its AI review.
ClaimReview(p) == Stage(p) = "publish" /\ SendClaim(p, "ai", cur[p], proc[p]) /\ UNCHANGED <<proc, cur>>
\* The nested actuation lock of a cap close.
ClaimNested(p) == Stage(p) = "claim" /\ SendClaim(p, "pr", cur[p], proc[p]) /\ UNCHANGED <<proc, cur>>

AfterGrant(p, k) ==
  CASE k = "ai"                               -> At("review", k)
    [] k = "cap" /\ kind[p].path = "capclose" -> At("claim", "pr")
    [] k = "cap" /\ kind[p].path # "capclose" -> At("mutate", k)
    [] k = "pr" /\ kind[p].path = "capclose"  -> At("mutate", k)
    [] k = "pr" /\ kind[p].path = "sweep"     -> At("refresh", k)
    [] k = "pr" /\ kind[p].path = "webhook"   -> At("publish", k)

\* A contended pass is retried by the queue, a contended review is held over, a contended merge
\* denied, and a contended cap close given up (its cap lock, if it has it, released).
AfterDenial(p, k) ==
  CASE k = "ai"                               -> At("check", "pr")
    [] k = "cap" /\ kind[p].path = "capclose" -> At("done", k)
    [] k = "cap" /\ kind[p].path # "capclose" -> At("release", "pr")
    [] k = "pr" /\ kind[p].path = "capclose"  -> At("release", "cap")
    [] k = "pr" /\ kind[p].path # "capclose"  -> At("queued", "pr")

\* A reply is handled, in the order of the connection: a claim that really owns the key is entered
\* in the registry, and a review starts its heartbeat at once.
Reply(P) ==
  /\ replies[P] # <<>>
  /\ LET r == Head(replies[P])
         p == r.pass
         k == r.key
         next == IF r.answer = "denied" THEN AfterDenial(p, k) ELSE AfterGrant(p, k)
     IN /\ pc' = [pc EXCEPT ![p] = next]
        /\ proc' = [proc EXCEPT ![p] = IF next.stage \in {"queued", "done"} THEN None ELSE @]
        /\ cur' = [cur EXCEPT ![p] = IF next.stage \in {"queued", "done"} THEN None ELSE @]
        /\ token' = [token EXCEPT ![p] = IF r.answer = "ok" THEN @ \cup {k} ELSE @]
        /\ held' = IF r.answer = "ok" THEN [held EXCEPT ![P][k] = cur[p]] ELSE held
        /\ beat' = [beat EXCEPT ![p] = IF r.answer = "ok" /\ k = "ai" THEN @ \cup {k}
                                       ELSE IF next = At("release", "pr") THEN @ \ {"pr"} ELSE @]
        /\ late' = [late EXCEPT ![p] = IF r.answer = "ok" THEN @ ELSE @ \ {k}]
        /\ lapsed' = [lapsed EXCEPT ![p] = IF r.answer = "ok" THEN @ ELSE @ \ {k}]
  /\ replies' = [replies EXCEPT ![P] = Tail(@)]
  /\ UNCHANGED <<kind, redis, aborting, since, lost, fails, bulk, life, stolen, faults>>

-----------------------------------------------------------------------------
(* The body of a pass                                                      *)

Body(p, next) ==
  /\ pc' = [pc EXCEPT ![p] = next]
  /\ UNCHANGED <<redis, proc, cur, token, since, replies, lost, late, lapsed, fails, host, stolen>>
StopHeartbeat(p, k) == beat' = [beat EXCEPT ![p] = @ \ {k}]

\* refreshPullRequestDetails is over: only now does the actuation heartbeat start.
StartHeartbeat(p) ==
  /\ Stage(p) = "refresh"
  /\ beat' = [beat EXCEPT ![p] = IF "pr" \in token[p] THEN @ \cup {"pr"} ELSE @]
  /\ Body(p, At("publish", "pr")) /\ UNCHANGED <<aborting, faults>>

\* The publish pass needs no fresh review.
SkipReview(p) ==
  /\ Stage(p) = "publish"
  /\ Body(p, At("check", "pr")) /\ UNCHANGED <<beat, aborting, faults>>

\* Mutation: aiReviewLockLost is not looked at.
PersistsAnyway(p) == TRUE
\* The verdict is persisted, unless the heartbeat has learned that the lock is another's.
Persists(p) == "ai" \notin lost[p]

\* The model has answered: the verdict goes to ai_review_cache.
Persist(p) ==
  /\ Stage(p) = "review" /\ Persists(p)
  /\ Body(p, At("persist", "ai")) /\ UNCHANGED <<beat, aborting, faults>>

\* The review is over, is discarded, or throws a retryable error; the finally block stops the
\* heartbeat.
EndReview(p) ==
  /\ \/ Stage(p) = "persist" /\ UNCHANGED <<aborting, faults>>
     \/ Stage(p) = "review" /\ ~Persists(p) /\ UNCHANGED <<aborting, faults>>
     \/ /\ Stage(p) = "review" /\ aborting' = aborting \cup {p}
        /\ faults < MaxFaults /\ faults' = faults + 1
  /\ StopHeartbeat(p, "ai")
  /\ Body(p, At("release", "ai"))

\* The check after the publish pass: a sweep that knows it lost the lock throws.  A webhook pass
\* has no heartbeat, so it never knows.
AbortLost(p) ==
  /\ Stage(p) = "check" /\ "pr" \in lost[p]
  /\ aborting' = aborting \cup {p}
  /\ StopHeartbeat(p, "pr")
  /\ Body(p, At("release", "pr")) /\ UNCHANGED faults

MayMaintain(p) == Stage(p) = "check" /\ "pr" \notin lost[p]

\* maybeRunAgentMaintenance: nothing to do, mutations that take no further lock, or a merge, which
\* first re-checks the cap under its lock where a cap is configured.
MaintainNothing(p) ==
  /\ MayMaintain(p)
  /\ StopHeartbeat(p, "pr")
  /\ Body(p, At("release", "pr")) /\ UNCHANGED <<aborting, faults>>
Mutate(p) ==
  /\ MayMaintain(p)
  /\ Body(p, At("mutate", "pr")) /\ UNCHANGED <<aborting, beat, faults>>
ClaimCap(p) ==
  /\ MayMaintain(p) /\ kind[p].recheck
  /\ SendClaim(p, "cap", cur[p], proc[p]) /\ UNCHANGED <<proc, cur>>

\* The mutation is over; the innermost lock is released first.
EndMutation(p) ==
  /\ Stage(p) = "mutate"
  /\ StopHeartbeat(p, pc[p].key)
  /\ Body(p, At("release", pc[p].key)) /\ UNCHANGED <<aborting, faults>>

-----------------------------------------------------------------------------
(* Releasing                                                               *)

\* Mutation: the release does not compare the token.
ReleaseUnconditionally(t, k) ==
  /\ store' = [store EXCEPT ![k] = None] /\ left' = [left EXCEPT ![k] = 0]

\* releaseIfValue: compare and delete.
releaseIfValue(t, k) ==
  IF store[k] = t
  THEN store' = [store EXCEPT ![k] = None] /\ left' = [left EXCEPT ![k] = 0]
  ELSE UNCHANGED redis

\* What follows the release of k.
AfterRelease(p, k) ==
  CASE k = "ai" /\ p \in aborting             -> At("release", "pr")
    [] k = "ai" /\ p \notin aborting          -> At("check", "pr")
    [] k = "cap" /\ kind[p].path = "capclose" -> At("done", k)
    [] k = "cap" /\ kind[p].path # "capclose" -> At("release", "pr")
    [] k = "pr" /\ kind[p].path = "capclose"  -> At("release", "cap")
    [] k = "pr" /\ kind[p].path # "capclose"  -> At(IF p \in aborting THEN "queued" ELSE "done", k)

\* A pass moves on from its release of k; an aborted one leaves the outer try block too.
Depart(p, k) ==
  LET next == AfterRelease(p, k)
      ends == next.stage \in {"queued", "done"}
  IN /\ pc' = [pc EXCEPT ![p] = next]
     /\ proc' = [proc EXCEPT ![p] = IF ends THEN None ELSE @]
     /\ cur' = [cur EXCEPT ![p] = IF ends THEN None ELSE @]
     /\ aborting' = IF ends THEN aborting \ {p} ELSE aborting
     /\ beat' = [beat EXCEPT ![p] = IF next = At("release", "pr") THEN @ \ {"pr"} ELSE @]
     /\ lost' = [lost EXCEPT ![p] = @ \ {k}]
     /\ since' = [since EXCEPT ![p][k] = 0]
     /\ late' = [late EXCEPT ![p] = @ \ {k}] /\ lapsed' = [lapsed EXCEPT ![p] = @ \ {k}]
     /\ fails' = [fails EXCEPT ![p][k] = 0]
     /\ stolen' = IF k = "ai" THEN stolen \ {p} ELSE stolen
     /\ UNCHANGED <<replies, bulk, life>>

\* Mutation: the registry entry is deleted by its key alone.
EntryDeleted(P, t, k) == [held EXCEPT ![P][k] = None]
\* unregisterHeldLock: only the pass's own entry.
unregisterHeldLock(P, t, k) == [held EXCEPT ![P][k] = IF @ = t THEN None ELSE @]

\* releaseTransientLockIfOwner and unregisterHeldLock: nothing for a null token; else the command,
\* which may fail, and the registry.  The reply of the command comes before that of any later
\* claim on the connection, so to the process the two are one step.
Release(p) ==
  /\ Stage(p) = "release"
  /\ LET k == pc[p].key IN
     /\ \/ /\ k \in token[p]
           /\ \/ releaseIfValue(cur[p], k) /\ UNCHANGED faults
              \/ faults < MaxFaults /\ faults' = faults + 1 /\ UNCHANGED redis
           /\ held' = unregisterHeldLock(proc[p], cur[p], k)
        \/ /\ k \notin token[p]
           /\ UNCHANGED <<redis, held, faults>>
     /\ token' = [token EXCEPT ![p] = @ \ {k}]
     /\ Depart(p, k)

-----------------------------------------------------------------------------
(* The heartbeat                                                           *)

\* renewIfValue: compare and extend.
StillOurs(p, k) == store[k] = cur[p]

\* Mutation: the renewal finds its token but does not extend the TTL.
RenewedWithoutExtending(p, k) ==
  /\ StillOurs(p, k)
  /\ late' = [late EXCEPT ![p] = @ \ {k}] /\ fails' = [fails EXCEPT ![p][k] = 0]
  /\ UNCHANGED <<left, beat, lost, faults>>

\* The interval timer fires: the key is renewed, or the answer is "not ours" (the heartbeat stops
\* itself and calls onLost), or the command throws and the next tick retries.
Renewed(p, k) ==
  /\ StillOurs(p, k)
  /\ left' = [left EXCEPT ![k] = Ttl]
  /\ late' = [late EXCEPT ![p] = @ \ {k}] /\ fails' = [fails EXCEPT ![p][k] = 0]
  /\ UNCHANGED <<beat, lost, faults>>
LearnedLost(p, k) ==
  /\ ~StillOurs(p, k)
  /\ StopHeartbeat(p, k)
  /\ lost' = [lost EXCEPT ![p] = @ \cup {k}]
  /\ UNCHANGED <<left, late, fails, faults>>
RenewalThrew(p, k) ==
  /\ faults < MaxFaults /\ faults' = faults + 1
  /\ fails' = [fails EXCEPT ![p][k] = Min2(2, @ + 1)]
  /\ UNCHANGED <<left, beat, lost, late>>
Renew(p, k) ==
  /\ k \in beat[p] /\ since[p][k] = Interval
  /\ since' = [since EXCEPT ![p][k] = 0]
  /\ Renewed(p, k) \/ LearnedLost(p, k) \/ RenewalThrew(p, k)
  /\ UNCHANGED <<kind, store, pc, own, lapsed, replies, host, stolen>>

-----------------------------------------------------------------------------
(* Shutdown, kill and boot                                                 *)

\* SIGTERM: the queue takes no further job and drains.
Shutdown(P) ==
  /\ life[P] = "up" /\ faults < MaxFaults
  /\ life' = [life EXCEPT ![P] = "draining"] /\ faults' = faults + 1
  /\ UNCHANGED <<kind, redis, pc, own, beats, replies, held, bulk, stolen>>

\* releaseAllHeldLocksAtShutdown starts: after the drain, or cut short when that is configured.
\* (An undrained queue gives up at its own deadline.)
BulkRelease(P) ==
  /\ life[P] = "draining"
  /\ RunningIn(P) = {} \/ ForceRelease
  /\ bulk' = [bulk EXCEPT ![P] = held[P]] /\ held' = [held EXCEPT ![P] = NoEntry]
  /\ life' = [life EXCEPT ![P] = "releasing"]
  /\ UNCHANGED <<kind, redis, pc, own, beats, replies, stolen, faults>>
BulkReleaseOne(P, k) ==
  /\ bulk[P][k] # None
  /\ bulk' = [bulk EXCEPT ![P][k] = None]
  /\ releaseIfValue(bulk[P][k], k)
  /\ UNCHANGED <<kind, pc, own, beats, replies, held, life, stolen, faults>>

\* The process is gone, and with it all it kept in memory; its jobs are the queue's again.
Gone(P) ==
  /\ life' = [life EXCEPT ![P] = "down"]
  /\ LET dead == RunningIn(P) IN
     /\ pc' = [p \in Passes |-> IF p \in dead THEN At("queued", "pr") ELSE pc[p]]
     /\ proc' = [p \in Passes |-> IF p \in dead THEN None ELSE proc[p]]
     /\ cur' = [p \in Passes |-> IF p \in dead THEN None ELSE cur[p]]
     /\ token' = [p \in Passes |-> IF p \in dead THEN {} ELSE token[p]]
     /\ beat' = [p \in Passes |-> IF p \in dead THEN {} ELSE beat[p]]
     /\ lost' = [p \in Passes |-> IF p \in dead THEN {} ELSE lost[p]]
     /\ since' = [p \in Passes |-> IF p \in dead THEN Zero ELSE since[p]]
     /\ late' = [p \in Passes |-> IF p \in dead THEN {} ELSE late[p]]
     /\ lapsed' = [p \in Passes |-> IF p \in dead THEN {} ELSE lapsed[p]]
     /\ fails' = [p \in Passes |-> IF p \in dead THEN Zero ELSE fails[p]]
     /\ aborting' = aborting \ dead /\ stolen' = stolen \ dead
  /\ replies' = [replies EXCEPT ![P] = <<>>]
  /\ held' = [held EXCEPT ![P] = NoEntry] /\ bulk' = [bulk EXCEPT ![P] = NoEntry]
  /\ UNCHANGED <<kind, redis>>
Exit(P) == life[P] = "releasing" /\ bulk[P] = NoEntry /\ Gone(P) /\ UNCHANGED faults
Kill(P) == life[P] # "down" /\ faults < MaxFaults /\ Gone(P) /\ faults' = faults + 1

\* Boot: flushOrphanedLocksAtBoot, only where the deployment is declared single-instance.
Boot(P) ==
  /\ life[P] = "down"
  /\ life' = [life EXCEPT ![P] = "up"]
  /\ IF SingleInstance THEN store' = NoEntry /\ left' = Zero ELSE UNCHANGED redis
  /\ UNCHANGED <<kind, pc, own, beats, replies, held, bulk, stolen, faults>>

\* The locks a pass renews while it holds them.
RenewedBy(p) == {"ai"} \cup (IF kind[p].path = "sweep" THEN {"pr"} ELSE {})

\* A claim of k has been sent, and not been answered or not been released.
Claimed(p, k) == k \in token[p] \/ pc[p] = At("await", k)

\* One unit of time; a key whose TTL is over is gone.
Tick ==
  /\ \A p \in Passes : \A k \in beat[p] : since[p][k] < Interval
  /\ left' = [k \in Keys |-> IF left[k] > 0 THEN left[k] - 1 ELSE 0]
  /\ store' = [k \in Keys |-> IF left[k] <= 1 THEN None ELSE store[k]]
  /\ since' = [p \in Passes |-> [k \in Keys |-> IF k \in beat[p] THEN since[p][k] + 1 ELSE since[p][k]]]
  /\ late' = [p \in Passes |-> late[p] \cup {k \in RenewedBy(p) \ beat[p] : Claimed(p, k)}]
  /\ lapsed' = [p \in Passes |-> lapsed[p] \cup {k \in {"pr", "cap"} \ beat[p] : /\ Claimed(p, k) /\ left[k] = 1
                                                                          /\ store[k] = cur[p]}]
  /\ UNCHANGED <<kind, pc, own, beat, lost, fails, replies, host, stolen, faults>>

-----------------------------------------------------------------------------

PassStep(p) ==
  /\ UNCHANGED kind
  /\ \/ \E P \in Procs : Begin(p, P)
     \/ ClaimReview(p) \/ ClaimCap(p) \/ ClaimNested(p)
     \/ StartHeartbeat(p) \/ SkipReview(p) \/ Persist(p) \/ EndReview(p) \/ AbortLost(p)
     \/ MaintainNothing(p) \/ Mutate(p) \/ EndMutation(p)
     \/ Release(p)

Next ==
  \/ \E p \in Passes : PassStep(p) \/ \E k \in Keys : Renew(p, k)
  \/ \E P \in Procs : \/ Reply(P) \/ Shutdown(P) \/ BulkRelease(P) \/ Exit(P) \/ Kill(P) \/ Boot(P)
                      \/ \E k \in Keys : BulkReleaseOne(P, k)
  \/ Tick

Spec == Init /\ [][Next]_vars

-----------------------------------------------------------------------------
(* Properties                                                              *)

Entries == [Keys -> Tokens \cup {None}]
Clock(n) == [Passes -> [Keys -> 0 .. n]]

\* Every variable holds what the code keeps in it; a pass that is not running runs nowhere.
TypeOK ==
  /\ kind \in Kinds
  /\ store \in Entries /\ left \in [Keys -> 0 .. Ttl]
  /\ \A k \in Keys : store[k] = None <=> left[k] = 0
  /\ pc \in [Passes -> [stage : Stages, key : Keys]]
  /\ proc \in [Passes -> Procs \cup {None}]
  /\ cur \in [Passes -> Tokens \cup {None}]
  /\ \A p \in Passes : (Running(p) <=> proc[p] # None) /\ (Running(p) <=> cur[p] # None)
  /\ token \in [Passes -> SUBSET Keys] /\ beat \in [Passes -> SUBSET Keys]
  /\ lost \in [Passes -> SUBSET Keys] /\ late \in [Passes -> SUBSET Keys] /\ lapsed \in [Passes -> SUBSET Keys]
  /\ since \in Clock(Interval) /\ fails \in Clock(2)
  /\ aborting \subseteq Passes /\ stolen \subseteq Passes
  /\ replies \in [Procs -> Seq([pass : Passes, key : Keys, answer : {"ok", "denied", "open"}])]
  /\ held \in [Procs -> Entries] /\ bulk \in [Procs -> Entries]
  /\ life \in [Procs -> {"up", "draining", "releasing", "down"}]
  /\ faults \in 0 .. MaxFaults

\* p works under its claim of k: it was told the key is its own, and has not come to its release.
Inside(p, k) == k \in token[p] /\ pc[p] # At("release", k)

\* ... and nothing happened that the code cannot answer for: not two renewals in a row failed, the
\* heartbeat started in time, or without one the TTL is not over; no maintainer took the review
\* over; and its process is not giving up its locks for an imminent kill.
Protected(p, k) ==
  /\ Inside(p, k)
  /\ k \notin lost[p]
  /\ k = "ai" => p \notin stolen
  /\ life[proc[p]] # "releasing"
  /\ IF k \in beat[p] THEN k \notin late[p] /\ fails[p][k] < 2 ELSE k \notin lapsed[p]

\* Two passes never work under the same lock at once: not on one pull request (claimPrActuationLock),
\* one review (claimAiReviewLock) or one author's open pull requests (claimContributorCapLock),
\* whatever crashed, timed out, failed open or was forced before.
Exclusive ==
  \A k \in Keys : \A p, q \in Passes : p # q /\ Protected(p, k) => ~Protected(q, k)

\* The registry is right: the lock a pass holds in a process that may yet be signalled is entered
\* there under its token, so that a shutdown releases it; and no entry outlives its pass, so that a
\* drained process has nothing left to release.
RegistryExact ==
  \A P \in Procs : \A k \in Keys :
    /\ \A p \in Passes : (k \in token[p] /\ proc[p] = P /\ store[k] = cur[p] /\ life[P] \in {"up", "draining"})
                          => held[P][k] = cur[p]
    /\ held[P][k] # None => \E p \in Passes : proc[p] = P /\ k \in token[p] /\ cur[p] = held[P][k]

\* A pass loses a key it has not released only because the TTL is over, a forced review takes it, or
\* its own process gives it up: no release, renewal or registry entry of another pass removes it.
LossHasCause ==
  [][\A k \in Keys : \A p \in Passes :
       (store[k] = cur[p] /\ store'[k] # cur[p] /\ Inside(p, k))
         => \/ left[k] = 1
            \/ k = "ai" /\ \E f \in Passes : kind[f].forced /\ store'[k] = cur[f]
            \/ bulk[proc[p]][k] = cur[p]]_vars

\* A verdict is written by a pass that no longer owns the review only when it was lost after its
\* last renewal (or its claim): once a renewal has been answered, the new owner's verdict is not overwritten.
LateVerdict ==
  [][\A p \in Passes :
       (Stage(p) = "review" /\ pc'[p].stage = "persist"
          /\ "ai" \in token[p] /\ store["ai"] \notin {cur[p], None}
          /\ fails[p]["ai"] = 0 /\ "ai" \notin late[p])
         => Ttl - left["ai"] <= since[p]["ai"]]_vars
=============================================================================
