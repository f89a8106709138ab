---------------------------- MODULE ApprovalQueue ----------------------------
(***************************************************************************)
(* The approval queue of one pull request: actions that need a maintainer's *)
(* consent are staged as rows of agent_pending_actions, decided by the      *)
(* maintainer, reminded of and expired by a sweep, and on acceptance run    *)
(* through the gates of the action executor                                 *)
(* (src/services/agent-approval-queue.ts, agent-approval-staleness.ts,      *)
(* agent-action-executor.ts, github/pr-freshness.ts, db/repositories.ts).   *)
(*                                                                         *)
(* Requests, the pass that stages and the sweep interleave at every await:  *)
(* each step here is one statement of the database or one call to GitHub,   *)
(* with what is computed from its answer.  Heads are numbered in the order  *)
(* in which they are pushed; 0 is "no head".                                *)
(***************************************************************************)
EXTENDS Integers, FiniteSets

CONSTANTS
  Deciders,  \* requests to decide a row
  Passes,    \* passes over the pull request, which stage
  Scenes,    \* what may happen to the pull request, see scene
  Expiry,    \* APPROVAL_EXPIRY_MS in days
  MaxHead,   \* bound: heads
  MaxStaged, \* bound: stagings of the row of each class that are begun
  MaxEvents, \* bound: closings and reopenings of the pull request and flips of its facts
  MaxFaults  \* bound: failed calls and processes that die

Classes == {"merge", "close", "label"}   \* "label" is the label coupled to a close

ASSUME ApprovalAssumption ==
  /\ Scenes \subseteq [wants : SUBSET Classes, asks : SUBSET Deciders, passes : SUBSET Passes,
                       head : 1 .. MaxHead, unpinned : BOOLEAN, modes : SUBSET {"live", "paused", "dry_run"}]
  /\ {Expiry, MaxHead} \subseteq Nat \ {0} /\ MaxStaged \in [Classes -> Nat] /\ {MaxEvents, MaxFaults} \subseteq Nat

VARIABLES
  scene,   \* what may happen: the actions the planner wants, the requests and the passes there may be at
           \* once, the last head that is pushed, whether actions may be staged with no head (a stored head
           \* of null), and what resolveAgentActionMode may answer
  rows,    \* agent_pending_actions: status, reviewed head (expectedHeadSha), and the days it has been pending
  live,    \* GitHub: the head, the state, and whether it still justifies each action
  stored,  \* the pull request in the database
  badges,  \* dedup keys of notification_deliveries: <<class, 0>> for staging, <<class, bucket>> for a reminder
  closed,  \* whether audit_events has a completed agent.action.close
  req,     \* each request: where it is, the row as it read it, and what came of it
  pass,    \* each pass: where it is, the class and the head it reviewed
  todo,    \* the sweep: rows listed and what each is due for
  staged,  \* history: how often each row was staged
  heads,   \* history: the heads pinned by stagings of a merge
  acts,    \* history: mutations of GitHub made for each row
  merged,  \* history: the head that was merged
  events, faults

queue   == <<rows, badges, staged, heads>>
history == <<acts, merged>>
bounds  == <<events, faults>>
vars    == <<scene, queue, live, stored, closed, req, pass, todo, history, bounds>>

Heads == 0 .. MaxHead
Statuses == {"absent", "pending", "accepted", "rejected", "errored", "expired"}
Stages == {"idle", "claim", "paired", "head", "recheck", "gate", "fresh", "verify", "mutate", "audit", "finish"}
Idle == [pc |-> "idle", class |-> "merge", accept |-> FALSE, pin |-> 0, head |-> 0,
         act |-> "merge", out |-> "none", good |-> FALSE]

Resting == [pc |-> "idle", class |-> "merge", pin |-> 0]

Init ==
  /\ scene \in Scenes
  /\ rows = [c \in Classes |-> [status |-> "absent", pin |-> 0, age |-> 0]]
  /\ live = [head |-> 1, state |-> "open", holds |-> [c \in Classes |-> TRUE]]
  /\ stored = [head |-> 1, state |-> "open"]
  /\ badges = {} /\ closed = FALSE
  /\ req = [d \in Deciders |-> Idle]
  /\ pass = [p \in Passes |-> Resting] /\ todo = {}
  /\ staged = [c \in Classes |-> 0] /\ heads = {}
  /\ acts = [c \in Classes |-> 0] /\ merged = 0
  /\ events = 0 /\ faults = 0

Fault == faults < MaxFaults /\ faults' = faults + 1

-----------------------------------------------------------------------------
(* Staging                                                                 *)

\* The planner of an open pull request wants c, for the head it reviewed.
Plan(p, c) ==
  /\ p \in scene.passes /\ pass[p] = Resting
  /\ c \in scene.wants /\ stored.state = "open" /\ staged[c] < MaxStaged[c]
  /\ \E pin \in {stored.head} \cup (IF scene.unpinned THEN {0} ELSE {}) :
       pass' = [pass EXCEPT ![p] = [pc |-> "insert", class |-> c, pin |-> pin]]
  /\ UNCHANGED <<scene, queue, live, stored, closed, req, todo, history, bounds>>

\* The row of p's action is staged anew, or left as it is.
Pending(p) ==
  LET c == pass[p].class
  IN /\ rows' = [rows EXCEPT ![c] = [status |-> "pending", pin |-> pass[p].pin, age |-> 0]]
     /\ staged' = [staged EXCEPT ![c] = @ + 1]
     /\ heads' = IF c = "merge" THEN heads \cup ({pass[p].pin} \ {0}) ELSE heads
     /\ pass' = [pass EXCEPT ![p].pc = "notify"]
Leave(p, next) == pass' = [pass EXCEPT ![p] = next] /\ UNCHANGED <<rows, staged, heads>>

\* Mutation: a row whose action failed is reopened too.
ReopensFailed(status) == status \in {"expired", "errored"}
\* Only a row nobody decided is reopened.
Reopens(status) == status = "expired"

\* createPendingAgentActionIfAbsent: insert, or on a conflict look at the row that is there.
Insert(p) ==
  /\ pass[p].pc = "insert"
  /\ LET status == rows[pass[p].class].status IN
     \/ status = "absent" /\ Pending(p)
     \/ Reopens(status) /\ Leave(p, [pass[p] EXCEPT !.pc = "reopen"])
     \/ status # "absent" /\ ~Reopens(status) /\ Leave(p, Resting)
  /\ UNCHANGED <<scene, badges, live, stored, closed, req, todo, history, bounds>>

\* The row is reopened by compare and set.
Reopen(p) ==
  /\ pass[p].pc = "reopen"
  /\ IF Reopens(rows[pass[p].class].status) THEN Pending(p) ELSE Leave(p, Resting)
  /\ UNCHANGED <<scene, badges, live, stored, closed, req, todo, history, bounds>>

\* insertNotificationDeliveryIfAbsent: a key that is there already notifies nobody.
Badge(c, bucket) == badges' = badges \cup {<<c, bucket>>} /\ UNCHANGED <<rows, staged, heads>>

Notify(p) ==
  /\ pass[p].pc = "notify"
  /\ Badge(pass[p].class, 0)
  /\ pass' = [pass EXCEPT ![p] = Resting]
  /\ UNCHANGED <<scene, live, stored, closed, req, todo, history, bounds>>

PassDies(p) ==
  /\ pass[p] # Resting /\ Fault
  /\ pass' = [pass EXCEPT ![p] = Resting]
  /\ UNCHANGED <<scene, queue, live, stored, closed, req, todo, history, events>>

-----------------------------------------------------------------------------
(* Deciding                                                                *)

\* The request reads the row; a row that is not pending is already decided.
Read(d, c, accept) ==
  /\ d \in scene.asks /\ req[d].pc = "idle" /\ rows[c].status = "pending"
  /\ req' = [req EXCEPT ![d] = [Idle EXCEPT !.pc = "claim", !.class = c, !.act = c, !.accept = accept,
                                            !.pin = rows[c].pin]]
  /\ UNCHANGED <<scene, queue, live, stored, closed, pass, todo, history, bounds>>

\* The row is no longer pending.
Decided(c, status) == [rows EXCEPT ![c].status = status, ![c].age = 0]

\* claimPendingAgentActionDecision: WHERE status = 'pending'.
claimPendingAgentActionDecision(c) == rows[c].status = "pending"

\* The claim; the loser, and a rejection that wins, are done.
Claim(d) ==
  /\ req[d].pc = "claim"
  /\ LET c == req[d].class IN
     \/ /\ claimPendingAgentActionDecision(c)
        /\ rows' = Decided(c, IF req[d].accept THEN "accepted" ELSE "rejected")
        /\ req' = [req EXCEPT ![d] = IF ~req[d].accept THEN Idle
                                     ELSE [@ EXCEPT !.pc = IF c = "label" THEN "paired" ELSE "head",
                                                    !.good = live.holds[c]]]
     \/ /\ ~claimPendingAgentActionDecision(c)
        /\ req' = [req EXCEPT ![d] = Idle] /\ UNCHANGED rows
  /\ UNCHANGED <<scene, badges, staged, heads, live, stored, closed, pass, todo, history, bounds>>

\* setPendingAgentActionStatus: WHERE id alone, by the request whose claim won.
setPendingAgentActionStatus(d, status) ==
  /\ rows' = [rows EXCEPT ![req[d].class].status = status]
  /\ req' = [req EXCEPT ![d] = Idle]
Supersede(d) == setPendingAgentActionStatus(d, "rejected")
Go(d, next) == req' = [req EXCEPT ![d].pc = next] /\ UNCHANGED rows

\* Mutation: the coupled label does not ask for its close.
PairedAnyway(d) == TRUE
\* The label coupled to a close waits for a completed close in the audit trail.
Paired(d) == closed

PairedClose(d) ==
  /\ req[d].pc = "paired"
  /\ IF Paired(d) THEN Go(d, "head") ELSE Supersede(d)
  /\ UNCHANGED <<scene, badges, staged, heads, live, stored, closed, pass, todo, history, bounds>>

\* The pin against the stored head: a moved head, or a merge or close with no pin, is superseded.
Moved(d) == req[d].pin # 0 /\ req[d].pin # stored.head
Ratifies(d) == req[d].pin = 0 /\ req[d].class \in {"merge", "close"}
CheckHead(d) ==
  /\ req[d].pc = "head"
  /\ IF Moved(d) \/ Ratifies(d)
     THEN Supersede(d)
     ELSE /\ req' = [req EXCEPT ![d].head = stored.head,
                                ![d].pc = IF req[d].class = "label" THEN "gate" ELSE "recheck"]
          /\ UNCHANGED rows
  /\ UNCHANGED <<scene, badges, staged, heads, live, stored, closed, pass, todo, history, bounds>>

\* The live facts that justified the action (CI, mergeability, reviews, threads, the winning
\* duplicate, the blacklist, the linked issue), read again.  A read that fails counts as nothing found; for a
\* hard-rule close it counts as no longer justified.  The circuit breaker may hold the action.
Recheck(d) ==
  /\ req[d].pc = "recheck"
  /\ \/ ~live.holds[req[d].class] /\ Supersede(d) /\ UNCHANGED faults
     \/ Fault /\ req[d].class = "close" /\ Supersede(d)
     \/ /\ (live.holds[req[d].class] /\ UNCHANGED faults) \/ Fault
        /\ \E act \in {req[d].class, "hold"} :
             req' = [req EXCEPT ![d].pc = "gate", ![d].act = act]
        /\ UNCHANGED rows
  /\ UNCHANGED <<scene, badges, staged, heads, live, stored, closed, pass, todo, history, events>>

-----------------------------------------------------------------------------
(* The executor: executeAgentMaintenanceActions with a plan of one action  *)

Outcome(d, out) == req' = [req EXCEPT ![d].out = out, ![d].pc = "finish"]

\* The kill switch, the autonomy and the write permission (any may deny), and dry-run, which is audited as
\* "completed".
Gate(d) ==
  /\ req[d].pc = "gate"
  /\ \/ Outcome(d, "denied") /\ UNCHANGED closed
     \/ /\ "dry_run" \in scene.modes /\ Outcome(d, "dry_run")
        /\ closed' = (closed \/ req[d].act = "close")
     \/ "live" \in scene.modes /\ req' = [req EXCEPT ![d].pc = "fresh"] /\ UNCHANGED closed
  /\ UNCHANGED <<scene, queue, live, stored, pass, todo, history, bounds>>

\* fetchPullRequestFreshness: open, and the reviewed head; a pull request that cannot be read is stale.
Expected(d) == IF req[d].pin # 0 THEN req[d].pin ELSE req[d].head
Fresh(d) ==
  /\ req[d].pc = "fresh"
  /\ \/ /\ live.state = "open" /\ live.head = Expected(d)
        /\ req' = [req EXCEPT ![d].pc = IF req[d].act \in {"merge", "close"} THEN "verify" ELSE "mutate"]
        /\ UNCHANGED faults
     \/ (live.state # "open" \/ live.head # Expected(d)) /\ Outcome(d, "denied") /\ UNCHANGED faults
     \/ Fault /\ Outcome(d, "denied")
  /\ UNCHANGED <<scene, queue, live, stored, closed, pass, todo, history, events>>

\* Mutation: the executor does not read the facts again.
VerifiedAnyway(d) == UNCHANGED faults
\* A merge needs a read that says CI has passed; a close is denied only by a read that clears its reason.
Verified(d) ==
  \/ live.holds[req[d].act] /\ UNCHANGED faults
  \/ Fault /\ req[d].act = "close"

\* The facts once more, right before the mutation.  The merge train, the manual-review hold and the contributor
\* cap may deny as well.
Verify(d) ==
  /\ req[d].pc = "verify"
  /\ \/ Verified(d) /\ req' = [req EXCEPT ![d].pc = "mutate"]
     \/ Outcome(d, "denied") /\ UNCHANGED faults
  /\ UNCHANGED <<scene, queue, live, stored, closed, pass, todo, history, events>>

\* Mutation: the merge is not pinned.
TakesEffectUnpinned(d) == req[d].act = "merge" => live.state = "open"
\* GitHub merges an open pull request whose head is the sha of the call; the other calls always take effect.
TakesEffect(d) == req[d].act = "merge" => live.state = "open" /\ live.head = Expected(d)

\* performAction's effect on GitHub.
Effect(d) ==
  /\ TakesEffect(d)
  /\ live' = [live EXCEPT !.state = IF req[d].act = "merge" THEN "merged"
                                    ELSE IF req[d].act = "close" /\ @ = "open" THEN "closed" ELSE @]
  /\ merged' = IF req[d].act = "merge" THEN live.head ELSE merged
  /\ acts' = [acts EXCEPT ![req[d].class] = @ + 1]

\* Mutation: a call that failed is made again.
MutateAgain(d) ==
  /\ req[d].pc = "mutate"
  /\ \/ Effect(d) /\ req' = [req EXCEPT ![d].pc = "audit"] /\ UNCHANGED faults
     \/ ~TakesEffect(d) /\ Outcome(d, "error") /\ UNCHANGED <<live, history, faults>>
     \/ Fault /\ Effect(d) /\ UNCHANGED req
  /\ UNCHANGED <<scene, queue, stored, closed, pass, todo, events>>

\* The call succeeds, is refused, or fails before or after its effect.
Mutate(d) ==
  /\ req[d].pc = "mutate"
  /\ \/ Effect(d) /\ req' = [req EXCEPT ![d].pc = "audit"] /\ UNCHANGED faults
     \/ ~TakesEffect(d) /\ Outcome(d, "error") /\ UNCHANGED <<live, history, faults>>
     \/ Fault /\ Outcome(d, "error") /\ (Effect(d) \/ UNCHANGED <<live, history>>)
  /\ UNCHANGED <<scene, queue, stored, closed, pass, todo, events>>

\* The action is audited as completed.
Audit(d) ==
  /\ req[d].pc = "audit"
  /\ Outcome(d, "completed")
  /\ closed' = (closed \/ req[d].act = "close")
  /\ UNCHANGED <<scene, queue, live, stored, pass, todo, history, bounds>>

\* Mutation: the executor's outcome is written as it is.
FinishRaw(d) ==
  /\ req[d].pc = "finish"
  /\ setPendingAgentActionStatus(d, req[d].out)
  /\ UNCHANGED <<scene, badges, staged, heads, live, stored, closed, pass, todo, history, bounds>>

\* A real failure is "errored"; every other outcome leaves the row accepted.
Finish(d) ==
  /\ req[d].pc = "finish"
  /\ setPendingAgentActionStatus(d, IF req[d].out = "error" THEN "errored" ELSE "accepted")
  /\ UNCHANGED <<scene, badges, staged, heads, live, stored, closed, pass, todo, history, bounds>>

\* The request dies, or one of its database calls throws; its row keeps the status it has.
RequestDies(d) ==
  /\ req[d].pc # "idle" /\ Fault
  /\ req' = [req EXCEPT ![d] = Idle]
  /\ UNCHANGED <<scene, queue, live, stored, closed, pass, todo, history, events>>

-----------------------------------------------------------------------------
(* The sweep                                                               *)

\* Mutation: a row that is due to expire is reminded of once more.
NeverExpires(age) == IF age >= 1 THEN "remind" ELSE "none"
\* planApprovalQueueMaintenance
planApprovalQueueMaintenance(age) == IF age >= Expiry THEN "expire" ELSE IF age >= 1 THEN "remind" ELSE "none"

\* sweepStaleApprovalQueue lists the pending rows; what each is due for follows from what was read.
Sweep ==
  /\ todo = {}
  /\ todo' = {<<c, planApprovalQueueMaintenance(rows[c].age), rows[c].age>> :
                c \in {x \in Classes : rows[x].status = "pending"
                                       /\ planApprovalQueueMaintenance(rows[x].age) # "none"}}
  /\ todo' # {}
  /\ UNCHANGED <<scene, queue, live, stored, closed, req, pass, history, bounds>>

\* Mutation: a row accepted since it was listed is expired all the same.
ExpireAccepted(c) ==
  IF rows[c].status \in {"pending", "accepted"} THEN rows' = Decided(c, "expired") ELSE UNCHANGED rows
\* Expiry goes through the same claim as a decision.
Expire(c) ==
  IF claimPendingAgentActionDecision(c)
  THEN rows' = Decided(c, "expired") ELSE UNCHANGED rows

SweepOne(item) ==
  /\ item \in todo
  /\ todo' = todo \ {item}
  /\ \/ item[2] = "remind" /\ Badge(item[1], item[3]) /\ UNCHANGED faults
     \/ item[2] = "expire" /\ Expire(item[1]) /\ UNCHANGED <<badges, staged, heads, faults>>
     \/ Fault /\ UNCHANGED queue
  /\ UNCHANGED <<scene, live, stored, closed, req, pass, history, events>>

\* The job of the sweep is lost; the next one lists again.
SweepDies ==
  /\ todo # {} /\ Fault /\ todo' = {}
  /\ UNCHANGED <<scene, queue, live, stored, closed, req, pass, history, events>>

\* Another day.
Day ==
  /\ \E c \in Classes : rows[c].status = "pending" /\ rows[c].age < Expiry
  /\ rows' = [c \in Classes |-> [rows[c] EXCEPT !.age = IF rows[c].status = "pending" /\ @ < Expiry
                                                        THEN @ + 1 ELSE @]]
  /\ UNCHANGED <<scene, badges, staged, heads, live, stored, closed, req, pass, todo, history, bounds>>

-----------------------------------------------------------------------------
(* The pull request                                                        *)

Elsewhere == UNCHANGED <<scene, queue, closed, pass, todo, history, faults>>

Push ==
  /\ live.state = "open" /\ live.head < scene.head
  /\ live' = [live EXCEPT !.head = @ + 1]
  /\ Elsewhere /\ UNCHANGED <<stored, req, events>>

\* Its author, or a maintainer, closes or reopens it.
CloseOrReopen ==
  /\ live.state # "merged" /\ events < MaxEvents /\ events' = events + 1
  /\ live' = [live EXCEPT !.state = IF @ = "open" THEN "closed" ELSE "open"]
  /\ Elsewhere /\ UNCHANGED <<stored, req>>

\* What justified c ceases to hold, or holds again.
Flip(c) ==
  /\ c \in scene.wants \ {"label"} /\ events < MaxEvents /\ events' = events + 1
  /\ live' = [live EXCEPT !.holds[c] = ~@]
  /\ req' = [d \in Deciders |-> [req[d] EXCEPT !.good = @ \/ (req[d].class = c /\ ~live.holds[c])]]
  /\ Elsewhere /\ UNCHANGED stored

\* The webhook of a change has been processed.
Sync ==
  /\ stored # [head |-> live.head, state |-> live.state]
  /\ stored' = [head |-> live.head, state |-> live.state]
  /\ Elsewhere /\ UNCHANGED <<live, req, events>>

-----------------------------------------------------------------------------

Request(d) ==
  \/ \E c \in Classes, accept \in BOOLEAN : Read(d, c, accept)
  \/ Claim(d) \/ PairedClose(d) \/ CheckHead(d) \/ Recheck(d)
  \/ Gate(d) \/ Fresh(d) \/ Verify(d) \/ Mutate(d) \/ Audit(d) \/ Finish(d)
  \/ RequestDies(d)
SweepStep == \E item \in todo : SweepOne(item)

Next ==
  \/ \E d \in Deciders : Request(d)
  \/ \E p \in Passes : (\E c \in Classes : Plan(p, c)) \/ Insert(p) \/ Reopen(p) \/ Notify(p) \/ PassDies(p)
  \/ Sweep \/ SweepStep \/ SweepDies \/ Day
  \/ Push \/ CloseOrReopen \/ Sync \/ \E c \in Classes : Flip(c)

\* Days go by, and the sweep runs on the cron tick of the re-gate fan-out, every couple of minutes.  Nobody has to
\* decide, plan or push anything.
Fairness == WF_vars(Day) /\ WF_vars(Sweep) /\ WF_vars(SweepStep)

Spec == Init /\ [][Next]_vars /\ Fairness

-----------------------------------------------------------------------------
(* Properties                                                              *)

\* Every variable holds what the code keeps in it.
TypeOK ==
  /\ scene \in Scenes
  /\ rows \in [Classes -> [status : Statuses, pin : Heads, age : 0 .. Expiry]]
  /\ live \in [head : 1 .. MaxHead, state : {"open", "closed", "merged"}, holds : [Classes -> BOOLEAN]]
  /\ stored \in [head : 1 .. MaxHead, state : {"open", "closed", "merged"}]
  /\ badges \subseteq Classes \X (0 .. Expiry) /\ closed \in BOOLEAN
  /\ req \in [Deciders -> [pc : Stages, class : Classes, accept : BOOLEAN, pin : Heads, head : Heads,
                           act : Classes \cup {"hold"}, good : BOOLEAN,
                           out : {"none", "completed", "denied", "dry_run", "error"}]]
  /\ pass \in [Passes -> [pc : {"idle", "insert", "reopen", "notify"}, class : Classes, pin : Heads]]
  /\ todo \subseteq Classes \X {"remind", "expire"} \X (1 .. Expiry)
  /\ staged \in [Classes -> Nat] /\ heads \subseteq 1 .. MaxHead
  /\ acts \in [Classes -> Nat] /\ merged \in Heads
  /\ events \in 0 .. MaxEvents /\ faults \in 0 .. MaxFaults

\* The request has won the row and is not done with it.
Owns(d) == req[d].pc \notin {"idle", "claim"}

\* From its claim to its last write a request has its row to itself: no other decision, no expiry and no new
\* staging gets at it, although that last write (setPendingAgentActionStatus) compares nothing.
OneOwner ==
  \A d \in Deciders : Owns(d) =>
    /\ rows[req[d].class].status = "accepted"
    /\ \A e \in Deciders \ {d} : Owns(e) => req[e].class # req[d].class

\* Whatever is decided twice, expired, staged anew, retried or cut off by a crash, a row is acted on at most once.
AtMostOnce == \A c \in Classes : acts[c] <= 1

\* A row once accepted, rejected or failed is never pending again, and a rejection is never revoked: the
\* maintainer is not asked twice, and a "no" is not acted on.
FinalDecision ==
  [][\A c \in Classes :
       /\ rows[c].status \in {"accepted", "rejected", "errored"} => rows'[c].status # "pending"
       /\ rows[c].status = "rejected" => rows'[c].status = "rejected" /\ acts'[c] = acts[c]]_vars

\* What is merged is a head that was reviewed and staged, however the branch was pushed to, and however stale the
\* stored head or the row the request read (the sha of mergePullRequest).
ReviewedHead == merged # 0 => merged \in heads

\* A merge is not made on facts that had ceased to hold when the maintainer accepted and never held since: the
\* accept-time check may fail open, the executor's own may not.
JustifiedMerge ==
  [][\A d \in Deciders : (merged' # merged /\ Owns(d) /\ req[d].act = "merge") => req[d].good]_vars

\* The label that brands a pull request as closed is put on it only after its close took effect.
LabelNeedsClose == acts["label"] > 0 => acts["close"] > 0

\* A staged action is stayed for ever only by a decision: every pending row is decided or expires.
RowsEnd == \A c \in Classes : (rows[c].status = "pending") ~> (rows[c].status # "pending")
=============================================================================
