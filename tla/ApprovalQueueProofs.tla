------------------------- MODULE ApprovalQueueProofs -------------------------
(***************************************************************************)
(* The safety of ApprovalQueue for any number of requests, passes, heads,  *)
(* events and faults: one inductive invariant, Inv, from which the         *)
(* invariants and the action properties of the module follow.              *)
(***************************************************************************)
EXTENDS ApprovalQueue, TLAPS

\* A row that was acted on is accepted or failed, and the request that owns a row has not acted on it before its
\* mutation.
Unspent ==
  /\ AtMostOnce
  /\ \A c \in Classes : acts[c] > 0 => rows[c].status \in {"accepted", "errored"}
  /\ \A d \in Deciders : Owns(d) /\ req[d].pc \notin {"audit", "finish"} => acts[req[d].class] = 0

\* The action that is carried out is the one that was accepted, or its hold.
SameAction == \A d \in Deciders : req[d].act \in {req[d].class, "hold"}

\* The head of a merge is pinned by its staging, in the row and in every request that read it; a request past the
\* head check has a pin.
Pinned ==
  /\ ReviewedHead
  /\ rows["merge"].pin # 0 => rows["merge"].pin \in heads
  /\ \A d \in Deciders : req[d].class = "merge" =>
       /\ req[d].pin # 0 => req[d].pin \in heads
       /\ Owns(d) /\ req[d].pc # "head" => req[d].pin # 0

\* What holds now has held since the claim, and a merge that is about to be made has been verified.
Justified ==
  \A d \in Deciders : Owns(d) =>
    /\ live.holds[req[d].class] => req[d].good
    /\ req[d].pc = "mutate" /\ req[d].act = "merge" => req[d].good

\* The audit trail has a completed close only if the close was made, and a label that goes on waited for it.  A
\* close that was only rehearsed is audited as completed too, hence the premise.
Coupled ==
  "dry_run" \notin scene.modes =>
    /\ LabelNeedsClose
    /\ closed => acts["close"] > 0
    /\ \A d \in Deciders : Owns(d) =>
         /\ req[d].class = "label" /\ req[d].pc # "paired" => closed
         /\ req[d].pc = "audit" => acts[req[d].class] > 0

Inv == TypeOK /\ OneOwner /\ Unspent /\ SameAction /\ Pinned /\ Justified /\ Coupled

-----------------------------------------------------------------------------
(* Types                                                                   *)

\* What the parts of the state hold: a row, a request, a pass.
Row == [status : Statuses, pin : Heads, age : 0 .. Expiry]
Ask == [pc : Stages, class : Classes, accept : BOOLEAN, pin : Heads, head : Heads,
        act : Classes \cup {"hold"}, good : BOOLEAN,
        out : {"none", "completed", "denied", "dry_run", "error"}]
Staging == [pc : {"idle", "insert", "reopen", "notify"}, class : Classes, pin : Heads]

\* The type invariant's parts: the rows, the requests, the passes and what they staged, the pull request, the sweep
\* and its notifications, the audit trail and the histories, the bounds.
TableOK == rows \in [Classes -> Row]
AsksOK == req \in [Deciders -> Ask]
StagingsOK == pass \in [Passes -> Staging] /\ staged \in [Classes -> Nat] /\ heads \subseteq 1 .. MaxHead
PullOK ==
  /\ live \in [head : 1 .. MaxHead, state : {"open", "closed", "merged"}, holds : [Classes -> BOOLEAN]]
  /\ stored \in [head : 1 .. MaxHead, state : {"open", "closed", "merged"}]
SweepOK ==
  /\ badges \subseteq Classes \X (0 .. Expiry)
  /\ todo \subseteq Classes \X {"remind", "expire"} \X (1 .. Expiry)
TraceOK ==
  /\ scene \in Scenes /\ closed \in BOOLEAN /\ acts \in [Classes -> Nat] /\ merged \in Heads
BoundsOK == events \in 0 .. MaxEvents /\ faults \in 0 .. MaxFaults

\* The type invariant, by the part of the state it is about.
LEMMA TypeParts ==
  /\ TypeOK <=> TableOK /\ AsksOK /\ StagingsOK /\ PullOK /\ SweepOK /\ TraceOK /\ BoundsOK
  /\ TypeOK' <=> TableOK' /\ AsksOK' /\ StagingsOK' /\ PullOK' /\ SweepOK' /\ TraceOK' /\ BoundsOK'
  BY DEF TypeOK, TableOK, AsksOK, StagingsOK, PullOK, SweepOK, TraceOK, BoundsOK, Row, Ask, Staging

\* One failure more, or none, stays within the bound.
LEMMA FaultType ==
  ASSUME BoundsOK, Fault \/ UNCHANGED faults, UNCHANGED events
  PROVE  BoundsOK'
  BY ApprovalAssumption DEF BoundsOK, Fault

\* A request moves to a request.
LEMMA AskType ==
  ASSUME AsksOK, NEW d \in Deciders, NEW r \in Ask, req' = [req EXCEPT ![d] = r]
  PROVE  AsksOK'
  BY DEF AsksOK

\* A request that has nothing to do is a request.
LEMMA IdleType == Idle \in Ask
  BY ApprovalAssumption DEF Idle, Ask, Stages, Heads, Classes

\* A row that changes its status or is staged anew is a row.
LEMMA RowType ==
  ASSUME TableOK, NEW c \in Classes
  PROVE  /\ \A s \in Statuses : [rows EXCEPT ![c].status = s] \in [Classes -> Row]
         /\ \A s \in Statuses : Decided(c, s) \in [Classes -> Row]
         /\ \A h \in Heads : [rows EXCEPT ![c] = [status |-> "pending", pin |-> h, age |-> 0]] \in [Classes -> Row]
  <1>1. 0 \in 0 .. Expiry /\ "pending" \in Statuses
    BY ApprovalAssumption DEF Statuses
  <1>2. \A s \in Statuses : [rows EXCEPT ![c].status = s] \in [Classes -> Row]
    BY DEF TableOK, Row
  <1>3. \A s \in Statuses : Decided(c, s) \in [Classes -> Row]
    BY <1>1 DEF TableOK, Row, Decided
  <1>4. \A h \in Heads : [rows EXCEPT ![c] = [status |-> "pending", pin |-> h, age |-> 0]] \in [Classes -> Row]
    <2> SUFFICES ASSUME NEW h \in Heads
                 PROVE  [rows EXCEPT ![c] = [status |-> "pending", pin |-> h, age |-> 0]] \in [Classes -> Row]
      OBVIOUS
    <2>1. [status |-> "pending", pin |-> h, age |-> 0] \in Row
      BY <1>1 DEF Row
    <2> QED
      BY <2>1 DEF TableOK
  <1> QED
    BY <1>2, <1>3, <1>4

\* A plan pins the stored head, or none.
LEMMA PlanType ==
  ASSUME TypeOK, NEW p \in Passes, NEW c \in Classes, Plan(p, c)
  PROVE  TypeOK'
  <1>1. PICK pin \in {stored.head} \cup (IF scene.unpinned THEN {0} ELSE {}) :
          pass' = [pass EXCEPT ![p] = [pc |-> "insert", class |-> c, pin |-> pin]]
    BY DEF Plan
  <1>2. pin \in Heads
    <2>1. stored.head \in 1 .. MaxHead
      BY DEF TypeOK
    <2> QED
      BY <1>1, <2>1, ApprovalAssumption DEF Heads
  <1>3. StagingsOK'
    BY <1>1, <1>2, TypeParts DEF StagingsOK, Staging, Plan, queue
  <1> QED
    BY <1>3, TypeParts DEF Plan, queue, history, bounds, TableOK, AsksOK, PullOK, SweepOK, TraceOK, BoundsOK

\* A staging, and what leaves the row alone.
LEMMA StagingType ==
  ASSUME TypeOK, NEW p \in Passes,
         Pending(p) \/ \E next \in Staging : Leave(p, next),
         UNCHANGED <<scene, badges, live, stored, closed, req, todo, history, bounds>>
  PROVE  TypeOK'
  <1>1. pass \in [Passes -> Staging] /\ pass[p] \in Staging /\ pass[p].class \in Classes /\ pass[p].pin \in Heads
    BY TypeParts DEF StagingsOK, Staging
  <1>2. CASE Pending(p)
    <2>1. TableOK'
      BY <1>1, <1>2, RowType, TypeParts DEF Pending, TableOK
    <2>2. pass' \in [Passes -> Staging]
      BY <1>1, <1>2 DEF Pending, Staging
    <2>3. {pass[p].pin} \ {0} \subseteq 1 .. MaxHead
      BY <1>1, ApprovalAssumption DEF Heads
    <2>4. staged' \in [Classes -> Nat] /\ heads' \subseteq 1 .. MaxHead
      BY <1>1, <1>2, <2>3, TypeParts DEF Pending, StagingsOK
    <2> QED
      BY <2>1, <2>2, <2>4, TypeParts DEF history, bounds, AsksOK, StagingsOK, PullOK, SweepOK, TraceOK, BoundsOK
  <1>3. CASE \E next \in Staging : Leave(p, next)
    <2>1. StagingsOK'
      BY <1>3, TypeParts DEF Leave, StagingsOK
    <2> QED
      BY <1>3, <2>1, TypeParts DEF Leave, history, bounds, AsksOK, TableOK, PullOK, SweepOK, TraceOK, BoundsOK
  <1> QED
    BY <1>2, <1>3

\* A pass that has nothing to do is a pass.
LEMMA RestingType == Resting \in Staging
  BY ApprovalAssumption DEF Resting, Staging, Classes, Heads

\* The insert stages the row or leaves it.
LEMMA InsertType ==
  ASSUME TypeOK, NEW p \in Passes, Insert(p)
  PROVE  TypeOK'
  <1>1. [pass[p] EXCEPT !.pc = "reopen"] \in Staging
    BY TypeParts DEF StagingsOK, Staging
  <1> QED
    BY <1>1, StagingType, RestingType DEF Insert

\* So does the compare and set that reopens it.
LEMMA ReopenType ==
  ASSUME TypeOK, NEW p \in Passes, Reopen(p)
  PROVE  TypeOK'
  BY StagingType, RestingType DEF Reopen

\* A staging's notification has bucket 0.
LEMMA NotifyType ==
  ASSUME TypeOK, NEW p \in Passes, Notify(p)
  PROVE  TypeOK'
  <1>1. StagingsOK'
    BY RestingType, TypeParts DEF Notify, Badge, StagingsOK
  <1>2. pass[p].class \in Classes /\ 0 \in 0 .. Expiry
    BY ApprovalAssumption, TypeParts DEF StagingsOK, Staging
  <1>3. SweepOK'
    BY <1>2, TypeParts DEF Notify, Badge, SweepOK
  <1> QED
    BY <1>1, <1>3, TypeParts DEF Notify, Badge, history, bounds, AsksOK, TableOK, PullOK, TraceOK, BoundsOK

\* A pass that dies leaves its row.
LEMMA PassDiesType ==
  ASSUME TypeOK, NEW p \in Passes, PassDies(p)
  PROVE  TypeOK'
  <1>1. StagingsOK'
    BY RestingType, TypeParts DEF PassDies, StagingsOK, queue
  <1> QED
    BY <1>1, FaultType, TypeParts DEF PassDies, history, queue, AsksOK, TableOK, PullOK, SweepOK, TraceOK

\* A step of a request that moves it and may write its row or the audit trail.
LEMMA RequestType ==
  ASSUME TypeOK, NEW d \in Deciders, NEW r \in Ask, req' = [req EXCEPT ![d] = r],
         TableOK', PullOK', TraceOK', Fault \/ UNCHANGED faults,
         UNCHANGED <<badges, staged, heads, pass, todo, events>>
  PROVE  TypeOK'
  <1>1. AsksOK' /\ BoundsOK'
    BY AskType, FaultType, TypeParts
  <1> QED
    BY <1>1, TypeParts DEF StagingsOK, SweepOK

\* Where most of them leave GitHub and the histories alone.
LEMMA DecidingType ==
  ASSUME TypeOK, NEW d \in Deciders, NEW r \in Ask, req' = [req EXCEPT ![d] = r],
         TableOK', closed' \in BOOLEAN, Fault \/ UNCHANGED faults,
         UNCHANGED <<scene, badges, staged, heads, live, stored, pass, todo, history, events>>
  PROVE  TypeOK'
  <1>1. PullOK' /\ TraceOK'
    BY TypeParts DEF PullOK, TraceOK, history
  <1> QED
    BY <1>1, RequestType

\* A request that moves on, or has an outcome, is a request.
LEMMA MoveType ==
  ASSUME AsksOK, NEW d \in Deciders,
         (\E x \in Stages : req' = [req EXCEPT ![d].pc = x]) \/ Outcome(d, "completed") \/ Outcome(d, "denied")
         \/ Outcome(d, "dry_run") \/ Outcome(d, "error")
  PROVE  \E r \in Ask : req' = [req EXCEPT ![d] = r]
  <1>1. req[d] \in Ask
    BY DEF AsksOK
  <1>2. ASSUME NEW x \in Stages, req' = [req EXCEPT ![d].pc = x]
        PROVE  \E r \in Ask : req' = [req EXCEPT ![d] = r]
    <2>1. [req[d] EXCEPT !.pc = x] \in Ask
      BY <1>1 DEF Ask
    <2> QED
      BY <1>2, <2>1
  <1>3. ASSUME NEW out \in {"completed", "denied", "dry_run", "error"}, Outcome(d, out)
        PROVE  \E r \in Ask : req' = [req EXCEPT ![d] = r]
    <2>1. [req[d] EXCEPT !.out = out, !.pc = "finish"] \in Ask
      BY <1>1 DEF Ask, Stages
    <2>2. req' = [req EXCEPT ![d] = [req[d] EXCEPT !.out = out, !.pc = "finish"]]
      BY <1>3 DEF Outcome
    <2> QED
      BY <2>1, <2>2
  <1> QED
    BY <1>2, <1>3

\* The last write of a request.
LEMMA ReleaseType ==
  ASSUME TypeOK, NEW d \in Deciders, NEW s \in Statuses, setPendingAgentActionStatus(d, s),
         Fault \/ UNCHANGED faults,
         UNCHANGED <<scene, badges, staged, heads, live, stored, closed, pass, todo, history, events>>
  PROVE  TypeOK'
  <1>1. req[d].class \in Classes /\ closed \in BOOLEAN
    BY TypeParts DEF AsksOK, Ask, TraceOK
  <1>2. TableOK'
    BY <1>1, RowType, TypeParts DEF setPendingAgentActionStatus, TableOK
  <1> QED
    BY <1>1, <1>2, IdleType, DecidingType DEF setPendingAgentActionStatus

\* A request keeps the pin of the row it reads.
LEMMA ReadType ==
  ASSUME TypeOK, NEW d \in Deciders, NEW c \in Classes, NEW accept \in BOOLEAN, Read(d, c, accept)
  PROVE  TypeOK'
  <1>1. rows[c].pin \in Heads /\ closed \in BOOLEAN
    BY TypeParts DEF TableOK, Row, TraceOK
  <1>2. [Idle EXCEPT !.pc = "claim", !.class = c, !.act = c, !.accept = accept, !.pin = rows[c].pin] \in Ask
    BY <1>1, IdleType DEF Ask, Stages
  <1> QED
    BY <1>1, <1>2, DecidingType, TypeParts DEF Read, queue, bounds, TableOK

\* The claim writes a status and says whether the action holds.
LEMMA ClaimType ==
  ASSUME TypeOK, NEW d \in Deciders, Claim(d)
  PROVE  TypeOK'
  <1>1. req[d] \in Ask /\ req[d].class \in Classes /\ closed \in BOOLEAN
    BY TypeParts DEF AsksOK, Ask, TraceOK
  <1>2. live.holds[req[d].class] \in BOOLEAN
    BY <1>1, TypeParts DEF PullOK
  <1>3. TableOK'
    <2>1. \A s \in {"accepted", "rejected"} : Decided(req[d].class, s) \in [Classes -> Row]
      BY <1>1, RowType, TypeParts DEF Statuses
    <2>2. rows \in [Classes -> Row]
      BY TypeParts DEF TableOK
    <2>3. rows' \in {Decided(req[d].class, "accepted"), Decided(req[d].class, "rejected"), rows}
      BY DEF Claim
    <2> QED
      BY <2>1, <2>2, <2>3 DEF TableOK
  <1>4. PICK r \in Ask : req' = [req EXCEPT ![d] = r]
    <2>1. [req[d] EXCEPT !.pc = IF req[d].class = "label" THEN "paired" ELSE "head",
                         !.good = live.holds[req[d].class]] \in Ask
      <3>1. (IF req[d].class = "label" THEN "paired" ELSE "head") \in Stages
        BY DEF Stages
      <3> QED
        BY <1>1, <1>2, <3>1 DEF Ask
    <2> QED
      BY <2>1, IdleType, <1>1 DEF Claim, AsksOK
  <1> QED
    BY <1>1, <1>3, <1>4, DecidingType DEF Claim, bounds

\* The coupled label goes on or is superseded.
LEMMA PairedCloseType ==
  ASSUME TypeOK, NEW d \in Deciders, PairedClose(d)
  PROVE  TypeOK'
  <1>1. req[d] \in Ask /\ closed \in BOOLEAN
    BY TypeParts DEF AsksOK, TraceOK
  <1>2. CASE Go(d, "head")
    <2>1. PICK r \in Ask : req' = [req EXCEPT ![d] = r]
      BY <1>2, MoveType, TypeParts DEF Go, Stages
    <2> QED
      BY <1>1, <1>2, <2>1, DecidingType, TypeParts DEF Go, PairedClose, TableOK, bounds
  <1>3. CASE Supersede(d)
    BY <1>3, ReleaseType DEF Supersede, PairedClose, Statuses, bounds
  <1> QED
    BY <1>2, <1>3 DEF PairedClose

\* The head check reads the stored head.
LEMMA CheckHeadType ==
  ASSUME TypeOK, NEW d \in Deciders, CheckHead(d)
  PROVE  TypeOK'
  <1>1. req[d] \in Ask /\ closed \in BOOLEAN /\ stored.head \in 1 .. MaxHead
    BY TypeParts DEF AsksOK, TraceOK, PullOK
  <1>2. stored.head \in Heads
    BY <1>1, ApprovalAssumption DEF Heads
  <1>3. CASE Supersede(d)
    BY <1>3, ReleaseType DEF Supersede, CheckHead, Statuses, bounds
  <1>4. CASE ~(Moved(d) \/ Ratifies(d))
    <2>1. PICK x \in Stages : req' = [req EXCEPT ![d] = [req[d] EXCEPT !.head = stored.head, !.pc = x]]
      BY <1>4 DEF CheckHead, Stages
    <2>2. [req[d] EXCEPT !.head = stored.head, !.pc = x] \in Ask
      BY <1>1, <1>2, <2>1 DEF Ask, Stages
    <2> QED
      BY <1>1, <1>4, <2>1, <2>2, DecidingType, TypeParts DEF CheckHead, TableOK, bounds
  <1> QED
    BY <1>3, <1>4 DEF CheckHead

\* The recheck keeps the accepted action or holds it.
LEMMA RecheckType ==
  ASSUME TypeOK, NEW d \in Deciders, Recheck(d)
  PROVE  TypeOK'
  <1>1. req[d] \in Ask /\ req[d].class \in Classes /\ closed \in BOOLEAN
    BY TypeParts DEF AsksOK, Ask, TraceOK
  <1>2. CASE Supersede(d)
    BY <1>2, ReleaseType DEF Supersede, Recheck, Statuses
  <1>3. CASE UNCHANGED rows /\ \E act \in {req[d].class, "hold"} : req' = [req EXCEPT ![d].pc = "gate", ![d].act = act]
    <2>1. PICK act \in {req[d].class, "hold"} :
            req' = [req EXCEPT ![d] = [req[d] EXCEPT !.pc = "gate", !.act = act]]
      BY <1>3
    <2>2. [req[d] EXCEPT !.pc = "gate", !.act = act] \in Ask
      BY <1>1, <2>1 DEF Ask, Stages
    <2> QED
      BY <1>1, <1>3, <2>1, <2>2, DecidingType, TypeParts DEF Recheck, TableOK
  <1> QED
    BY <1>2, <1>3 DEF Recheck

\* The executor's gates change only the request and the audit trail.
LEMMA GateType ==
  ASSUME TypeOK, NEW d \in Deciders, Gate(d)
  PROVE  TypeOK'
  <1>1. req[d] \in Ask /\ closed \in BOOLEAN
    BY TypeParts DEF AsksOK, TraceOK
  <1>2. PICK r \in Ask : req' = [req EXCEPT ![d] = r]
    BY MoveType, TypeParts DEF Gate, Stages
  <1> QED
    BY <1>1, <1>2, DecidingType, TypeParts DEF Gate, TableOK, queue, bounds

\* The freshness check changes only the request.
LEMMA FreshType ==
  ASSUME TypeOK, NEW d \in Deciders, Fresh(d)
  PROVE  TypeOK'
  <1>1. req[d] \in Ask /\ closed \in BOOLEAN
    BY TypeParts DEF AsksOK, TraceOK
  <1>2. PICK r \in Ask : req' = [req EXCEPT ![d] = r]
    BY MoveType, TypeParts DEF Fresh, Stages
  <1> QED
    BY <1>1, <1>2, DecidingType, TypeParts DEF Fresh, TableOK, queue

\* So does the verification.
LEMMA VerifyType ==
  ASSUME TypeOK, NEW d \in Deciders, Verify(d)
  PROVE  TypeOK'
  <1>1. req[d] \in Ask /\ closed \in BOOLEAN
    BY TypeParts DEF AsksOK, TraceOK
  <1>2. PICK r \in Ask : req' = [req EXCEPT ![d] = r]
    BY MoveType, TypeParts DEF Verify, Stages
  <1>3. Fault \/ UNCHANGED faults
    BY DEF Verify, Verified
  <1> QED
    BY <1>1, <1>2, <1>3, DecidingType, TypeParts DEF Verify, TableOK, queue

\* The mutation counts one act more and may merge the live head.
LEMMA MutateType ==
  ASSUME TypeOK, NEW d \in Deciders, Mutate(d)
  PROVE  TypeOK'
  <1>1. req[d] \in Ask /\ req[d].class \in Classes
    BY TypeParts DEF AsksOK, Ask
  <1>2. PICK r \in Ask : req' = [req EXCEPT ![d] = r]
    BY MoveType, TypeParts DEF Mutate, Stages
  <1>3. PullOK' /\ TraceOK'
    <2>1. CASE Effect(d)
      <3>1. PullOK'
        BY <2>1, TypeParts DEF Mutate, Effect, PullOK
      <3>2. live.head \in Heads
        <4>1. live.head \in 1 .. MaxHead
          BY TypeParts DEF PullOK
        <4> QED
          BY <4>1, ApprovalAssumption DEF Heads
      <3> QED
        BY <1>1, <2>1, <3>1, <3>2, TypeParts DEF Mutate, Effect, TraceOK
    <2>2. CASE UNCHANGED <<live, history>>
      BY <2>2, TypeParts DEF Mutate, PullOK, TraceOK, history
    <2> QED
      BY <2>1, <2>2 DEF Mutate, history
  <1> QED
    BY <1>2, <1>3, RequestType, TypeParts DEF Mutate, TableOK, queue

\* The audit row of a close is written once or again.
LEMMA AuditType ==
  ASSUME TypeOK, NEW d \in Deciders, Audit(d)
  PROVE  TypeOK'
  <1>1. req[d] \in Ask /\ closed \in BOOLEAN
    BY TypeParts DEF AsksOK, TraceOK
  <1>2. PICK r \in Ask : req' = [req EXCEPT ![d] = r]
    BY MoveType, TypeParts DEF Audit
  <1>3. TableOK'
    BY TypeParts DEF Audit, TableOK, queue
  <1> QED
    BY <1>1, <1>2, <1>3, DecidingType DEF Audit, queue, bounds

\* The last write is a status.
LEMMA FinishType ==
  ASSUME TypeOK, NEW d \in Deciders, Finish(d)
  PROVE  TypeOK'
  BY ReleaseType DEF Finish, Statuses, bounds

\* A request that dies leaves its row.
LEMMA RequestDiesType ==
  ASSUME TypeOK, NEW d \in Deciders, RequestDies(d)
  PROVE  TypeOK'
  <1>1. closed \in BOOLEAN
    BY TypeParts DEF TraceOK
  <1> QED
    BY <1>1, IdleType, DecidingType, TypeParts DEF RequestDies, TableOK, queue

\* What the sweep lists is due for something.
LEMMA SweepType ==
  ASSUME TypeOK, Sweep
  PROVE  TypeOK'
  <1>1. \A c \in Classes : rows[c].age \in 0 .. Expiry
    BY TypeParts DEF TableOK, Row
  <1>2. ASSUME NEW age \in 0 .. Expiry, planApprovalQueueMaintenance(age) # "none"
        PROVE  planApprovalQueueMaintenance(age) \in {"remind", "expire"} /\ age \in 1 .. Expiry
    BY <1>2, ApprovalAssumption DEF planApprovalQueueMaintenance
  <1>3. SweepOK'
    BY <1>1, <1>2, TypeParts DEF Sweep, SweepOK, queue
  <1> QED
    BY <1>3, TypeParts DEF Sweep, queue, history, bounds, TableOK, AsksOK, StagingsOK, PullOK, TraceOK, BoundsOK

\* An item of the sweep is a reminder or an expiry.
LEMMA SweepOneType ==
  ASSUME TypeOK, NEW item \in todo, SweepOne(item)
  PROVE  TypeOK'
  <1>1. item[1] \in Classes /\ item[3] \in 0 .. Expiry /\ todo' \subseteq todo
    BY ApprovalAssumption, TypeParts DEF SweepOK, SweepOne
  <1>2. SweepOK'
    BY <1>1, TypeParts DEF SweepOne, Badge, SweepOK, queue
  <1>3. TableOK'
    <2>1. Decided(item[1], "expired") \in [Classes -> Row]
      BY <1>1, RowType, TypeParts DEF Statuses
    <2>2. rows \in [Classes -> Row]
      BY TypeParts DEF TableOK
    <2>3. rows' \in {Decided(item[1], "expired"), rows}
      BY DEF SweepOne, Badge, Expire, queue
    <2> QED
      BY <2>1, <2>2, <2>3 DEF TableOK
  <1>4. StagingsOK'
    BY TypeParts DEF SweepOne, Badge, StagingsOK, queue
  <1>5. BoundsOK'
    BY FaultType, TypeParts DEF SweepOne
  <1> QED
    BY <1>2, <1>3, <1>4, <1>5, TypeParts DEF SweepOne, history, AsksOK, PullOK, TraceOK

\* A sweep that dies leaves no item.
LEMMA SweepDiesType ==
  ASSUME TypeOK, SweepDies
  PROVE  TypeOK'
  BY FaultType, TypeParts DEF SweepDies, SweepOK, queue, history, TableOK, AsksOK, StagingsOK, PullOK, TraceOK

\* No row grows older than its expiry.
LEMMA DayType ==
  ASSUME TypeOK, Day
  PROVE  TypeOK'
  <1>1. TableOK'
    BY ApprovalAssumption, TypeParts DEF Day, TableOK, Row
  <1> QED
    BY <1>1, TypeParts DEF Day, history, bounds, AsksOK, StagingsOK, PullOK, SweepOK, TraceOK, BoundsOK

\* What happens to the pull request leaves the queue and its rows alone.
LEMMA ElsewhereType ==
  ASSUME TypeOK, Elsewhere, AsksOK', PullOK', BoundsOK'
  PROVE  TypeOK'
  BY TypeParts DEF Elsewhere, queue, history, TableOK, StagingsOK, SweepOK, TraceOK

\* The pull request is pushed to, closed, reopened and synchronised.
LEMMA PullType ==
  ASSUME TypeOK, Push \/ CloseOrReopen \/ Sync
  PROVE  TypeOK'
  <1>1. scene.head \in 1 .. MaxHead
    BY ApprovalAssumption, TypeParts DEF TraceOK
  <1>2. PullOK'
    <2>1. PullOK
      BY TypeParts
    <2>2. CASE Push
      BY <1>1, <2>1, <2>2, ApprovalAssumption DEF Push, PullOK
    <2>3. CASE CloseOrReopen
      BY <2>1, <2>3 DEF CloseOrReopen, PullOK
    <2>4. CASE Sync
      BY <2>1, <2>4 DEF Sync, PullOK
    <2> QED
      BY <2>2, <2>3, <2>4
  <1>3. AsksOK'
    BY TypeParts DEF Push, CloseOrReopen, Sync, AsksOK
  <1>4. BoundsOK'
    BY ApprovalAssumption, TypeParts DEF Push, CloseOrReopen, Sync, Elsewhere, BoundsOK
  <1> QED
    BY <1>2, <1>3, <1>4, ElsewhereType DEF Push, CloseOrReopen, Sync

\* A fact that flips is told to the requests.
LEMMA FlipType ==
  ASSUME TypeOK, NEW c \in Classes, Flip(c)
  PROVE  TypeOK'
  <1>1. PullOK'
    BY TypeParts DEF Flip, PullOK
  <1>2. AsksOK'
    <2> SUFFICES ASSUME NEW d \in Deciders, NEW b \in BOOLEAN
                 PROVE  [req[d] EXCEPT !.good = b] \in Ask
      <3>1. \A d \in Deciders : (req[d].good \/ (req[d].class = c /\ ~live.holds[c])) \in BOOLEAN
        OBVIOUS
      <3> QED
        BY <3>1 DEF Flip, AsksOK
    <2> QED
      BY TypeParts DEF AsksOK, Ask
  <1>3. BoundsOK'
    BY ApprovalAssumption, TypeParts DEF Flip, Elsewhere, BoundsOK
  <1> QED
    BY <1>1, <1>2, <1>3, ElsewhereType DEF Flip

-----------------------------------------------------------------------------
(* The inductive invariant                                                 *)

\* A step that moves no request and leaves every decided row as it is.
LEMMA RowsStep ==
  ASSUME Inv, TypeOK',
         UNCHANGED <<scene, req, acts, merged, closed>>, live'.holds = live.holds,
         heads \subseteq heads',
         \A c \in Classes : rows[c].status \in {"accepted", "errored"} => rows'[c].status = rows[c].status,
         rows'["merge"].pin \in {rows["merge"].pin, 0} \cup heads'
  PROVE  Inv'
  <1>1. \A d \in Deciders : req[d].class \in Classes
    BY DEF Inv, TypeOK
  <1>2. OneOwner'
    BY <1>1 DEF Inv, OneOwner, Owns
  <1>3. Unspent'
    BY DEF Inv, Unspent, AtMostOnce, Owns
  <1>4. SameAction'
    BY DEF Inv, SameAction
  <1>5. Pinned'
    BY DEF Inv, Pinned, ReviewedHead, Owns
  <1>6. Justified'
    BY DEF Inv, Justified, Owns
  <1>7. Coupled'
    BY DEF Inv, Coupled, LabelNeedsClose, Owns
  <1> QED
    BY <1>2, <1>3, <1>4, <1>5, <1>6, <1>7 DEF Inv

\* A step that touches neither rows nor requests.
LEMMA QuietStep ==
  ASSUME Inv, TypeOK',
         UNCHANGED <<scene, rows, heads, req, acts, merged, closed>>, live'.holds = live.holds
  PROVE  Inv'
  BY RowsStep

\* Request d goes on with the row it owns as r.
Continues(d, r) ==
  /\ Owns(d) /\ r.pc \notin {"idle", "claim"}
  /\ r.class = req[d].class /\ r.pin = req[d].pin /\ r.good = req[d].good /\ r.act \in {r.class, "hold"}
  /\ req[d].pc \in {"audit", "finish"} => r.pc \in {"audit", "finish"}
  /\ r.class = "merge" => r.pc = "head" \/ r.pin # 0
  /\ r.pc = "mutate" /\ r.act = "merge" => r.good
  /\ "dry_run" \notin scene.modes =>
       /\ r.class = "label" /\ r.pc # "paired" => closed
       /\ r.pc = "audit" => acts[r.class] > 0

\* The request that owns a row goes on with it, and may audit a close that was made.
LEMMA MovingStep ==
  ASSUME Inv, TypeOK', NEW d \in Deciders, NEW r \in Ask, Continues(d, r), req' = [req EXCEPT ![d] = r],
         UNCHANGED <<scene, rows, heads, live, acts, merged>>,
         closed => closed',
         "dry_run" \notin scene.modes /\ closed' => closed \/ acts["close"] > 0
  PROVE  Inv'
  <1>1. /\ req'[d] = r
        /\ \A e \in Deciders : e # d => req'[e] = req[e]
        /\ \A e \in Deciders : req'[e].class = req[e].class
        /\ \A e \in Deciders : Owns(e)' <=> Owns(e)
    BY DEF Inv, TypeOK, Owns, Continues
  <1>2. OneOwner'
    BY <1>1 DEF Inv, OneOwner
  <1>3. Unspent'
    BY <1>1 DEF Inv, Continues, Continues, Unspent, AtMostOnce
  <1>4. SameAction'
    BY <1>1 DEF Inv, Continues, SameAction
  <1>5. Pinned'
    BY <1>1 DEF Inv, Continues, Continues, Pinned, ReviewedHead
  <1>6. Justified'
    BY <1>1 DEF Inv, Continues, Continues, Justified
  <1>7. Coupled'
    BY <1>1 DEF Inv, Continues, Coupled, LabelNeedsClose
  <1> QED
    BY <1>2, <1>3, <1>4, <1>5, <1>6, <1>7 DEF Inv

\* A request is done; its row, if it owned one, gets a status that says what came of it.
LEMMA ReleaseStep ==
  ASSUME Inv, TypeOK', NEW d \in Deciders, NEW s \in Statuses, req' = [req EXCEPT ![d] = Idle],
         UNCHANGED <<scene, heads, live, acts, merged, closed>>,
         rows' = rows \/ (Owns(d) /\ rows' = [rows EXCEPT ![req[d].class].status = s]),
         s \in {"accepted", "errored"} \/ acts[req[d].class] = 0
  PROVE  Inv'
  <1>1. /\ req'[d] = Idle /\ ~Owns(d)'
        /\ \A e \in Deciders : e # d => req'[e] = req[e]
        /\ \A e \in Deciders : e # d => (Owns(e)' <=> Owns(e))
    BY DEF Inv, TypeOK, Owns, Idle
  <1>2. /\ \A e \in Deciders : req[e].class \in Classes
        /\ \A c \in Classes : rows'[c].pin = rows[c].pin
        /\ \A c \in Classes : rows'[c].status = rows[c].status \/ (Owns(d) /\ c = req[d].class /\ rows'[c].status = s)
    BY TypeParts DEF Inv, TableOK, AsksOK, Row, Ask
  <1>3. OneOwner'
    BY <1>1, <1>2 DEF Inv, OneOwner
  <1>4. Unspent'
    BY <1>1, <1>2 DEF Inv, Unspent, AtMostOnce
  <1>5. SameAction'
    BY <1>1 DEF Inv, SameAction, Idle
  <1>6. Pinned'
    <2>1. rows'["merge"].pin = rows["merge"].pin
      BY <1>2 DEF Classes
    <2> QED
      BY <1>1, <2>1 DEF Inv, Pinned, ReviewedHead, Idle
  <1>7. Justified'
    BY <1>1 DEF Inv, Justified
  <1>8. Coupled'
    BY <1>1 DEF Inv, Coupled, LabelNeedsClose
  <1> QED
    BY <1>3, <1>4, <1>5, <1>6, <1>7, <1>8 DEF Inv

\* A staging writes a row that nobody decided, or none.
LEMMA StagingInv ==
  ASSUME Inv, NEW p \in Passes, Insert(p) \/ Reopen(p)
  PROVE  Inv'
  <1>1. TypeOK'
    BY InsertType, ReopenType DEF Inv
  <1>2. pass[p].class \in Classes /\ pass[p].pin \in Heads /\ rows \in [Classes -> Row]
    BY TypeParts DEF Inv, StagingsOK, Staging, TableOK
  <1>3. CASE Pending(p) /\ rows[pass[p].class].status \in {"absent", "expired"}
    <2>1. rows'["merge"].pin \in {rows["merge"].pin, 0} \cup heads'
      BY <1>2, <1>3 DEF Pending, Classes, Row
    <2>2. \A c \in Classes : rows[c].status \in {"accepted", "errored"} => rows'[c].status = rows[c].status
      BY <1>2, <1>3 DEF Pending, Row
    <2>3. heads \subseteq heads'
      BY <1>3 DEF Pending
    <2>4. UNCHANGED <<scene, req, acts, merged, closed, live>>
      BY DEF Insert, Reopen, history
    <2> QED
      BY <1>1, <2>1, <2>2, <2>3, <2>4, RowsStep
  <1>4. CASE UNCHANGED <<rows, staged, heads>>
    BY <1>1, <1>4, QuietStep DEF Insert, Reopen, history
  <1> QED
    BY <1>3, <1>4 DEF Insert, Reopen, Reopens, Leave

\* The sweep expires only what is pending.
LEMMA SweepOneInv ==
  ASSUME Inv, NEW item \in todo, SweepOne(item)
  PROVE  Inv'
  <1>1. TypeOK'
    BY SweepOneType DEF Inv
  <1>2. item[1] \in Classes /\ rows \in [Classes -> Row]
    BY TypeParts DEF Inv, SweepOK, TableOK
  <1>3. CASE UNCHANGED rows
    <2>1. UNCHANGED heads
      BY DEF SweepOne, Badge, queue
    <2> QED
      BY <1>1, <1>3, <2>1, QuietStep DEF SweepOne, history
  <1>4. CASE rows[item[1]].status = "pending" /\ rows' = Decided(item[1], "expired") /\ UNCHANGED heads
    <2>1. \A c \in Classes : rows[c].status \in {"accepted", "errored"} => rows'[c].status = rows[c].status
      BY <1>2, <1>4 DEF Decided, Row
    <2>2. rows'["merge"].pin = rows["merge"].pin
      BY <1>2, <1>4 DEF Decided, Classes, Row
    <2> QED
      BY <1>1, <1>4, <2>1, <2>2, RowsStep DEF SweepOne, history
  <1> QED
    BY <1>3, <1>4 DEF SweepOne, Badge, Expire, claimPendingAgentActionDecision, queue

\* A day makes rows older and decides nothing.
LEMMA DayInv ==
  ASSUME Inv, Day
  PROVE  Inv'
  <1>1. TypeOK'
    BY DayType DEF Inv
  <1>2. \A c \in Classes : rows'[c].status = rows[c].status /\ rows'[c].pin = rows[c].pin
    BY TypeParts DEF Day, Inv, TableOK, Row
  <1>3. rows'["merge"].pin = rows["merge"].pin
    BY <1>2 DEF Classes
  <1> QED
    BY <1>1, <1>2, <1>3, RowsStep DEF Day, history

\* Passes, sweeps and the pull request's own life move no request.
LEMMA ElsewhereInv ==
  ASSUME Inv,
         \/ \E p \in Passes : (\E c \in Classes : Plan(p, c)) \/ Notify(p) \/ PassDies(p)
         \/ Sweep \/ SweepDies \/ Push \/ CloseOrReopen \/ Sync
  PROVE  Inv'
  <1>1. TypeOK'
    BY PlanType, NotifyType, PassDiesType, SweepType, SweepDiesType, PullType DEF Inv
  <1>2. UNCHANGED <<scene, rows, heads, req, acts, merged, closed>>
    <2>1. CASE \E p \in Passes : (\E c \in Classes : Plan(p, c)) \/ Notify(p) \/ PassDies(p)
      BY <2>1 DEF Plan, Notify, Badge, PassDies, queue, history
    <2>2. CASE Sweep \/ SweepDies \/ Push \/ CloseOrReopen \/ Sync
      BY <2>2 DEF Sweep, SweepDies, Push, CloseOrReopen, Sync, Elsewhere, queue, history
    <2> QED
      BY <2>1, <2>2
  <1>3. live'.holds = live.holds
    BY TypeParts DEF Inv, PullOK, Plan, Notify, PassDies, Sweep, SweepDies, Push, CloseOrReopen, Sync
  <1> QED
    BY <1>1, <1>2, <1>3, QuietStep

\* A request that has read a row owns nothing yet.
LEMMA ReadInv ==
  ASSUME Inv, NEW d \in Deciders, NEW c \in Classes, NEW accept \in BOOLEAN, Read(d, c, accept)
  PROVE  Inv'
  <1> DEFINE r == [Idle EXCEPT !.pc = "claim", !.class = c, !.act = c, !.accept = accept, !.pin = rows[c].pin]
  <1>1. TypeOK'
    BY ReadType DEF Inv
  <1>2. /\ req'[d] = r /\ ~Owns(d)' /\ r.class = c /\ r.act = c /\ r.pin = rows[c].pin
        /\ \A e \in Deciders : e # d => req'[e] = req[e]
        /\ \A e \in Deciders : e # d => (Owns(e)' <=> Owns(e))
    BY DEF Inv, TypeOK, Owns, Read, Idle
  <1>3. UNCHANGED <<scene, rows, heads, live, acts, merged, closed>>
    BY DEF Read, queue, history
  <1> HIDE DEF r
  <1>4. OneOwner'
    BY <1>2, <1>3 DEF Inv, OneOwner
  <1>5. Unspent'
    BY <1>2, <1>3 DEF Inv, Unspent, AtMostOnce
  <1>6. SameAction'
    BY <1>2, <1>3 DEF Inv, SameAction
  <1>7. Pinned'
    BY <1>2, <1>3 DEF Inv, Pinned, ReviewedHead
  <1>8. Justified'
    BY <1>2, <1>3 DEF Inv, Justified
  <1>9. Coupled'
    BY <1>2, <1>3 DEF Inv, Coupled, LabelNeedsClose
  <1> QED
    BY <1>1, <1>4, <1>5, <1>6, <1>7, <1>8, <1>9 DEF Inv

\* A claim that wins finds a pending row, which nobody owns and nobody acted on.
LEMMA ClaimInv ==
  ASSUME Inv, NEW d \in Deciders, Claim(d)
  PROVE  Inv'
  <1> DEFINE c == req[d].class
  <1>1. TypeOK'
    BY ClaimType DEF Inv
  <1>2. c \in Classes /\ rows \in [Classes -> Row] /\ req \in [Deciders -> Ask] /\ req[d].pc = "claim"
    BY TypeParts DEF Inv, AsksOK, Ask, TableOK, Claim
  <1>3. UNCHANGED <<scene, heads, live, acts, merged, closed>>
    BY DEF Claim, history
  <1>4. CASE req' = [req EXCEPT ![d] = Idle] /\ UNCHANGED rows
    <2>1. "accepted" \in Statuses
      BY DEF Statuses
    <2> QED
      BY <1>1, <1>3, <1>4, <2>1, ReleaseStep
  <1>5. CASE rows[c].status = "pending" /\ rows' = Decided(c, "rejected") /\ req' = [req EXCEPT ![d] = Idle]
    <2>1. /\ req'[d] = Idle /\ ~Owns(d)'
          /\ \A e \in Deciders : e # d => req'[e] = req[e]
          /\ \A e \in Deciders : e # d => (Owns(e)' <=> Owns(e))
      BY <1>2, <1>5 DEF Owns, Idle
    <2>2. /\ \A x \in Classes : rows'[x].pin = rows[x].pin
          /\ \A x \in Classes : rows[x].status # "pending" => rows'[x].status = rows[x].status
      BY <1>2, <1>5 DEF Decided, Row
    <2>3. \A e \in Deciders : req[e].class \in Classes
      BY <1>2 DEF Ask
    <2>4. OneOwner'
      BY <2>1, <2>2, <2>3 DEF Inv, OneOwner
    <2>5. Unspent'
      BY <1>3, <2>1, <2>2 DEF Inv, Unspent, AtMostOnce
    <2>6. SameAction'
      BY <2>1 DEF Inv, SameAction, Idle
    <2>7. Pinned'
      <3>1. rows'["merge"].pin = rows["merge"].pin
        BY <2>2 DEF Classes
      <3> QED
        BY <1>3, <2>1, <3>1 DEF Inv, Pinned, ReviewedHead, Idle
    <2>8. Justified'
      BY <1>3, <2>1 DEF Inv, Justified
    <2>9. Coupled'
      BY <1>3, <2>1 DEF Inv, Coupled, LabelNeedsClose
    <2> QED
      BY <1>1, <2>4, <2>5, <2>6, <2>7, <2>8, <2>9 DEF Inv
  <1>6. CASE /\ rows[c].status = "pending" /\ rows' = Decided(c, "accepted")
             /\ req' = [req EXCEPT ![d] = [@ EXCEPT !.pc = IF c = "label" THEN "paired" ELSE "head",
                                                    !.good = live.holds[c]]]
    <2>1. /\ req'[d].pc = (IF c = "label" THEN "paired" ELSE "head") /\ req'[d].good = live.holds[c]
          /\ req'[d].class = c /\ req'[d].act = req[d].act /\ req'[d].pin = req[d].pin /\ Owns(d)'
          /\ \A e \in Deciders : e # d => req'[e] = req[e]
          /\ \A e \in Deciders : e # d => (Owns(e)' <=> Owns(e))
          /\ \A e \in Deciders : req'[e].class = req[e].class
      BY <1>2, <1>6 DEF Owns, Ask
    <2>2. /\ \A x \in Classes : rows'[x].pin = rows[x].pin
          /\ \A x \in Classes : x # c => rows'[x].status = rows[x].status
          /\ rows'[c].status = "accepted"
      BY <1>2, <1>6 DEF Decided, Row
    <2>3. \A e \in Deciders : req[e].class \in Classes
      BY <1>2 DEF Ask
    <2>4. \A e \in Deciders : e # d /\ Owns(e) => req[e].class # c
      BY <1>6 DEF Inv, OneOwner
    <2>5. acts[c] = 0
      BY <1>2, <1>6, TypeParts DEF Inv, Unspent, TraceOK
    <2>6. OneOwner'
      BY <2>1, <2>2, <2>3, <2>4 DEF Inv, OneOwner
    <2>7. Unspent'
      <3>1. \A x \in Classes : acts[x] > 0 => rows'[x].status \in {"accepted", "errored"}
        BY <2>2 DEF Inv, Unspent
      <3>2. \A e \in Deciders : Owns(e)' /\ req'[e].pc \notin {"audit", "finish"} => acts[req'[e].class] = 0
        BY <2>1, <2>5 DEF Inv, Unspent
      <3> QED
        BY <1>3, <3>1, <3>2 DEF Inv, Unspent, AtMostOnce
    <2>8. SameAction'
      BY <2>1 DEF Inv, SameAction
    <2>9. Pinned'
      <3>1. rows'["merge"].pin = rows["merge"].pin
        BY <2>2 DEF Classes
      <3> QED
        BY <1>3, <2>1, <3>1 DEF Inv, Pinned, ReviewedHead
    <2>10. Justified'
      BY <1>3, <2>1 DEF Inv, Justified
    <2>11. Coupled'
      BY <1>3, <2>1 DEF Inv, Coupled, LabelNeedsClose
    <2> QED
      BY <1>1, <2>6, <2>7, <2>8, <2>9, <2>10, <2>11 DEF Inv
  <1> QED
    BY <1>4, <1>5, <1>6 DEF Claim, claimPendingAgentActionDecision

\* A superseded action is rejected before anything was done.
LEMMA SupersedeInv ==
  ASSUME Inv, NEW d \in Deciders, Supersede(d), TypeOK', Owns(d), req[d].pc \notin {"audit", "finish"},
         UNCHANGED <<scene, heads, live, acts, merged, closed>>
  PROVE  Inv'
  <1>1. acts[req[d].class] = 0
    BY DEF Inv, Unspent
  <1> QED
    BY <1>1, ReleaseStep DEF Supersede, setPendingAgentActionStatus, Statuses

\* The checks at acceptance: each goes on with the row or gives it up.
LEMMA PairedCloseInv ==
  ASSUME Inv, NEW d \in Deciders, PairedClose(d)
  PROVE  Inv'
  <1>1. TypeOK' /\ req[d] \in Ask /\ Owns(d)
    BY PairedCloseType, TypeParts DEF Inv, AsksOK, PairedClose, Owns
  <1>2. UNCHANGED <<scene, heads, live, acts, merged, closed>>
    BY DEF PairedClose, history
  <1>3. CASE closed /\ Go(d, "head")
    <2> DEFINE r == [req[d] EXCEPT !.pc = "head"]
    <2>1. /\ r \in Ask /\ r.pc = "head" /\ r.class = req[d].class /\ r.pin = req[d].pin /\ r.good = req[d].good
          /\ r.act = req[d].act /\ req' = [req EXCEPT ![d] = r] /\ UNCHANGED rows
      <3>1. r \in Ask
        BY <1>1 DEF Ask, Stages
      <3>2. req' = [req EXCEPT ![d] = r] /\ UNCHANGED rows
        BY <1>3 DEF Go
      <3> QED
        BY <1>1, <3>1, <3>2 DEF Ask
    <2>2. r.act \in {r.class, "hold"} /\ req[d].pc = "paired"
      BY <2>1 DEF Inv, SameAction, PairedClose
    <2> HIDE DEF r
    <2>3. Continues(d, r)
      BY <1>1, <1>3, <2>1, <2>2 DEF Continues
    <2> QED
      BY <1>1, <1>2, <2>1, <2>3, MovingStep
  <1>4. CASE Supersede(d)
    BY <1>1, <1>2, <1>4, SupersedeInv DEF PairedClose
  <1> QED
    BY <1>3, <1>4 DEF PairedClose, Paired

\* A merge that passes the head check is pinned.
LEMMA CheckHeadInv ==
  ASSUME Inv, NEW d \in Deciders, CheckHead(d)
  PROVE  Inv'
  <1>1. TypeOK' /\ req[d] \in Ask /\ Owns(d)
    BY CheckHeadType, TypeParts DEF Inv, AsksOK, CheckHead, Owns
  <1>2. UNCHANGED <<scene, heads, live, acts, merged, closed>>
    BY DEF CheckHead, history
  <1>3. CASE ~(Moved(d) \/ Ratifies(d))
    <2>1. PICK x \in {"gate", "recheck"} : req' = [req EXCEPT ![d] = [req[d] EXCEPT !.head = stored.head, !.pc = x]]
      BY <1>3 DEF CheckHead
    <2> DEFINE r == [req[d] EXCEPT !.head = stored.head, !.pc = x]
    <2>2. stored.head \in Heads
      <3>1. stored.head \in 1 .. MaxHead
        BY TypeParts DEF Inv, PullOK
      <3> QED
        BY <3>1, ApprovalAssumption DEF Heads
    <2>3. /\ r \in Ask /\ r.pc = x /\ r.class = req[d].class /\ r.pin = req[d].pin /\ r.good = req[d].good
          /\ r.act = req[d].act /\ req' = [req EXCEPT ![d] = r] /\ UNCHANGED rows
      <3>1. r \in Ask
        BY <1>1, <2>1, <2>2 DEF Ask, Stages
      <3>2. UNCHANGED rows
        BY <1>3 DEF CheckHead
      <3> QED
        BY <1>1, <2>1, <3>1, <3>2 DEF Ask
    <2>4. r.act \in {r.class, "hold"} /\ req[d].pc = "head" /\ (r.class = "merge" => r.pin # 0)
      BY <1>3, <2>3 DEF Inv, SameAction, CheckHead, Ratifies
    <2>5. "dry_run" \notin scene.modes /\ r.class = "label" => closed
      BY <1>1, <2>3, <2>4 DEF Inv, Coupled
    <2> HIDE DEF r
    <2>6. Continues(d, r)
      BY <1>1, <2>1, <2>3, <2>4, <2>5 DEF Continues
    <2> QED
      BY <1>1, <1>2, <2>3, <2>6, MovingStep
  <1>4. CASE Supersede(d)
    BY <1>1, <1>2, <1>4, SupersedeInv DEF CheckHead
  <1> QED
    BY <1>3, <1>4 DEF CheckHead

\* The recheck may turn the action into a hold, never into another.
LEMMA RecheckInv ==
  ASSUME Inv, NEW d \in Deciders, Recheck(d)
  PROVE  Inv'
  <1>1. TypeOK' /\ req[d] \in Ask /\ Owns(d)
    BY RecheckType, TypeParts DEF Inv, AsksOK, Recheck, Owns
  <1>2. UNCHANGED <<scene, heads, live, acts, merged, closed>>
    BY DEF Recheck, history
  <1>3. CASE UNCHANGED rows /\ \E act \in {req[d].class, "hold"} : req' = [req EXCEPT ![d].pc = "gate", ![d].act = act]
    <2>1. PICK act \in {req[d].class, "hold"} :
            req' = [req EXCEPT ![d] = [req[d] EXCEPT !.pc = "gate", !.act = act]]
      BY <1>3
    <2> DEFINE r == [req[d] EXCEPT !.pc = "gate", !.act = act]
    <2>2. req[d].class \in Classes
      BY <1>1 DEF Ask
    <2>3. /\ r \in Ask /\ r.pc = "gate" /\ r.class = req[d].class /\ r.pin = req[d].pin /\ r.good = req[d].good
          /\ r.act \in {r.class, "hold"} /\ req' = [req EXCEPT ![d] = r]
      <3>1. r \in Ask
        BY <1>1, <2>1, <2>2 DEF Ask, Stages
      <3> QED
        BY <1>1, <2>1, <3>1 DEF Ask
    <2>4. req[d].pc = "recheck" /\ (r.class = "merge" => r.pin # 0)
      BY <1>1, <2>3 DEF Inv, Pinned, Recheck
    <2>5. "dry_run" \notin scene.modes /\ r.class = "label" => closed
      BY <1>1, <2>3, <2>4 DEF Inv, Coupled
    <2> HIDE DEF r
    <2>6. Continues(d, r)
      BY <1>1, <2>3, <2>4, <2>5 DEF Continues
    <2> QED
      BY <1>1, <1>2, <1>3, <2>3, <2>6, MovingStep
  <1>4. CASE Supersede(d)
    BY <1>1, <1>2, <1>4, SupersedeInv DEF Recheck
  <1> QED
    BY <1>3, <1>4 DEF Recheck

\* What the executor is about to do is the accepted action on its pin, with the label's close audited.
LEMMA Executing ==
  ASSUME Inv, NEW d \in Deciders, Owns(d), req[d].pc \notin {"paired", "head"}
  PROVE  /\ req[d].act \in {req[d].class, "hold"}
         /\ req[d].class = "merge" => req[d].pin # 0
         /\ "dry_run" \notin scene.modes /\ req[d].class = "label" => closed
  BY DEF Inv, SameAction, Pinned, Coupled

\* The executor denies an action, or rehearses it.
LEMMA OutcomeInv ==
  ASSUME Inv, TypeOK', NEW d \in Deciders, NEW out, Outcome(d, out), Owns(d), req[d].pc \notin {"paired", "head"},
         out \in {"none", "completed", "denied", "dry_run", "error"},
         UNCHANGED <<scene, rows, heads, live, acts, merged>>,
         closed => closed',
         "dry_run" \notin scene.modes /\ closed' => closed \/ acts["close"] > 0
  PROVE  Inv'
  <1> DEFINE r == [req[d] EXCEPT !.out = out, !.pc = "finish"]
  <1>1. req[d] \in Ask
    BY TypeParts DEF Inv, AsksOK
  <1>2. r \in Ask
    BY <1>1 DEF Ask, Stages
  <1>3. r.pc = "finish" /\ r.class = req[d].class /\ r.pin = req[d].pin /\ r.good = req[d].good /\ r.act = req[d].act
    BY <1>1 DEF Ask
  <1>4. req' = [req EXCEPT ![d] = r]
    BY DEF Outcome
  <1> HIDE DEF r
  <1>5. Continues(d, r)
    BY <1>3, Executing DEF Continues
  <1> QED
    BY <1>2, <1>4, <1>5, MovingStep

\* The executor goes on to its next gate.
LEMMA NextGateInv ==
  ASSUME Inv, TypeOK', NEW d \in Deciders, NEW x \in {"fresh", "verify", "mutate"}, req' = [req EXCEPT ![d].pc = x],
         Owns(d), req[d].pc \notin {"paired", "head", "audit", "finish"},
         x = "mutate" /\ req[d].act = "merge" => req[d].good,
         UNCHANGED <<scene, rows, heads, live, acts, merged, closed>>
  PROVE  Inv'
  <1> DEFINE r == [req[d] EXCEPT !.pc = x]
  <1>1. req[d] \in Ask
    BY TypeParts DEF Inv, AsksOK
  <1>2. r \in Ask
    BY <1>1 DEF Ask, Stages
  <1>3. r.pc = x /\ r.class = req[d].class /\ r.pin = req[d].pin /\ r.good = req[d].good /\ r.act = req[d].act
    BY <1>1 DEF Ask
  <1>4. req' = [req EXCEPT ![d] = r]
    OBVIOUS
  <1> HIDE DEF r
  <1>5. Continues(d, r)
    BY <1>3, Executing DEF Continues
  <1> QED
    BY <1>2, <1>4, <1>5, MovingStep

\* A rehearsed close is audited only where actions may be rehearsed.
LEMMA GateInv ==
  ASSUME Inv, NEW d \in Deciders, Gate(d)
  PROVE  Inv'
  <1>1. TypeOK' /\ Owns(d) /\ req[d].pc \notin {"paired", "head", "audit", "finish"} /\ closed \in BOOLEAN
    BY GateType, TypeParts DEF Inv, Gate, Owns, TraceOK
  <1>2. UNCHANGED <<scene, rows, heads, live, acts, merged>>
    BY DEF Gate, queue, history
  <1>3. CASE Outcome(d, "denied") /\ UNCHANGED closed
    BY <1>1, <1>2, <1>3, OutcomeInv
  <1>4. CASE "dry_run" \in scene.modes /\ Outcome(d, "dry_run") /\ closed' = (closed \/ req[d].act = "close")
    BY <1>1, <1>2, <1>4, OutcomeInv
  <1>5. CASE req' = [req EXCEPT ![d].pc = "fresh"] /\ UNCHANGED closed
    BY <1>1, <1>2, <1>5, NextGateInv
  <1> QED
    BY <1>3, <1>4, <1>5 DEF Gate

\* A merge or a close goes from the freshness check to its verification.
LEMMA FreshInv ==
  ASSUME Inv, NEW d \in Deciders, Fresh(d)
  PROVE  Inv'
  <1>1. TypeOK' /\ Owns(d) /\ req[d].pc \notin {"paired", "head", "audit", "finish"}
    BY FreshType DEF Inv, Fresh, Owns
  <1>2. UNCHANGED <<scene, rows, heads, live, acts, merged, closed>>
    BY DEF Fresh, queue, history
  <1>3. CASE Outcome(d, "denied")
    BY <1>1, <1>2, <1>3, OutcomeInv
  <1>4. CASE req' = [req EXCEPT ![d].pc = IF req[d].act \in {"merge", "close"} THEN "verify" ELSE "mutate"]
    BY <1>1, <1>2, <1>4, NextGateInv
  <1> QED
    BY <1>3, <1>4 DEF Fresh

\* A merge that is verified was justified at the claim or since.
LEMMA VerifyInv ==
  ASSUME Inv, NEW d \in Deciders, Verify(d)
  PROVE  Inv'
  <1>1. TypeOK' /\ Owns(d) /\ req[d].pc \notin {"paired", "head", "audit", "finish"}
    BY VerifyType DEF Inv, Verify, Owns
  <1>2. UNCHANGED <<scene, rows, heads, live, acts, merged, closed>>
    BY DEF Verify, queue, history
  <1>3. CASE Outcome(d, "denied")
    BY <1>1, <1>2, <1>3, OutcomeInv
  <1>4. CASE Verified(d) /\ req' = [req EXCEPT ![d].pc = "mutate"]
    <2>1. req[d].act = "merge" => req[d].class = "merge"
      BY DEF Inv, SameAction
    <2>2. req[d].act = "merge" => req[d].good
      BY <1>1, <1>4, <2>1 DEF Verified, Inv, Justified
    <2> QED
      BY <1>1, <1>2, <1>4, <2>2, NextGateInv
  <1> QED
    BY <1>3, <1>4 DEF Verify

\* The mutation: the accepted row is acted on for the first time, a merge on its pin, a label after its close.
LEMMA EffectInv ==
  ASSUME Inv, TypeOK', NEW d \in Deciders, req[d].pc = "mutate", Effect(d),
         NEW r \in Ask, req' = [req EXCEPT ![d] = r], r.pc \in {"audit", "finish"},
         r.class = req[d].class, r.pin = req[d].pin, r.good = req[d].good, r.act = req[d].act,
         UNCHANGED <<scene, rows, heads, closed>>
  PROVE  Inv'
  <1> DEFINE c == req[d].class
  <1>1. /\ c \in Classes /\ acts \in [Classes -> Nat] /\ Owns(d) /\ req[d] \in Ask
        /\ live \in [head : 1 .. MaxHead, state : {"open", "closed", "merged"}, holds : [Classes -> BOOLEAN]]
        /\ \A e \in Deciders : req[e].class \in Classes
    BY TypeParts DEF Inv, AsksOK, Ask, TraceOK, PullOK, Owns
  <1>2. r.class = c /\ r.act \in {c, "hold"}
    BY DEF Inv, SameAction
  <1>3. /\ req'[d] = r /\ Owns(d)'
        /\ \A e \in Deciders : e # d => req'[e] = req[e]
        /\ \A e \in Deciders : req'[e].class = req[e].class
        /\ \A e \in Deciders : Owns(e)' <=> Owns(e)
    BY <1>1, <1>2, TypeParts DEF Inv, AsksOK, Owns
  <1>4. rows[c].status = "accepted" /\ \A e \in Deciders : e # d /\ Owns(e) => req[e].class # c
    BY <1>1 DEF Inv, OneOwner
  <1>5. acts[c] = 0
    BY <1>1 DEF Inv, Unspent
  <1>6. acts'[c] = 1 /\ (\A x \in Classes : x # c => acts'[x] = acts[x]) /\ live'.holds = live.holds
    BY <1>1, <1>5 DEF Effect
  <1>7. OneOwner'
    BY <1>3 DEF Inv, OneOwner
  <1>8. Unspent'
    <2>1. AtMostOnce'
      BY <1>6 DEF Inv, Unspent, AtMostOnce
    <2>2. \A x \in Classes : acts'[x] > 0 => rows[x].status \in {"accepted", "errored"}
      BY <1>4, <1>6 DEF Inv, Unspent
    <2>3. \A e \in Deciders : Owns(e)' /\ req'[e].pc \notin {"audit", "finish"} => acts'[req'[e].class] = 0
      BY <1>1, <1>3, <1>4, <1>6 DEF Inv, Unspent
    <2> QED
      BY <2>1, <2>2, <2>3 DEF Unspent
  <1>9. SameAction'
    BY <1>2, <1>3 DEF Inv, SameAction
  <1>10. Pinned'
    <2>1. req[d].act = "merge" => c = "merge"
      BY <1>1 DEF Inv, SameAction
    <2>2. c = "merge" => req[d].pin # 0 /\ req[d].pin \in heads
      BY <1>1 DEF Inv, Pinned
    <2>3. ReviewedHead'
      BY <2>1, <2>2 DEF Inv, Pinned, ReviewedHead, Effect, TakesEffect, Expected
    <2> QED
      BY <1>2, <1>3, <2>2, <2>3 DEF Inv, Pinned
  <1>11. Justified'
    BY <1>2, <1>3, <1>6 DEF Inv, Justified
  <1>12. Coupled'
    <2> SUFFICES ASSUME "dry_run" \notin scene.modes
                 PROVE  /\ LabelNeedsClose' /\ (closed => acts'["close"] > 0)
                        /\ \A e \in Deciders : Owns(e)' =>
                             /\ req'[e].class = "label" /\ req'[e].pc # "paired" => closed
                             /\ req'[e].pc = "audit" => acts'[req'[e].class] > 0
      BY DEF Coupled
    <2>1. \A x \in Classes : acts[x] > 0 => acts'[x] > 0
      BY <1>1, <1>6
    <2>2. closed => acts'["close"] > 0
      BY <2>1 DEF Inv, Coupled, Classes
    <2>3. c = "label" => closed
      BY <1>1 DEF Inv, Coupled
    <2>4. LabelNeedsClose'
      BY <1>1, <1>6, <2>1, <2>2, <2>3 DEF Inv, Coupled, LabelNeedsClose, Classes
    <2>5. ASSUME NEW e \in Deciders, Owns(e)'
          PROVE  /\ req'[e].class = "label" /\ req'[e].pc # "paired" => closed
                 /\ req'[e].pc = "audit" => acts'[req'[e].class] > 0
      <3>1. CASE e = d
        BY <1>2, <1>3, <1>6, <2>3, <3>1
      <3>2. CASE e # d
        BY <1>1, <1>3, <2>1, <2>5, <3>2 DEF Inv, Coupled
      <3> QED
        BY <3>1, <3>2
    <2> QED
      BY <2>2, <2>4, <2>5
  <1> QED
    BY <1>7, <1>8, <1>9, <1>10, <1>11, <1>12 DEF Inv

\* The mutation takes effect or not, and fails or not.
LEMMA MutateInv ==
  ASSUME Inv, NEW d \in Deciders, Mutate(d)
  PROVE  Inv'
  <1>1. TypeOK' /\ Owns(d) /\ req[d].pc = "mutate" /\ req[d] \in Ask
    BY MutateType, TypeParts DEF Inv, Mutate, Owns, AsksOK
  <1>2. UNCHANGED <<scene, rows, heads, closed>>
    BY DEF Mutate, queue
  <1>3. CASE Outcome(d, "error") /\ UNCHANGED <<live, history>>
    BY <1>1, <1>2, <1>3, OutcomeInv DEF history
  <1>4. ASSUME NEW r \in Ask, req' = [req EXCEPT ![d] = r], r.pc \in {"audit", "finish"}, Effect(d),
               r.class = req[d].class, r.pin = req[d].pin, r.good = req[d].good, r.act = req[d].act
        PROVE  Inv'
    BY <1>1, <1>2, <1>4, EffectInv
  <1>5. CASE Effect(d) /\ req' = [req EXCEPT ![d].pc = "audit"]
    <2> DEFINE r == [req[d] EXCEPT !.pc = "audit"]
    <2>1. r \in Ask
      BY <1>1 DEF Ask, Stages
    <2>2. r.pc = "audit" /\ r.class = req[d].class /\ r.pin = req[d].pin /\ r.good = req[d].good /\ r.act = req[d].act
      BY <1>1 DEF Ask
    <2>3. req' = [req EXCEPT ![d] = r]
      BY <1>5
    <2> HIDE DEF r
    <2> QED
      BY <1>4, <1>5, <2>1, <2>2, <2>3
  <1>6. CASE Effect(d) /\ Outcome(d, "error")
    <2> DEFINE r == [req[d] EXCEPT !.out = "error", !.pc = "finish"]
    <2>1. r \in Ask
      BY <1>1 DEF Ask, Stages
    <2>2. r.pc = "finish" /\ r.class = req[d].class /\ r.pin = req[d].pin /\ r.good = req[d].good /\ r.act = req[d].act
      BY <1>1 DEF Ask
    <2>3. req' = [req EXCEPT ![d] = r]
      BY <1>6 DEF Outcome
    <2> HIDE DEF r
    <2> QED
      BY <1>4, <1>6, <2>1, <2>2, <2>3
  <1> QED
    BY <1>3, <1>5, <1>6 DEF Mutate, history

\* A close is audited as completed once it was made.
LEMMA AuditInv ==
  ASSUME Inv, NEW d \in Deciders, Audit(d)
  PROVE  Inv'
  <1>1. TypeOK' /\ Owns(d) /\ req[d].pc \notin {"paired", "head"} /\ closed \in BOOLEAN
    BY AuditType, TypeParts DEF Inv, Audit, Owns, TraceOK
  <1>2. UNCHANGED <<scene, rows, heads, live, acts, merged>> /\ closed' = (closed \/ req[d].act = "close")
    BY DEF Audit, queue, history
  <1>3. "dry_run" \notin scene.modes /\ req[d].act = "close" => acts["close"] > 0
    BY <1>1, Executing DEF Inv, Coupled, Audit
  <1> QED
    BY <1>1, <1>2, <1>3, OutcomeInv DEF Audit

\* The owner's last write says accepted or failed.
LEMMA FinishInv ==
  ASSUME Inv, NEW d \in Deciders, Finish(d)
  PROVE  Inv'
  <1>1. TypeOK' /\ Owns(d)
    BY FinishType DEF Inv, Finish, Owns
  <1>2. UNCHANGED <<scene, heads, live, acts, merged, closed>>
    BY DEF Finish, history
  <1>3. PICK s \in {"errored", "accepted"} : setPendingAgentActionStatus(d, s)
    BY DEF Finish
  <1> QED
    BY <1>1, <1>2, <1>3, ReleaseStep DEF setPendingAgentActionStatus, Statuses

\* The row of a request that died stays as it was, owned by nobody.
LEMMA RequestDiesInv ==
  ASSUME Inv, NEW d \in Deciders, RequestDies(d)
  PROVE  Inv'
  <1>1. TypeOK' /\ "accepted" \in Statuses
    BY RequestDiesType DEF Inv, Statuses
  <1>2. UNCHANGED <<scene, rows, heads, live, acts, merged, closed>>
    BY DEF RequestDies, queue, history
  <1> QED
    BY <1>1, <1>2, ReleaseStep DEF RequestDies

\* What justified an action changes, and every request that owns a row is told when it holds again.
LEMMA FlipInv ==
  ASSUME Inv, NEW c \in Classes, Flip(c)
  PROVE  Inv'
  <1>1. TypeOK'
    BY FlipType DEF Inv
  <1>2. ASSUME NEW d \in Deciders
        PROVE  /\ req'[d].pc = req[d].pc /\ req'[d].class = req[d].class /\ req'[d].pin = req[d].pin
               /\ req'[d].act = req[d].act
               /\ req'[d].good = (req[d].good \/ (req[d].class = c /\ ~live.holds[c]))
               /\ Owns(d)' <=> Owns(d)
    BY TypeParts DEF Inv, AsksOK, Ask, Flip, Owns
  <1>3. UNCHANGED <<scene, rows, heads, acts, merged, closed>>
    BY DEF Flip, Elsewhere, queue, history
  <1>4. \A x \in Classes : x # c => live'.holds[x] = live.holds[x]
    BY TypeParts DEF Inv, PullOK, Flip
  <1>5. \A d \in Deciders : req[d].class \in Classes
    BY TypeParts DEF Inv, AsksOK, Ask
  <1>6. OneOwner'
    BY <1>2, <1>3 DEF Inv, OneOwner
  <1>7. Unspent'
    BY <1>2, <1>3 DEF Inv, Unspent, AtMostOnce
  <1>8. SameAction'
    BY <1>2 DEF Inv, SameAction
  <1>9. Pinned'
    BY <1>2, <1>3 DEF Inv, Pinned, ReviewedHead
  <1>10. Justified'
    <2>1. live'.holds[c] = ~live.holds[c]
      BY TypeParts DEF Inv, PullOK, Flip
    <2>2. ASSUME NEW d \in Deciders, Owns(d), live'.holds[req[d].class]
          PROVE  req'[d].good
      BY <1>2, <1>4, <1>5, <2>1, <2>2 DEF Inv, Justified
    <2> QED
      BY <1>2, <2>2 DEF Inv, Justified
  <1>11. Coupled'
    BY <1>2, <1>3 DEF Inv, Coupled, LabelNeedsClose
  <1> QED
    BY <1>1, <1>6, <1>7, <1>8, <1>9, <1>10, <1>11 DEF Inv

\* The invariant holds when nothing is staged.
LEMMA Initially == Init => Inv
  <1> SUFFICES ASSUME Init PROVE Inv
    OBVIOUS
  <1>1. \A d \in Deciders : req[d] = Idle /\ ~Owns(d)
    BY DEF Init, Owns, Idle
  <1>2. TypeOK
    <2>1. TableOK
      <3>1. [status |-> "absent", pin |-> 0, age |-> 0] \in Row
        BY ApprovalAssumption DEF Row, Statuses, Heads
      <3> QED
        BY <3>1 DEF Init, TableOK
    <2>2. AsksOK
      BY IdleType DEF Init, AsksOK
    <2>3. StagingsOK /\ SweepOK
      BY RestingType DEF Init, StagingsOK, SweepOK
    <2>4. PullOK
      <3>1. 1 \in 1 .. MaxHead
        BY ApprovalAssumption
      <3> QED
        BY <3>1 DEF Init, PullOK
    <2>5. TraceOK
      <3>1. 0 \in Heads /\ 0 \in Nat
        BY ApprovalAssumption DEF Heads
      <3>2. acts \in [Classes -> Nat]
        BY <3>1 DEF Init
      <3> QED
        BY <3>1, <3>2 DEF Init, TraceOK
    <2>6. BoundsOK
      <3>1. MaxEvents \in Nat /\ MaxFaults \in Nat
        BY ApprovalAssumption
      <3> QED
        BY <3>1 DEF Init, BoundsOK
    <2> QED
      BY <2>1, <2>2, <2>3, <2>4, <2>5, <2>6, TypeParts
  <1>3. OneOwner /\ Justified
    BY <1>1 DEF OneOwner, Justified
  <1>4. Unspent
    BY <1>1 DEF Init, Unspent, AtMostOnce
  <1>5. SameAction /\ Pinned
    BY <1>1 DEF Init, SameAction, Pinned, ReviewedHead, Idle, Classes
  <1>6. Coupled
    BY <1>1 DEF Init, Coupled, LabelNeedsClose, Classes
  <1> QED
    BY <1>2, <1>3, <1>4, <1>5, <1>6 DEF Inv

\* No step of any process leaves the invariant.
LEMMA Inductive == Inv /\ [Next]_vars => Inv'
  <1> SUFFICES ASSUME Inv, [Next]_vars PROVE Inv'
    OBVIOUS
  <1>1. ASSUME NEW d \in Deciders, Request(d)
        PROVE  Inv'
    BY <1>1, ReadInv, ClaimInv, PairedCloseInv, CheckHeadInv, RecheckInv, GateInv, FreshInv, VerifyInv, MutateInv,
       AuditInv, FinishInv, RequestDiesInv DEF Request
  <1>2. ASSUME NEW p \in Passes, (\E c \in Classes : Plan(p, c)) \/ Insert(p) \/ Reopen(p) \/ Notify(p) \/ PassDies(p)
        PROVE  Inv'
    BY <1>2, StagingInv, ElsewhereInv
  <1>3. CASE Sweep \/ SweepStep \/ SweepDies \/ Day
    BY <1>3, ElsewhereInv, SweepOneInv, DayInv DEF SweepStep
  <1>4. CASE Push \/ CloseOrReopen \/ Sync \/ \E c \in Classes : Flip(c)
    BY <1>4, ElsewhereInv, FlipInv
  <1>5. CASE UNCHANGED vars
    <2>1. TypeOK'
      BY <1>5 DEF Inv, TypeOK, vars, queue, history, bounds
    <2> QED
      BY <1>5, <2>1, QuietStep DEF vars, queue, history, bounds
  <1> QED
    BY <1>1, <1>2, <1>3, <1>4, <1>5 DEF Next

-----------------------------------------------------------------------------
(* The theorems                                                            *)

\* Every reachable state satisfies the inductive invariant.
THEOREM Invariance == Spec => []Inv
  BY Initially, Inductive, PTL DEF Spec

\* Every variable holds what the code keeps in it, for any number of requests, passes, heads and faults.
THEOREM TypeCorrect == Spec => []TypeOK
  <1>1. Inv => TypeOK
    BY DEF Inv
  <1> QED
    BY <1>1, Invariance, PTL

\* From its claim to its last write (setPendingAgentActionStatus, which compares nothing) a request has its row to
\* itself, whatever the other requests, the passes that stage and the sweep do.
THEOREM Ownership == Spec => []OneOwner
  <1>1. Inv => OneOwner
    BY DEF Inv
  <1> QED
    BY <1>1, Invariance, PTL

\* A row is acted on at most once, whatever is decided twice, expired, staged anew, retried or cut off.
THEOREM ActsOnce == Spec => []AtMostOnce
  <1>1. Inv => AtMostOnce
    BY DEF Inv, Unspent
  <1> QED
    BY <1>1, Invariance, PTL

\* What performAction merges is a head that a staging pinned.
THEOREM MergesReviewed == Spec => []ReviewedHead
  <1>1. Inv => ReviewedHead
    BY DEF Inv, Pinned
  <1> QED
    BY <1>1, Invariance, PTL

\* Where no action is rehearsed (resolveAgentActionMode never answers dry_run), the label coupled to a close is put
\* on only after the close took effect.
THEOREM LabelFollowsClose == Spec => []("dry_run" \notin scene.modes => LabelNeedsClose)
  <1>1. Inv => ("dry_run" \notin scene.modes => LabelNeedsClose)
    BY DEF Inv, Coupled
  <1> QED
    BY <1>1, Invariance, PTL

\* Which step writes the status of a row that is decided: only the one that its owner makes last.
LEMMA DecidedRows ==
  ASSUME Inv, Next, NEW c \in Classes, rows[c].status \in {"accepted", "rejected", "errored"}
  PROVE  \/ rows'[c].status = rows[c].status
         \/ rows'[c].status \in {"accepted", "rejected", "errored"} /\ \E d \in Deciders : Owns(d) /\ req[d].class = c
  <1>1. rows \in [Classes -> Row] /\ \A d \in Deciders : req[d].class \in Classes
    BY TypeParts DEF Inv, TableOK, AsksOK, Ask
  <1>2. ASSUME NEW d \in Deciders, NEW s \in {"accepted", "rejected", "errored"}, Owns(d),
               setPendingAgentActionStatus(d, s)
        PROVE  \/ rows'[c].status = rows[c].status
               \/ rows'[c].status \in {"accepted", "rejected", "errored"} /\ req[d].class = c
    BY <1>1, <1>2 DEF setPendingAgentActionStatus, Row
  <1>3. ASSUME NEW d \in Deciders, Request(d)
        PROVE  \/ rows'[c].status = rows[c].status
               \/ rows'[c].status \in {"accepted", "rejected", "errored"} /\ \E e \in Deciders : Owns(e) /\ req[e].class = c
    <2>1. CASE Claim(d)
      BY <1>1, <2>1 DEF Claim, claimPendingAgentActionDecision, Decided, Row
    <2>2. CASE PairedClose(d) \/ CheckHead(d) \/ Recheck(d)
      <3>1. Owns(d)
        BY <2>2 DEF PairedClose, CheckHead, Recheck, Owns
      <3>2. setPendingAgentActionStatus(d, "rejected") \/ UNCHANGED rows
        BY <2>2 DEF PairedClose, CheckHead, Recheck, Supersede, Go
      <3> QED
        BY <1>2, <3>1, <3>2
    <2>3. CASE Finish(d)
      <3>1. Owns(d)
        BY <2>3 DEF Finish, Owns
      <3>2. PICK s \in {"accepted", "errored"} : setPendingAgentActionStatus(d, s)
        BY <2>3 DEF Finish
      <3> QED
        BY <1>2, <3>1, <3>2
    <2>4. CASE (\E x \in Classes, accept \in BOOLEAN : Read(d, x, accept)) \/ Gate(d) \/ Fresh(d) \/ Verify(d) \/ Mutate(d)
               \/ Audit(d) \/ RequestDies(d)
      BY <2>4 DEF Read, Gate, Fresh, Verify, Mutate, Audit, RequestDies, queue
    <2> QED
      BY <1>3, <2>1, <2>2, <2>3, <2>4 DEF Request
  <1>4. ASSUME NEW p \in Passes, (\E x \in Classes : Plan(p, x)) \/ Insert(p) \/ Reopen(p) \/ Notify(p) \/ PassDies(p)
        PROVE  rows'[c].status = rows[c].status
    <2>1. pass[p].class \in Classes
      BY TypeParts DEF Inv, StagingsOK, Staging
    <2> QED
      BY <1>1, <1>4, <2>1 DEF Plan, Insert, Reopen, Notify, PassDies, Pending, Leave, Reopens, Badge, queue
  <1>5. ASSUME NEW item \in todo, SweepOne(item)
        PROVE  rows'[c].status = rows[c].status
    <2>1. item[1] \in Classes
      BY TypeParts DEF Inv, SweepOK
    <2> QED
      BY <1>1, <1>5, <2>1 DEF SweepOne, Expire, Badge, claimPendingAgentActionDecision, Decided, Row, queue
  <1>6. CASE Day
    BY <1>1, <1>6 DEF Day, Row
  <1>7. CASE Sweep \/ SweepDies \/ Push \/ CloseOrReopen \/ Sync \/ \E x \in Classes : Flip(x)
    BY <1>7 DEF Sweep, SweepDies, Push, CloseOrReopen, Sync, Flip, Elsewhere, queue
  <1> QED
    BY <1>3, <1>4, <1>5, <1>6, <1>7 DEF Next, SweepStep

\* GitHub is changed for a row only by the request that owns it.
LEMMA Acting ==
  ASSUME Inv, Next
  PROVE  \/ UNCHANGED <<acts, merged>>
         \/ \E d \in Deciders : req[d].pc = "mutate" /\ Effect(d)
  <1>1. ASSUME NEW d \in Deciders, Request(d)
        PROVE  UNCHANGED <<acts, merged>> \/ (req[d].pc = "mutate" /\ Effect(d))
    BY <1>1 DEF Request, Read, Claim, PairedClose, CheckHead, Recheck, Gate, Fresh, Verify, Mutate, Audit, Finish,
       RequestDies, history
  <1>2. ASSUME NEW p \in Passes, (\E x \in Classes : Plan(p, x)) \/ Insert(p) \/ Reopen(p) \/ Notify(p) \/ PassDies(p)
        PROVE  UNCHANGED <<acts, merged>>
    BY <1>2 DEF Plan, Insert, Reopen, Notify, PassDies, history
  <1>3. CASE Sweep \/ SweepStep \/ SweepDies \/ Day
    BY <1>3 DEF Sweep, SweepStep, SweepOne, SweepDies, Day, history
  <1>4. CASE Push \/ CloseOrReopen \/ Sync \/ \E x \in Classes : Flip(x)
    BY <1>4 DEF Push, CloseOrReopen, Sync, Flip, Elsewhere, history
  <1>5. CASE \E d \in Deciders : Request(d)
    BY <1>1, <1>5
  <1>6. CASE \E p \in Passes : (\E x \in Classes : Plan(p, x)) \/ Insert(p) \/ Reopen(p) \/ Notify(p) \/ PassDies(p)
    BY <1>2, <1>6
  <1> QED
    BY <1>3, <1>4, <1>5, <1>6 DEF Next

\* A row once accepted, rejected or failed is never pending again, and what was rejected stays rejected and is not
\* acted on: createPendingAgentActionIfAbsent, the claim and the sweep leave a decided row alone, and the unconditional
\* last write is its owner's.
THEOREM DecisionsFinal == Spec => FinalDecision
  <1> DEFINE Step == \A c \in Classes :
               /\ rows[c].status \in {"accepted", "rejected", "errored"} => rows'[c].status # "pending"
               /\ rows[c].status = "rejected" => rows'[c].status = "rejected" /\ acts'[c] = acts[c]
  <1>1. ASSUME Inv, Next, NEW c \in Classes
        PROVE  /\ rows[c].status \in {"accepted", "rejected", "errored"} => rows'[c].status # "pending"
               /\ rows[c].status = "rejected" => rows'[c].status = "rejected" /\ acts'[c] = acts[c]
    <2>1. rows[c].status \in {"accepted", "rejected", "errored"} => rows'[c].status # "pending"
      BY <1>1, DecidedRows
    <2>2. ASSUME rows[c].status = "rejected"
          PROVE  rows'[c].status = "rejected" /\ acts'[c] = acts[c]
      <3>1. \A d \in Deciders : Owns(d) => req[d].class # c
        BY <1>1, <2>2 DEF Inv, OneOwner
      <3>2. rows'[c].status = "rejected"
        BY <1>1, <2>2, <3>1, DecidedRows
      <3>3. ASSUME NEW d \in Deciders, req[d].pc = "mutate", Effect(d)
            PROVE  acts'[c] = acts[c]
        <4>1. req[d].class # c
          BY <3>1, <3>3 DEF Owns
        <4> QED
          BY <1>1, <3>3, <4>1, TypeParts DEF Effect, Inv, TraceOK
      <3> QED
        BY <1>1, <3>2, <3>3, Acting
    <2> QED
      BY <2>1, <2>2
  <1>2. Inv /\ [Next]_vars => [Step]_vars
    BY <1>1 DEF Step
  <1> QED
    BY <1>2, Invariance, PTL DEF Spec, FinalDecision

\* The executor makes no merge on facts that had ceased to hold at the acceptance and never held since: the merge that
\* is made is its owner's, who has verified it.
THEOREM MergesJustified == Spec => JustifiedMerge
  <1> DEFINE Step == \A d \in Deciders : (merged' # merged /\ Owns(d) /\ req[d].act = "merge") => req[d].good
  <1>1. ASSUME Inv, Next, NEW d \in Deciders, merged' # merged, Owns(d), req[d].act = "merge"
        PROVE  req[d].good
    <2>1. PICK e \in Deciders : req[e].pc = "mutate" /\ Effect(e)
      BY <1>1, Acting
    <2>2. req[e].act = "merge" /\ Owns(e)
      BY <1>1, <2>1 DEF Effect, Owns
    <2>3. req[e].class = "merge" /\ req[d].class = "merge"
      BY <1>1, <2>2 DEF Inv, SameAction
    <2>4. e = d
      BY <1>1, <2>2, <2>3 DEF Inv, OneOwner
    <2> QED
      BY <1>1, <2>1, <2>2, <2>4 DEF Inv, Justified
  <1>2. Inv /\ [Next]_vars => [Step]_vars
    BY <1>1 DEF Step
  <1> QED
    BY <1>2, Invariance, PTL DEF Spec, JustifiedMerge
=============================================================================
