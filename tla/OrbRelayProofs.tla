--------------------------- MODULE OrbRelayProofs ---------------------------
(***************************************************************************)
(* The safety of OrbRelay for any number of events, notices, enrolments    *)
(* and faults: one inductive invariant, Inv, from which the invariants and *)
(* the action property of the module follow.                               *)
(***************************************************************************)
EXTENDS OrbRelay, SequenceTheorems, TLAPS

Hands == Posts \cup Drains
Busy == {"show", "check", "record", "send", "mend"}
KeyOf(i) == IF i \in Notices THEN NoKey ELSE Key[i]

\* A run of enqueueWebhookByEnv is in a container, for an id of its own, and what it has recorded stays recorded.
HandAt(h) ==
  hand[h] # Free =>
    /\ hand[h].pc # "idle" /\ hand[h].at \in Enrollments /\ hand[h].id \in Ids
    /\ h \in Posts => h = <<"post", hand[h].id>>
    /\ h \in Drains => h = <<"drain", hand[h].at>>
    /\ hand[h].pc \in Busy \ {"show"} => hand[h].id \in Events
    /\ hand[h].pc \in {"send", "mend", "taken"} => hook[hand[h].at][hand[h].id].status # "none"
Placed == \A h \in Hands : HandAt(h)

\* What a container acknowledges it has seen.
Seen == \A e \in Enrollments : \A i \in box[e].ack : hook[e][i].status # "none"

\* A forward has an outcome only once it is settled, coalesces only an event that has a key, and is a retry only of a row
\* that has attempts left.  A notice is never posted.
ForwardAt(i) ==
  /\ fwd[i].pc = "idle" => fwd[i] = Resting
  /\ fwd[i].pc = "settle" <=> fwd[i].out # "none"
  /\ fwd[i].pc = "coalesce" => i \in Events /\ Key[i] # NoKey
  /\ fwd[i].pc \in {"post", "wait"} => fwd[i].to \in Enrollments
  /\ fwd[i].retry => i \in DOMAIN failures /\ failures[i].attempts < MaxAttempts
  /\ i \in Notices => fwd[i].out \in {"none", "queued", "failed"} /\ fwd[i].pc \in {"idle", "insert", "cap", "settle"}
  /\ fwd[i] # Resting \/ i \in DOMAIN failures => recorded[i] = "received"
Forwards == \A i \in Ids : ForwardAt(i)

\* A row has the key of its event and was not inserted before itself.
RowAt(i) == recorded[i] = "received" /\ i \notin pending[i].before /\ pending[i].key = KeyOf(i)
Rows == \A i \in DOMAIN pending : RowAt(i)

\* While the receiver of a POST runs, nothing else is done about its event than waiting for it.
PostedAt(i) ==
  hand[<<"post", i>>] # Free =>
    recorded[i] = "received" /\ fwd[i].pc \in {"idle", "wait", "settle"} /\ fwd[i].out \in {"none", "failed"}
Posted == \A i \in Events : PostedAt(i)

\* The ids that a drain has still to take up, the one it is at and those it will acknowledge are different ids.
Todo(e) == {box[e].todo[n] : n \in DOMAIN box[e].todo}
DrainAt(e) ==
  /\ box[e].drain = "asked" => box[e].todo = <<>> /\ hand[<<"drain", e>>] = Free
  /\ \A m, n \in DOMAIN box[e].todo : box[e].todo[m] = box[e].todo[n] => m = n
  /\ \A i \in Todo(e) : i \notin box[e].ack
  /\ hand[<<"drain", e>>] # Free =>
       hand[<<"drain", e>>].id \notin Todo(e) /\ hand[<<"drain", e>>].id \notin box[e].ack
Drained == \A e \in Enrollments : DrainAt(e)

\* An installation whose containers all pull is never posted to; one whose containers all are posted to never drains.
PullOnly ==
  "push" \notin scene.modes =>
    /\ \A e \in Enrollments : (enr[e].mode = "push" => ~enr[e].url) /\ (box[e].up => box[e].mode = "pull")
    /\ \A i \in Ids : fwd[i].pc \notin {"post", "wait"} /\ fwd[i].out # "forwarded"
    /\ \A i \in Events : hand[<<"post", i>>] = Free
PushOnly ==
  "pull" \notin scene.modes =>
    /\ \A e \in Enrollments :
         /\ enr[e].mode = "push" /\ (box[e].up => box[e].mode = "push")
         /\ box[e].todo = <<>> /\ box[e].ack = {} /\ box[e].drain = "idle" /\ hand[<<"drain", e>>] = Free
    /\ \A i \in Events : fwd[i].pc \notin {"insert", "coalesce", "cap"} /\ fwd[i].out # "queued"

\* The containers keep their relay mode.
OneMode == "push" \notin scene.modes \/ "pull" \notin scene.modes

\* A container has recorded an event; and it will not take that back, because nothing there is at work on the event.
TakenHere(e, i) == i \in jobs[e] \/ hook[e][i].status \in {"queued", "processed"}
AtWork(e, i) == i \in Todo(e) \/ \E h \in Hands : hand[h].at = e /\ hand[h].id = i /\ hand[h].pc \in Busy
Here(e, i) == i \in jobs[e] \/ (hook[e][i].status \in {"queued", "processed"} /\ ~AtWork(e, i))

\* What is acknowledged, or will be, has been recorded.
TakenBy(h) == hand[h].pc = "taken" => TakenHere(hand[h].at, hand[h].id)
Acked ==
  OneMode =>
    /\ \A e \in Enrollments : \A i \in box[e].ack : TakenHere(e, i)
    /\ \A h \in Hands : TakenBy(h)

\* The Orb still does something about an event of its own accord.
Pursued(i) ==
  /\ fwd[i].out \notin {"queued", "forwarded"}
  /\ fwd[i] # Resting \/ i \in DOMAIN failures

\* An event whose forward has nothing more to do is waiting for a container, has reached one, or has left a trace, or an
\* event of its key that came through the same table has.
Firm(i) == i \in DOMAIN pending \/ excuse[i] # "none" \/ \E e \in Enrollments : Here(e, i)
StandsIn(j, i) ==
  \/ j = i
  \/ {i, j} \subseteq Events /\ Key[j] = Key[i] /\ Key[i] # NoKey /\ recorded[j] = "received" /\ "push" \notin scene.modes
Saved(i) == \E j \in Ids : StandsIn(j, i) /\ Firm(j)
Traced ==
  OneMode => \A i \in Ids : recorded[i] = "received" =>
    (Pursued(i) /\ fwd[i].pc \notin {"coalesce", "cap"}) \/ Saved(i)

Inv ==
  /\ TypeOK /\ Placed /\ Seen /\ Forwards /\ Rows /\ Posted /\ Drained /\ PullOnly /\ PushOnly /\ Acked /\ Traced

-----------------------------------------------------------------------------
(* Types                                                                   *)

Forwarding == [pc : {"idle", "read", "insert", "coalesce", "cap", "post", "wait", "settle"},
               to : Enrollments \cup {Nobody}, out : Outcomes, retry : BOOLEAN]
Handling == [pc : Busy \cup {"idle", "taken", "refused"}, at : Enrollments \cup {Nobody}, id : Ids \cup {0}]
Enrolled == [state : {"none", "enrolled", "revoked"}, mode : {"push", "pull"}, url : BOOLEAN]
Container == [up : BOOLEAN, mode : {"push", "pull"}, registered : BOOLEAN, ack : SUBSET Ids,
              drain : {"idle", "asked"}, todo : Seq(Ids)]
Failure == [age : 0 .. FailureTTL + 1, attempts : 0 .. MaxAttempts, hot : BOOLEAN]
Pending(S) == [key : Nat, to : Enrollments \cup {Nobody}, age : 0 .. PendingTTL + 1, before : SUBSET S]
Trace == {"none", "logged", "evicted", "reported", "ignored", "died"}

\* The type invariant's parts: the bounds, the enrolments, the two tables, the forwards, the containers, what they have
\* recorded, the receivers, and the history.
BoundsOK == scene \in Scenes /\ changes \in 0 .. scene.changes /\ faults \in 0 .. scene.faults
IngressOK == recorded \in [Ids -> {"none", "error", "received"}]
EnrolOK == enr \in [Enrollments -> Enrolled] /\ ranking \in Seq(Enrollments)
PendingOK == DOMAIN pending \subseteq Ids /\ pending \in [DOMAIN pending -> Pending(DOMAIN pending)]
FailuresOK == DOMAIN failures \subseteq Events /\ failures \in [DOMAIN failures -> Failure]
FwdOK == fwd \in [Ids -> Forwarding]
BoxOK == box \in [Enrollments -> Container]
HookOK == hook \in [Enrollments -> [Ids -> [status : {"none", "queued", "processed", "error"}, old : BOOLEAN]]]
JobsOK == jobs \in [Enrollments -> SUBSET Events]
HandOK == hand \in [Hands -> Handling]
ExcuseOK == excuse \in [Ids -> Trace]

LEMMA TypeParts ==
  TypeOK <=> /\ BoundsOK /\ IngressOK /\ EnrolOK /\ PendingOK /\ FailuresOK /\ FwdOK /\ BoxOK /\ HookOK /\ JobsOK
             /\ HandOK /\ ExcuseOK
  BY DEF TypeOK, BoundsOK, IngressOK, EnrolOK, PendingOK, FailuresOK, FwdOK, BoxOK, HookOK, JobsOK, HandOK, ExcuseOK,
         Forwarding, Handling, Enrolled, Container, Failure, Pending, Trace, Hands, Busy

LEMMA TypePartsNext ==
  TypeOK' <=> /\ BoundsOK' /\ IngressOK' /\ EnrolOK' /\ PendingOK' /\ FailuresOK' /\ FwdOK' /\ BoxOK' /\ HookOK'
              /\ JobsOK' /\ HandOK' /\ ExcuseOK'
  BY TypeParts, PTL

\* Bounds count to their limits.
LEMMA BoundsType ==
  ASSUME BoundsOK, UNCHANGED scene, Change \/ UNCHANGED changes, (\E kind : Fault(kind)) \/ UNCHANGED faults
  PROVE  BoundsOK'
  <1>1. scene.changes \in Nat /\ scene.faults \in Nat
    BY RelayAssumption DEF BoundsOK
  <1> QED
    BY <1>1 DEF BoundsOK, Change, Fault

\* A forward moves on, or ends.
LEMMA RestingType == Resting \in Forwarding
  BY DEF Resting, Forwarding, Outcomes

LEMMA FwdType ==
  ASSUME FwdOK, NEW i \in Ids
  PROVE  /\ fwd[i] \in Forwarding
         /\ \A f \in Forwarding : fwd' = [fwd EXCEPT ![i] = f] => FwdOK'
         /\ \A pc \in {"insert", "coalesce", "cap", "post", "wait"} : Goto(i, pc) => FwdOK'
         /\ \A out \in Outcomes : Ends(i, out) => FwdOK'
  BY DEF FwdOK, Goto, Ends, Forwarding

\* A receiver moves on, or ends.
LEMMA FreeType == Free \in Handling
  BY DEF Free, Handling

LEMMA HandType ==
  ASSUME HandOK, NEW h \in Hands
  PROVE  /\ hand[h] \in Handling
         /\ \A r \in Handling : hand' = [hand EXCEPT ![h] = r] => HandOK'
         /\ \A pc \in Busy \cup {"taken", "refused"} : Step(h, pc) => HandOK'
  BY DEF HandOK, Step, Handling

\* Rows are deleted: the others keep their contents.
LEMMA WithoutType ==
  ASSUME PendingOK, NEW S
  PROVE  /\ DOMAIN Without(S) = DOMAIN pending \ S
         /\ DOMAIN Without(S) \subseteq Ids /\ Without(S) \in [DOMAIN pending \ S -> Pending(DOMAIN pending \ S)]
         /\ \A i \in DOMAIN pending \ S : /\ Without(S)[i].key = pending[i].key /\ Without(S)[i].to = pending[i].to
                                          /\ Without(S)[i].age = pending[i].age
                                          /\ Without(S)[i].before = pending[i].before \ S
  <1>1. \A i \in DOMAIN pending : pending[i] \in Pending(DOMAIN pending)
    BY DEF PendingOK
  <1>2. \A i \in DOMAIN pending \ S : [pending[i] EXCEPT !.before = @ \ S] \in Pending(DOMAIN pending \ S)
    BY <1>1 DEF Pending
  <1>3. \A i \in DOMAIN pending \ S : /\ Without(S)[i].key = pending[i].key /\ Without(S)[i].to = pending[i].to
                                      /\ Without(S)[i].age = pending[i].age
                                      /\ Without(S)[i].before = pending[i].before \ S
    BY <1>1 DEF Pending, Without
  <1> QED
    BY <1>2, <1>3 DEF Without, PendingOK

LEMMA ExcuseType ==
  ASSUME ExcuseOK, NEW S, NEW why \in Trace, Excuse(S, why)
  PROVE  /\ ExcuseOK'
         /\ why # "none" => \A i \in Ids : (i \in S \/ excuse[i] # "none") => excuse'[i] # "none"
  BY DEF ExcuseOK, Excuse
-----------------------------------------------------------------------------
(* What a step leaves alone                                                *)

\* The Orb's steps leave the containers alone.
LEMMA OrbFrame ==
  ASSUME Inv, UNCHANGED <<scene, self>>
  PROVE  /\ BoxOK' /\ HookOK' /\ JobsOK' /\ HandOK' /\ Placed' /\ Seen' /\ Drained' /\ Acked'
         /\ \A e \in Enrollments, i \in Ids : Here(e, i) => Here(e, i)'
  <1>1. box' = box /\ hook' = hook /\ jobs' = jobs /\ hand' = hand /\ scene' = scene
    BY DEF self
  <1>2. BoxOK' /\ HookOK' /\ JobsOK' /\ HandOK'
    BY <1>1, TypeParts DEF Inv, BoxOK, HookOK, JobsOK, HandOK
  <1>3. Placed' /\ Seen'
    BY <1>1 DEF Inv, Placed, HandAt, Seen
  <1>4. Drained'
    <2>1. \A e \in Enrollments : Todo(e)' = Todo(e)
      BY <1>1 DEF Todo
    <2>2. ASSUME NEW e \in Enrollments, DrainAt(e) PROVE DrainAt(e)'
      BY <1>1, <2>1, <2>2 DEF DrainAt
    <2> QED
      BY <2>2 DEF Inv, Drained
  <1>5. Acked'
    BY <1>1 DEF Inv, Acked, OneMode, TakenBy, TakenHere
  <1>6. \A e \in Enrollments, i \in Ids : Here(e, i) => Here(e, i)'
    BY <1>1 DEF Here, AtWork, Todo
  <1> QED
    BY <1>2, <1>3, <1>4, <1>5, <1>6

\* A container's steps leave the Orb alone.
LEMMA BoxFrame ==
  ASSUME Inv, UNCHANGED <<scene, recorded, failures, fwd>>
  PROVE  /\ IngressOK' /\ FailuresOK' /\ FwdOK' /\ Forwards'
         /\ \A i \in Ids : Pursued(i) => Pursued(i)'
  <1>1. IngressOK' /\ FailuresOK' /\ FwdOK'
    BY TypeParts DEF Inv, IngressOK, FailuresOK, FwdOK
  <1>2. Forwards'
    BY DEF Inv, Forwards, ForwardAt
  <1> QED
    BY <1>1, <1>2 DEF Pursued

\* What stands for an event goes on standing for it, if what was firm is firm or has something firm in its place.
LEMMA SavedStays ==
  ASSUME UNCHANGED scene,
         \A j \in Ids : recorded[j] = "received" => recorded'[j] = "received",
         \A j \in Ids : Firm(j) => \E k \in Ids : StandsIn(k, j)' /\ Firm(k)'
  PROVE  \A i \in Ids : Saved(i) => Saved(i)'
  <1> SUFFICES ASSUME NEW i \in Ids, Saved(i) PROVE Saved(i)'
    OBVIOUS
  <1>1. PICK j \in Ids : StandsIn(j, i) /\ Firm(j)
    BY DEF Saved
  <1>2. PICK k \in Ids : StandsIn(k, j)' /\ Firm(k)'
    BY <1>1
  <1>3. StandsIn(k, i)'
    BY <1>1, <1>2 DEF StandsIn
  <1> QED
    BY <1>2, <1>3 DEF Saved

\* For a step of the Orb it is enough that a row that goes leaves a trace or its place to another.
LEMMA OrbSaves ==
  ASSUME Inv, UNCHANGED <<scene, self>>,
         \A j \in Ids : recorded[j] = "received" => recorded'[j] = "received",
         \A j \in Ids : excuse[j] # "none" => excuse'[j] # "none",
         \A j \in DOMAIN pending : j \in DOMAIN pending' \/ excuse'[j] # "none"
                                   \/ \E k \in Ids : StandsIn(k, j)' /\ k \in DOMAIN pending'
  PROVE  \A i \in Ids : Saved(i) => Saved(i)'
  <1>1. \A j \in Ids : Firm(j) => \E k \in Ids : StandsIn(k, j)' /\ Firm(k)'
    <2> SUFFICES ASSUME NEW j \in Ids, Firm(j) PROVE \E k \in Ids : StandsIn(k, j)' /\ Firm(k)'
      OBVIOUS
    <2>1. StandsIn(j, j)'
      BY DEF StandsIn
    <2>2. CASE j \in DOMAIN pending
      BY <2>1, <2>2 DEF Firm
    <2>3. CASE excuse[j] # "none"
      BY <2>1, <2>3 DEF Firm
    <2>4. CASE \E e \in Enrollments : Here(e, j)
      BY <2>1, <2>4, OrbFrame DEF Firm
    <2> QED
      BY <2>2, <2>3, <2>4 DEF Firm
  <1> QED
    BY <1>1, SavedStays

\* The events other than i, in a step that forwards i.
LEMMA OthersForwarded ==
  ASSUME Inv, NEW i \in Ids, NEW f, fwd' = [fwd EXCEPT ![i] = f],
         \A j \in Ids \ {i} : recorded'[j] = recorded[j],
         \A j \in Ids \ {i} : j \in DOMAIN failures <=> j \in DOMAIN failures',
         \A j \in (Ids \ {i}) \cap DOMAIN failures : failures'[j] = failures[j]
  PROVE  /\ \A j \in Ids \ {i} : fwd'[j] = fwd[j] /\ ForwardAt(j)' /\ (Pursued(j) => Pursued(j)')
         /\ fwd'[i] = f
  <1>1. FwdOK
    BY TypeParts DEF Inv
  <1>2. \A j \in Ids \ {i} : fwd'[j] = fwd[j]
    BY <1>1 DEF FwdOK
  <1>3. fwd'[i] = f
    BY <1>1 DEF FwdOK
  <1>4. \A j \in Ids \ {i} : ForwardAt(j)'
    <2> SUFFICES ASSUME NEW j \in Ids \ {i} PROVE ForwardAt(j)'
      OBVIOUS
    <2>1. ForwardAt(j)
      BY DEF Inv, Forwards
    <2> QED
      BY <1>2, <2>1 DEF ForwardAt
  <1> QED
    BY <1>2, <1>3, <1>4 DEF Pursued

-----------------------------------------------------------------------------
(* The Orb: steps that move a forward on                                   *)

\* A step that only takes the forward of an event i from where it works to f, with no outcome or with none that ends
\* the Orb's care for it.
LEMMA MoveInv ==
  ASSUME Inv, NEW i \in Ids, NEW f \in Forwarding,
         fwd' = [fwd EXCEPT ![i] = f],
         fwd[i].pc \in {"read", "insert", "coalesce", "cap", "post", "wait"},
         f.pc \in {"insert", "post", "settle"}, f.retry = fwd[i].retry,
         f.pc = "settle" <=> f.out # "none",
         f.out \in {"none", "skipped", "ignored", "failed"},
         f.pc = "post" => f.to \in Enrollments /\ "push" \in scene.modes,
         f.pc = "insert" => "pull" \in scene.modes,
         i \in Notices => f.pc = "settle" /\ f.out = "failed",
         f.out = "failed" \/ fwd[i].pc = "read",
         UNCHANGED <<scene, orb, self, excuse, changes>>, (\E kind : Fault(kind)) \/ UNCHANGED faults
  PROVE  Inv'
  <1> USE DEF orb
  <1>1. TypeOK'
    BY BoundsType, FwdType, OrbFrame, TypeParts, TypePartsNext
       DEF Inv, IngressOK, EnrolOK, PendingOK, FailuresOK, ExcuseOK
  <1>2. \A j \in Ids \ {i} : fwd'[j] = fwd[j] /\ ForwardAt(j)' /\ (Pursued(j) => Pursued(j)')
    BY OthersForwarded
  <1>3. fwd'[i] = f
    BY OthersForwarded
  <1>4. fwd[i] # Resting /\ recorded[i] = "received" /\ ForwardAt(i)
    BY DEF Resting, Inv, Forwards, ForwardAt
  <1>5. Forwards'
    <2>1. ForwardAt(i)'
      BY <1>3, <1>4 DEF ForwardAt
    <2> QED
      BY <1>2, <2>1 DEF Forwards
  <1>6. Rows'
    BY DEF Inv, Rows, RowAt
  <1>7. Posted'
    <2> SUFFICES ASSUME NEW j \in Events PROVE PostedAt(j)'
      BY DEF Posted
    <2> QED
      BY <1>2, <1>3, <1>4 DEF Inv, Posted, PostedAt, Ids, self
  <1>8. PullOnly' /\ PushOnly'
    BY <1>2, <1>3 DEF Inv, PullOnly, PushOnly, self, Ids
  <1>9. Traced'
    <2>1. \A j \in Ids : Saved(j) => Saved(j)'
      BY OrbSaves
    <2>2. Pursued(i)' /\ fwd'[i].pc \notin {"coalesce", "cap"}
      BY <1>3 DEF Pursued, Resting
    <2> QED
      BY <1>2, <2>1, <2>2 DEF Inv, Traced, OneMode
  <1> QED
    BY <1>1, <1>5, <1>6, <1>7, <1>8, <1>9, OrbFrame DEF Inv

LEMMA ReadEnrollmentInv ==
  ASSUME Inv, NEW i \in Ids, ReadEnrollment(i)
  PROVE  Inv'
  <1>1. FwdOK /\ fwd[i] \in Forwarding /\ ForwardAt(i) /\ fwd[i].pc = "read"
    BY TypeParts, FwdType DEF Inv, Forwards, ReadEnrollment
  <1>2. i \notin Notices /\ fwd[i].out = "none"
    BY <1>1 DEF ForwardAt
  <1>3. UNCHANGED <<scene, orb, self, excuse, changes>> /\ ((\E kind : Fault(kind)) \/ UNCHANGED faults)
    BY DEF ReadEnrollment
  <1>4. ASSUME NEW out \in {"ignored", "skipped", "failed"}, Ends(i, out)
        PROVE  Inv'
    <2> DEFINE f == [fwd[i] EXCEPT !.pc = "settle", !.out = out]
    <2>1. fwd' = [fwd EXCEPT ![i] = f]
      BY <1>1, <1>4 DEF Ends, FwdOK
    <2>2. f \in Forwarding /\ f.pc = "settle" /\ f.out = out /\ f.retry = fwd[i].retry
      BY <1>1 DEF Forwarding, Outcomes
    <2> HIDE DEF f
    <2> QED
      BY <1>1, <1>2, <1>3, <2>1, <2>2, MoveInv
  <1>5. ASSUME NEW e \in liveRows, NEW pc \in {"insert", "post"},
               fwd' = [fwd EXCEPT ![i].pc = pc, ![i].to = e],
               enr[e].mode = (IF pc = "insert" THEN "pull" ELSE "push"), pc = "post" => enr[e].url
        PROVE  Inv'
    <2> DEFINE f == [fwd[i] EXCEPT !.pc = pc, !.to = e]
    <2>1. e \in Enrollments /\ fwd' = [fwd EXCEPT ![i] = f]
      BY <1>1, <1>5 DEF FwdOK, liveRows
    <2>2. f \in Forwarding /\ f.pc = pc /\ f.to = e /\ f.out = "none" /\ f.retry = fwd[i].retry
      BY <1>1, <1>2, <2>1 DEF Forwarding, Outcomes
    <2>3. pc = "insert" => "pull" \in scene.modes
      BY <1>5, <2>1 DEF Inv, PushOnly
    <2>4. pc = "post" => "push" \in scene.modes
      BY <1>5, <2>1 DEF Inv, PullOnly
    <2> HIDE DEF f
    <2> QED
      BY <1>1, <1>2, <1>3, <2>1, <2>2, <2>3, <2>4, MoveInv
  <1>6. CASE liveRows = {} /\ Ends(i, "ignored")
    BY <1>4, <1>6
  <1>7. CASE Ends(i, "failed")
    BY <1>4, <1>7
  <1>8. ASSUME NEW e \in liveRows,
               \/ enr[e].mode = "pull" /\ fwd' = [fwd EXCEPT ![i].pc = "insert", ![i].to = e]
               \/ enr[e].mode = "push" /\ enr[e].url /\ fwd' = [fwd EXCEPT ![i].pc = "post", ![i].to = e]
               \/ Ends(i, "skipped")
        PROVE  Inv'
    BY <1>4, <1>5, <1>8
  <1> QED
    BY <1>6, <1>7, <1>8 DEF ReadEnrollment

\* A forward that fails.
LEMMA FailsInv ==
  ASSUME Inv, NEW i \in Ids, Ends(i, "failed"), fwd[i].pc \in {"insert", "coalesce", "cap", "post", "wait"},
         UNCHANGED <<scene, orb, self, excuse, changes>>, (\E kind : Fault(kind)) \/ UNCHANGED faults
  PROVE  Inv'
  <1> DEFINE f == [fwd[i] EXCEPT !.pc = "settle", !.out = "failed"]
  <1>1. FwdOK /\ fwd[i] \in Forwarding
    BY TypeParts, FwdType DEF Inv
  <1>2. fwd' = [fwd EXCEPT ![i] = f]
    BY <1>1 DEF Ends, FwdOK
  <1>3. f \in Forwarding /\ f.pc = "settle" /\ f.out = "failed" /\ f.retry = fwd[i].retry
    BY <1>1 DEF Forwarding, Outcomes
  <1> HIDE DEF f
  <1> QED
    BY <1>1, <1>2, <1>3, MoveInv

LEMMA EnqueueThrowsInv ==
  ASSUME Inv, NEW i \in Ids, EnqueueThrows(i)
  PROVE  Inv'
  BY FailsInv DEF EnqueueThrows

LEMMA PostTimeoutInv ==
  ASSUME Inv, NEW i \in Ids, PostTimeout(i)
  PROVE  Inv'
  BY FailsInv DEF PostTimeout

-----------------------------------------------------------------------------
(* Receivers                                                               *)

\* A step of one receiver leaves the others alone, and disturbs what a container has recorded only where it is at work.
LEMMA OneHand ==
  ASSUME Inv, NEW h \in Hands, NEW r \in Handling, hand' = [hand EXCEPT ![h] = r]
  PROVE  /\ HandOK' /\ hand'[h] = r /\ \A g \in Hands \ {h} : hand'[g] = hand[g]
         /\ \A e \in Enrollments, i \in Ids :
              AtWork(e, i)' => AtWork(e, i) \/ i \in Todo(e)' \/ (r.pc \in Busy /\ r.at = e /\ r.id = i)
  <1>1. HandOK
    BY TypeParts DEF Inv
  <1>2. HandOK' /\ hand'[h] = r /\ \A g \in Hands \ {h} : hand'[g] = hand[g]
    BY <1>1, HandType DEF HandOK
  <1> QED
    BY <1>2 DEF AtWork

LEMMA HandSaves ==
  ASSUME Inv, NEW h \in Hands, NEW r \in Handling, hand' = [hand EXCEPT ![h] = r],
         UNCHANGED <<hook, jobs>>, \A e \in Enrollments : Todo(e)' \subseteq Todo(e)
  PROVE  \A e \in Enrollments, i \in Ids : Here(e, i) => Here(e, i)' \/ (r.pc \in Busy /\ r.at = e /\ r.id = i)
  <1>1. \A e \in Enrollments, i \in Ids :
          AtWork(e, i)' => AtWork(e, i) \/ i \in Todo(e)' \/ (r.pc \in Busy /\ r.at = e /\ r.id = i)
    BY OneHand
  <1>2. \A e \in Enrollments, i \in Ids : i \in Todo(e)' => AtWork(e, i)
    BY DEF AtWork
  <1> QED
    BY <1>1, <1>2 DEF Here

LEMMA PostIsHand == \A i \in Events : <<"post", i>> \in Hands /\ <<"post", i>> \in Posts /\ <<"post", i>> \notin Drains
  BY DEF Hands, Posts, Drains

LEMMA DrainIsHand == \A e \in Enrollments : <<"drain", e>> \in Hands /\ <<"drain", e>> \in Drains /\ <<"drain", e>> \notin Posts
  BY DEF Hands, Posts, Drains

LEMMA PostInv ==
  ASSUME Inv, NEW i \in Ids, Post(i)
  PROVE  Inv'
  <1> USE DEF orb
  <1>1. ForwardAt(i) /\ fwd[i].pc = "post" /\ FwdOK /\ fwd[i] \in Forwarding
    BY TypeParts, FwdType DEF Inv, Forwards, Post
  <1>2. i \in Events /\ i \notin Notices /\ fwd[i].to \in Enrollments /\ fwd[i].out = "none"
        /\ recorded[i] = "received" /\ "push" \in scene.modes
    BY <1>1 DEF ForwardAt, Ids, Resting, Inv, PullOnly
  <1>3. CASE ~box[fwd[i].to].up /\ Ends(i, "failed") /\ UNCHANGED <<hand, faults>>
    BY <1>1, <1>3, FailsInv DEF Post, self
  <1>4. CASE Fault("wire") /\ Ends(i, "failed") /\ UNCHANGED hand
    BY <1>1, <1>4, FailsInv DEF Post, self
  <1>5. ASSUME Goto(i, "wait"), UNCHANGED faults,
               hand' = [hand EXCEPT ![<<"post", i>>] = [pc |-> "check", at |-> fwd[i].to, id |-> i]]
        PROVE  Inv'
    <2> DEFINE h == <<"post", i>>
               r == [pc |-> "check", at |-> fwd[i].to, id |-> i]
               f == [fwd[i] EXCEPT !.pc = "wait"]
    <2>1. h \in Hands /\ h \in Posts /\ h \notin Drains /\ r \in Handling /\ hand' = [hand EXCEPT ![h] = r]
      BY <1>2, <1>5, PostIsHand DEF Handling, Busy, Ids
    <2>2. f \in Forwarding /\ f.pc = "wait" /\ f.to = fwd[i].to /\ f.out = "none" /\ f.retry = fwd[i].retry
          /\ fwd' = [fwd EXCEPT ![i] = f]
      BY <1>1, <1>2, <1>5 DEF Goto, Forwarding, FwdOK
    <2>3. r.pc = "check" /\ r.at = fwd[i].to /\ r.id = i /\ r # Free
      BY DEF Free
    <2> HIDE DEF r, f
    <2>4. UNCHANGED <<scene, recorded, enr, ranking, pending, failures, box, hook, jobs, excuse, changes, faults>>
      BY <1>5 DEF Post
    <2>5. HandOK' /\ hand'[h] = r /\ \A g \in Hands \ {h} : hand'[g] = hand[g]
      BY <2>1, OneHand
    <2>6. fwd'[i] = f /\ \A j \in Ids \ {i} : fwd'[j] = fwd[j] /\ ForwardAt(j)' /\ (Pursued(j) => Pursued(j)')
      BY <2>2, <2>4, OthersForwarded
    <2>7. TypeOK'
      BY <2>2, <2>4, <2>5, BoundsType, FwdType, TypeParts, TypePartsNext
         DEF Inv, IngressOK, EnrolOK, PendingOK, FailuresOK, BoxOK, HookOK, JobsOK, ExcuseOK
    <2>8. Placed'
      <3> SUFFICES ASSUME NEW g \in Hands PROVE HandAt(g)'
        BY DEF Placed
      <3> QED
        BY <1>2, <2>1, <2>3, <2>4, <2>5 DEF Inv, Placed, HandAt, Ids, Busy
    <2>9. Seen' /\ Rows'
      BY <2>4 DEF Inv, Seen, Rows, RowAt
    <2>10. Forwards'
      <3>1. ForwardAt(i)'
        BY <1>1, <1>2, <2>2, <2>4, <2>6 DEF ForwardAt
      <3> QED
        BY <2>6, <3>1 DEF Forwards
    <2>11. Posted'
      <3> SUFFICES ASSUME NEW j \in Events PROVE PostedAt(j)'
        BY DEF Posted
      <3>1. CASE j = i
        BY <1>2, <2>2, <2>4, <2>6, <3>1 DEF PostedAt
      <3>2. CASE j # i
        BY <2>4, <2>5, <2>6, <3>2, PostIsHand DEF Inv, Posted, PostedAt, Ids
      <3> QED
        BY <3>1, <3>2
    <2>12. Drained'
      <3>1. \A e \in Enrollments : hand'[<<"drain", e>>] = hand[<<"drain", e>>]
        BY <2>1, <2>5, DrainIsHand
      <3> SUFFICES ASSUME NEW e \in Enrollments PROVE DrainAt(e)'
        BY DEF Drained
      <3>2. DrainAt(e)
        BY DEF Inv, Drained
      <3> QED
        BY <2>4, <3>1, <3>2 DEF DrainAt, Todo
    <2>13. PullOnly' /\ PushOnly'
      BY <1>2, <2>1, <2>2, <2>4, <2>5, <2>6, DrainIsHand DEF Inv, PullOnly, PushOnly, Ids
    <2>14. Acked'
      BY <2>3, <2>4, <2>5 DEF Inv, Acked, OneMode, TakenBy, TakenHere
    <2>15. Traced'
      <3> SUFFICES ASSUME OneMode, NEW j \in Ids, recorded[j] = "received"
                   PROVE  (Pursued(j)' /\ fwd'[j].pc \notin {"coalesce", "cap"}) \/ Saved(j)'
        BY <2>4 DEF Traced, OneMode
      <3>1. CASE j = i
        BY <2>2, <2>6, <3>1 DEF Pursued, Resting
      <3>2. ASSUME j # i, Saved(j) PROVE Saved(j)'
        <4>1. Firm(j)
          BY <1>2, <3>2 DEF Saved, StandsIn
        <4>2. \A e \in Enrollments : Here(e, j) => Here(e, j)'
          <5>1. \A e \in Enrollments : Todo(e)' \subseteq Todo(e)
            BY <2>4 DEF Todo
          <5>2. \A e \in Enrollments, k \in Ids : Here(e, k) => Here(e, k)' \/ (r.pc \in Busy /\ r.at = e /\ r.id = k)
            BY <2>1, <2>4, <5>1, HandSaves
          <5> QED
            BY <2>3, <3>2, <5>2
        <4>3. Firm(j)'
          BY <2>4, <4>1, <4>2 DEF Firm
        <4> QED
          BY <4>3 DEF Saved, StandsIn
      <3> QED
        BY <2>6, <3>1, <3>2 DEF Inv, Traced
    <2> QED
      BY <2>7, <2>8, <2>9, <2>10, <2>11, <2>12, <2>13, <2>14, <2>15 DEF Inv
  <1> QED
    BY <1>3, <1>4, <1>5 DEF Post

\* Where the relay mode does not change, nothing else in a container is about the event a receiver is at.
LEMMA Sole ==
  ASSUME Inv, OneMode, NEW h \in Hands, hand[h] # Free
  PROVE  /\ \A g \in Hands : hand[g] # Free /\ hand[g].at = hand[h].at /\ hand[g].id = hand[h].id => g = h
         /\ hand[h].id \notin Todo(hand[h].at) /\ hand[h].id \notin box[hand[h].at].ack
         /\ hand[h].at \in Enrollments /\ hand[h].id \in Ids
  <1>1. \A g \in Hands : hand[g] # Free => HandAt(g) /\ (g \in Posts \/ g \in Drains)
    BY DEF Inv, Placed, Hands
  <1>2. ASSUME NEW g \in Hands, hand[g] # Free, g \in Posts
        PROVE  "push" \in scene.modes /\ g = <<"post", hand[g].id>> /\ \A e \in Enrollments : box[e].todo = <<>> /\ box[e].ack = {}
    <2>1. g = <<"post", hand[g].id>>
      BY <1>1, <1>2 DEF HandAt
    <2>2. PICK i \in Events : g = <<"post", i>>
      BY <1>2 DEF Posts
    <2>3. "push" \in scene.modes
      BY <1>2, <2>2 DEF Inv, PullOnly
    <2> QED
      BY <2>1, <2>3 DEF OneMode, Inv, PushOnly
  <1>3. ASSUME NEW g \in Hands, hand[g] # Free, g \in Drains
        PROVE  "pull" \in scene.modes /\ g = <<"drain", hand[g].at>> /\ hand[g].at \in Enrollments
               /\ hand[g].id \notin Todo(hand[g].at) /\ hand[g].id \notin box[hand[g].at].ack
    <2>1. g = <<"drain", hand[g].at>> /\ hand[g].at \in Enrollments
      BY <1>1, <1>3 DEF HandAt
    <2>2. "pull" \in scene.modes
      BY <1>3, <2>1 DEF Inv, PushOnly
    <2> QED
      BY <1>3, <2>1, <2>2 DEF Inv, Drained, DrainAt
  <1>4. hand[h].at \in Enrollments /\ hand[h].id \in Ids
    BY <1>1 DEF HandAt
  <1>5. CASE h \in Posts
    <2>1. Todo(hand[h].at) = {}
      BY <1>2, <1>4, <1>5 DEF Todo
    <2> QED
      BY <1>1, <1>2, <1>3, <1>4, <1>5, <2>1 DEF OneMode
  <1>6. CASE h \in Drains
    BY <1>1, <1>2, <1>3, <1>4, <1>6 DEF OneMode
  <1> QED
    BY <1>1, <1>5, <1>6

\* A step of enqueueWebhookByEnv: it may record its own event anew, or send it to the queue.
LEMMA WorkInv ==
  ASSUME Inv, NEW h \in Hands, hand[h].pc \in Busy,
         NEW e \in Enrollments, NEW i \in Ids, hand[h].at = e, hand[h].id = i,
         NEW pc \in (Busy \ {"show"}) \cup {"taken", "refused"}, Step(h, pc),
         pc \in Busy => hand[h].pc # "show",
         UNCHANGED <<scene, orb, fwd, box, excuse, changes>>, (\E kind : Fault(kind)) \/ UNCHANGED faults,
         HookOK', JobsOK', \A d \in Enrollments : jobs[d] \subseteq jobs'[d],
         \A d \in Enrollments, j \in Ids : ~(d = e /\ j = i) => hook'[d][j] = hook[d][j],
         \/ hook'[e][i].status # "none"
         \/ hook'[e][i].status = hook[e][i].status /\ pc \in {"record", "refused"},
         pc = "taken" => TakenHere(e, i)'
  PROVE  Inv'
  <1> USE DEF orb
  <1> DEFINE r == [hand[h] EXCEPT !.pc = pc]
  <1>1. HandOK /\ hand[h] \in Handling /\ hand[h] # Free /\ HandAt(h)
    BY TypeParts, HandType DEF Inv, Placed, Free, Busy
  <1>3. r \in Handling /\ r.pc = pc /\ r.at = e /\ r.id = i /\ r # Free /\ hand' = [hand EXCEPT ![h] = r]
    BY <1>1 DEF Handling, Step, HandOK, Free, Busy
  <1> HIDE DEF r
  <1>4. HandOK' /\ hand'[h] = r /\ \A g \in Hands \ {h} : hand'[g] = hand[g]
    BY <1>3, OneHand
  <1>5. UNCHANGED <<scene, recorded, enr, ranking, pending, failures, fwd, box, excuse, changes>>
    OBVIOUS
  <1>6. /\ \A d \in Enrollments, j \in Ids : ~(d = e /\ j = i) => hook'[d][j] = hook[d][j]
        /\ hook[e][i].status # "none" => hook'[e][i].status # "none"
        /\ pc \notin {"record", "refused"} => hook'[e][i].status # "none"
        /\ pc = "taken" => TakenHere(e, i)'
    OBVIOUS
  <1>7. TypeOK'
    BY <1>4, <1>5, BoundsType, TypeParts, TypePartsNext
       DEF Inv, IngressOK, EnrolOK, PendingOK, FailuresOK, FwdOK, BoxOK, ExcuseOK
  <1>8. \A d \in Enrollments, j \in Ids : hook[d][j].status # "none" => hook'[d][j].status # "none"
    BY <1>6
  <1>9. Placed'
    <2> SUFFICES ASSUME NEW g \in Hands PROVE HandAt(g)'
      BY DEF Placed
    <2>1. HandAt(g)
      BY DEF Inv, Placed
    <2>2. CASE g = h
      <3>1. pc \in Busy => i \in Events
        BY <1>1 DEF HandAt, Busy
      <3>2. h \in Posts => h = <<"post", i>>
        BY <1>1 DEF HandAt
      <3>3. h \in Drains => h = <<"drain", e>>
        BY <1>1 DEF HandAt
      <3>4. HandAt(h)'
        BY <1>3, <1>4, <1>6, <3>1, <3>2, <3>3 DEF HandAt, Busy
      <3> QED
        BY <2>2, <3>4
    <2>3. CASE g # h
      BY <1>4, <1>8, <2>1, <2>3 DEF HandAt
    <2> QED
      BY <2>2, <2>3
  <1>10. Seen'
    <2>1. BoxOK
      BY TypeParts DEF Inv
    <2>2. \A d \in Enrollments : box[d].ack \subseteq Ids
      BY <2>1 DEF BoxOK, Container
    <2> QED
      BY <1>5, <1>8, <2>2 DEF Inv, Seen
  <1>11. Forwards' /\ \A j \in Ids : Pursued(j) => Pursued(j)'
    BY <1>5, BoxFrame
  <1>12. Rows'
    BY <1>5 DEF Inv, Rows, RowAt
  <1>13. \A g \in Hands : hand'[g] # Free => hand[g] # Free /\ hand'[g].id = hand[g].id
    BY <1>1, <1>3, <1>4
  <1>14. Posted'
    <2> SUFFICES ASSUME NEW j \in Events PROVE PostedAt(j)'
      BY DEF Posted
    <2>1. PostedAt(j)
      BY DEF Inv, Posted
    <2> QED
      BY <1>5, <1>13, <2>1, PostIsHand DEF PostedAt
  <1>15. Drained'
    <2> SUFFICES ASSUME NEW d \in Enrollments PROVE DrainAt(d)'
      BY DEF Drained
    <2>1. DrainAt(d) /\ <<"drain", d>> \in Hands
      BY DrainIsHand DEF Inv, Drained
    <2>2. Todo(d)' = Todo(d)
      BY <1>5 DEF Todo
    <2> QED
      BY <1>5, <1>13, <2>1, <2>2 DEF DrainAt
  <1>16. PullOnly' /\ PushOnly'
    BY <1>5, <1>13, PostIsHand, DrainIsHand DEF Inv, PullOnly, PushOnly
  <1>17. Acked'
    <2> SUFFICES ASSUME OneMode
                 PROVE  /\ \A d \in Enrollments : \A j \in box[d].ack : TakenHere(d, j)'
                        /\ \A g \in Hands : TakenBy(g)'
      BY <1>5 DEF Acked, OneMode
    <2>1. \A d \in Enrollments, j \in Ids : TakenHere(d, j) /\ ~(d = e /\ j = i) => TakenHere(d, j)'
      BY <1>6 DEF TakenHere
    <2>2. i \notin box[e].ack
      BY <1>1, Sole
    <2>3. \A d \in Enrollments : \A j \in box[d].ack : TakenHere(d, j)'
      <3>1. BoxOK
        BY TypeParts DEF Inv
      <3>2. \A d \in Enrollments : box[d].ack \subseteq Ids
        BY <3>1 DEF BoxOK, Container
      <3> QED
        BY <2>1, <2>2, <3>2 DEF Inv, Acked
    <2>4. ASSUME NEW g \in Hands PROVE TakenBy(g)'
      <3>1. CASE g = h
        BY <1>3, <1>4, <1>6, <3>1 DEF TakenBy
      <3>2. ASSUME g # h, hand[g].pc = "taken" PROVE TakenBy(g)'
        <4>1. hand'[g] = hand[g] /\ hand[g] # Free
          BY <1>4, <3>2 DEF Free
        <4>2. hand[g].at \in Enrollments /\ hand[g].id \in Ids
          BY <4>1 DEF Inv, Placed, HandAt
        <4>3. ~(hand[g].at = e /\ hand[g].id = i)
          BY <1>1, <3>2, <4>1, Sole
        <4>4. TakenHere(hand[g].at, hand[g].id)
          BY <3>2 DEF Inv, Acked, TakenBy
        <4> QED
          BY <2>1, <4>1, <4>2, <4>3, <4>4 DEF TakenBy
      <3> QED
        BY <1>4, <3>1, <3>2 DEF TakenBy
    <2> QED
      BY <2>3, <2>4
  <1>18. \A d \in Enrollments, j \in Ids : Here(d, j) => Here(d, j)'
    <2>1. AtWork(e, i)
      BY <1>1 DEF AtWork
    <2>2. \A d \in Enrollments : Todo(d)' = Todo(d)
      BY <1>5 DEF Todo
    <2>3. \A d \in Enrollments, j \in Ids :
            AtWork(d, j)' => AtWork(d, j) \/ j \in Todo(d)' \/ (r.pc \in Busy /\ r.at = d /\ r.id = j)
      BY <1>4 DEF AtWork
    <2>4. \A d \in Enrollments, j \in Ids : AtWork(d, j)' => AtWork(d, j)
      BY <1>3, <2>1, <2>2, <2>3 DEF AtWork
    <2> QED
      BY <1>6, <2>1, <2>4 DEF Here
  <1>19. Traced'
    <2>1. \A j \in Ids : Firm(j) => \E k \in Ids : StandsIn(k, j)' /\ Firm(k)'
      BY <1>5, <1>18 DEF Firm, StandsIn
    <2>2. \A j \in Ids : Saved(j) => Saved(j)'
      BY <1>5, <2>1, SavedStays
    <2> QED
      BY <1>5, <1>11, <2>2 DEF Inv, Traced, OneMode
  <1> QED
    BY <1>7, <1>9, <1>10, <1>11, <1>12, <1>14, <1>15, <1>16, <1>17, <1>19 DEF Inv

\* Recording an event in a container changes the row of that event only.
Recorded == [status : {"none", "queued", "processed", "error"}, old : BOOLEAN]

LEMMA MarkRow ==
  ASSUME HookOK, NEW h \in Hands, NEW e \in Enrollments, NEW i \in Ids, hand[h].at = e, hand[h].id = i,
         NEW status \in {"queued", "processed", "error"}, Mark(h, status)
  PROVE  /\ HookOK' /\ hook'[e][i].status = status
         /\ \A d \in Enrollments, j \in Ids : ~(d = e /\ j = i) => hook'[d][j] = hook[d][j]
  <1>1. hook[e][i] \in Recorded
    BY DEF HookOK, Recorded
  <1>2. PICK row \in Recorded : row = [hook[e][i] EXCEPT !.status = status]
    BY <1>1 DEF Recorded
  <1>3. row.status = status
    BY <1>1, <1>2 DEF Recorded
  <1>4. hook' = [hook EXCEPT ![e][i] = row]
    BY <1>2 DEF Mark
  <1> QED
    BY <1>3, <1>4 DEF HookOK, Recorded

LEMMA BusyHand ==
  ASSUME Inv, NEW h \in Hands, hand[h].pc \in Busy
  PROVE  /\ hand[h] # Free /\ hand[h].at \in Enrollments /\ hand[h].id \in Ids /\ HandAt(h)
         /\ HookOK /\ JobsOK
  BY TypeParts DEF Inv, Placed, HandAt, Free, Busy

LEMMA ShowInv ==
  ASSUME Inv, NEW h \in Hands, Show(h)
  PROVE  Inv'
  <1>1. PICK e \in Enrollments, i \in Ids : hand[h].at = e /\ hand[h].id = i /\ hand[h].pc \in Busy /\ Step(h, "taken")
    BY BusyHand DEF Show, Busy, Step
  <1>2. JobsOK' /\ \A d \in Enrollments : jobs[d] \subseteq jobs'[d]
    BY <1>1, BusyHand DEF Show, JobsOK
  <1>3. hook' = [hook EXCEPT ![e][i] = [status |-> "processed", old |-> FALSE]]
    BY <1>1 DEF Show
  <1>4. /\ HookOK' /\ hook'[e][i].status = "processed"
        /\ \A d \in Enrollments, j \in Ids : ~(d = e /\ j = i) => hook'[d][j] = hook[d][j]
    BY <1>1, <1>3, BusyHand DEF HookOK
  <1>5. TakenHere(e, i)'
    BY <1>4 DEF TakenHere
  <1> QED
    BY <1>1, <1>2, <1>4, <1>5, WorkInv DEF Show, Busy

LEMMA CheckInv ==
  ASSUME Inv, NEW h \in Hands, Check(h)
  PROVE  Inv'
  <1> DEFINE pc == IF Duplicate(Row(h)) THEN "taken" ELSE "record"
  <1>1. PICK e \in Enrollments, i \in Ids :
          hand[h].at = e /\ hand[h].id = i /\ hand[h].pc = "check" /\ HookOK /\ JobsOK
    BY BusyHand DEF Check, Busy
  <1>2. UNCHANGED <<hook, jobs>> /\ Step(h, pc)
    BY DEF Check
  <1>3. pc = "taken" => hook[e][i].status \in {"queued", "processed"}
    BY <1>1 DEF Duplicate, Row
  <1>4. pc \in {"taken", "record"}
    OBVIOUS
  <1> HIDE DEF pc
  <1>5. HookOK' /\ JobsOK'
    BY <1>1, <1>2 DEF HookOK, JobsOK
  <1>6. pc = "taken" => hook'[e][i].status # "none" /\ TakenHere(e, i)'
    BY <1>2, <1>3 DEF TakenHere
  <1> QED
    BY <1>1, <1>2, <1>4, <1>5, <1>6, WorkInv DEF Check, Busy

LEMMA RecordInv ==
  ASSUME Inv, NEW h \in Hands, Record(h)
  PROVE  Inv'
  <1>1. PICK e \in Enrollments, i \in Ids :
          hand[h].at = e /\ hand[h].id = i /\ hand[h].pc = "record" /\ HookOK /\ JobsOK
    BY BusyHand DEF Record, Busy
  <1>2. PICK status \in {"queued", "processed"} :
          Mark(h, status) /\ Step(h, IF status = "processed" THEN "taken" ELSE "send")
    BY DEF Record
  <1>3. /\ HookOK' /\ hook'[e][i].status = status
        /\ \A d \in Enrollments, j \in Ids : ~(d = e /\ j = i) => hook'[d][j] = hook[d][j]
    BY <1>1, <1>2, MarkRow
  <1>4. JobsOK' /\ \A d \in Enrollments : jobs[d] \subseteq jobs'[d]
    BY <1>1 DEF Record, JobsOK
  <1>5. TakenHere(e, i)'
    BY <1>3 DEF TakenHere
  <1> QED
    BY <1>1, <1>2, <1>3, <1>4, <1>5, WorkInv DEF Record, Busy

LEMMA SendInv ==
  ASSUME Inv, NEW h \in Hands, Send(h)
  PROVE  Inv'
  <1>1. PICK e \in Enrollments, i \in Ids :
          hand[h].at = e /\ hand[h].id = i /\ hand[h].pc = "send" /\ HookOK /\ JobsOK
    BY BusyHand DEF Send, Busy
  <1>2. i \in Events /\ hook[e][i].status # "none"
    BY <1>1, BusyHand DEF HandAt, Busy
  <1>3. HookOK' /\ hook' = hook
    BY <1>1 DEF Send, HookOK
  <1>4. CASE jobs' = [jobs EXCEPT ![e] = @ \cup {i}] /\ Step(h, "taken") /\ UNCHANGED faults
    <2>1. JobsOK' /\ (\A d \in Enrollments : jobs[d] \subseteq jobs'[d]) /\ i \in jobs'[e]
      BY <1>1, <1>2, <1>4 DEF JobsOK
    <2>2. TakenHere(e, i)'
      BY <2>1 DEF TakenHere
    <2> QED
      BY <1>1, <1>2, <1>3, <1>4, <2>1, <2>2, WorkInv DEF Send, Busy
  <1>5. CASE Fault("box") /\ Step(h, "mend") /\ UNCHANGED jobs
    <2>1. JobsOK' /\ \A d \in Enrollments : jobs[d] \subseteq jobs'[d]
      BY <1>1, <1>5 DEF JobsOK
    <2> QED
      BY <1>1, <1>2, <1>3, <1>5, <2>1, WorkInv DEF Send, Busy
  <1> QED
    BY <1>1, <1>4, <1>5 DEF Send

LEMMA MendInv ==
  ASSUME Inv, NEW h \in Hands, Mend(h)
  PROVE  Inv'
  <1>1. PICK e \in Enrollments, i \in Ids :
          hand[h].at = e /\ hand[h].id = i /\ hand[h].pc = "mend" /\ HookOK /\ JobsOK
    BY BusyHand DEF Mend, Busy
  <1>2. /\ HookOK' /\ hook'[e][i].status = "error"
        /\ \A d \in Enrollments, j \in Ids : ~(d = e /\ j = i) => hook'[d][j] = hook[d][j]
    BY <1>1, MarkRow DEF Mend
  <1>3. JobsOK' /\ \A d \in Enrollments : jobs[d] \subseteq jobs'[d]
    BY <1>1 DEF Mend, JobsOK
  <1> QED
    BY <1>1, <1>2, <1>3, WorkInv DEF Mend, Busy

LEMMA ThrowsInv ==
  ASSUME Inv, NEW h \in Hands, Throws(h)
  PROVE  Inv'
  <1>1. hand[h].pc \in Busy /\ hand[h].at \in Enrollments /\ hand[h].id \in Ids /\ HookOK /\ JobsOK
    BY BusyHand DEF Throws, Busy
  <1>2. HookOK' /\ JobsOK'
    BY <1>1 DEF Throws, HookOK, JobsOK
  <1> QED
    BY <1>1, <1>2, WorkInv DEF Throws, Busy

\* A receiver that ends, and what its answer does to the forward that waits for it.
LEMMA AnswerInv ==
  ASSUME Inv, NEW i \in Ids, Answer(i)
  PROVE  Inv'
  <1> USE DEF orb
  <1> DEFINE h == <<"post", i>>
  <1>1. i \in Events /\ h \in Hands /\ h \in Posts /\ h \notin Drains /\ hand' = [hand EXCEPT ![h] = Free]
        /\ hand[h].pc \in {"taken", "refused"}
    BY PostIsHand DEF Answer
  <1>2. UNCHANGED <<scene, recorded, enr, ranking, pending, failures, box, hook, jobs, excuse, changes, faults>>
    BY DEF Answer
  <1>3. FwdOK /\ fwd[i] \in Forwarding /\ ForwardAt(i) /\ hand[h] # Free /\ HandAt(h) /\ PostedAt(i) /\ "push" \in scene.modes
    BY <1>1, TypeParts, FwdType DEF Inv, Forwards, Free, Placed, Posted, PullOnly
  <1>4. PICK f \in Forwarding :
          /\ fwd' = [fwd EXCEPT ![i] = f]
          /\ \/ f = fwd[i]
             \/ /\ fwd[i].pc = "wait" /\ f.pc = "settle" /\ f.to = fwd[i].to /\ f.retry = fwd[i].retry
                /\ f.out = IF hand[h].pc = "taken" THEN "forwarded" ELSE "failed"
    <2>1. CASE fwd[i].pc = "wait"
      <3> DEFINE out == IF hand[h].pc = "taken" THEN "forwarded" ELSE "failed"
                 f == [fwd[i] EXCEPT !.pc = "settle", !.out = out]
      <3>1. fwd' = [fwd EXCEPT ![i] = f]
        BY <1>3, <2>1 DEF Answer, Ends, FwdOK
      <3>2. f \in Forwarding /\ f.pc = "settle" /\ f.to = fwd[i].to /\ f.retry = fwd[i].retry /\ f.out = out
        BY <1>3 DEF Forwarding, Outcomes
      <3> HIDE DEF f
      <3> QED
        BY <2>1, <3>1, <3>2
    <2>2. CASE fwd[i].pc # "wait"
      BY <1>3, <2>2 DEF Answer, FwdOK
    <2> QED
      BY <2>1, <2>2
  <1>5. HandOK' /\ hand'[h] = Free /\ \A g \in Hands \ {h} : hand'[g] = hand[g]
    BY <1>1, FreeType, OneHand
  <1>6. fwd'[i] = f /\ \A j \in Ids \ {i} : fwd'[j] = fwd[j] /\ ForwardAt(j)' /\ (Pursued(j) => Pursued(j)')
    BY <1>2, <1>4, OthersForwarded
  <1>7. TypeOK'
    BY <1>2, <1>4, <1>5, BoundsType, FwdType, TypeParts, TypePartsNext
       DEF Inv, IngressOK, EnrolOK, PendingOK, FailuresOK, BoxOK, HookOK, JobsOK, ExcuseOK
  <1>8. Placed' /\ Seen' /\ Rows'
    BY <1>2, <1>5 DEF Inv, Placed, HandAt, Seen, Rows, RowAt
  <1>9. Forwards'
    <2>1. ForwardAt(i)'
      <3>1. CASE f = fwd[i]
        BY <1>2, <1>3, <1>6, <3>1 DEF ForwardAt
      <3>2. CASE fwd[i].pc = "wait" /\ f.pc = "settle" /\ f.retry = fwd[i].retry /\ f.out \in {"forwarded", "failed"}
        <4>1. i \notin Notices /\ recorded[i] = "received"
          BY <1>3, <3>2 DEF ForwardAt, PostedAt
        <4> QED
          BY <1>2, <1>3, <1>6, <3>2, <4>1 DEF ForwardAt
      <3> QED
        BY <1>4, <3>1, <3>2
    <2> QED
      BY <1>6, <2>1 DEF Forwards
  <1>10. Posted'
    <2> SUFFICES ASSUME NEW j \in Events PROVE PostedAt(j)'
      BY DEF Posted
    <2>1. CASE j = i
      BY <1>5, <2>1 DEF PostedAt
    <2>2. CASE j # i
      BY <1>2, <1>5, <1>6, <2>2, PostIsHand DEF Inv, Posted, PostedAt, Ids
    <2> QED
      BY <2>1, <2>2
  <1>11. \A e \in Enrollments : hand'[<<"drain", e>>] = hand[<<"drain", e>>] /\ Todo(e)' = Todo(e)
    BY <1>1, <1>2, <1>5, DrainIsHand DEF Todo
  <1>12. Drained'
    <2> SUFFICES ASSUME NEW e \in Enrollments PROVE DrainAt(e)'
      BY DEF Drained
    <2> QED
      BY <1>2, <1>11 DEF Inv, Drained, DrainAt
  <1>13. PullOnly' /\ PushOnly'
    BY <1>1, <1>2, <1>3, <1>4, <1>6, <1>11 DEF Inv, PullOnly, PushOnly, Ids
  <1>14. Acked'
    BY <1>2, <1>5 DEF Inv, Acked, OneMode, TakenBy, TakenHere, Free
  <1>15. \A e \in Enrollments, j \in Ids : Here(e, j) => Here(e, j)'
    <2>1. \A e \in Enrollments, j \in Ids : Here(e, j) => Here(e, j)' \/ (Free.pc \in Busy /\ Free.at = e /\ Free.id = j)
      BY <1>1, <1>2, <1>11, FreeType, HandSaves
    <2> QED
      BY <2>1 DEF Free, Busy
  <1>16. Traced'
    <2>1. \A j \in Ids : Saved(j) => Saved(j)'
      <3>1. \A j \in Ids : Firm(j) => \E k \in Ids : StandsIn(k, j)' /\ Firm(k)'
        BY <1>2, <1>15 DEF Firm, StandsIn
      <3> QED
        BY <1>2, <3>1, SavedStays
    <2>2. ASSUME OneMode, hand[h].pc = "taken" PROVE Saved(i)'
      <3>1. PICK e \in Enrollments : e = hand[h].at /\ hand[h].id = i
        BY <1>1, <1>3 DEF HandAt
      <3>2. TakenHere(e, i)
        BY <1>1, <2>2, <3>1 DEF Inv, Acked, TakenBy
      <3>3. ~AtWork(e, i)'
        <4>1. ASSUME NEW g \in Hands, hand'[g].at = e, hand'[g].id = i, hand'[g].pc \in Busy PROVE FALSE
          <5>1. g # h /\ hand'[g] # Free
            BY <1>5, <4>1 DEF Free, Busy
          <5>2. hand[g] # Free /\ hand[g].at = e /\ hand[g].id = i
            BY <1>5, <4>1, <5>1
          <5> QED
            BY <1>1, <1>3, <2>2, <3>1, <5>1, <5>2, Sole
        <4>2. i \notin Todo(e)'
          BY <1>3, <1>1, <1>11, <2>2, <3>1, Sole
        <4> QED
          BY <4>1, <4>2 DEF AtWork
      <3>4. Here(e, i)'
        BY <1>2, <3>2, <3>3 DEF Here, TakenHere
      <3> QED
        BY <3>4 DEF Saved, StandsIn, Firm
    <2>3. ASSUME OneMode PROVE (Pursued(i)' /\ fwd'[i].pc \notin {"coalesce", "cap"}) \/ Saved(i)'
      <3>1. CASE f = fwd[i]
        <4>1. recorded[i] = "received"
          BY <1>3 DEF PostedAt
        <4>2. Pursued(i) => Pursued(i)'
          BY <1>2, <1>6, <3>1 DEF Pursued
        <4> QED
          BY <1>6, <2>1, <2>3, <3>1, <4>1, <4>2 DEF Inv, Traced
      <3>2. CASE f.pc = "settle" /\ f.out = "failed"
        BY <1>6, <3>2 DEF Pursued, Resting
      <3> QED
        BY <1>4, <2>2, <2>3, <3>1, <3>2
    <2> QED
      BY <1>2, <1>6, <2>1, <2>3 DEF Inv, Traced, OneMode
  <1> QED
    BY <1>7, <1>8, <1>9, <1>10, <1>12, <1>13, <1>14, <1>16 DEF Inv

-----------------------------------------------------------------------------
(* Containers                                                              *)

\* A step of one container and its drain.
LEMMA BoxInv ==
  ASSUME Inv, NEW e \in Enrollments, NEW b \in Container, NEW r \in Handling,
         box' = [box EXCEPT ![e] = b], hand' = [hand EXCEPT ![<<"drain", e>>] = r],
         UNCHANGED <<scene, orb, fwd, hook, jobs, excuse, changes>>, (\E kind : Fault(kind)) \/ UNCHANGED faults,
         DrainAt(e)', HandAt(<<"drain", e>>)',
         \A i \in b.ack : hook[e][i].status # "none",
         OneMode => (\A i \in b.ack : TakenHere(e, i)) /\ TakenBy(<<"drain", e>>)',
         "push" \in scene.modes \/ (b.up => b.mode = "pull"),
         \/ "pull" \in scene.modes
         \/ (b.up => b.mode = "push") /\ b.todo = <<>> /\ b.ack = {} /\ b.drain = "idle" /\ r = Free,
         \A i \in Ids : Here(e, i) => Here(e, i)' \/ i \in DOMAIN pending
  PROVE  Inv'
  <1> USE DEF orb
  <1> DEFINE h == <<"drain", e>>
  <1>1. UNCHANGED <<scene, recorded, enr, ranking, pending, failures, fwd, hook, jobs, excuse, changes>>
    OBVIOUS
  <1>2. h \in Hands /\ h \in Drains /\ h \notin Posts
    BY DrainIsHand
  <1>3. HandOK' /\ hand'[h] = r /\ \A g \in Hands \ {h} : hand'[g] = hand[g]
    BY <1>2, OneHand
  <1>4. BoxOK /\ BoxOK' /\ box'[e] = b /\ \A d \in Enrollments \ {e} : box'[d] = box[d]
    BY TypeParts DEF Inv, BoxOK
  <1>5. TypeOK'
    BY <1>1, <1>3, <1>4, BoundsType, TypeParts, TypePartsNext
       DEF Inv, IngressOK, EnrolOK, PendingOK, FailuresOK, FwdOK, HookOK, JobsOK, ExcuseOK
  <1>6. \A i \in Events : hand'[<<"post", i>>] = hand[<<"post", i>>]
    BY <1>2, <1>3, PostIsHand
  <1>7. \A d \in Enrollments \ {e} : hand'[<<"drain", d>>] = hand[<<"drain", d>>] /\ Todo(d)' = Todo(d)
    BY <1>3, <1>4, DrainIsHand DEF Todo
  <1>8. Placed'
    <2> SUFFICES ASSUME NEW g \in Hands \ {h} PROVE HandAt(g)'
      BY DEF Placed
    <2> QED
      BY <1>1, <1>3 DEF Inv, Placed, HandAt
  <1>9. Seen'
    BY <1>1, <1>4 DEF Inv, Seen
  <1>10. Forwards' /\ \A i \in Ids : Pursued(i) => Pursued(i)'
    BY <1>1, BoxFrame
  <1>11. Rows'
    BY <1>1 DEF Inv, Rows, RowAt
  <1>12. Posted'
    BY <1>1, <1>6 DEF Inv, Posted, PostedAt
  <1>13. Drained'
    <2> SUFFICES ASSUME NEW d \in Enrollments \ {e} PROVE DrainAt(d)'
      BY DEF Drained
    <2>1. DrainAt(d)
      BY DEF Inv, Drained
    <2> QED
      BY <1>4, <1>7, <2>1 DEF DrainAt
  <1>14. PullOnly'
    BY <1>1, <1>4, <1>6 DEF Inv, PullOnly
  <1>15. PushOnly'
    <2> SUFFICES ASSUME "pull" \notin scene.modes, NEW d \in Enrollments
                 PROVE  /\ enr'[d].mode = "push" /\ (box'[d].up => box'[d].mode = "push")
                        /\ box'[d].todo = <<>> /\ box'[d].ack = {} /\ box'[d].drain = "idle" /\ hand'[<<"drain", d>>] = Free
      BY <1>1 DEF Inv, PushOnly
    <2>1. CASE d = e
      BY <1>1, <1>3, <1>4, <2>1 DEF Inv, PushOnly
    <2>2. CASE d # e
      BY <1>1, <1>4, <1>7, <2>2 DEF Inv, PushOnly
    <2> QED
      BY <2>1, <2>2
  <1>16. Acked'
    <2> SUFFICES ASSUME OneMode
                 PROVE  (\A d \in Enrollments : \A i \in box'[d].ack : TakenHere(d, i)') /\ \A g \in Hands : TakenBy(g)'
      BY <1>1 DEF Acked, OneMode
    <2>1. \A d \in Enrollments : \A i : TakenHere(d, i) => TakenHere(d, i)'
      BY <1>1 DEF TakenHere
    <2>2. \A d \in Enrollments : \A i \in box'[d].ack : TakenHere(d, i)'
      BY <1>4, <2>1 DEF Inv, Acked
    <2>3. \A g \in Hands \ {h} : TakenBy(g)'
      BY <1>1, <1>3 DEF Inv, Acked, TakenBy, TakenHere
    <2> QED
      BY <2>2, <2>3
  <1>17. \A i \in Ids : Firm(i) => Firm(i)'
    <2>1. ASSUME NEW d \in Enrollments \ {e}, NEW i \in Ids, Here(d, i) PROVE Here(d, i)'
      <3>1. \A c \in Enrollments, j \in Ids :
              AtWork(c, j)' => AtWork(c, j) \/ j \in Todo(c)' \/ (r.pc \in Busy /\ r.at = c /\ r.id = j)
        BY <1>3 DEF AtWork
      <3>2. r.pc \in Busy => r.at = e
        <4>1. r # Free => h = <<"drain", r.at>>
          BY <1>2, <1>3 DEF HandAt
        <4>2. r.pc \in Busy => r # Free
          BY DEF Free, Busy
        <4> QED
          BY <4>1, <4>2
      <3>3. i \in Todo(d)' => AtWork(d, i)
        BY <1>7 DEF AtWork
      <3> QED
        BY <1>1, <2>1, <3>1, <3>2, <3>3 DEF Here
    <2> QED
      BY <1>1, <2>1 DEF Firm
  <1>18. Traced'
    <2>1. \A i \in Ids : Firm(i) => \E k \in Ids : StandsIn(k, i)' /\ Firm(k)'
      BY <1>17 DEF StandsIn
    <2>2. \A i \in Ids : Saved(i) => Saved(i)'
      BY <1>1, <2>1, SavedStays
    <2> QED
      BY <1>1, <1>10, <2>2 DEF Inv, Traced, OneMode
  <1> QED
    BY <1>5, <1>8, <1>9, <1>10, <1>11, <1>12, <1>13, <1>14, <1>15, <1>16, <1>18 DEF Inv

\* What is known of a container and its drain.
LEMMA BoxFacts ==
  ASSUME Inv, NEW e \in Enrollments
  PROVE  /\ <<"drain", e>> \in Hands /\ HandAt(<<"drain", e>>) /\ hand[<<"drain", e>>] \in Handling /\ HandOK
         /\ DrainAt(e) /\ BoxOK /\ box[e] \in Container
         /\ \A i \in box[e].ack : hook[e][i].status # "none"
         /\ OneMode => (\A i \in box[e].ack : TakenHere(e, i)) /\ TakenBy(<<"drain", e>>)
         /\ "push" \in scene.modes \/ (box[e].up => box[e].mode = "pull")
  BY DrainIsHand, TypeParts DEF Inv, Placed, Drained, Seen, Acked, HandOK, BoxOK, PullOnly

\* A step of a container that leaves its drain where it is.
LEMMA BoxOnlyInv ==
  ASSUME Inv, NEW e \in Enrollments, NEW b \in Container, box' = [box EXCEPT ![e] = b],
         UNCHANGED <<scene, orb, fwd, hook, jobs, hand, excuse, changes>>, (\E kind : Fault(kind)) \/ UNCHANGED faults,
         DrainAt(e)', b.ack \subseteq box[e].ack, "push" \in scene.modes \/ (b.up => b.mode = "pull"),
         \/ "pull" \in scene.modes
         \/ (b.up => b.mode = "push") /\ b.todo = <<>> /\ b.ack = {} /\ b.drain = "idle",
         \A i \in Ids : Here(e, i) => Here(e, i)' \/ i \in DOMAIN pending
  PROVE  Inv'
  <1>1. PICK r \in Handling : r = hand[<<"drain", e>>] /\ hand' = [hand EXCEPT ![<<"drain", e>>] = r]
    BY BoxFacts DEF HandOK
  <1>2. HandAt(<<"drain", e>>)' /\ (OneMode => TakenBy(<<"drain", e>>)')
    BY BoxFacts DEF HandAt, TakenBy, TakenHere
  <1>3. "pull" \in scene.modes \/ r = Free
    BY <1>1 DEF Inv, PushOnly
  <1>4. /\ \A i \in b.ack : hook[e][i].status # "none"
        /\ OneMode => \A i \in b.ack : TakenHere(e, i)
    BY BoxFacts
  <1> QED
    BY <1>1, <1>2, <1>3, <1>4, BoxInv

LEMMA FinishInv ==
  ASSUME Inv, NEW e \in Enrollments, Finish(e)
  PROVE  Inv'
  <1> USE DEF orb
  <1> DEFINE h == <<"drain", e>>
  <1>1. /\ h \in Hands /\ h \in Drains /\ HandAt(h) /\ hand[h] \in Handling /\ DrainAt(e) /\ BoxOK /\ box[e] \in Container
        /\ hand[h].pc \in {"taken", "refused"} /\ hand[h] # Free
    BY BoxFacts, DrainIsHand DEF Finish, Free
  <1>2. PICK i \in Ids : hand[h].id = i /\ hand[h].at = e /\ (hand[h].pc = "taken" => hook[e][i].status # "none")
    <2>1. h = <<"drain", hand[h].at>>
      BY <1>1 DEF HandAt
    <2>2. hand[h].at = e
      BY <2>1
    <2> QED
      BY <1>1, <2>2 DEF HandAt
  <1>3. PICK A \in SUBSET Ids : A = IF hand[h].pc = "taken" THEN box[e].ack \cup {i} ELSE box[e].ack
    BY <1>1 DEF Container
  <1>4. PICK b \in Container : b = [box[e] EXCEPT !.ack = A]
    BY <1>1 DEF Container
  <1>5. b.ack = A /\ b.todo = box[e].todo /\ b.drain = box[e].drain /\ b.up = box[e].up /\ b.mode = box[e].mode
    BY <1>1, <1>4 DEF Container
  <1>6. box' = [box EXCEPT ![e] = b]
    <2>1. CASE hand[h].pc = "taken"
      BY <1>1, <1>2, <1>3, <1>4, <2>1 DEF Finish, BoxOK
    <2>2. CASE hand[h].pc # "taken"
      <3>1. b = box[e]
        BY <1>1, <1>3, <1>4, <2>2 DEF Container
      <3> QED
        BY <1>1, <2>2, <3>1 DEF Finish, BoxOK
    <2> QED
      BY <2>1, <2>2
  <1>7. hand' = [hand EXCEPT ![h] = Free] /\ UNCHANGED <<scene, orb, fwd, hook, jobs, excuse, changes, faults>>
    BY DEF Finish
  <1>8. hand'[h] = Free /\ box'[e] = b /\ \A d \in Enrollments : box'[d].todo = box[d].todo
    <2>1. hand'[h] = Free
      BY <1>1, <1>7, FreeType, OneHand
    <2> QED
      BY <1>1, <1>5, <1>6, <2>1 DEF BoxOK
  <1>9. \A d \in Enrollments : Todo(d)' = Todo(d)
    BY <1>8 DEF Todo
  <1>10. DrainAt(e)' /\ HandAt(h)'
    BY <1>1, <1>2, <1>3, <1>5, <1>8, <1>9 DEF DrainAt, HandAt
  <1>11. \A j \in b.ack : hook[e][j].status # "none"
    BY <1>2, <1>3, <1>5, BoxFacts
  <1>12. OneMode => (\A j \in b.ack : TakenHere(e, j)) /\ TakenBy(h)'
    <2>1. TakenBy(h)'
      BY <1>8 DEF TakenBy, Free
    <2> QED
      BY <1>2, <1>3, <1>5, <2>1, BoxFacts DEF TakenBy
  <1>13. "pull" \in scene.modes
    BY <1>1 DEF Inv, PushOnly
  <1>14. \A j \in Ids : Here(e, j) => Here(e, j)'
    <2>1. \A d \in Enrollments, j \in Ids : Here(d, j) => Here(d, j)' \/ (Free.pc \in Busy /\ Free.at = d /\ Free.id = j)
      BY <1>1, <1>7, <1>9, FreeType, HandSaves
    <2> QED
      BY <2>1 DEF Free, Busy
  <1>15. "push" \in scene.modes \/ (b.up => b.mode = "pull")
    BY <1>5, BoxFacts
  <1> QED
    BY <1>6, <1>7, <1>10, <1>11, <1>12, <1>13, <1>14, <1>15, FreeType, BoxInv

LEMMA PullFailsInv ==
  ASSUME Inv, NEW e \in Enrollments, PullFails(e)
  PROVE  Inv'
  <1> USE DEF orb
  <1>1. BoxOK /\ box[e] \in Container /\ DrainAt(e) /\ box[e].drain = "asked"
    BY BoxFacts DEF PullFails
  <1>2. PICK b \in Container : b = [box[e] EXCEPT !.drain = "idle"]
    BY <1>1 DEF Container
  <1>3. b.ack = box[e].ack /\ b.todo = box[e].todo /\ b.drain = "idle" /\ b.up = box[e].up /\ b.mode = box[e].mode
    BY <1>1, <1>2 DEF Container
  <1>4. box' = [box EXCEPT ![e] = b] /\ UNCHANGED <<scene, orb, fwd, hook, jobs, hand, excuse, changes>> /\ \E kind : Fault(kind)
    BY <1>1, <1>2 DEF PullFails, BoxOK
  <1>5. box'[e] = b
    BY <1>1, <1>4 DEF BoxOK
  <1>6. Todo(e)' = Todo(e)
    BY <1>3, <1>5 DEF Todo
  <1>7. DrainAt(e)'
    BY <1>1, <1>3, <1>4, <1>5, <1>6 DEF DrainAt
  <1>8. "pull" \in scene.modes
    BY <1>1 DEF Inv, PushOnly
  <1>9. \A j \in Ids : Here(e, j) => Here(e, j)'
    BY <1>4, <1>6 DEF Here, AtWork
  <1>10. "push" \in scene.modes \/ (b.up => b.mode = "pull")
    BY <1>3, BoxFacts
  <1> QED
    BY <1>3, <1>4, <1>7, <1>8, <1>9, <1>10, BoxOnlyInv

LEMMA BootInv ==
  ASSUME Inv, NEW e \in Enrollments, NEW mode \in scene.modes, Boot(e, mode)
  PROVE  Inv'
  <1> USE DEF orb
  <1>1. BoxOK /\ box[e] \in Container /\ DrainAt(e)
    BY BoxFacts
  <1>2. scene.modes \subseteq {"push", "pull"}
    BY TypeParts, RelayAssumption DEF Inv, BoundsOK
  <1>3. PICK b \in Container : b = [Off(mode) EXCEPT !.up = TRUE]
    <2>1. <<>> \in Seq(Ids) /\ {} \in SUBSET Ids /\ mode \in {"push", "pull"}
      BY <1>2, EmptySeq
    <2> QED
      BY <2>1 DEF Container, Off
  <1>4. b.ack = {} /\ b.todo = <<>> /\ b.drain = "idle" /\ b.mode = mode
    BY <1>3 DEF Off
  <1>5. box' = [box EXCEPT ![e] = b] /\ UNCHANGED <<scene, orb, fwd, hook, jobs, hand, excuse, changes, faults>>
    BY <1>3 DEF Boot
  <1>6. box'[e] = b
    BY <1>1, <1>5 DEF BoxOK
  <1>7. Todo(e)' = {}
    BY <1>4, <1>6 DEF Todo
  <1>8. DrainAt(e)'
    BY <1>4, <1>6, <1>7 DEF DrainAt
  <1>9. ("pull" \in scene.modes \/ b.mode = "push") /\ ("push" \in scene.modes \/ b.mode = "pull")
    BY <1>2, <1>4
  <1>10. \A j \in Ids : Here(e, j) => Here(e, j)'
    BY <1>5, <1>7 DEF Here, AtWork
  <1> QED
    BY <1>4, <1>5, <1>8, <1>9, <1>10, BoxOnlyInv

LEMMA TakeUpInv ==
  ASSUME Inv, NEW e \in Enrollments, TakeUp(e)
  PROVE  Inv'
  <1> USE DEF orb
  <1> DEFINE h == <<"drain", e>>
  <1>1. /\ h \in Hands /\ DrainAt(e) /\ BoxOK /\ box[e] \in Container /\ HandOK
        /\ box[e].todo # <<>> /\ hand[h] = Free
    BY BoxFacts DEF TakeUp
  <1>2. PICK todo \in Seq(Ids) : box[e].todo = todo /\ todo # <<>>
    BY <1>1 DEF Container
  <1>3. PICK i \in Ids : i = Head(todo) /\ i = todo[1]
    BY <1>2
  <1>4. PICK rest \in Seq(Ids) : rest = Tail(todo)
    BY <1>2, HeadTailProperties
  <1>5. 1 \in DOMAIN todo /\ \A n \in DOMAIN rest : n + 1 \in DOMAIN todo /\ rest[n] = todo[n + 1] /\ n \in Nat \ {0}
    BY <1>2, <1>4
  <1>6. PICK r \in Handling : r = [pc |-> IF i \in Notices THEN "show" ELSE "check", at |-> e, id |-> i]
    <2>1. (IF i \in Notices THEN "show" ELSE "check") \in Busy \cup {"idle", "taken", "refused"}
      BY DEF Busy
    <2> QED
      BY <2>1 DEF Handling
  <1>7. r.at = e /\ r.id = i /\ r.pc \in Busy /\ r # Free /\ r.pc \in {"show", "check"} /\ (r.pc # "show" => i \in Events)
    BY <1>6 DEF Busy, Free, Ids
  <1>8. PICK b \in Container : b = [box[e] EXCEPT !.todo = rest]
    BY <1>1 DEF Container
  <1>9. b.ack = box[e].ack /\ b.todo = rest /\ b.drain = box[e].drain /\ b.up = box[e].up /\ b.mode = box[e].mode
    BY <1>1, <1>8 DEF Container
  <1>10. /\ box' = [box EXCEPT ![e] = b] /\ hand' = [hand EXCEPT ![h] = r]
         /\ UNCHANGED <<scene, orb, fwd, hook, jobs, excuse, changes, faults>>
    BY <1>1, <1>2, <1>3, <1>4, <1>6, <1>8 DEF TakeUp, BoxOK
  <1>11. hand'[h] = r /\ box'[e] = b /\ \A d \in Enrollments \ {e} : box'[d] = box[d]
    BY <1>1, <1>10 DEF BoxOK, HandOK
  <1>12. i \in Todo(e) /\ \A j \in Todo(e)' : j \in Todo(e) /\ j # i
    <2>1. i \in Todo(e)
      BY <1>2, <1>3, <1>5 DEF Todo
    <2>2. ASSUME NEW n \in DOMAIN rest PROVE rest[n] \in Todo(e) /\ rest[n] # i
      <3>1. n + 1 \in DOMAIN todo /\ rest[n] = todo[n + 1] /\ n + 1 # 1 /\ 1 \in DOMAIN todo
        BY <1>5
      <3>2. todo[n + 1] # todo[1]
        BY <1>1, <1>2, <3>1 DEF DrainAt
      <3> QED
        BY <1>2, <1>3, <3>1, <3>2 DEF Todo
    <2>3. Todo(e)' = {rest[n] : n \in DOMAIN rest}
      BY <1>9, <1>11 DEF Todo
    <2> QED
      BY <2>1, <2>2, <2>3
  <1>13. DrainAt(e)'
    <2>1. box'[e].drain # "asked"
      BY <1>1, <1>9, <1>11 DEF DrainAt
    <2>2. \A m, n \in DOMAIN rest : rest[m] = rest[n] => m = n
      <3> SUFFICES ASSUME NEW m \in DOMAIN rest, NEW n \in DOMAIN rest, rest[m] = rest[n] PROVE m = n
        OBVIOUS
      <3>1. m + 1 = n + 1
        BY <1>1, <1>2, <1>5 DEF DrainAt
      <3> QED
        BY <1>5, <3>1
    <2>3. \A j \in Todo(e)' : j \notin b.ack
      BY <1>1, <1>9, <1>12 DEF DrainAt
    <2>4. i \notin Todo(e)' /\ i \notin b.ack
      BY <1>1, <1>9, <1>12 DEF DrainAt
    <2> QED
      BY <1>7, <1>9, <1>11, <2>1, <2>2, <2>3, <2>4 DEF DrainAt
  <1>14. HandAt(h)'
    BY <1>7, <1>11, DrainIsHand DEF HandAt
  <1>15. \A j \in b.ack : hook[e][j].status # "none"
    BY <1>9, BoxFacts
  <1>16. OneMode => (\A j \in b.ack : TakenHere(e, j)) /\ TakenBy(h)'
    <2>1. TakenBy(h)'
      BY <1>7, <1>11 DEF TakenBy
    <2> QED
      BY <1>9, <2>1, BoxFacts
  <1>17. "pull" \in scene.modes
    BY <1>1 DEF Inv, PushOnly
  <1>18. \A j \in Ids : Here(e, j) => Here(e, j)'
    <2>1. \A d \in Enrollments : Todo(d)' \subseteq Todo(d)
      BY <1>11, <1>12 DEF Todo
    <2>2. \A d \in Enrollments, j \in Ids : Here(d, j) => Here(d, j)' \/ (r.pc \in Busy /\ r.at = d /\ r.id = j)
      BY <1>1, <1>10, <2>1, HandSaves
    <2>3. Here(e, i) => Here(e, i)'
      BY <1>10, <1>12 DEF Here, AtWork
    <2> QED
      BY <1>7, <2>2, <2>3
  <1>19. "push" \in scene.modes \/ (b.up => b.mode = "pull")
    BY <1>9, BoxFacts
  <1> QED
    BY <1>10, <1>13, <1>14, <1>15, <1>16, <1>17, <1>18, <1>19, BoxInv

\* A batch has no id twice.
LEMMA BatchDistinct ==
  ASSUME PendingOK, NEW S \in SUBSET DOMAIN pending, NEW k \in Nat, NEW rows \in [1 .. k -> S], IsBatch(rows, S)
  PROVE  \A m, n \in 1 .. k : rows[m] = rows[n] => m = n
  <1>1. \A i \in DOMAIN pending : ~Older(i, i)
    <2> SUFFICES ASSUME NEW i \in DOMAIN pending PROVE ~Older(i, i)
      OBVIOUS
    <2>1. i \in Nat /\ pending[i].age \in Int
      BY RelayAssumption DEF PendingOK, Pending
    <2> QED
      BY <2>1 DEF Older
  <1>2. ASSUME NEW m \in 1 .. k, NEW n \in 1 .. k, m < n PROVE rows[m] # rows[n]
    <2>1. {i \in S : Older(i, rows[n])} = {rows[l] : l \in 1 .. n - 1}
      BY DEF IsBatch
    <2>2. m \in 1 .. n - 1
      BY <1>2
    <2>3. Older(rows[m], rows[n])
      BY <2>1, <2>2
    <2> QED
      BY <1>1, <2>3
  <1> QED
    BY <1>2

LEMMA PullBatchInv ==
  ASSUME Inv, NEW e \in Enrollments, PullBatch(e)
  PROVE  Inv'
  <1> USE DEF orb
  <1> DEFINE own == {i \in DOMAIN pending : Own(e, pending[i])}
  <1>1. BoxOK /\ box[e] \in Container /\ DrainAt(e) /\ box[e].drain = "asked" /\ hand[<<"drain", e>>] = Free /\ PendingOK
    BY BoxFacts, TypeParts DEF PullBatch, DrainAt, Inv
  <1>size. PICK n \in 0 .. Batch : \E rows \in [1 .. n -> own] :
          IsBatch(rows, own) /\ box' = [box EXCEPT ![e].drain = "idle", ![e].ack = {}, ![e].todo = rows]
    BY DEF PullBatch
  <1>2. PICK rows \in [1 .. n -> own] :
          IsBatch(rows, own) /\ box' = [box EXCEPT ![e].drain = "idle", ![e].ack = {}, ![e].todo = rows]
    BY <1>size
  <1>3. n \in Nat /\ own \subseteq DOMAIN pending /\ own \subseteq Ids
    BY <1>1, RelayAssumption DEF PendingOK
  <1>4. \A l, m \in 1 .. n : rows[l] = rows[m] => l = m
    BY <1>1, <1>2, <1>3, BatchDistinct
  <1> HIDE DEF own
  <1>5. rows \in Seq(Ids) /\ DOMAIN rows = 1 .. n /\ \A m \in 1 .. n : rows[m] \in own
    BY <1>3
  <1>6. PICK b \in Container : b = [box[e] EXCEPT !.drain = "idle", !.ack = {}, !.todo = rows]
    BY <1>1, <1>5 DEF Container
  <1>7. b.ack = {} /\ b.todo = rows /\ b.drain = "idle" /\ b.up = box[e].up /\ b.mode = box[e].mode
    BY <1>1, <1>6 DEF Container
  <1>8. box' = [box EXCEPT ![e] = b] /\ UNCHANGED <<scene, orb, fwd, hook, jobs, hand, excuse, changes, faults>>
    BY <1>1, <1>2, <1>6 DEF PullBatch, BoxOK
  <1>9. box'[e] = b
    BY <1>1, <1>8 DEF BoxOK
  <1>10. Todo(e)' = {rows[m] : m \in 1 .. n}
    BY <1>5, <1>7, <1>9 DEF Todo
  <1>11. DrainAt(e)'
    BY <1>1, <1>4, <1>5, <1>7, <1>8, <1>9 DEF DrainAt
  <1>12. "pull" \in scene.modes
    BY <1>1 DEF Inv, PushOnly
  <1>13. \A j \in Ids : Here(e, j) => Here(e, j)' \/ j \in DOMAIN pending
    <2>1. \A j \in Todo(e)' : j \in DOMAIN pending
      BY <1>3, <1>5, <1>10
    <2> QED
      BY <1>8, <2>1 DEF Here, AtWork
  <1>14. "push" \in scene.modes \/ (b.up => b.mode = "pull")
    BY <1>7, BoxFacts
  <1> QED
    BY <1>7, <1>8, <1>11, <1>12, <1>13, <1>14, BoxOnlyInv

LEMMA CrashInv ==
  ASSUME Inv, NEW e \in Enrollments, Crash(e)
  PROVE  Inv'
  <1> USE DEF orb
  <1>1. BoxOK /\ HandOK /\ box[e] \in Container
    BY BoxFacts
  <1>2. PICK b \in Container : b = Off(box[e].mode)
    <2>1. <<>> \in Seq(Ids) /\ {} \in SUBSET Ids /\ box[e].mode \in {"push", "pull"}
      BY <1>1, EmptySeq DEF Container
    <2> QED
      BY <2>1 DEF Container, Off
  <1>3. b.ack = {} /\ b.todo = <<>> /\ b.drain = "idle" /\ ~b.up
    BY <1>2 DEF Off
  <1>4. /\ box' = [box EXCEPT ![e] = b] /\ hand' = [h \in Hands |-> IF hand[h].at = e THEN Free ELSE hand[h]]
        /\ UNCHANGED <<scene, recorded, enr, ranking, pending, failures, fwd, hook, jobs, excuse, changes>>
        /\ \E kind : Fault(kind)
    BY <1>1, <1>2 DEF Crash, HandOK
  <1>5. BoxOK' /\ box'[e] = b /\ \A d \in Enrollments \ {e} : box'[d] = box[d]
    BY <1>1, <1>4 DEF BoxOK
  <1>6. HandOK' /\ \A h \in Hands : hand'[h] = Free \/ hand'[h] = hand[h]
    BY <1>1, <1>4, FreeType DEF HandOK
  <1>7. TypeOK'
    BY <1>4, <1>5, <1>6, BoundsType, TypeParts, TypePartsNext
       DEF Inv, IngressOK, EnrolOK, PendingOK, FailuresOK, FwdOK, HookOK, JobsOK, ExcuseOK
  <1>8. Placed'
    <2> SUFFICES ASSUME NEW h \in Hands PROVE HandAt(h)'
      BY DEF Placed
    <2> QED
      BY <1>4, <1>6 DEF Inv, Placed, HandAt
  <1>9. Seen' /\ Rows'
    BY <1>3, <1>4, <1>5 DEF Inv, Seen, Rows, RowAt
  <1>10. Forwards' /\ \A i \in Ids : Pursued(i) => Pursued(i)'
    BY <1>4, BoxFrame
  <1>11. Posted'
    <2> SUFFICES ASSUME NEW i \in Events PROVE PostedAt(i)'
      BY DEF Posted
    <2> QED
      BY <1>4, <1>6, PostIsHand DEF Inv, Posted, PostedAt
  <1>12. \A d \in Enrollments : Todo(d)' \subseteq Todo(d)
    BY <1>3, <1>5 DEF Todo
  <1>13. Drained'
    <2> SUFFICES ASSUME NEW d \in Enrollments PROVE DrainAt(d)'
      BY DEF Drained
    <2>1. DrainAt(d) /\ <<"drain", d>> \in Hands
      BY DrainIsHand DEF Inv, Drained
    <2>2. CASE d = e
      <3>1. Todo(d)' = {}
        BY <1>3, <1>5, <2>2 DEF Todo
      <3> QED
        BY <1>3, <1>5, <2>2, <3>1 DEF DrainAt
    <2>3. CASE d # e
      BY <1>5, <1>6, <1>12, <2>1, <2>3 DEF DrainAt
    <2> QED
      BY <2>2, <2>3
  <1>14. PullOnly' /\ PushOnly'
    BY <1>3, <1>4, <1>5, <1>6, PostIsHand, DrainIsHand DEF Inv, PullOnly, PushOnly
  <1>15. Acked'
    <2> SUFFICES ASSUME OneMode
                 PROVE  (\A d \in Enrollments : \A i \in box'[d].ack : TakenHere(d, i)') /\ \A g \in Hands : TakenBy(g)'
      BY <1>4 DEF Acked, OneMode
    <2>1. \A g \in Hands : TakenBy(g)'
      BY <1>4, <1>6 DEF Inv, Acked, TakenBy, TakenHere, Free
    <2>2. \A d \in Enrollments : \A i \in box'[d].ack : TakenHere(d, i)'
      BY <1>3, <1>4, <1>5 DEF Inv, Acked, TakenHere
    <2> QED
      BY <2>1, <2>2
  <1>16. \A d \in Enrollments, i \in Ids : Here(d, i) => Here(d, i)'
    <2>1. \A d \in Enrollments, i \in Ids : AtWork(d, i)' => AtWork(d, i)
      BY <1>6, <1>12 DEF AtWork, Free, Busy
    <2> QED
      BY <1>4, <2>1 DEF Here
  <1>17. Traced'
    <2>1. \A i \in Ids : Firm(i) => \E k \in Ids : StandsIn(k, i)' /\ Firm(k)'
      BY <1>4, <1>16 DEF Firm, StandsIn
    <2>2. \A i \in Ids : Saved(i) => Saved(i)'
      BY <1>4, <2>1, SavedStays
    <2> QED
      BY <1>4, <1>10, <2>2 DEF Inv, Traced, OneMode
  <1> QED
    BY <1>7, <1>8, <1>9, <1>10, <1>11, <1>13, <1>14, <1>15, <1>17 DEF Inv

\* Rows of the pending table are deleted.
LEMMA RowsGo ==
  ASSUME Inv, NEW S, pending' = Without(S), UNCHANGED recorded
  PROVE  /\ PendingOK' /\ Rows' /\ DOMAIN pending' = DOMAIN pending \ S
         /\ \A i \in DOMAIN pending : i \in DOMAIN pending' \/ i \in S
  <1>1. PendingOK
    BY TypeParts DEF Inv
  <1>2. DOMAIN pending' = DOMAIN pending \ S
    BY <1>1, WithoutType
  <1>3. PendingOK'
    <2>1. DOMAIN pending' \subseteq Ids /\ pending' \in [DOMAIN pending' -> Pending(DOMAIN pending')]
      BY <1>1, <1>2, WithoutType
    <2> QED
      BY <2>1 DEF PendingOK, Pending
  <1>4. Rows'
    <2> SUFFICES ASSUME NEW i \in DOMAIN pending' PROVE RowAt(i)'
      BY DEF Rows
    <2>1. i \in DOMAIN pending \ S /\ RowAt(i)
      BY <1>2 DEF Inv, Rows
    <2>2. \A j \in DOMAIN pending \ S : /\ Without(S)[j].key = pending[j].key /\ Without(S)[j].to = pending[j].to
                                        /\ Without(S)[j].age = pending[j].age
                                        /\ Without(S)[j].before = pending[j].before \ S
      BY <1>1, WithoutType
    <2>3. pending'[i].key = pending[i].key /\ pending'[i].before = pending[i].before \ S
      BY <2>1, <2>2
    <2> QED
      BY <2>1, <2>3 DEF RowAt, KeyOf
  <1> QED
    BY <1>2, <1>3, <1>4

LEMMA PullAckInv ==
  ASSUME Inv, NEW e \in Enrollments, PullAck(e)
  PROVE  Inv'
  <1> USE DEF orb
  <1> DEFINE acked == {i \in DOMAIN pending : Own(e, pending[i]) /\ i \in box[e].ack}
  <1>1. BoxOK /\ box[e] \in Container /\ DrainAt(e) /\ PendingOK /\ ExcuseOK
    BY BoxFacts, TypeParts DEF Inv
  <1>2. PICK b \in Container : b = [box[e] EXCEPT !.drain = "asked"]
    BY <1>1 DEF Container
  <1>3. b.ack = box[e].ack /\ b.todo = box[e].todo /\ b.drain = "asked" /\ b.up = box[e].up /\ b.mode = box[e].mode
    BY <1>1, <1>2 DEF Container
  <1>4. box' = [box EXCEPT ![e] = b] /\ UNCHANGED <<scene, recorded, enr, ranking, failures, fwd, hook, jobs, hand, changes, faults>>
    BY <1>1, <1>2 DEF PullAck, BoxOK
  <1>5. BoxOK' /\ box'[e] = b /\ \A d \in Enrollments \ {e} : box'[d] = box[d]
    BY <1>1, <1>4 DEF BoxOK
  <1>6. box[e].up /\ box[e].mode = "pull" /\ box[e].todo = <<>> /\ hand[<<"drain", e>>] = Free /\ Excuse(Dropped, "logged")
        /\ pending' = Without(Dropped \cup acked)
    BY DEF PullAck
  <1>7. "pull" \in scene.modes
    BY <1>6 DEF Inv, PushOnly
  <1>8. /\ PendingOK' /\ Rows'
        /\ \A i \in DOMAIN pending : i \in DOMAIN pending' \/ i \in Dropped \cup acked
    BY <1>4, <1>6, RowsGo
  <1>9. ExcuseOK' /\ \A i \in Ids : (i \in Dropped \/ excuse[i] # "none") => excuse'[i] # "none"
    BY <1>1, <1>6, ExcuseType DEF Trace
  <1>10. TypeOK'
    BY <1>4, <1>5, <1>8, <1>9, BoundsType, TypeParts, TypePartsNext
       DEF Inv, IngressOK, EnrolOK, FailuresOK, FwdOK, HookOK, JobsOK, HandOK
  <1>11. \A d \in Enrollments : Todo(d)' = Todo(d) /\ box'[d].ack = box[d].ack
    BY <1>3, <1>5 DEF Todo
  <1>12. Placed' /\ Seen' /\ Posted'
    BY <1>4, <1>11 DEF Inv, Placed, HandAt, Seen, Posted, PostedAt
  <1>13. Forwards' /\ \A i \in Ids : Pursued(i) => Pursued(i)'
    BY <1>4, BoxFrame
  <1>14. Drained'
    <2> SUFFICES ASSUME NEW d \in Enrollments PROVE DrainAt(d)'
      BY DEF Drained
    <2>1. DrainAt(d)
      BY DEF Inv, Drained
    <2> QED
      BY <1>3, <1>4, <1>5, <1>6, <1>11, <2>1 DEF DrainAt
  <1>15. PullOnly' /\ PushOnly'
    BY <1>3, <1>4, <1>5, <1>7 DEF Inv, PullOnly, PushOnly
  <1>16. Acked'
    <2> SUFFICES ASSUME OneMode
                 PROVE  (\A d \in Enrollments : \A i \in box'[d].ack : TakenHere(d, i)') /\ \A g \in Hands : TakenBy(g)'
      BY <1>4 DEF Acked, OneMode
    <2> QED
      BY <1>4, <1>11 DEF Inv, Acked, TakenBy, TakenHere
  <1>17. \A d \in Enrollments, i \in Ids : Here(d, i) => Here(d, i)'
    BY <1>4, <1>11 DEF Here, AtWork
  <1>18. ASSUME OneMode, NEW i \in acked PROVE Here(e, i)'
    <2>1. "push" \notin scene.modes
      BY <1>7, <1>18 DEF OneMode
    <2>2. ASSUME NEW h \in Hands, hand[h].at = e PROVE hand[h] = Free
      <3>1. CASE h \in Posts
        BY <2>1, <3>1 DEF Inv, PullOnly, Posts
      <3>2. CASE h \in Drains
        <4>1. hand[h] # Free => h = <<"drain", e>>
          BY <2>2, <3>2 DEF Inv, Placed, HandAt
        <4> QED
          BY <1>6, <4>1
      <3> QED
        BY <3>1, <3>2 DEF Hands
    <2>3. \A h \in Hands : hand[h].at = e => hand[h].pc \notin Busy
      BY <2>2 DEF Free, Busy
    <2>4. i \notin Todo(e)
      BY <1>6 DEF Todo
    <2>5. TakenHere(e, i)
      BY <1>18 DEF Inv, Acked
    <2> QED
      BY <1>4, <1>11, <2>3, <2>4, <2>5 DEF Here, AtWork, TakenHere
  <1>19. Traced'
    <2> SUFFICES ASSUME OneMode PROVE Traced'
      BY <1>4 DEF Traced, OneMode
    <2>1. \A i \in Ids : Firm(i) => Firm(i)'
      <3> SUFFICES ASSUME NEW i \in Ids, Firm(i) PROVE Firm(i)'
        OBVIOUS
      <3>1. CASE i \in DOMAIN pending
        BY <1>8, <1>9, <1>18, <3>1 DEF Firm
      <3>2. CASE excuse[i] # "none"
        BY <1>9, <3>2 DEF Firm
      <3>3. CASE \E d \in Enrollments : Here(d, i)
        BY <1>17, <3>3 DEF Firm
      <3> QED
        BY <3>1, <3>2, <3>3 DEF Firm
    <2>2. \A i \in Ids : Firm(i) => \E k \in Ids : StandsIn(k, i)' /\ Firm(k)'
      BY <2>1 DEF StandsIn
    <2>3. \A i \in Ids : Saved(i) => Saved(i)'
      BY <1>4, <2>2, SavedStays
    <2> QED
      BY <1>4, <1>13, <2>3 DEF Inv, Traced, OneMode
  <1> QED
    BY <1>8, <1>10, <1>12, <1>13, <1>14, <1>15, <1>16, <1>19 DEF Inv

\* What a container has recorded of an event changes, but stays recorded.
LEMMA HookFrame ==
  ASSUME Inv, UNCHANGED <<scene, box, jobs, hand>>,
         \A e \in Enrollments, i \in Ids :
            /\ hook[e][i].status # "none" => hook'[e][i].status # "none"
            /\ hook[e][i].status \in {"queued", "processed"} => hook'[e][i].status \in {"queued", "processed"}
  PROVE  /\ BoxOK' /\ JobsOK' /\ HandOK' /\ Placed' /\ Seen' /\ Drained' /\ Acked'
         /\ \A e \in Enrollments, i \in Ids : Here(e, i) => Here(e, i)'
  <1>1. BoxOK /\ HandOK /\ JobsOK
    BY TypeParts DEF Inv
  <1>2. BoxOK' /\ JobsOK' /\ HandOK'
    BY <1>1 DEF BoxOK, JobsOK, HandOK
  <1>3. Placed'
    <2> SUFFICES ASSUME NEW h \in Hands PROVE HandAt(h)'
      BY DEF Placed
    <2>1. HandAt(h)
      BY DEF Inv, Placed
    <2> QED
      BY <2>1 DEF HandAt
  <1>4. \A e \in Enrollments : box[e].ack \subseteq Ids
    BY <1>1 DEF BoxOK, Container
  <1>5. Seen'
    BY <1>4 DEF Inv, Seen
  <1>6. Drained'
    <2>1. \A e \in Enrollments : Todo(e)' = Todo(e)
      BY DEF Todo
    <2>2. ASSUME NEW e \in Enrollments, DrainAt(e) PROVE DrainAt(e)'
      BY <2>1, <2>2 DEF DrainAt
    <2> QED
      BY <2>2 DEF Inv, Drained
  <1>7. Acked'
    <2> SUFFICES ASSUME OneMode
                 PROVE  (\A d \in Enrollments : \A i \in box[d].ack : TakenHere(d, i)') /\ \A g \in Hands : TakenBy(g)'
      BY DEF Acked, OneMode
    <2>1. \A d \in Enrollments, i \in Ids : TakenHere(d, i) => TakenHere(d, i)'
      BY DEF TakenHere
    <2>2. \A d \in Enrollments : \A i \in box[d].ack : TakenHere(d, i)'
      BY <1>4, <2>1 DEF Inv, Acked
    <2>3. ASSUME NEW g \in Hands, hand[g].pc = "taken" PROVE TakenHere(hand[g].at, hand[g].id)'
      <3>1. hand[g] # Free
        BY <2>3 DEF Free
      <3>2. PICK d \in Enrollments, i \in Ids : d = hand[g].at /\ i = hand[g].id
        BY <3>1 DEF Inv, Placed, HandAt
      <3>3. TakenHere(d, i)
        BY <2>3, <3>2 DEF Inv, Acked, TakenBy
      <3>4. TakenHere(d, i)'
        BY <2>1, <3>3
      <3> QED
        BY <3>2, <3>4 DEF TakenHere
    <2> QED
      BY <2>2, <2>3 DEF TakenBy
  <1>8. \A e \in Enrollments, i \in Ids : Here(e, i) => Here(e, i)'
    BY DEF Here, AtWork, Todo
  <1> QED
    BY <1>2, <1>3, <1>5, <1>6, <1>7, <1>8

LEMMA ProcessInv ==
  ASSUME Inv, NEW e \in Enrollments, NEW i \in Events, Process(e, i)
  PROVE  Inv'
  <1> USE DEF orb
  <1>1. HookOK /\ i \in Ids
    BY TypeParts DEF Inv, Ids
  <1>old. hook[e][i] \in Recorded
    BY <1>1 DEF HookOK, Recorded
  <1>new. PICK row \in Recorded : row = [hook[e][i] EXCEPT !.status = "processed"]
    BY <1>old DEF Recorded
  <1>2. row = [hook[e][i] EXCEPT !.status = "processed"] /\ row.status = "processed"
    BY <1>old, <1>new DEF Recorded
  <1>3. hook' = [hook EXCEPT ![e][i] = row]
    BY <1>2 DEF Process
  <1>4. HookOK' /\ hook'[e][i] = row /\ \A d \in Enrollments, j \in Ids : ~(d = e /\ j = i) => hook'[d][j] = hook[d][j]
    BY <1>1, <1>3 DEF HookOK, Recorded
  <1>5. UNCHANGED <<scene, recorded, enr, ranking, pending, failures, fwd, box, jobs, hand, excuse, changes, faults>>
    BY DEF Process
  <1>6. \A d \in Enrollments, j \in Ids :
            /\ hook[d][j].status # "none" => hook'[d][j].status # "none"
            /\ hook[d][j].status \in {"queued", "processed"} => hook'[d][j].status \in {"queued", "processed"}
    BY <1>2, <1>4
  <1>7. /\ BoxOK' /\ JobsOK' /\ HandOK' /\ Placed' /\ Seen' /\ Drained' /\ Acked'
        /\ \A d \in Enrollments, j \in Ids : Here(d, j) => Here(d, j)'
    BY <1>5, <1>6, HookFrame
  <1>8. Forwards' /\ \A j \in Ids : Pursued(j) => Pursued(j)'
    BY <1>5, BoxFrame
  <1>9. TypeOK'
    BY <1>4, <1>5, <1>7, BoundsType, TypeParts, TypePartsNext
       DEF Inv, IngressOK, EnrolOK, PendingOK, FailuresOK, FwdOK, ExcuseOK
  <1>10. Rows' /\ Posted' /\ PullOnly' /\ PushOnly'
    BY <1>5 DEF Inv, Rows, RowAt, Posted, PostedAt, PullOnly, PushOnly
  <1>11. Traced'
    <2>1. \A j \in Ids : Firm(j) => \E k \in Ids : StandsIn(k, j)' /\ Firm(k)'
      BY <1>5, <1>7 DEF Firm, StandsIn
    <2>2. \A j \in Ids : Saved(j) => Saved(j)'
      BY <1>5, <2>1, SavedStays
    <2> QED
      BY <1>5, <1>8, <2>2 DEF Inv, Traced, OneMode
  <1> QED
    BY <1>7, <1>8, <1>9, <1>10, <1>11 DEF Inv

LEMMA TickInv ==
  ASSUME Inv, Tick
  PROVE  Inv'
  <1> USE DEF orb
  <1>1. /\ HookOK /\ PendingOK /\ FailuresOK /\ FwdOK
        /\ UNCHANGED <<scene, recorded, enr, ranking, fwd, box, jobs, hand, excuse, changes, faults>>
        /\ \A i \in Ids : fwd[i] = Resting
    BY TypeParts DEF Inv, Tick
  <1>2. PendingOK' /\ DOMAIN pending' = DOMAIN pending
        /\ \A i \in DOMAIN pending : pending'[i].key = pending[i].key /\ pending'[i].before = pending[i].before
    <2>1. \A i \in DOMAIN pending : pending[i] \in Pending(DOMAIN pending)
      BY <1>1 DEF PendingOK
    <2>2. PendingTTL \in Nat
      BY RelayAssumption
    <2> DEFINE row(i) == [pending[i] EXCEPT !.age = IF @ > PendingTTL THEN @ ELSE @ + 1]
    <2>3. ASSUME NEW i \in DOMAIN pending
          PROVE  row(i) \in Pending(DOMAIN pending) /\ row(i).key = pending[i].key /\ row(i).before = pending[i].before
      <3>1. pending[i].age \in 0 .. PendingTTL + 1
        BY <2>1 DEF Pending
      <3>2. (IF pending[i].age > PendingTTL THEN pending[i].age ELSE pending[i].age + 1) \in 0 .. PendingTTL + 1
        BY <2>2, <3>1
      <3> QED
        BY <2>1, <3>2 DEF Pending
    <2>4. pending' = [i \in DOMAIN pending |-> row(i)]
      BY DEF Tick
    <2> HIDE DEF row
    <2>5. DOMAIN pending' = DOMAIN pending /\ \A i \in DOMAIN pending : pending'[i] = row(i)
      BY <2>4
    <2>6. pending' \in [DOMAIN pending -> Pending(DOMAIN pending)]
      BY <2>3, <2>4
    <2>7. PendingOK'
      BY <1>1, <2>5, <2>6 DEF PendingOK, Pending
    <2> QED
      BY <2>3, <2>5, <2>7
  <1>3. FailuresOK' /\ DOMAIN failures' = DOMAIN failures
    <2>1. \A i \in DOMAIN failures : failures[i] \in Failure
      BY <1>1 DEF FailuresOK
    <2>2. FailureTTL \in Nat
      BY RelayAssumption
    <2> DEFINE row(i) == [failures[i] EXCEPT !.age = IF @ > FailureTTL THEN @ ELSE @ + 1, !.hot = FALSE]
    <2>3. ASSUME NEW i \in DOMAIN failures PROVE row(i) \in Failure
      <3>1. failures[i].age \in 0 .. FailureTTL + 1
        BY <2>1 DEF Failure
      <3>2. (IF failures[i].age > FailureTTL THEN failures[i].age ELSE failures[i].age + 1) \in 0 .. FailureTTL + 1
        BY <2>2, <3>1
      <3> QED
        BY <2>1, <3>2 DEF Failure
    <2>4. failures' = [i \in DOMAIN failures |-> row(i)]
      BY DEF Tick
    <2> HIDE DEF row
    <2>5. DOMAIN failures' = DOMAIN failures
      BY <2>4
    <2>6. failures' \in [DOMAIN failures -> Failure]
      BY <2>3, <2>4
    <2> QED
      BY <1>1, <2>5, <2>6 DEF FailuresOK
  <1>4. HookOK' /\ \A e \in Enrollments, i \in Ids : hook'[e][i].status = hook[e][i].status
    <2> DEFINE row(e, i) == [hook[e][i] EXCEPT !.old = hook[e][i].status \in {"queued", "error"}]
    <2>1. \A e \in Enrollments, i \in Ids : hook[e][i] \in Recorded
      BY <1>1 DEF HookOK, Recorded
    <2>2. ASSUME NEW e \in Enrollments, NEW i \in Ids PROVE row(e, i) \in Recorded /\ row(e, i).status = hook[e][i].status
      <3> DEFINE old == hook[e][i].status \in {"queued", "error"}
      <3>1. old \in BOOLEAN
        OBVIOUS
      <3>2. row(e, i) = [hook[e][i] EXCEPT !.old = old]
        OBVIOUS
      <3> HIDE DEF old, row
      <3> QED
        BY <2>1, <3>1, <3>2 DEF Recorded
    <2>3. hook' = [e \in Enrollments |-> [i \in Ids |-> row(e, i)]]
      BY DEF Tick
    <2> HIDE DEF row
    <2>4. hook' \in [Enrollments -> [Ids -> Recorded]]
      BY <2>2, <2>3
    <2> QED
      BY <2>2, <2>3, <2>4 DEF HookOK, Recorded
  <1>5. /\ BoxOK' /\ JobsOK' /\ HandOK' /\ Placed' /\ Seen' /\ Drained' /\ Acked'
        /\ \A e \in Enrollments, i \in Ids : Here(e, i) => Here(e, i)'
    BY <1>1, <1>4, HookFrame
  <1>6. TypeOK'
    BY <1>1, <1>2, <1>3, <1>4, <1>5, BoundsType, TypeParts, TypePartsNext
       DEF Inv, IngressOK, EnrolOK, FwdOK, ExcuseOK
  <1>7. Forwards'
    <2> SUFFICES ASSUME NEW i \in Ids PROVE ForwardAt(i)'
      BY DEF Forwards
    <2>1. ForwardAt(i) /\ fwd[i] = Resting
      BY <1>1 DEF Inv, Forwards
    <2> QED
      BY <1>1, <1>3, <2>1 DEF ForwardAt, Resting
  <1>8. Rows'
    <2> SUFFICES ASSUME NEW i \in DOMAIN pending PROVE RowAt(i)'
      BY <1>2 DEF Rows
    <2> QED
      BY <1>1, <1>2 DEF Inv, Rows, RowAt, KeyOf
  <1>9. Posted' /\ PullOnly' /\ PushOnly'
    BY <1>1 DEF Inv, Posted, PostedAt, PullOnly, PushOnly
  <1>10. Traced'
    <2>1. \A j \in Ids : Firm(j) => \E k \in Ids : StandsIn(k, j)' /\ Firm(k)'
      BY <1>1, <1>2, <1>5 DEF Firm, StandsIn
    <2>2. \A j \in Ids : Saved(j) => Saved(j)'
      BY <1>1, <2>1, SavedStays
    <2>3. \A j \in Ids : Pursued(j) => Pursued(j)'
      BY <1>1, <1>3 DEF Pursued
    <2> QED
      BY <1>1, <2>2, <2>3 DEF Inv, Traced, OneMode
  <1> QED
    BY <1>5, <1>6, <1>7, <1>8, <1>9, <1>10 DEF Inv

-----------------------------------------------------------------------------
(* Enrolment                                                               *)

\* A step that changes the enrolments, and of the containers only whether they are registered.
LEMMA EnrolInv ==
  ASSUME Inv, EnrolOK', BoxOK',
         UNCHANGED <<scene, recorded, pending, failures, fwd, hook, jobs, hand, excuse, faults>>, Change \/ UNCHANGED changes,
         \A e \in Enrollments : /\ box'[e].up = box[e].up /\ box'[e].mode = box[e].mode /\ box'[e].ack = box[e].ack
                                /\ box'[e].drain = box[e].drain /\ box'[e].todo = box[e].todo,
         "push" \notin scene.modes => \A e \in Enrollments : enr'[e].mode = "push" => ~enr'[e].url,
         "pull" \notin scene.modes => \A e \in Enrollments : enr'[e].mode = "push"
  PROVE  Inv'
  <1>1. UNCHANGED <<scene, recorded, pending, failures, fwd, hook, jobs, hand, excuse, faults>>
    OBVIOUS
  <1>2. TypeOK'
    BY BoundsType, TypeParts, TypePartsNext
       DEF Inv, IngressOK, PendingOK, FailuresOK, FwdOK, HookOK, JobsOK, HandOK, ExcuseOK
  <1>3. Placed' /\ Seen' /\ Rows' /\ Posted'
    BY DEF Inv, Placed, HandAt, Seen, Rows, RowAt, Posted, PostedAt
  <1>4. Forwards' /\ \A i \in Ids : Pursued(i) => Pursued(i)'
    BY BoxFrame
  <1>5. \A e \in Enrollments : Todo(e)' = Todo(e)
    BY DEF Todo
  <1>6. Drained'
    <2> SUFFICES ASSUME NEW e \in Enrollments PROVE DrainAt(e)'
      BY DEF Drained
    <2>1. DrainAt(e)
      BY DEF Inv, Drained
    <2> QED
      BY <1>5, <2>1 DEF DrainAt
  <1>7. PullOnly' /\ PushOnly'
    BY DEF Inv, PullOnly, PushOnly
  <1>8. Acked'
    <2> SUFFICES ASSUME OneMode
                 PROVE  (\A d \in Enrollments : \A i \in box'[d].ack : TakenHere(d, i)') /\ \A g \in Hands : TakenBy(g)'
      BY DEF Acked, OneMode
    <2> QED
      BY DEF Inv, Acked, TakenBy, TakenHere
  <1>9. Traced'
    <2>1. \A e \in Enrollments, i \in Ids : Here(e, i) => Here(e, i)'
      BY <1>5 DEF Here, AtWork
    <2>2. \A j \in Ids : Firm(j) => \E k \in Ids : StandsIn(k, j)' /\ Firm(k)'
      BY <2>1 DEF Firm, StandsIn
    <2>3. \A j \in Ids : Saved(j) => Saved(j)'
      BY <2>2, SavedStays
    <2> QED
      BY <1>4, <2>3 DEF Inv, Traced, OneMode
  <1> QED
    BY <1>2, <1>3, <1>4, <1>6, <1>7, <1>8, <1>9 DEF Inv

\* An enrolment is put into the ranking, or moved to its front.
LEMMA RankingType ==
  ASSUME NEW s \in Seq(Enrollments), NEW e \in Enrollments, NEW m \in Nat, NEW n \in Nat, m <= Len(s)
  PROVE  /\ SubSeq(s, 1, m) \in Seq(Enrollments) /\ SubSeq(s, n + 1, Len(s)) \in Seq(Enrollments)
         /\ SubSeq(s, 1, m) \o <<e>> \o SubSeq(s, n + 1, Len(s)) \in Seq(Enrollments)
         /\ <<e>> \o SubSeq(s, 1, m) \o SubSeq(s, n + 1, Len(s)) \in Seq(Enrollments)
  <1>1. SubSeq(s, 1, m) \in Seq(Enrollments) /\ SubSeq(s, n + 1, Len(s)) \in Seq(Enrollments) /\ <<e>> \in Seq(Enrollments)
    BY SubSeqProperties
  <1> QED
    BY <1>1, ConcatProperties

LEMMA issueOrbEnrollmentInv ==
  ASSUME Inv, NEW e \in Enrollments, issueOrbEnrollment(e)
  PROVE  Inv'
  <1>1. EnrolOK /\ BoxOK /\ UNCHANGED <<scene, recorded, pending, failures, fwd, box, hook, jobs, hand, excuse, faults>> /\ Change
    BY TypeParts DEF Inv, issueOrbEnrollment, self
  <1>2. PICK r \in Enrolled : r = [state |-> "enrolled", mode |-> "push", url |-> FALSE]
    BY DEF Enrolled
  <1>3. enr' = [enr EXCEPT ![e] = r] /\ r.mode = "push" /\ ~r.url
    BY <1>2 DEF issueOrbEnrollment
  <1>4. ranking' \in Seq(Enrollments)
    <2>1. PICK n \in 0 .. Len(ranking) : ranking' = SubSeq(ranking, 1, n) \o <<e>> \o SubSeq(ranking, n + 1, Len(ranking))
      BY DEF issueOrbEnrollment
    <2>2. ranking \in Seq(Enrollments) /\ n \in Nat /\ n <= Len(ranking)
      BY <1>1 DEF EnrolOK
    <2> QED
      BY <2>1, <2>2, RankingType
  <1>5. EnrolOK' /\ enr'[e] = r /\ \A d \in Enrollments \ {e} : enr'[d] = enr[d]
    BY <1>1, <1>3, <1>4 DEF EnrolOK
  <1>6. "push" \notin scene.modes => \A d \in Enrollments : enr'[d].mode = "push" => ~enr'[d].url
    BY <1>3, <1>5 DEF Inv, PullOnly
  <1>7. "pull" \notin scene.modes => \A d \in Enrollments : enr'[d].mode = "push"
    BY <1>3, <1>5 DEF Inv, PushOnly
  <1>8. BoxOK'
    BY <1>1 DEF BoxOK
  <1> QED
    BY <1>1, <1>5, <1>6, <1>7, <1>8, EnrolInv

LEMMA revokeEnrollmentsInv ==
  ASSUME Inv, NEW S, revokeEnrollments(S)
  PROVE  Inv'
  <1>1. EnrolOK /\ BoxOK /\ UNCHANGED <<scene, recorded, ranking, pending, failures, fwd, box, hook, jobs, hand, excuse, faults>> /\ Change
    BY TypeParts DEF Inv, revokeEnrollments, self
  <1>2. \A e \in Enrollments : enr[e] \in Enrolled
    BY <1>1 DEF EnrolOK
  <1> DEFINE r(e) == IF e \in S /\ enr[e].state = "enrolled" THEN [enr[e] EXCEPT !.state = "revoked"] ELSE enr[e]
  <1>3. \A e \in Enrollments : r(e) \in Enrolled /\ r(e).mode = enr[e].mode /\ r(e).url = enr[e].url
    BY <1>2 DEF Enrolled
  <1>4. enr' = [e \in Enrollments |-> r(e)]
    BY DEF revokeEnrollments
  <1> HIDE DEF r
  <1>5. EnrolOK'
    BY <1>1, <1>3, <1>4 DEF EnrolOK
  <1>6. \A e \in Enrollments : enr'[e].mode = enr[e].mode /\ enr'[e].url = enr[e].url
    BY <1>3, <1>4
  <1>7. BoxOK'
    BY <1>1 DEF BoxOK
  <1>8. "push" \notin scene.modes => \A d \in Enrollments : enr'[d].mode = "push" => ~enr'[d].url
    BY <1>6 DEF Inv, PullOnly
  <1>9. "pull" \notin scene.modes => \A d \in Enrollments : enr'[d].mode = "push"
    BY <1>6 DEF Inv, PushOnly
  <1> QED
    BY <1>1, <1>5, <1>7, <1>8, <1>9, EnrolInv

LEMMA RegisterInv ==
  ASSUME Inv, NEW e \in Enrollments, Register(e)
  PROVE  Inv'
  <1>1. EnrolOK /\ BoxOK /\ box[e] \in Container /\ box[e].up
        /\ UNCHANGED <<scene, recorded, pending, failures, fwd, hook, jobs, hand, excuse, changes, faults>>
    BY TypeParts, BoxFacts DEF Inv, Register
  <1>2. PICK b \in Container : b = [box[e] EXCEPT !.registered = TRUE]
    BY <1>1 DEF Container
  <1>3. b.up = box[e].up /\ b.mode = box[e].mode /\ b.ack = box[e].ack /\ b.drain = box[e].drain /\ b.todo = box[e].todo
    BY <1>1, <1>2 DEF Container
  <1>4. box' = [box EXCEPT ![e] = b]
    BY <1>1, <1>2 DEF Register, BoxOK
  <1>5. BoxOK' /\ \A d \in Enrollments : /\ box'[d].up = box[d].up /\ box'[d].mode = box[d].mode /\ box'[d].ack = box[d].ack
                                         /\ box'[d].drain = box[d].drain /\ box'[d].todo = box[d].todo
    BY <1>1, <1>3, <1>4 DEF BoxOK
  <1>6. enr[e] \in Enrolled
    BY <1>1 DEF EnrolOK
  <1>7. PICK r \in Enrolled : r = [enr[e] EXCEPT !.mode = box[e].mode, !.url = @ \/ box[e].mode = "push"]
    <2> DEFINE url == enr[e].url \/ box[e].mode = "push"
    <2>1. url \in BOOLEAN /\ box[e].mode \in {"push", "pull"}
      BY <1>1 DEF Container
    <2>2. [enr[e] EXCEPT !.mode = box[e].mode, !.url = @ \/ box[e].mode = "push"] = [enr[e] EXCEPT !.mode = box[e].mode, !.url = url]
      OBVIOUS
    <2> HIDE DEF url
    <2>3. [enr[e] EXCEPT !.mode = box[e].mode, !.url = url] \in Enrolled
      BY <1>6, <2>1 DEF Enrolled
    <2> QED
      BY <2>2, <2>3
  <1>8. r.mode = box[e].mode
    BY <1>6, <1>7 DEF Enrolled
  <1>9. enr' = [enr EXCEPT ![e] = r]
    BY <1>1, <1>7 DEF Register, EnrolOK
  <1>10. ranking' \in Seq(Enrollments)
    <2>1. PICK n \in DOMAIN ranking : ranking' = <<e>> \o SubSeq(ranking, 1, n - 1) \o SubSeq(ranking, n + 1, Len(ranking))
      BY DEF Register
    <2>2. ranking \in Seq(Enrollments) /\ n \in Nat /\ n - 1 \in Nat /\ n - 1 <= Len(ranking)
      BY <1>1 DEF EnrolOK
    <2> QED
      BY <2>1, <2>2, RankingType
  <1>11. EnrolOK' /\ enr'[e] = r /\ \A d \in Enrollments \ {e} : enr'[d] = enr[d]
    BY <1>1, <1>9, <1>10 DEF EnrolOK
  <1>12. "push" \notin scene.modes => \A d \in Enrollments : enr'[d].mode = "push" => ~enr'[d].url
    BY <1>1, <1>8, <1>11 DEF Inv, PullOnly
  <1>13. "pull" \notin scene.modes => \A d \in Enrollments : enr'[d].mode = "push"
    BY <1>1, <1>8, <1>11 DEF Inv, PushOnly
  <1> QED
    BY <1>1, <1>5, <1>11, <1>12, <1>13, EnrolInv

-----------------------------------------------------------------------------
(* The Orb: ingress, the tables and the end of a forward                   *)

\* A delivery is recorded, and its forward started unless a side effect failed.
LEMMA StartInv ==
  ASSUME Inv, NEW i \in Ids, NEW rec \in {"received", "error"}, NEW f \in Forwarding,
         recorded[i] # "received", recorded' = [recorded EXCEPT ![i] = rec], fwd' = [fwd EXCEPT ![i] = f],
         f.out = "none", ~f.retry,
         rec = "error" => f = Resting,
         rec = "received" => f.pc = (IF i \in Notices THEN "insert" ELSE "read"),
         UNCHANGED <<scene, enr, ranking, pending, failures, self, excuse, changes>>, (\E kind : Fault(kind)) \/ UNCHANGED faults
  PROVE  Inv'
  <1>1. IngressOK /\ FwdOK
    BY TypeParts DEF Inv
  <1>2. recorded'[i] = rec /\ \A j \in Ids \ {i} : recorded'[j] = recorded[j]
    BY <1>1 DEF IngressOK
  <1>3. fwd'[i] = f /\ \A j \in Ids \ {i} : fwd'[j] = fwd[j] /\ ForwardAt(j)' /\ (Pursued(j) => Pursued(j)')
    BY <1>2, OthersForwarded
  <1>4. i \notin DOMAIN failures /\ i \notin DOMAIN pending
    BY DEF Inv, Forwards, ForwardAt, Rows, RowAt
  <1>5. TypeOK'
    <2>1. IngressOK'
      BY <1>1 DEF IngressOK
    <2> QED
      BY <1>1, <2>1, BoundsType, FwdType, OrbFrame, TypeParts, TypePartsNext
         DEF Inv, EnrolOK, PendingOK, FailuresOK, ExcuseOK
  <1>6. Forwards'
    <2>1. ForwardAt(i)'
      <3>1. CASE rec = "error"
        <4>1. f = Resting /\ f.pc = "idle"
          BY <3>1 DEF Resting
        <4> QED
          BY <1>2, <1>3, <1>4, <4>1 DEF ForwardAt
      <3>2. CASE rec = "received"
        BY <1>2, <1>3, <1>4, <3>2 DEF ForwardAt
      <3> QED
        BY <3>1, <3>2
    <2> QED
      BY <1>3, <2>1 DEF Forwards
  <1>7. Rows'
    <2>1. PendingOK
      BY TypeParts DEF Inv
    <2> SUFFICES ASSUME NEW j \in DOMAIN pending PROVE RowAt(j)'
      BY DEF Rows
    <2> QED
      BY <1>2, <1>4, <2>1 DEF Inv, Rows, RowAt, PendingOK
  <1>8. Posted'
    <2> SUFFICES ASSUME NEW j \in Events PROVE PostedAt(j)'
      BY DEF Posted
    <2>1. PostedAt(j) /\ j \in Ids /\ hand' = hand
      BY DEF Inv, Posted, Ids, self
    <2> QED
      BY <1>2, <1>3, <2>1 DEF PostedAt
  <1>9. PullOnly' /\ PushOnly'
    <2>1. f.pc \notin {"post", "wait"} /\ (i \in Events => f.pc \notin {"insert", "coalesce", "cap"})
      BY RelayAssumption DEF Resting
    <2>2. box' = box /\ hand' = hand
      BY DEF self
    <2> QED
      BY <1>3, <2>1, <2>2 DEF Inv, PullOnly, PushOnly, Ids
  <1>10. Traced'
    <2>1. \A j \in Ids : Saved(j) => Saved(j)'
      BY <1>2, OrbSaves
    <2>2. rec = "received" => Pursued(i)' /\ fwd'[i].pc \notin {"coalesce", "cap"}
      BY <1>3 DEF Pursued, Resting
    <2> QED
      BY <1>2, <1>3, <2>1, <2>2 DEF Inv, Traced, OneMode
  <1> QED
    BY <1>5, <1>6, <1>7, <1>8, <1>9, <1>10, OrbFrame DEF Inv

LEMMA handleOrbWebhookInv ==
  ASSUME Inv, NEW i \in Events, handleOrbWebhook(i)
  PROVE  Inv'
  <1>1. i \in Ids /\ i \notin Notices /\ FwdOK /\ ForwardAt(i) /\ recorded[i] # "received"
    BY TypeParts, RelayAssumption DEF Inv, Forwards, Ids, handleOrbWebhook
  <1>2. UNCHANGED <<scene, enr, ranking, pending, failures, self, excuse, changes>>
    BY DEF handleOrbWebhook
  <1>3. CASE /\ recorded' = [recorded EXCEPT ![i] = "received"]
             /\ fwd' = [fwd EXCEPT ![i] = [Resting EXCEPT !.pc = "read"]] /\ UNCHANGED faults
    <2>1. PICK f \in Forwarding : f = [Resting EXCEPT !.pc = "read"]
      BY DEF Resting, Forwarding, Outcomes
    <2>2. f.pc = "read" /\ f.out = "none" /\ ~f.retry
      BY <2>1 DEF Resting
    <2> QED
      BY <1>1, <1>2, <1>3, <2>1, <2>2, StartInv
  <1>4. CASE recorded' = [recorded EXCEPT ![i] = "error"] /\ Fault("orb") /\ UNCHANGED fwd
    <2>1. fwd[i] = Resting
      BY <1>1 DEF ForwardAt
    <2>2. fwd' = [fwd EXCEPT ![i] = Resting]
      BY <1>1, <1>4, <2>1 DEF FwdOK
    <2> QED
      BY <1>1, <1>2, <1>4, <2>2, RestingType, StartInv DEF Resting
  <1> QED
    BY <1>3, <1>4 DEF handleOrbWebhook

LEMMA pushFleetConfigInv ==
  ASSUME Inv, NEW i \in Notices, pushFleetConfig(i)
  PROVE  Inv'
  <1>1. i \in Ids /\ recorded[i] # "received"
    BY DEF Ids, pushFleetConfig
  <1>2. PICK f \in Forwarding : f = [Resting EXCEPT !.pc = "insert"]
    BY DEF Resting, Forwarding, Outcomes
  <1>3. f.pc = "insert" /\ f.out = "none" /\ ~f.retry
    BY <1>2 DEF Resting
  <1>4. /\ recorded' = [recorded EXCEPT ![i] = "received"] /\ fwd' = [fwd EXCEPT ![i] = f]
        /\ UNCHANGED <<scene, enr, ranking, pending, failures, self, excuse, changes, faults>>
    BY <1>2 DEF pushFleetConfig
  <1> QED
    BY <1>1, <1>3, <1>4, StartInv

\* A statement of the pull branch: the row of the forward's event is in the table, and what goes leaves a trace or its place
\* to another.
LEMMA TableInv ==
  ASSUME Inv, NEW i \in Ids, NEW f \in Forwarding, fwd' = [fwd EXCEPT ![i] = f],
         fwd[i].pc \in {"insert", "coalesce", "cap"}, f.pc \in {"coalesce", "cap", "settle"}, f.retry = fwd[i].retry,
         f.out = (IF f.pc = "settle" THEN "queued" ELSE "none"),
         f.pc = "coalesce" => i \in Events /\ Key[i] # NoKey,
         PendingOK', Rows', ExcuseOK', \A j \in Ids : excuse[j] # "none" => excuse'[j] # "none",
         OneMode => \A j \in DOMAIN pending : j \in DOMAIN pending' \/ excuse'[j] # "none"
                                              \/ \E k \in Ids : StandsIn(k, j)' /\ k \in DOMAIN pending',
         i \in DOMAIN pending' \/ fwd[i].pc \in {"coalesce", "cap"},
         UNCHANGED <<scene, recorded, enr, ranking, failures, self, changes, faults>>
  PROVE  Inv'
  <1>1. TypeOK'
    BY BoundsType, FwdType, OrbFrame, TypeParts, TypePartsNext DEF Inv, IngressOK, EnrolOK, FailuresOK
  <1>2. fwd'[i] = f /\ \A j \in Ids \ {i} : fwd'[j] = fwd[j] /\ ForwardAt(j)' /\ (Pursued(j) => Pursued(j)')
    BY OthersForwarded
  <1>3. fwd[i] # Resting /\ recorded[i] = "received" /\ ForwardAt(i) /\ (i \in Events => "pull" \in scene.modes)
    BY DEF Resting, Inv, Forwards, ForwardAt, PushOnly
  <1>4. Forwards'
    <2>1. ForwardAt(i)'
      BY <1>2, <1>3, RelayAssumption DEF ForwardAt
    <2> QED
      BY <1>2, <2>1 DEF Forwards
  <1>5. Posted'
    <2> SUFFICES ASSUME NEW j \in Events PROVE PostedAt(j)'
      BY DEF Posted
    <2>1. PostedAt(j) /\ j \in Ids /\ hand' = hand
      BY DEF Inv, Posted, Ids, self
    <2>2. CASE j = i
      BY <2>1, <2>2 DEF PostedAt
    <2>3. CASE j # i
      BY <1>2, <2>1, <2>3 DEF PostedAt
    <2> QED
      BY <2>2, <2>3
  <1>6. PullOnly' /\ PushOnly'
    <2>1. box' = box /\ hand' = hand
      BY DEF self
    <2> QED
      BY <1>2, <1>3, <2>1 DEF Inv, PullOnly, PushOnly, Ids
  <1>7. Traced'
    <2> SUFFICES ASSUME OneMode PROVE Traced'
      BY DEF Traced, OneMode
    <2>1. \A j \in Ids : Saved(j) => Saved(j)'
      BY OrbSaves
    <2>2. Saved(i)'
      <3>1. CASE i \in DOMAIN pending'
        BY <3>1 DEF Saved, StandsIn, Firm
      <3>2. CASE fwd[i].pc \in {"coalesce", "cap"}
        <4>1. Saved(i)
          BY <1>3, <3>2 DEF Inv, Traced
        <4> QED
          BY <2>1, <4>1
      <3> QED
        BY <3>1, <3>2
    <2> QED
      BY <1>2, <2>1, <2>2 DEF Inv, Traced, OneMode
  <1> QED
    BY <1>1, <1>4, <1>5, <1>6, <1>7, OrbFrame DEF Inv

LEMMA InsertInv ==
  ASSUME Inv, NEW i \in Ids, Insert(i)
  PROVE  Inv'
  <1>1. FwdOK /\ fwd[i] \in Forwarding /\ ForwardAt(i) /\ fwd[i].pc = "insert" /\ PendingOK /\ ExcuseOK
    BY TypeParts, FwdType DEF Inv, Forwards, Insert
  <1>2. fwd[i].out = "none" /\ fwd[i] # Resting /\ recorded[i] = "received"
    BY <1>1 DEF ForwardAt, Resting
  <1> DEFINE rows == DOMAIN pending \ Dropped
  <1>3. KeyOf(i) \in Nat
    BY RelayAssumption DEF KeyOf, Ids
  <1>4. PICK row : row = [key |-> KeyOf(i), to |-> fwd[i].to, age |-> 0, before |-> rows]
    OBVIOUS
  <1>5. row.key = KeyOf(i) /\ row.before = rows /\ row \in Pending(rows \cup {i})
    <2>1. fwd[i].to \in Enrollments \cup {Nobody} /\ 0 \in 0 .. PendingTTL + 1
      BY <1>1, RelayAssumption DEF Forwarding
    <2> QED
      BY <1>3, <1>4, <2>1 DEF Pending
  <1>6. PICK pc \in {"coalesce", "cap"} : Goto(i, pc) /\ (pc = "coalesce" => KeyOf(i) # NoKey)
    BY DEF Insert, KeyOf
  <1>7. PICK f \in Forwarding : f = [fwd[i] EXCEPT !.pc = pc]
    BY <1>1 DEF Forwarding
  <1>8. f.pc = pc /\ f.out = "none" /\ f.retry = fwd[i].retry /\ fwd' = [fwd EXCEPT ![i] = f]
    BY <1>1, <1>2, <1>6, <1>7 DEF Forwarding, Goto, FwdOK
  <1>9. f.pc = "coalesce" => i \in Events /\ Key[i] # NoKey
    BY <1>6, <1>8 DEF KeyOf, Ids
  <1>10. /\ pending' = [j \in rows \cup {i} |-> IF j \in rows THEN Without(Dropped)[j] ELSE row]
         /\ Excuse(Dropped, "logged") /\ UNCHANGED <<scene, recorded, enr, ranking, failures, self, changes, faults>>
    BY <1>4 DEF Insert, KeyOf
  <1>11. DOMAIN pending' = rows \cup {i}
    BY <1>10
  <1>12. \A j \in rows : /\ Without(Dropped)[j].key = pending[j].key /\ Without(Dropped)[j].to = pending[j].to
                         /\ Without(Dropped)[j].age = pending[j].age
                         /\ Without(Dropped)[j].before = pending[j].before \ Dropped
    BY <1>1, WithoutType
  <1>13. \A j \in rows : Without(Dropped)[j] \in Pending(rows)
    <2>1. Without(Dropped) \in [rows -> Pending(rows)]
      BY <1>1, WithoutType
    <2> QED
      BY <2>1
  <1>14. PendingOK'
    <2>1. \A j \in rows : Without(Dropped)[j] \in Pending(rows \cup {i})
      BY <1>13 DEF Pending
    <2>2. pending' \in [rows \cup {i} -> Pending(rows \cup {i})]
      BY <1>5, <1>10, <2>1
    <2>3. rows \cup {i} \subseteq Ids
      BY <1>1 DEF PendingOK
    <2> HIDE DEF rows
    <2> QED
      BY <1>11, <2>2, <2>3 DEF PendingOK, Pending
  <1>15. Rows'
    <2> SUFFICES ASSUME NEW j \in rows \cup {i} PROVE RowAt(j)'
      BY <1>11 DEF Rows
    <2>1. CASE j \in rows
      <3>1. pending'[j] = Without(Dropped)[j] /\ RowAt(j)
        BY <1>10, <2>1 DEF Inv, Rows
      <3>2. pending'[j].key = pending[j].key /\ pending'[j].before \subseteq pending[j].before
        BY <1>12, <2>1, <3>1
      <3> QED
        BY <1>10, <3>1, <3>2 DEF RowAt, KeyOf
    <2>2. CASE j \notin rows
      <3>1. j = i /\ pending'[j] = row
        BY <1>10, <2>2
      <3> QED
        BY <1>2, <1>5, <1>10, <2>2, <3>1 DEF RowAt, KeyOf
    <2> QED
      BY <2>1, <2>2
  <1>16. ExcuseOK' /\ \A j \in Ids : (j \in Dropped \/ excuse[j] # "none") => excuse'[j] # "none"
    BY <1>1, <1>10, ExcuseType DEF Trace
  <1>17. \A j \in DOMAIN pending : j \in DOMAIN pending' \/ excuse'[j] # "none"
    BY <1>1, <1>11, <1>16 DEF PendingOK
  <1> QED
    BY <1>1, <1>8, <1>9, <1>10, <1>11, <1>14, <1>15, <1>16, <1>17, TableInv

LEMMA CoalesceInv ==
  ASSUME Inv, NEW i \in Ids, Coalesce(i)
  PROVE  Inv'
  <1>1. FwdOK /\ fwd[i] \in Forwarding /\ ForwardAt(i) /\ fwd[i].pc = "coalesce" /\ PendingOK /\ ExcuseOK
    BY TypeParts, FwdType DEF Inv, Forwards, Coalesce
  <1>2. fwd[i].out = "none" /\ fwd[i] # Resting /\ recorded[i] = "received" /\ i \in Events /\ Key[i] # NoKey
        /\ "pull" \in scene.modes
    BY <1>1 DEF ForwardAt, Resting, Inv, PushOnly
  <1> DEFINE gone == {j \in DOMAIN pending : pending[j].key = Key[i] /\ i \in DOMAIN pending /\ j \in pending[i].before}
  <1>3. pending' = Without(gone) /\ UNCHANGED <<scene, recorded, enr, ranking, failures, self, excuse, changes, faults>>
    BY DEF Coalesce
  <1>4. PICK f \in Forwarding : f = [fwd[i] EXCEPT !.pc = "cap"]
    BY <1>1 DEF Forwarding
  <1>5. f.pc = "cap" /\ f.out = "none" /\ f.retry = fwd[i].retry /\ fwd' = [fwd EXCEPT ![i] = f]
    BY <1>1, <1>2, <1>4 DEF Forwarding, Goto, FwdOK, Coalesce
  <1>6. PendingOK' /\ Rows' /\ DOMAIN pending' = DOMAIN pending \ gone
    BY <1>3, RowsGo
  <1>7. ASSUME OneMode, NEW j \in gone PROVE StandsIn(i, j)' /\ i \in DOMAIN pending'
    <2>1. i \in DOMAIN pending /\ j \in DOMAIN pending /\ RowAt(i) /\ RowAt(j) /\ pending[j].key = Key[i]
      BY DEF Inv, Rows
    <2>2. i \notin gone
      BY <2>1 DEF RowAt
    <2>3. j \in Events /\ Key[j] = Key[i]
      BY <1>1, <1>2, <2>1 DEF RowAt, KeyOf, PendingOK, Ids
    <2>4. "push" \notin scene.modes
      BY <1>2, <1>7 DEF OneMode
    <2> QED
      BY <1>2, <1>3, <1>6, <2>1, <2>2, <2>3, <2>4 DEF StandsIn
  <1>8. ExcuseOK' /\ excuse' = excuse
    BY <1>1, <1>3 DEF ExcuseOK
  <1>9. OneMode => \A j \in DOMAIN pending : j \in DOMAIN pending' \/ \E k \in Ids : StandsIn(k, j)' /\ k \in DOMAIN pending'
    BY <1>6, <1>7
  <1> QED
    BY <1>1, <1>3, <1>5, <1>6, <1>8, <1>9, TableInv

LEMMA EnforceCapInv ==
  ASSUME Inv, NEW i \in Ids, EnforceCap(i)
  PROVE  Inv'
  <1>1. FwdOK /\ fwd[i] \in Forwarding /\ fwd[i].pc = "cap" /\ PendingOK /\ ExcuseOK
    BY TypeParts, FwdType DEF Inv, EnforceCap
  <1>2. PICK over : pending' = Without(over) /\ Excuse(over, IF i \in Notices THEN "evicted" ELSE "logged")
    BY DEF EnforceCap
  <1>3. UNCHANGED <<scene, recorded, enr, ranking, failures, self, changes, faults>>
    BY DEF EnforceCap
  <1>4. PICK f \in Forwarding : f = [fwd[i] EXCEPT !.pc = "settle", !.out = "queued"]
    BY <1>1 DEF Forwarding, Outcomes
  <1>5. f.pc = "settle" /\ f.out = "queued" /\ f.retry = fwd[i].retry /\ fwd' = [fwd EXCEPT ![i] = f]
    BY <1>1, <1>4 DEF Forwarding, Ends, FwdOK, EnforceCap
  <1>6. PendingOK' /\ Rows' /\ \A j \in DOMAIN pending : j \in DOMAIN pending' \/ j \in over
    BY <1>2, <1>3, RowsGo
  <1>7. ExcuseOK' /\ \A j \in Ids : (j \in over \/ excuse[j] # "none") => excuse'[j] # "none"
    <2>1. PICK why \in Trace : why = (IF i \in Notices THEN "evicted" ELSE "logged") /\ why # "none"
      BY DEF Trace
    <2> QED
      BY <1>1, <1>2, <2>1, ExcuseType
  <1>8. \A j \in DOMAIN pending : j \in DOMAIN pending' \/ excuse'[j] # "none"
    BY <1>1, <1>6, <1>7 DEF PendingOK
  <1> QED
    BY <1>1, <1>3, <1>5, <1>6, <1>7, <1>8, TableInv

LEMMA PruneElsewhereInv ==
  ASSUME Inv, PruneElsewhere
  PROVE  Inv'
  <1>1. PendingOK /\ ExcuseOK /\ pending' = Without(Dropped) /\ Excuse(Dropped, "logged")
        /\ UNCHANGED <<scene, recorded, enr, ranking, failures, fwd, self, changes, faults>>
    BY TypeParts DEF Inv, PruneElsewhere
  <1>2. PendingOK' /\ Rows' /\ \A j \in DOMAIN pending : j \in DOMAIN pending' \/ j \in Dropped
    BY <1>1, RowsGo
  <1>3. ExcuseOK' /\ \A j \in Ids : (j \in Dropped \/ excuse[j] # "none") => excuse'[j] # "none"
    BY <1>1, ExcuseType DEF Trace
  <1>4. IngressOK' /\ FailuresOK' /\ FwdOK' /\ Forwards' /\ \A j \in Ids : Pursued(j) => Pursued(j)'
    BY <1>1, BoxFrame
  <1>5. TypeOK'
    BY <1>1, <1>2, <1>3, <1>4, BoundsType, OrbFrame, TypeParts, TypePartsNext DEF Inv, EnrolOK
  <1>6. Posted' /\ PullOnly' /\ PushOnly'
    BY <1>1 DEF Inv, Posted, PostedAt, PullOnly, PushOnly, self
  <1>7. Traced'
    <2>1. \A j \in DOMAIN pending : j \in DOMAIN pending' \/ excuse'[j] # "none"
      BY <1>1, <1>2, <1>3 DEF PendingOK
    <2>2. \A j \in Ids : Saved(j) => Saved(j)'
      BY <1>1, <1>3, <2>1, OrbSaves
    <2> QED
      BY <1>1, <1>4, <2>2 DEF Inv, Traced, OneMode
  <1> QED
    BY <1>1, <1>2, <1>4, <1>5, <1>6, <1>7, OrbFrame DEF Inv

\* The end of a forward: the event is kept in the failures table or leaves a trace, unless it was queued or forwarded.
LEMMA SettleInv ==
  ASSUME Inv, NEW i \in Ids, fwd[i].pc = "settle", fwd' = [fwd EXCEPT ![i] = Resting],
         FailuresOK', ExcuseOK', \A j \in Ids : excuse[j] # "none" => excuse'[j] # "none",
         \A j \in Ids \ {i} : j \in DOMAIN failures <=> j \in DOMAIN failures',
         \A j \in (Ids \ {i}) \cap DOMAIN failures : failures'[j] = failures[j],
         fwd[i].out \in {"queued", "forwarded"} \/ i \in DOMAIN failures' \/ excuse'[i] # "none",
         UNCHANGED <<scene, recorded, enr, ranking, pending, self, changes>>, (\E kind : Fault(kind)) \/ UNCHANGED faults
  PROVE  Inv'
  <1>1. TypeOK'
    BY BoundsType, FwdType, RestingType, OrbFrame, TypeParts, TypePartsNext DEF Inv, IngressOK, EnrolOK, PendingOK
  <1>2. fwd'[i] = Resting /\ \A j \in Ids \ {i} : fwd'[j] = fwd[j] /\ ForwardAt(j)' /\ (Pursued(j) => Pursued(j)')
    BY OthersForwarded
  <1>3. ForwardAt(i) /\ fwd[i] # Resting /\ recorded[i] = "received"
    BY DEF Inv, Forwards, ForwardAt, Resting
  <1>4. Resting.pc = "idle" /\ Resting.out = "none" /\ ~Resting.retry
    BY DEF Resting
  <1>5. Forwards'
    <2>1. ForwardAt(i)'
      BY <1>2, <1>3, <1>4 DEF ForwardAt
    <2> QED
      BY <1>2, <2>1 DEF Forwards
  <1>6. Rows'
    BY DEF Inv, Rows, RowAt
  <1>7. Posted'
    <2> SUFFICES ASSUME NEW j \in Events PROVE PostedAt(j)'
      BY DEF Posted
    <2>1. PostedAt(j) /\ j \in Ids /\ hand' = hand
      BY DEF Inv, Posted, Ids, self
    <2> QED
      BY <1>2, <1>3, <1>4, <2>1 DEF PostedAt
  <1>8. PullOnly' /\ PushOnly'
    <2>1. box' = box /\ hand' = hand
      BY DEF self
    <2> QED
      BY <1>2, <1>4, <2>1 DEF Inv, PullOnly, PushOnly, Ids
  <1>9. Traced'
    <2> SUFFICES ASSUME OneMode PROVE Traced'
      BY DEF Traced, OneMode
    <2>1. \A j \in Ids : Saved(j) => Saved(j)'
      BY OrbSaves
    <2>2. (Pursued(i)' /\ fwd'[i].pc \notin {"coalesce", "cap"}) \/ Saved(i)'
      <3>1. CASE fwd[i].out \in {"queued", "forwarded"}
        BY <1>3, <2>1, <3>1 DEF Inv, Traced, Pursued
      <3>2. CASE i \in DOMAIN failures'
        BY <1>2, <1>4, <3>2 DEF Pursued
      <3>3. CASE excuse'[i] # "none"
        BY <3>3 DEF Saved, StandsIn, Firm
      <3> QED
        BY <3>1, <3>2, <3>3
    <2> QED
      BY <1>2, <2>1, <2>2 DEF Inv, Traced, OneMode
  <1> QED
    BY <1>1, <1>5, <1>6, <1>7, <1>8, <1>9, OrbFrame DEF Inv

LEMMA PersistInv ==
  ASSUME Inv, NEW i \in Ids, Persist(i)
  PROVE  Inv'
  <1>1. ForwardAt(i) /\ FailuresOK /\ ExcuseOK /\ i \in Events /\ fwd[i].pc = "settle" /\ fwd[i] \in Forwarding
    BY TypeParts, FwdType DEF Inv, Forwards, Persist
  <1>2. fwd' = [fwd EXCEPT ![i] = Resting] /\ UNCHANGED <<scene, recorded, enr, ranking, pending, self, changes>>
    BY DEF Persist
  <1>3. CASE failures' = storeRelayFailure(i) /\ UNCHANGED <<excuse, faults>>
    <2> DEFINE new == [age |-> 0, attempts |-> 0, hot |-> FALSE]
    <2>1. new \in Failure
      BY RelayAssumption DEF Failure
    <2> HIDE DEF new
    <2>2. failures' = [j \in DOMAIN failures \cup {i} |-> IF j \in DOMAIN failures THEN failures[j] ELSE new]
      BY <1>3 DEF storeRelayFailure, new
    <2>3. DOMAIN failures' = DOMAIN failures \cup {i} /\ \A j \in DOMAIN failures : failures'[j] = failures[j]
      BY <2>2
    <2>4. failures' \in [DOMAIN failures \cup {i} -> Failure]
      BY <1>1, <2>1, <2>2 DEF FailuresOK
    <2>5. FailuresOK' /\ ExcuseOK'
      BY <1>1, <1>3, <2>3, <2>4 DEF FailuresOK, ExcuseOK
    <2> QED
      BY <1>1, <1>2, <1>3, <2>3, <2>5, SettleInv
  <1>4. CASE Fault("orb") /\ Excuse({i}, "logged") /\ UNCHANGED failures
    <2>1. ExcuseOK' /\ \A j \in Ids : (j \in {i} \/ excuse[j] # "none") => excuse'[j] # "none"
      BY <1>1, <1>4, ExcuseType DEF Trace
    <2>2. FailuresOK'
      BY <1>1, <1>4 DEF FailuresOK
    <2> QED
      BY <1>1, <1>2, <1>4, <2>1, <2>2, SettleInv
  <1>5. CASE /\ ~shouldPersistRelayFailure(fwd[i].out)
             /\ Excuse(IF fwd[i].out = "ignored" THEN {i} ELSE {}, "ignored") /\ UNCHANGED <<failures, faults>>
    <2>1. PICK S : Excuse(S, "ignored") /\ (fwd[i].out = "ignored" => i \in S)
      BY <1>5
    <2>2. ExcuseOK' /\ \A j \in Ids : (j \in S \/ excuse[j] # "none") => excuse'[j] # "none"
      BY <1>1, <2>1, ExcuseType DEF Trace
    <2>3. FailuresOK'
      BY <1>1, <1>5 DEF FailuresOK
    <2>4. fwd[i].out \in {"queued", "forwarded", "ignored"}
      BY <1>1, <1>5 DEF ForwardAt, Forwarding, Outcomes, shouldPersistRelayFailure
    <2> QED
      BY <1>1, <1>2, <1>5, <2>1, <2>2, <2>3, <2>4, SettleInv
  <1> QED
    BY <1>3, <1>4, <1>5 DEF Persist

LEMMA ReportTargetInv ==
  ASSUME Inv, NEW i \in Ids, ReportTarget(i)
  PROVE  Inv'
  <1>1. ForwardAt(i) /\ FailuresOK /\ ExcuseOK /\ i \in Notices /\ fwd[i].pc = "settle"
    BY TypeParts DEF Inv, Forwards, ReportTarget
  <1>2. fwd' = [fwd EXCEPT ![i] = Resting] /\ UNCHANGED <<scene, recorded, enr, ranking, pending, failures, self, changes, faults>>
    BY DEF ReportTarget, orb
  <1>3. PICK S : Excuse(S, "reported") /\ (fwd[i].out = "failed" => i \in S)
    BY DEF ReportTarget
  <1>4. ExcuseOK' /\ \A j \in Ids : (j \in S \/ excuse[j] # "none") => excuse'[j] # "none"
    BY <1>1, <1>3, ExcuseType DEF Trace
  <1>5. FailuresOK'
    BY <1>1, <1>2 DEF FailuresOK
  <1>6. fwd[i].out \in {"queued", "failed"}
    BY <1>1 DEF ForwardAt
  <1> QED
    BY <1>1, <1>2, <1>3, <1>4, <1>5, <1>6, SettleInv

LEMMA FinalizeInv ==
  ASSUME Inv, NEW i \in Ids, Finalize(i)
  PROVE  Inv'
  <1>1. ForwardAt(i) /\ FailuresOK /\ ExcuseOK /\ fwd[i].pc = "settle" /\ fwd[i].retry
    BY TypeParts DEF Inv, Forwards, Finalize
  <1>2. fwd' = [fwd EXCEPT ![i] = Resting] /\ UNCHANGED <<scene, recorded, enr, ranking, pending, self, changes>>
    BY DEF Finalize
  <1>3. i \in DOMAIN failures /\ failures[i].attempts < MaxAttempts /\ failures[i] \in Failure
    BY <1>1 DEF ForwardAt, FailuresOK
  <1>4. CASE /\ isRelayFailureRetryTerminal(fwd[i].out)
             /\ failures' = [j \in DOMAIN failures \ {i} |-> failures[j]]
             /\ Excuse(IF fwd[i].out = "ignored" THEN {i} ELSE {}, "ignored") /\ UNCHANGED faults
    <2>1. PICK S : Excuse(S, "ignored") /\ (fwd[i].out = "ignored" => i \in S)
      BY <1>4
    <2>2. ExcuseOK' /\ \A j \in Ids : (j \in S \/ excuse[j] # "none") => excuse'[j] # "none"
      BY <1>1, <2>1, ExcuseType DEF Trace
    <2>3. DOMAIN failures' = DOMAIN failures \ {i} /\ \A j \in DOMAIN failures \ {i} : failures'[j] = failures[j]
      BY <1>4
    <2>4. FailuresOK'
      BY <1>1, <1>4, <2>3 DEF FailuresOK
    <2>5. fwd[i].out \in {"queued", "forwarded", "ignored"}
      BY <1>4 DEF isRelayFailureRetryTerminal
    <2> QED
      BY <1>1, <1>2, <1>4, <2>1, <2>2, <2>3, <2>4, <2>5, SettleInv
  <1>5. CASE failures' = [failures EXCEPT ![i].attempts = @ + 1, ![i].hot = TRUE] /\ UNCHANGED <<excuse, faults>>
    <2>1. failures[i].attempts + 1 \in 0 .. MaxAttempts
      BY <1>3, RelayAssumption DEF Failure
    <2>2. PICK row \in Failure : row = [failures[i] EXCEPT !.attempts = @ + 1, !.hot = TRUE]
      BY <1>3, <2>1 DEF Failure
    <2>3. failures' = [failures EXCEPT ![i] = row]
      BY <1>1, <1>3, <1>5, <2>2 DEF FailuresOK
    <2>4. FailuresOK' /\ ExcuseOK' /\ DOMAIN failures' = DOMAIN failures /\ \A j \in DOMAIN failures \ {i} : failures'[j] = failures[j]
      BY <1>1, <1>5, <2>3 DEF FailuresOK, ExcuseOK
    <2> QED
      BY <1>1, <1>2, <1>3, <1>5, <2>4, SettleInv
  <1>6. CASE Fault("orb") /\ UNCHANGED <<failures, excuse>>
    <2>1. FailuresOK' /\ ExcuseOK'
      BY <1>1, <1>6 DEF FailuresOK, ExcuseOK
    <2> QED
      BY <1>1, <1>2, <1>3, <1>6, <2>1, SettleInv
  <1> QED
    BY <1>4, <1>5, <1>6 DEF Finalize

LEMMA retryFailedRelaysInv ==
  ASSUME Inv, retryFailedRelays
  PROVE  Inv'
  <1> DEFINE spent == {i \in DOMAIN failures : Spent(failures[i])}
             due == {i \in DOMAIN failures \ spent : ~failures[i].hot /\ hand[<<"post", i>>] = Free}
  <1>1. FwdOK /\ FailuresOK /\ ExcuseOK /\ (\A i \in Ids : fwd[i] \in Forwarding)
        /\ UNCHANGED <<scene, recorded, enr, ranking, pending, self, changes, faults>>
    BY TypeParts DEF Inv, retryFailedRelays, FwdOK
  <1>2. PICK f \in Forwarding : f = [Resting EXCEPT !.pc = "read", !.retry = TRUE]
    BY DEF Resting, Forwarding, Outcomes
  <1>3. f.pc = "read" /\ f.retry /\ f.out = "none" /\ f # Resting
    BY <1>2 DEF Resting
  <1>4. /\ failures' = [i \in DOMAIN failures \ spent |-> failures[i]]
        /\ fwd' = [i \in Ids |-> IF i \in due THEN f ELSE fwd[i]] /\ Excuse(spent, "logged")
        /\ \A i \in Events : ~fwd[i].retry
    BY <1>2 DEF retryFailedRelays
  <1>5. FwdOK' /\ \A i \in Ids : fwd'[i] = IF i \in due THEN f ELSE fwd[i]
    BY <1>1, <1>4 DEF FwdOK
  <1>6. DOMAIN failures' = DOMAIN failures \ spent /\ \A i \in DOMAIN failures \ spent : failures'[i] = failures[i]
    BY <1>4
  <1>7. FailuresOK'
    BY <1>1, <1>4, <1>6 DEF FailuresOK
  <1>8. ExcuseOK' /\ \A i \in Ids : (i \in spent \/ excuse[i] # "none") => excuse'[i] # "none"
    BY <1>1, <1>4, ExcuseType DEF Trace
  <1>9. TypeOK'
    BY <1>1, <1>5, <1>7, <1>8, BoundsType, OrbFrame, TypeParts, TypePartsNext DEF Inv, IngressOK, EnrolOK, PendingOK
  <1>10. due \subseteq Events /\ \A i \in due : i \in DOMAIN failures \ spent /\ failures[i].attempts < MaxAttempts
    <2>1. \A i \in DOMAIN failures : failures[i].attempts \in Int
      BY <1>1, RelayAssumption DEF FailuresOK, Failure
    <2> QED
      BY <1>1, <2>1, RelayAssumption DEF Spent, FailuresOK
  <1>11. \A i \in due : hand[<<"post", i>>] = Free /\ recorded[i] = "received"
    BY <1>10 DEF Inv, Forwards, ForwardAt, Ids
  <1> HIDE DEF spent, due
  <1>12. Forwards'
    <2> SUFFICES ASSUME NEW i \in Ids PROVE ForwardAt(i)'
      BY DEF Forwards
    <2>1. ForwardAt(i) /\ ~fwd[i].retry
      BY <1>1, <1>4 DEF Inv, Forwards, ForwardAt, FailuresOK
    <2>2. CASE i \in due
      <3>1. fwd'[i] = f /\ i \in DOMAIN failures' /\ failures'[i].attempts < MaxAttempts /\ recorded'[i] = "received" /\ i \notin Notices
        BY <1>1, <1>5, <1>6, <1>10, <1>11, <2>2, RelayAssumption
      <3> QED
        BY <1>3, <3>1 DEF ForwardAt
    <2>3. CASE i \notin due
      <3>1. fwd'[i] = fwd[i] /\ (i \in DOMAIN failures' => i \in DOMAIN failures) /\ recorded'[i] = recorded[i]
        BY <1>1, <1>5, <1>6, <2>3
      <3> QED
        BY <2>1, <3>1 DEF ForwardAt
    <2> QED
      BY <2>2, <2>3
  <1>13. Rows'
    BY <1>1 DEF Inv, Rows, RowAt
  <1>14. Posted'
    <2> SUFFICES ASSUME NEW i \in Events PROVE PostedAt(i)'
      BY DEF Posted
    <2>1. PostedAt(i) /\ i \in Ids /\ hand' = hand
      BY <1>1 DEF Inv, Posted, Ids, self
    <2> QED
      BY <1>1, <1>5, <1>11, <2>1 DEF PostedAt
  <1>15. PullOnly' /\ PushOnly'
    <2>1. box' = box /\ hand' = hand
      BY <1>1 DEF self
    <2> QED
      BY <1>1, <1>3, <1>5, <2>1 DEF Inv, PullOnly, PushOnly, Ids
  <1>16. Traced'
    <2> SUFFICES ASSUME OneMode, NEW i \in Ids, recorded[i] = "received"
                 PROVE  (Pursued(i)' /\ fwd'[i].pc \notin {"coalesce", "cap"}) \/ Saved(i)'
      BY <1>1 DEF Traced, OneMode
    <2>1. Saved(i) => Saved(i)'
      BY <1>1, <1>8, OrbSaves
    <2>2. CASE i \in due
      BY <1>3, <1>5, <2>2 DEF Pursued
    <2>3. CASE i \in spent
      BY <1>8, <2>3 DEF Saved, StandsIn, Firm
    <2>4. CASE i \notin due /\ i \notin spent
      <3>1. Pursued(i) => Pursued(i)'
        BY <1>5, <1>6, <2>4 DEF Pursued
      <3> QED
        BY <1>5, <2>1, <2>4, <3>1 DEF Inv, Traced
    <2> QED
      BY <2>2, <2>3, <2>4
  <1> QED
    BY <1>1, <1>9, <1>12, <1>13, <1>14, <1>15, <1>16, OrbFrame DEF Inv

LEMMA OrbDiesInv ==
  ASSUME Inv, OrbDies
  PROVE  Inv'
  <1> USE DEF orb
  <1> DEFINE dead == {i \in Ids : fwd[i] # Resting /\ ~fwd[i].retry}
  <1>1. /\ FailuresOK /\ ExcuseOK /\ UNCHANGED <<scene, recorded, enr, ranking, pending, failures, self, changes>>
        /\ (\E kind : Fault(kind)) /\ Excuse(dead, "died") /\ fwd' = [i \in Ids |-> Resting]
    BY TypeParts DEF Inv, OrbDies
  <1>2. FwdOK' /\ \A i \in Ids : fwd'[i] = Resting
    BY <1>1, RestingType DEF FwdOK
  <1>3. Resting.pc = "idle" /\ Resting.out = "none" /\ ~Resting.retry
    BY DEF Resting
  <1>4. ExcuseOK' /\ \A i \in Ids : (i \in dead \/ excuse[i] # "none") => excuse'[i] # "none"
    BY <1>1, ExcuseType DEF Trace
  <1>5. TypeOK'
    BY <1>1, <1>2, <1>4, BoundsType, OrbFrame, TypeParts, TypePartsNext DEF Inv, IngressOK, EnrolOK, PendingOK, FailuresOK
  <1>6. Forwards'
    <2> SUFFICES ASSUME NEW i \in Ids PROVE ForwardAt(i)'
      BY DEF Forwards
    <2>1. ForwardAt(i)
      BY DEF Inv, Forwards
    <2> QED
      BY <1>1, <1>2, <1>3, <2>1 DEF ForwardAt
  <1>7. Rows'
    BY <1>1 DEF Inv, Rows, RowAt
  <1>8. Posted'
    <2> SUFFICES ASSUME NEW i \in Events PROVE PostedAt(i)'
      BY DEF Posted
    <2>1. PostedAt(i) /\ i \in Ids /\ hand' = hand
      BY <1>1 DEF Inv, Posted, Ids, self
    <2> QED
      BY <1>1, <1>2, <1>3, <2>1 DEF PostedAt
  <1>9. PullOnly' /\ PushOnly'
    <2>1. box' = box /\ hand' = hand
      BY <1>1 DEF self
    <2> QED
      BY <1>1, <1>2, <1>3, <2>1 DEF Inv, PullOnly, PushOnly, Ids
  <1>10. Traced'
    <2> SUFFICES ASSUME OneMode, NEW i \in Ids, recorded[i] = "received"
                 PROVE  (Pursued(i)' /\ fwd'[i].pc \notin {"coalesce", "cap"}) \/ Saved(i)'
      BY <1>1 DEF Traced, OneMode
    <2>1. Saved(i) => Saved(i)'
      BY <1>1, <1>4, OrbSaves
    <2>2. CASE i \in dead
      BY <1>4, <2>2 DEF Saved, StandsIn, Firm
    <2>3. CASE i \in DOMAIN failures
      BY <1>1, <1>2, <1>3, <2>3 DEF Pursued
    <2>4. CASE i \notin dead /\ i \notin DOMAIN failures
      <3>1. fwd[i] = Resting
        BY <2>4 DEF Inv, Forwards, ForwardAt
      <3> QED
        BY <2>1, <2>4, <3>1 DEF Inv, Traced, Pursued
    <2> QED
      BY <2>2, <2>3, <2>4
  <1> QED
    BY <1>1, <1>5, <1>6, <1>7, <1>8, <1>9, <1>10, OrbFrame DEF Inv

-----------------------------------------------------------------------------
(* The invariant                                                           *)

LEMMA InitInv == Init => Inv
  <1> SUFFICES ASSUME Init PROVE Inv
    OBVIOUS
  <1>1. scene \in Scenes /\ scene.modes \subseteq {"push", "pull"} /\ scene.changes \in Nat /\ scene.faults \in Nat
    BY RelayAssumption DEF Init
  <1>2. PICK mode \in scene.modes :
          /\ enr = [e \in Enrollments |-> IF e = 1 THEN [state |-> "enrolled", mode |-> mode, url |-> TRUE]
                                          ELSE [state |-> "none", mode |-> "push", url |-> FALSE]]
          /\ box = [e \in Enrollments |-> IF e = 1 THEN [Off(mode) EXCEPT !.up = TRUE, !.registered = TRUE] ELSE Off("pull")]
    BY DEF Init
  <1>3. PICK b \in Container : b = [Off(mode) EXCEPT !.up = TRUE, !.registered = TRUE]
    <2>1. <<>> \in Seq(Ids) /\ {} \in SUBSET Ids /\ mode \in {"push", "pull"}
      BY <1>1, <1>2, EmptySeq
    <2> QED
      BY <2>1 DEF Container, Off
  <1>4. PICK c \in Container : c = Off("pull")
    <2>1. <<>> \in Seq(Ids) /\ {} \in SUBSET Ids
      BY EmptySeq
    <2> QED
      BY <2>1 DEF Container, Off
  <1>5. /\ b.mode = mode /\ b.ack = {} /\ b.todo = <<>> /\ b.drain = "idle"
        /\ ~c.up /\ c.ack = {} /\ c.todo = <<>> /\ c.drain = "idle"
    BY <1>3, <1>4 DEF Off
  <1>6. BoxOK /\ \A e \in Enrollments : box[e] = IF e = 1 THEN b ELSE c
    BY <1>2, <1>3, <1>4 DEF BoxOK
  <1>7. EnrolOK /\ \A e \in Enrollments : (enr[e].mode = "push" \/ enr[e].mode = mode) /\ (enr[e].url => enr[e].mode = mode)
    <2>1. mode \in {"push", "pull"}
      BY <1>1
    <2>2. \A e \in Enrollments : enr[e] \in Enrolled
      BY <1>2, <2>1 DEF Enrolled
    <2>3. enr \in [Enrollments -> Enrolled]
      BY <1>2, <2>2
    <2>4. ranking \in Seq(Enrollments)
      BY RelayAssumption DEF Init
    <2>5. \A e \in Enrollments : (enr[e].mode = "push" \/ enr[e].mode = mode) /\ (enr[e].url => enr[e].mode = mode)
      BY <1>2
    <2> QED
      BY <2>3, <2>4, <2>5 DEF EnrolOK
  <1>8. PendingOK /\ FailuresOK /\ DOMAIN pending = {} /\ DOMAIN failures = {}
    <2>1. pending = <<>> /\ failures = <<>> /\ DOMAIN <<>> = {}
      BY DEF Init
    <2>2. \A S : <<>> \in [{} -> S]
      OBVIOUS
    <2> QED
      BY <2>1, <2>2 DEF PendingOK, FailuresOK
  <1>9. FwdOK /\ \A i \in Ids : fwd[i] = Resting
    BY RestingType DEF Init, FwdOK
  <1>10. HandOK /\ \A h \in Hands : hand[h] = Free
    BY FreeType DEF Init, HandOK, Hands
  <1>11. HookOK /\ JobsOK
    BY DEF Init, HookOK, JobsOK, Unseen
  <1>12. TypeOK
    BY <1>1, <1>6, <1>7, <1>8, <1>9, <1>10, <1>11, TypeParts DEF Init, BoundsOK, IngressOK, ExcuseOK, Trace
  <1>13. Placed /\ Posted /\ Rows
    BY <1>8, <1>10, PostIsHand DEF Placed, HandAt, Posted, PostedAt, Rows
  <1>14. Seen
    BY <1>5, <1>6 DEF Seen
  <1>15. Resting.pc = "idle" /\ Resting.out = "none" /\ ~Resting.retry
    BY DEF Resting
  <1>16. Forwards
    BY <1>8, <1>9, <1>15 DEF Forwards, ForwardAt
  <1>17. Drained
    <2> SUFFICES ASSUME NEW e \in Enrollments PROVE DrainAt(e)
      BY DEF Drained
    <2>1. box[e].drain = "idle" /\ box[e].todo = <<>> /\ box[e].ack = {}
      BY <1>5, <1>6
    <2> QED
      BY <1>10, <2>1, DrainIsHand DEF DrainAt, Todo
  <1>18. PullOnly /\ PushOnly
    BY <1>1, <1>2, <1>5, <1>6, <1>7, <1>9, <1>10, <1>15, PostIsHand, DrainIsHand DEF PullOnly, PushOnly, Ids
  <1>19. Acked
    BY <1>5, <1>6, <1>10 DEF Acked, TakenBy, Free
  <1>20. Traced
    BY DEF Traced, Init
  <1> QED
    BY <1>12, <1>13, <1>14, <1>16, <1>17, <1>18, <1>19, <1>20 DEF Inv

LEMMA StutterInv ==
  ASSUME Inv, UNCHANGED vars
  PROVE  Inv'
  <1>1. UNCHANGED <<scene, recorded, enr, ranking, pending, failures, fwd, box, hook, jobs, hand, excuse, changes, faults>>
    BY DEF vars, orb, self
  <1>2. EnrolOK' /\ BoxOK'
    BY <1>1, TypeParts DEF Inv, EnrolOK, BoxOK
  <1> QED
    BY <1>1, <1>2, EnrolInv DEF Inv, PullOnly, PushOnly

LEMMA Inductive == Inv /\ [Next]_vars => Inv'
  <1> SUFFICES ASSUME Inv, [Next]_vars PROVE Inv'
    OBVIOUS
  <1>1. ASSUME NEW i \in Events, handleOrbWebhook(i) PROVE Inv'
    BY <1>1, handleOrbWebhookInv
  <1>2. ASSUME NEW i \in Notices, pushFleetConfig(i) PROVE Inv'
    BY <1>2, pushFleetConfigInv
  <1>3. ASSUME NEW i \in Ids, Forward(i) PROVE Inv'
    BY <1>3, ReadEnrollmentInv, InsertInv, CoalesceInv, EnforceCapInv, EnqueueThrowsInv, PostInv, AnswerInv, PostTimeoutInv,
       PersistInv, ReportTargetInv, FinalizeInv DEF Forward
  <1>4. CASE retryFailedRelays \/ PruneElsewhere \/ OrbDies
    BY <1>4, retryFailedRelaysInv, PruneElsewhereInv, OrbDiesInv
  <1>5. ASSUME NEW S, revokeEnrollments(S) PROVE Inv'
    BY <1>5, revokeEnrollmentsInv
  <1>6. ASSUME NEW e \in Enrollments, issueOrbEnrollment(e) \/ Register(e) \/ Crash(e) \/ Drain(e) PROVE Inv'
    BY <1>6, issueOrbEnrollmentInv, RegisterInv, CrashInv, PullAckInv, PullBatchInv, PullFailsInv, TakeUpInv, FinishInv DEF Drain
  <1>7. ASSUME NEW e \in Enrollments, NEW mode \in scene.modes, Boot(e, mode) PROVE Inv'
    BY <1>7, BootInv
  <1>8. ASSUME NEW e \in Enrollments, NEW i \in Events, Process(e, i) PROVE Inv'
    BY <1>8, ProcessInv
  <1>9. ASSUME NEW h \in DOMAIN hand, Enqueue(h) PROVE Inv'
    <2>1. h \in Hands
      BY TypeParts DEF Inv, HandOK
    <2> QED
      BY <1>9, <2>1, ShowInv, CheckInv, RecordInv, SendInv, MendInv, ThrowsInv DEF Enqueue
  <1>10. CASE Tick
    BY <1>10, TickInv
  <1>11. CASE UNCHANGED vars
    BY <1>11, StutterInv
  <1> QED
    BY <1>1, <1>2, <1>3, <1>4, <1>5, <1>6, <1>7, <1>8, <1>9, <1>10, <1>11 DEF Next

\* The invariant holds in every reachable state of the relay, for every number of events, enrolments and faults.
THEOREM Invariance == Spec => []Inv
  <1>1. Init => Inv
    BY InitInv
  <1>2. Inv /\ [Next]_vars => Inv'
    BY Inductive
  <1> QED
    BY <1>1, <1>2, PTL DEF Spec

-----------------------------------------------------------------------------
(* What follows                                                            *)

\* Every variable of the relay keeps its type, whatever the enrolments, containers, events and faults.
THEOREM TypeCorrect == Spec => []TypeOK
  <1>1. Inv => TypeOK
    BY DEF Inv
  <1> QED
    BY <1>1, Invariance, PTL

LEMMA TracedAccounts ==
  ASSUME Inv, OneMode
  PROVE  Accounted
  <1> SUFFICES ASSUME NEW i \in Ids, recorded[i] = "received"
               PROVE  \/ Kept(i)
                      \/ i \in Events /\ \E j \in Events \ {i} :
                           Key[j] = Key[i] /\ Key[i] # NoKey /\ Kept(j) /\ recorded[j] = "received"
    BY DEF Accounted
  <1>1. CASE Pursued(i)
    BY <1>1 DEF Pursued, Kept, OnItsWay
  <1>2. ASSUME NEW j \in Ids, StandsIn(j, i), Firm(j)
        PROVE  \/ Kept(i)
               \/ i \in Events /\ \E k \in Events \ {i} :
                    Key[k] = Key[i] /\ Key[i] # NoKey /\ Kept(k) /\ recorded[k] = "received"
    <2>1. Kept(j)
      BY <1>2 DEF Firm, Kept, OnItsWay, TakenIn, Here
    <2> QED
      BY <1>2, <2>1 DEF StandsIn
  <1> QED
    BY <1>1, <1>2 DEF Inv, Traced, Saved

\* An event GitHub was answered for is on its way, recorded by a container, given up with a trace or stood for by another
\* event of its key, as long as the installation's containers all pull or are all posted to (src/orb/relay.ts).  With
\* containers that change from one to the other a POST and a drain may be at work on one event in one container.
THEOREM NothingVanishes == Spec => [](OneMode => Accounted)
  <1>1. Inv => (OneMode => Accounted)
    BY TracedAccounts
  <1> QED
    BY <1>1, Invariance, PTL

\* A row goes when it expires, is evicted or is superseded: an acknowledgement deletes a container's own rows or those of
\* nobody, and of its own only those it has recorded.
LEMMA RowGoesForCause ==
  ASSUME Inv, [Next]_vars, NEW i \in DOMAIN pending, i \notin DOMAIN pending',
         pending[i].to # Nobody, hook[pending[i].to][i].status = "none"
  PROVE  \/ excuse'[i] \in {"logged", "evicted"}
         \/ \E j \in Events \ {i} : j \in DOMAIN pending' /\ Key[j] = pending[i].key /\ pending[i].key # NoKey
  <1>1. PendingOK /\ i \in Ids
    BY TypeParts DEF Inv, PendingOK
  <1>2. ASSUME NEW S, i \in S, NEW why \in {"logged", "evicted"}, Excuse(S, why) PROVE excuse'[i] \in {"logged", "evicted"}
    BY <1>1, <1>2 DEF Excuse
  <1>3. ASSUME NEW k \in Ids, Insert(k) PROVE i \in Dropped /\ Excuse(Dropped, "logged")
    BY <1>3 DEF Insert
  <1>4. ASSUME NEW k \in Ids, Coalesce(k)
        PROVE  k \in Events \ {i} /\ k \in DOMAIN pending' /\ Key[k] = pending[i].key /\ pending[i].key # NoKey
    <2> DEFINE gone == {j \in DOMAIN pending : pending[j].key = Key[k] /\ k \in DOMAIN pending /\ j \in pending[k].before}
    <2>1. k \in Events /\ Key[k] # NoKey
      BY <1>4 DEF Coalesce, Inv, Forwards, ForwardAt
    <2>2. DOMAIN pending' = DOMAIN pending \ gone
      BY <1>4 DEF Coalesce, Without
    <2>3. i \in gone
      BY <2>2
    <2>4. k \notin gone /\ k \in DOMAIN pending
      BY <2>3 DEF Inv, Rows, RowAt
    <2> QED
      BY <2>1, <2>2, <2>3, <2>4
  <1>5. ASSUME NEW k \in Ids, EnforceCap(k) PROVE excuse'[i] \in {"logged", "evicted"}
    <2>1. PICK over : pending' = Without(over) /\ Excuse(over, IF k \in Notices THEN "evicted" ELSE "logged")
      BY <1>5 DEF EnforceCap
    <2>2. i \in over
      BY <2>1 DEF Without
    <2> QED
      BY <1>2, <2>1, <2>2
  <1>6. ASSUME PruneElsewhere PROVE i \in Dropped /\ Excuse(Dropped, "logged")
    BY <1>6 DEF PruneElsewhere, Without
  <1>7. ASSUME NEW e \in Enrollments, PullAck(e) PROVE i \in Dropped /\ Excuse(Dropped, "logged")
    <2>1. i \in Dropped \/ (Own(e, pending[i]) /\ i \in box[e].ack)
      BY <1>7 DEF PullAck, Without
    <2>2. ~(Own(e, pending[i]) /\ i \in box[e].ack)
      BY DEF Own, Inv, Seen
    <2> QED
      BY <1>7, <2>1, <2>2 DEF PullAck
  <1>8. ASSUME Tick PROVE FALSE
    BY <1>8 DEF Tick
  <1>9. ASSUME UNCHANGED pending PROVE FALSE
    BY <1>9
  <1>10. ASSUME NEW k \in Ids, Forward(k), ~Insert(k), ~Coalesce(k), ~EnforceCap(k) PROVE UNCHANGED pending
    BY <1>10 DEF Forward, ReadEnrollment, EnqueueThrows, Post, Answer, PostTimeout, Persist, ReportTarget, Finalize, orb
  <1>11. ASSUME NEW h, Enqueue(h) PROVE UNCHANGED pending
    BY <1>11 DEF Enqueue, Show, Check, Record, Send, Mend, Throws, orb
  <1>12. ASSUME NEW e \in Enrollments, ~PullAck(e),
                \/ issueOrbEnrollment(e) \/ Register(e) \/ Crash(e) \/ Drain(e)
                \/ \E mode \in scene.modes : Boot(e, mode)
                \/ \E k \in Events : Process(e, k)
         PROVE  UNCHANGED pending
    BY <1>12 DEF issueOrbEnrollment, Register, Crash, Drain, PullBatch, PullFails, TakeUp, Finish, Boot, Process, orb
  <1>13. ASSUME \/ \E k \in Events : handleOrbWebhook(k)
                \/ \E k \in Notices : pushFleetConfig(k)
                \/ retryFailedRelays \/ OrbDies
                \/ \E S : revokeEnrollments(S)
                \/ UNCHANGED vars
         PROVE  UNCHANGED pending
    BY <1>13 DEF handleOrbWebhook, pushFleetConfig, retryFailedRelays, OrbDies, revokeEnrollments, vars, orb
  <1>14. ASSUME NEW k \in Ids, Forward(k) PROVE
               \/ excuse'[i] \in {"logged", "evicted"}
               \/ \E j \in Events \ {i} : j \in DOMAIN pending' /\ Key[j] = pending[i].key /\ pending[i].key # NoKey
    BY <1>2, <1>3, <1>4, <1>5, <1>9, <1>10, <1>14
  <1>15. ASSUME NEW e \in Enrollments,
                \/ issueOrbEnrollment(e) \/ Register(e) \/ Crash(e) \/ Drain(e)
                \/ \E mode \in scene.modes : Boot(e, mode)
                \/ \E k \in Events : Process(e, k)
         PROVE  excuse'[i] \in {"logged", "evicted"}
    BY <1>2, <1>7, <1>9, <1>12, <1>15
  <1> QED
    BY <1>2, <1>6, <1>8, <1>9, <1>11, <1>13, <1>14, <1>15 DEF Next

\* A row queued for an enrolment whose container has not seen it is never taken away by another live enrolment: no
\* acknowledgement, crash, re-enrolment or retry deletes it (src/orb/relay.ts #9150).
THEOREM NeverStolen == Spec => NotStolen
  <1>1. Inv /\ [Next]_vars =>
          [\A i \in DOMAIN pending : LET row == pending[i] IN
             i \notin DOMAIN pending' /\ row.to # Nobody /\ hook[row.to][i].status = "none" =>
               \/ excuse'[i] \in {"logged", "evicted"}
               \/ \E j \in Events \ {i} : j \in DOMAIN pending' /\ Key[j] = row.key /\ row.key # NoKey]_vars
    BY RowGoesForCause
  <1> QED
    BY <1>1, Invariance, PTL DEF Spec, NotStolen
=============================================================================
