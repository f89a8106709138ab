---------------------------- MODULE PgQueueProofs ----------------------------
(***************************************************************************)
(* The safety of PgQueue for any number of processes, loops, producers,    *)
(* messages and faults: one inductive invariant, Inv, from which the       *)
(* invariants and the action property of the module follow.                *)
(***************************************************************************)
EXTENDS PgQueue, FiniteSetTheorems, TLAPS

\* A row that does not exist stands for nothing, and rows stand for messages that were accepted.
CleanRows ==
  \A i \in Ids : (jobs[i].status = "none" => jobs[i] = NoRow) /\ jobs[i].covers \subseteq 1 .. sends

\* A loop reserves a slot only once it asks for a background job, and runs a row with a copy of what the row stood
\* for; the twin a job is folded into is another row.
CleanLoops ==
  \A w \in Loops :
    /\ loop[w].at \in {"idle", "reclaiming"} => ~loop[w].slot
    /\ w \in Working => loop[w].id \in Ids /\ loop[w].covers \subseteq 1 .. sends
    /\ loop[w].at = "folding" => loop[w].twin \in Ids \ {loop[w].id}

\* Every enqueue() in progress has its number set aside, and the row it goes to, if it still exists, has its key.
CleanSenders ==
  /\ sends + Cardinality(Writing) <= MaxSends
  /\ \A s \in Writing : sender[s].target # 0 =>
       /\ sender[s].target \in 1 .. sends
       /\ jobs[sender[s].target].status # "none" => KeyOf(sender[s].target) = jobCoalesceKey(sender[s].msg)

\* The row of a loop that still holds its claim has the key it was claimed with, and stands for nothing more than it
\* did at the claim but what a racing write has put at risk.
Held ==
  \A w \in Working : Owns(w) =>
    /\ KeyOf(loop[w].id) = jobCoalesceKey(loop[w].msg)
    /\ jobs[loop[w].id].covers \subseteq loop[w].covers \cup raced

Inv ==
  /\ home \in Homes /\ TypeOK /\ CleanRows /\ CleanLoops /\ CleanSenders /\ Held
  /\ SlotAccounting /\ LossNeedsRace /\ SharedKeyHasCause

-----------------------------------------------------------------------------
(* Types                                                                   *)

\* The type invariant's parts: the table, the loops, the producers, the processes, what a process that is down runs,
\* the histories and the bounds.
TableOK == jobs \in [Ids -> Row] /\ \A i \in Ids : i > sends => jobs[i] = NoRow
LoopsOK == loop \in [Loops -> Loop]
Sender == [at : {"idle", "writing"}, msg : Msg, target : 0 .. MaxSends]
SendersOK == sender \in [Senders -> Sender]
SlotsOK == bg \in [Procs -> Nat]
ProcsOK ==
  /\ up \in [Procs -> {"booting", "up", "draining", "stopping", "down"}]
  /\ chores \in [Procs -> SUBSET ({"dead", "processing"} \X Ids)]
DownOK == \A p \in Procs : up[p] = "down" => \A w \in Loops : home[w] = p => loop[w] = Idle
CountsOK == sends \in 0 .. MaxSends /\ settled \cup raced \subseteq 1 .. sends
FaultsOK == faults \in 0 .. MaxFaults

\* The type invariant, by the part of the state it is about.
LEMMA TypeParts ==
  /\ TypeOK <=> TableOK /\ LoopsOK /\ SendersOK /\ SlotsOK /\ ProcsOK /\ DownOK /\ CountsOK /\ FaultsOK
  /\ TypeOK' <=> TableOK' /\ LoopsOK' /\ SendersOK' /\ SlotsOK' /\ ProcsOK' /\ DownOK' /\ CountsOK' /\ FaultsOK'
  BY DEF TypeOK, TableOK, LoopsOK, Sender, SendersOK, SlotsOK, ProcsOK, DownOK, CountsOK, FaultsOK

\* A row that does not exist, a loop and a producer with nothing to do have their types.
LEMMA EmptyType == NoMsg \in Msg /\ NoRow \in Row /\ Idle \in Loop /\ Quiet \in Sender
  <1>1. NoMsg \in Msg
    BY DEF NoMsg, Msg, JobTypes
  <1>2. NoRow \in Row
    BY <1>1 DEF NoRow, Row
  <1>3. Idle \in Loop
    BY <1>1 DEF Idle, Loop
  <1>4. Quiet \in Sender
    BY <1>1, PgAssumption DEF Quiet, Sender
  <1> QED
    BY <1>1, <1>2, <1>3, <1>4

\* Every loop and producer belongs to a process.
LEMMA HomeType ==
  ASSUME Inv
  PROVE  (\A w \in Loops : home[w] \in Procs) /\ (\A s \in Senders : home[s] \in Procs)
  BY PgAssumption DEF Inv

\* One fault more, or none, stays within the bound.
LEMMA FaultType ==
  ASSUME Inv, Fault \/ UNCHANGED faults
  PROVE  FaultsOK'
  BY PgAssumption, TypeParts DEF Inv, FaultsOK, Fault

-----------------------------------------------------------------------------
(* What most steps keep                                                    *)

\* What a step may do to row i without breaking a claim on it: keep its key, give a lease to nobody it knows, and
\* let a leased row stand for more only at risk.
KeptRow(i) ==
  /\ jobs[i].status = "none" => jobs'[i] = jobs[i]
  /\ jobs[i].status # "none" => jobs'[i].status # "none" /\ jobCoalesceKey(jobs'[i].msg) = KeyOf(i)
  /\ jobs'[i].covers \subseteq 1 .. sends'
  /\ jobs'[i].status = "processing" =>
       /\ \/ jobs[i].status = "processing" /\ jobs'[i].owner = jobs[i].owner
          \/ jobs'[i].owner = "none"
       /\ jobs'[i].covers \subseteq jobs[i].covers \cup raced'

\* It may also delete the row, or make a new one.
RowStep(i) ==
  \/ KeptRow(i)
  \/ jobs'[i] = NoRow
  \/ i > sends /\ jobs'[i].status = "pending" /\ jobs'[i].covers \subseteq 1 .. sends'

\* What a step may do to a loop other than claim: let it go on, or end it.
KeptLoop(w) ==
  loop'[w].at \in {"working", "folding"} =>
    /\ loop[w].at \in {"working", "folding"}
    /\ loop'[w].id = loop[w].id /\ loop'[w].msg = loop[w].msg /\ loop'[w].covers = loop[w].covers
    /\ loop'[w].blind = loop[w].blind
    /\ loop'[w].at = "folding" => loop'[w].twin \in Ids \ {loop'[w].id}

\* Such steps keep what loops and producers rely on.
LEMMA KeptClaims ==
  ASSUME Inv, \A i \in Ids : RowStep(i), \A w \in Loops : KeptLoop(w), sends' \in {sends, sends + 1}, raced \subseteq raced'
  PROVE  CleanRows' /\ Held' /\ SharedKeyHasCause'
         /\ \A w \in Loops : /\ w \in Working' => loop'[w].id \in Ids /\ loop'[w].covers \subseteq 1 .. sends'
                             /\ loop'[w].at = "folding" => loop'[w].twin \in Ids \ {loop'[w].id}
  <1>1. sends \in Nat /\ 1 .. sends \subseteq 1 .. sends'
    BY TypeParts, PgAssumption DEF Inv, CountsOK
  <1>2. CleanRows'
    <2> SUFFICES ASSUME NEW i \in Ids
                 PROVE  (jobs'[i].status = "none" => jobs'[i] = NoRow) /\ jobs'[i].covers \subseteq 1 .. sends'
      BY DEF CleanRows
    <2>1. (jobs[i].status = "none" => jobs[i] = NoRow) /\ RowStep(i)
      BY DEF Inv, CleanRows
    <2>2. NoRow.covers = {}
      BY DEF NoRow
    <2> QED
      BY <2>1, <2>2 DEF RowStep, KeptRow
  <1>3. ASSUME NEW w \in Working'
        PROVE  /\ w \in Working /\ loop'[w].id = loop[w].id /\ loop'[w].msg = loop[w].msg
               /\ loop'[w].covers = loop[w].covers /\ loop'[w].blind = loop[w].blind
               /\ loop[w].id \in Ids /\ loop[w].covers \subseteq 1 .. sends
               /\ Owns(w)' => Owns(w) /\ KeptRow(loop[w].id)
    <2>1. w \in Loops /\ loop'[w].at \in {"working", "folding"}
      BY DEF Working
    <2>2. /\ w \in Working /\ loop'[w].id = loop[w].id /\ loop'[w].msg = loop[w].msg
          /\ loop'[w].covers = loop[w].covers /\ loop'[w].blind = loop[w].blind
      BY <2>1 DEF KeptLoop, Working
    <2>3. loop[w].id \in Ids /\ loop[w].covers \subseteq 1 .. sends
      BY <2>1, <2>2 DEF Inv, CleanLoops
    <2>4. ASSUME Owns(w)'
          PROVE  Owns(w) /\ KeptRow(loop[w].id)
      <3>1. jobs'[loop[w].id].status = "processing" /\ jobs'[loop[w].id].owner = w
        BY <2>2, <2>4 DEF Owns
      <3>2. KeptRow(loop[w].id)
        BY <2>3, <3>1 DEF RowStep, NoRow
      <3> QED
        BY <2>1, <3>1, <3>2, FiniteAssumption DEF KeptRow, Owns
    <2> QED
      BY <2>2, <2>3, <2>4
  <1>4. Held'
    <2> SUFFICES ASSUME NEW w \in Working', Owns(w)'
                 PROVE  /\ jobCoalesceKey(jobs'[loop'[w].id].msg) = jobCoalesceKey(loop'[w].msg)
                        /\ jobs'[loop'[w].id].covers \subseteq loop'[w].covers \cup raced'
      BY DEF Held, KeyOf
    <2>1. Owns(w) /\ KeptRow(loop[w].id) /\ w \in Working
      BY <1>3
    <2>2. KeyOf(loop[w].id) = jobCoalesceKey(loop[w].msg) /\ jobs[loop[w].id].covers \subseteq loop[w].covers \cup raced
      BY <2>1 DEF Inv, Held
    <2>3. jobs'[loop[w].id].status = "processing" /\ jobs[loop[w].id].status # "none"
      BY <1>3, <2>1 DEF Owns
    <2> QED
      BY <1>3, <2>1, <2>2, <2>3 DEF KeptRow
  <1>5. SharedKeyHasCause'
    BY <1>3 DEF Inv, SharedKeyHasCause
  <1>6. ASSUME NEW w \in Loops
        PROVE  /\ w \in Working' => loop'[w].id \in Ids /\ loop'[w].covers \subseteq 1 .. sends'
               /\ loop'[w].at = "folding" => loop'[w].twin \in Ids \ {loop'[w].id}
    BY <1>1, <1>3 DEF KeptLoop
  <1> QED
    BY <1>2, <1>4, <1>5, <1>6

\* A producer that goes on writing finds the row it selected as it was, or gone.
LEMMA KeptTargets ==
  ASSUME Inv, \A i \in Ids : RowStep(i), sends' \in {sends, sends + 1},
         \A s \in Senders : sender'[s] = sender[s] \/ sender'[s] = Quiet
  PROVE  /\ Writing' \subseteq Writing
         /\ \A s \in Writing' : sender'[s].target # 0 =>
              /\ sender'[s].target \in 1 .. sends'
              /\ jobs'[sender'[s].target].status # "none" => jobCoalesceKey(jobs'[sender'[s].target].msg) = jobCoalesceKey(sender'[s].msg)
  <1>1. Writing' \subseteq Writing /\ \A s \in Writing' : sender'[s] = sender[s]
    BY DEF Writing, Quiet
  <1>2. sends \in 0 .. MaxSends /\ MaxSends \in Nat
    BY TypeParts, PgAssumption DEF Inv, CountsOK
  <1>3. ASSUME NEW s \in Writing, sender[s].target # 0
        PROVE  /\ sender[s].target \in 1 .. sends'
               /\ jobs'[sender[s].target].status # "none" => jobCoalesceKey(jobs'[sender[s].target].msg) = jobCoalesceKey(sender[s].msg)
    <2> DEFINE t == sender[s].target
    <2>1. t \in 1 .. sends /\ (jobs[t].status # "none" => KeyOf(t) = jobCoalesceKey(sender[s].msg))
      BY <1>3 DEF Inv, CleanSenders
    <2> HIDE DEF t
    <2>2. t \in Ids /\ t \in 1 .. sends' /\ ~(t > sends)
      BY <1>2, <2>1 DEF Ids
    <2>3. jobs'[t].status # "none" => jobCoalesceKey(jobs'[t].msg) = jobCoalesceKey(sender[s].msg)
      <3>1. RowStep(t) /\ NoRow.status = "none"
        BY <2>2 DEF NoRow
      <3> QED
        BY <2>1, <2>2, <3>1 DEF RowStep, KeptRow
    <2> QED
      BY <2>2, <2>3 DEF t
  <1> QED
    BY <1>1, <1>3

\* No producer begins: no number more is set aside.
LEMMA KeptNumbers ==
  ASSUME Inv, Writing' \subseteq Writing, UNCHANGED sends
  PROVE  sends' + Cardinality(Writing') <= MaxSends
  <1>1. IsFiniteSet(Writing)
    BY FiniteAssumption, FS_Subset DEF Writing
  <1>2. IsFiniteSet(Writing') /\ Cardinality(Writing') <= Cardinality(Writing)
    BY <1>1, FS_Subset
  <1>3. Cardinality(Writing) \in Nat /\ Cardinality(Writing') \in Nat
    BY <1>1, <1>2, FS_CardinalityType
  <1>4. sends \in Nat /\ MaxSends \in Nat /\ sends + Cardinality(Writing) <= MaxSends
    BY TypeParts, PgAssumption DEF Inv, CountsOK, CleanSenders
  <1> QED
    BY <1>2, <1>3, <1>4

\* A message stays accounted for when what rows stood for is in a row, settled or at risk.
LEMMA KeptCovers ==
  ASSUME Inv, settled \subseteq settled', raced \subseteq raced',
         \A i \in Ids : jobs[i].covers \subseteq settled' \cup raced' \cup UNION {jobs'[j].covers : j \in Ids},
         \A n \in 1 .. sends' : n \in 1 .. sends \/ n \in raced' \/ \E j \in Ids : n \in jobs'[j].covers
  PROVE  LossNeedsRace'
  BY DEF Inv, LossNeedsRace, Covered

-----------------------------------------------------------------------------
(* Background slots                                                        *)

\* The loops of a process that hold a background slot.
Holders(p) == {w \in Loops : home[w] = p /\ loop[w].slot}

\* The loops of a process that hold a slot can be counted.
LEMMA CountedHolders ==
  ASSUME NEW p
  PROVE  IsFiniteSet(Holders(p)) /\ Cardinality(Holders(p)) \in Nat
  <1>1. Holders(p) \subseteq Loops
    BY DEF Holders
  <1> QED
    BY <1>1, FiniteAssumption, FS_Subset, FS_CardinalityType

\* What SlotAccounting says, with the holders named.
LEMMA SlotParts ==
  /\ SlotAccounting <=> \A p \in Procs : bg[p] = Cardinality(Holders(p)) /\ bg[p] <= BackgroundConcurrency
  /\ SlotAccounting' <=> \A p \in Procs : bg'[p] = Cardinality(Holders(p)') /\ bg'[p] <= BackgroundConcurrency
  BY DEF SlotAccounting, Holders

\* A step that neither reserves nor gives back a slot.
LEMMA SlotsSame ==
  ASSUME Inv, UNCHANGED <<home, bg>>, \A w \in Loops : loop'[w].slot = loop[w].slot
  PROVE  SlotAccounting' /\ SlotsOK'
  <1>1. \A p \in Procs : Holders(p)' = Holders(p)
    BY DEF Holders
  <1> QED
    BY <1>1, SlotParts, TypeParts DEF Inv, SlotsOK

\* A slot that a loop holds is counted.
LEMMA HeldSlot ==
  ASSUME Inv, NEW w \in Loops, loop[w].slot
  PROVE  bg[home[w]] \in Nat /\ bg[home[w]] >= 1
  <1> DEFINE h == home[w]
  <1>1. h \in Procs /\ bg[h] \in Nat /\ bg[h] = Cardinality(Holders(h))
    BY HomeType, SlotParts, TypeParts DEF Inv, SlotsOK
  <1>2. Holders(h) # {}
    BY DEF Holders
  <1>3. Cardinality(Holders(h)) # 0
    BY <1>2, CountedHolders, FS_EmptySet
  <1> QED
    BY <1>1, <1>3

\* A loop gives back the slot it holds, if any.
LEMMA SlotFreed ==
  ASSUME Inv, NEW w \in Loops, UNCHANGED home, ~loop'[w].slot,
         \A v \in Loops \ {w} : loop'[v].slot = loop[v].slot,
         bg' = IF loop[w].slot THEN [bg EXCEPT ![home[w]] = @ - 1] ELSE bg
  PROVE  SlotAccounting' /\ SlotsOK'
  <1>1. CASE ~loop[w].slot
    <2>1. \A p \in Procs : Holders(p)' = Holders(p)
      BY <1>1 DEF Holders
    <2> QED
      BY <1>1, <2>1, SlotParts, TypeParts DEF Inv, SlotsOK
  <1>2. CASE loop[w].slot
    <2> DEFINE h == home[w]
    <2>1. h \in Procs /\ bg \in [Procs -> Nat]
      BY HomeType, TypeParts DEF Inv, SlotsOK
    <2>2. \A p \in Procs : p # h => Holders(p)' = Holders(p)
      BY DEF Holders
    <2>3. Holders(h)' = Holders(h) \ {w} /\ w \in Holders(h)
      BY <1>2 DEF Holders
    <2>4. Cardinality(Holders(h)') = Cardinality(Holders(h)) - 1
      BY <2>3, CountedHolders, FS_RemoveElement
    <2>6. bg[h] = Cardinality(Holders(h)) /\ bg[h] <= BackgroundConcurrency
      BY <2>1, SlotParts DEF Inv
    <2>7. bg'[h] = bg[h] - 1 /\ \A p \in Procs : p # h => bg'[p] = bg[p]
      BY <1>2, <2>1
    <2>8. bg[h] - 1 \in Nat /\ bg[h] - 1 <= BackgroundConcurrency
      BY <1>2, <2>1, <2>6, HeldSlot, PgAssumption
    <2>9. SlotsOK'
      BY <1>2, <2>1, <2>8 DEF SlotsOK
    <2> QED
      BY <2>1, <2>2, <2>4, <2>6, <2>7, <2>8, <2>9, SlotParts DEF Inv
  <1> QED
    BY <1>1, <1>2

\* A loop that held none reserves one, below the limit.
LEMMA SlotTaken ==
  ASSUME Inv, NEW w \in Loops, UNCHANGED home, ~loop[w].slot, loop'[w].slot,
         \A v \in Loops \ {w} : loop'[v].slot = loop[v].slot,
         bg[home[w]] < BackgroundConcurrency, bg' = [bg EXCEPT ![home[w]] = @ + 1]
  PROVE  SlotAccounting' /\ SlotsOK'
  <1> DEFINE h == home[w]
  <1>1. h \in Procs /\ bg \in [Procs -> Nat]
    BY HomeType, TypeParts DEF Inv, SlotsOK
  <1>2. \A p \in Procs : p # h => Holders(p)' = Holders(p)
    BY DEF Holders
  <1>3. Holders(h)' = Holders(h) \cup {w} /\ w \notin Holders(h)
    BY DEF Holders
  <1>4. Cardinality(Holders(h)') = Cardinality(Holders(h)) + 1
    BY <1>3, CountedHolders, FS_AddElement
  <1>5. bg[h] = Cardinality(Holders(h))
    BY <1>1, SlotParts DEF Inv
  <1>6. bg'[h] = bg[h] + 1 /\ \A p \in Procs : p # h => bg'[p] = bg[p]
    BY <1>1
  <1>7. bg[h] + 1 \in Nat /\ bg[h] + 1 <= BackgroundConcurrency
    BY <1>1, PgAssumption
  <1>8. SlotsOK'
    BY <1>1, <1>7 DEF SlotsOK
  <1> QED
    BY <1>1, <1>2, <1>4, <1>5, <1>6, <1>7, <1>8, SlotParts DEF Inv

\* A process that ends forgets its slots with its loops.
LEMMA SlotsForgotten ==
  ASSUME Inv, NEW p \in Procs, Forget(p)
  PROVE  SlotAccounting' /\ SlotsOK'
  <1>1. bg \in [Procs -> Nat] /\ bg' = [bg EXCEPT ![p] = 0] /\ UNCHANGED home
    BY TypeParts DEF Inv, SlotsOK, Forget
  <1>2. \A w \in Loops : loop'[w] = IF home[w] = p THEN Idle ELSE loop[w]
    BY DEF Forget
  <1>3. Holders(p)' = {} /\ \A q \in Procs : q # p => Holders(q)' = Holders(q)
    BY <1>1, <1>2 DEF Holders, Idle
  <1>4. Cardinality(Holders(p)') = 0
    BY <1>3, FS_EmptySet
  <1>5. SlotsOK'
    BY <1>1 DEF SlotsOK
  <1>6. \A q \in Procs : bg[q] = Cardinality(Holders(q)) /\ bg[q] <= BackgroundConcurrency
    BY SlotParts DEF Inv
  <1>7. ASSUME NEW q \in Procs
        PROVE  bg'[q] = Cardinality(Holders(q)') /\ bg'[q] <= BackgroundConcurrency
    <2>1. CASE q = p
      BY <1>1, <1>4, <2>1, PgAssumption
    <2>2. CASE q # p
      BY <1>1, <1>3, <1>6, <2>2
    <2> QED
      BY <2>1, <2>2
  <1> QED
    BY <1>5, <1>7, SlotParts

-----------------------------------------------------------------------------
(* Steps that keep every row's key and what it stands for                  *)

\* Row i is put back, buried or left as it is, or its lease is aged or renewed.
Touched(i) ==
  \/ jobs'[i] = jobs[i]
  \/ /\ jobs[i].status # "none" /\ jobs'[i] \in Row
     /\ jobs'[i].msg = jobs[i].msg /\ jobs'[i].covers = jobs[i].covers
     /\ \/ jobs'[i].status \in {"pending", "dead"}
        \/ jobs'[i].status = jobs[i].status /\ jobs'[i].owner = jobs[i].owner

\* The table after such a step.
LEMMA TouchedRows ==
  ASSUME Inv, jobs' = [i \in Ids |-> jobs'[i]], \A i \in Ids : Touched(i), UNCHANGED <<sends, settled, raced>>
  PROVE  TableOK' /\ CountsOK' /\ (\A i \in Ids : KeptRow(i)) /\ LossNeedsRace'
  <1>1. jobs \in [Ids -> Row] /\ \A i \in Ids : i > sends => jobs[i] = NoRow
    BY TypeParts DEF Inv, TableOK
  <1>2. \A i \in Ids : jobs'[i] \in Row
    BY <1>1 DEF Touched
  <1>3. TableOK'
    <2>1. jobs' \in [Ids -> Row]
      BY <1>2
    <2>2. \A i \in Ids : i > sends' => jobs'[i] = NoRow
      BY <1>1 DEF Touched, NoRow
    <2> QED
      BY <2>1, <2>2 DEF TableOK
  <1>4. ASSUME NEW i \in Ids
        PROVE  KeptRow(i)
    <2>1. jobs[i].covers \subseteq 1 .. sends
      BY DEF Inv, CleanRows
    <2> QED
      BY <2>1 DEF Touched, KeptRow, KeyOf
  <1>5. \A i \in Ids : jobs'[i].covers = jobs[i].covers
    BY DEF Touched
  <1>6. LossNeedsRace'
    BY <1>5, KeptCovers
  <1>7. CountsOK'
    BY TypeParts DEF Inv, CountsOK
  <1> QED
    BY <1>3, <1>4, <1>6, <1>7

\* The loops of a step that claims nothing keep their slots and claims clean.
CleanStep ==
  /\ LoopsOK' /\ DownOK' /\ SlotsOK' /\ SlotAccounting'
  /\ \A w \in Loops : KeptLoop(w) /\ (loop'[w].at \in {"idle", "reclaiming"} => ~loop'[w].slot)

\* The producers of a step that begins no enqueue() go on or are forgotten.
QuietSenders == SendersOK' /\ \A s \in Senders : sender'[s] = sender[s] \/ sender'[s] = Quiet

\* A step that leaves the numbers alone is safe when its rows, loops and producers are.
LEMMA SafeStep ==
  ASSUME Inv, TableOK', CountsOK', \A i \in Ids : RowStep(i), LossNeedsRace', CleanStep, QuietSenders, ProcsOK',
         FaultsOK', UNCHANGED <<home, sends>>, raced \subseteq raced'
  PROVE  Inv'
  <1>1. /\ CleanRows' /\ Held' /\ SharedKeyHasCause'
        /\ \A w \in Loops : /\ w \in Working' => loop'[w].id \in Ids /\ loop'[w].covers \subseteq 1 .. sends'
                            /\ loop'[w].at = "folding" => loop'[w].twin \in Ids \ {loop'[w].id}
    BY KeptClaims DEF CleanStep
  <1>2. CleanLoops'
    BY <1>1 DEF CleanLoops, CleanStep
  <1>3. CleanSenders'
    BY KeptTargets, KeptNumbers DEF CleanSenders, QuietSenders, KeyOf
  <1>4. TypeOK'
    BY TypeParts DEF CleanStep, QuietSenders
  <1> QED
    BY <1>1, <1>2, <1>3, <1>4 DEF Inv, CleanStep

\* In particular when every row is only touched.
LEMMA TouchingStep ==
  ASSUME Inv, jobs' = [i \in Ids |-> jobs'[i]], \A i \in Ids : Touched(i), UNCHANGED <<home, sends, settled, raced>>,
         CleanStep, QuietSenders, ProcsOK', FaultsOK'
  PROVE  Inv'
  <1>1. TableOK' /\ CountsOK' /\ LossNeedsRace' /\ \A i \in Ids : KeptRow(i)
    BY TouchedRows
  <1>2. \A i \in Ids : RowStep(i)
    BY <1>1 DEF RowStep
  <1> QED
    BY <1>1, <1>2, SafeStep

\* The loops and processes when only the table changes.
LEMMA LoopsAlone ==
  ASSUME Inv, UNCHANGED <<home, loop, bg, up>>
  PROVE  CleanStep
  <1>1. \A w \in Loops : KeptLoop(w)
    BY DEF Inv, CleanLoops, KeptLoop
  <1>2. \A w \in Loops : loop'[w].at \in {"idle", "reclaiming"} => ~loop'[w].slot
    BY DEF Inv, CleanLoops
  <1>3. LoopsOK' /\ DownOK'
    BY TypeParts DEF Inv, LoopsOK, DownOK
  <1> QED
    BY <1>1, <1>2, <1>3, SlotsSame DEF CleanStep

\* A step that no producer takes part in.
LEMMA SendersAlone ==
  ASSUME Inv, UNCHANGED sender
  PROVE  QuietSenders
  BY TypeParts DEF Inv, QuietSenders, SendersOK

\* A step that changes no process.
LEMMA ProcsAlone ==
  ASSUME Inv, UNCHANGED <<up, chores>>
  PROVE  ProcsOK'
  BY TypeParts DEF Inv, ProcsOK

\* A step that writes no row touches each at most.
LEMMA TableAlone ==
  ASSUME Inv, UNCHANGED jobs
  PROVE  jobs' = [i \in Ids |-> jobs'[i]] /\ \A i \in Ids : Touched(i)
  BY TypeParts DEF Inv, TableOK, Touched

\* A step of the loops alone.
LEMMA LoopsOnly ==
  ASSUME Inv, UNCHANGED <<home, jobs, sender, up, chores, sends, settled, raced>>, CleanStep, Fault \/ UNCHANGED faults
  PROVE  Inv'
  BY TableAlone, SendersAlone, ProcsAlone, FaultType, TouchingStep

\* A loop that is doing something belongs to a process that is not down.
LEMMA BusyUp ==
  ASSUME Inv, NEW w \in Loops, loop[w].at # "idle"
  PROVE  up[home[w]] # "down"
  <1>1. loop[w] # Idle
    BY DEF Idle
  <1> QED
    BY <1>1, HomeType, TypeParts DEF Inv, DownOK

\* One loop moves on to l.
LEMMA OneLoop ==
  ASSUME Inv, NEW w \in Loops, NEW l \in Loop, loop' = [loop EXCEPT ![w] = l], UNCHANGED <<home, up>>,
         l = Idle \/ up[home[w]] # "down", KeptLoop(w), l.at \in {"idle", "reclaiming"} => ~l.slot,
         SlotAccounting', SlotsOK'
  PROVE  CleanStep
  <1>1. loop \in [Loops -> Loop]
    BY TypeParts DEF Inv, LoopsOK
  <1>2. loop'[w] = l /\ \A v \in Loops : v # w => loop'[v] = loop[v]
    BY <1>1
  <1>3. LoopsOK'
    BY <1>1 DEF LoopsOK
  <1>4. DownOK'
    BY <1>2, TypeParts DEF Inv, DownOK
  <1>5. ASSUME NEW v \in Loops
        PROVE  KeptLoop(v) /\ (loop'[v].at \in {"idle", "reclaiming"} => ~loop'[v].slot)
    <2>1. CASE v = w
      BY <1>2, <2>1
    <2>2. CASE v # w
      BY <1>2, <2>2 DEF Inv, CleanLoops, KeptLoop
    <2> QED
      BY <2>1, <2>2
  <1> QED
    BY <1>3, <1>4, <1>5 DEF CleanStep

\* The slots when one loop moves on to l and keeps its slot, or gives it back.
LEMMA OneSlot ==
  ASSUME Inv, NEW w \in Loops, NEW l \in Loop, loop' = [loop EXCEPT ![w] = l], UNCHANGED home,
         \/ l.slot = loop[w].slot /\ UNCHANGED bg
         \/ ~l.slot /\ bg' = (IF loop[w].slot THEN [bg EXCEPT ![home[w]] = @ - 1] ELSE bg)
  PROVE  SlotAccounting' /\ SlotsOK'
  <1>1. loop'[w] = l /\ \A v \in Loops : v # w => loop'[v] = loop[v]
    BY TypeParts DEF Inv, LoopsOK
  <1>2. CASE l.slot = loop[w].slot /\ UNCHANGED bg
    <2>1. \A v \in Loops : loop'[v].slot = loop[v].slot
      BY <1>1, <1>2
    <2> QED
      BY <1>2, <2>1, SlotsSame
  <1>3. CASE ~l.slot /\ bg' = (IF loop[w].slot THEN [bg EXCEPT ![home[w]] = @ - 1] ELSE bg)
    BY <1>1, <1>3, SlotFreed
  <1> QED
    BY <1>2, <1>3

\* The finally block gives back the slot of its loop.
LEMMA FinallyClean ==
  ASSUME Inv, NEW w \in Loops, Finally(w), UNCHANGED <<home, up>>
  PROVE  CleanStep
  <1>1. bg' = IF loop[w].slot THEN [bg EXCEPT ![home[w]] = @ - 1] ELSE bg
    <2>1. CASE loop[w].slot
      <3>1. bg[home[w]] \in Nat /\ bg[home[w]] >= 1
        BY <2>1, HeldSlot
      <3>2. Max2(0, bg[home[w]] - 1) = bg[home[w]] - 1
        BY <3>1 DEF Max2
      <3> QED
        BY <2>1, <3>2 DEF Finally
    <2>2. CASE ~loop[w].slot
      BY <2>2 DEF Finally
    <2> QED
      BY <2>1, <2>2
  <1>2. Idle.at = "idle" /\ Idle.slot = FALSE /\ Idle \in Loop /\ loop' = [loop EXCEPT ![w] = Idle]
    BY EmptyType DEF Idle, Finally
  <1>3. loop'[w] = Idle
    BY <1>2, TypeParts DEF Inv, LoopsOK
  <1>4. KeptLoop(w)
    BY <1>2, <1>3 DEF KeptLoop
  <1>5. SlotAccounting' /\ SlotsOK'
    BY <1>1, <1>2, OneSlot
  <1> QED
    BY <1>2, <1>4, <1>5, OneLoop

\* A row that is put back is a pending row, with the same message for the same sends.
LEMMA RependType ==
  ASSUME NEW row \in Row, NEW d \in Int
  PROVE  /\ Repend(row, d) \in Row /\ Repend(row, d).status = "pending"
         /\ Repend(row, d).msg = row.msg /\ Repend(row, d).covers = row.covers
  BY DEF Repend, Row

\* A row put back with its attempts counted as n.
Retry(row, d, n) == [Repend(row, d) EXCEPT !.attempts = n]

\* It is a pending row, with the same message for the same sends.
LEMMA RetriedType ==
  ASSUME NEW row \in Row, NEW d \in Int, NEW n \in Nat
  PROVE  /\ Retry(row, d, n) \in Row /\ Retry(row, d, n).status = "pending"
         /\ Retry(row, d, n).msg = row.msg /\ Retry(row, d, n).covers = row.covers
  <1>1. PICK q : q = Repend(row, d)
    OBVIOUS
  <1>2. q \in Row /\ q.status = "pending" /\ q.msg = row.msg /\ q.covers = row.covers
    BY <1>1, RependType
  <1>3. Retry(row, d, n) = [q EXCEPT !.attempts = n]
    BY <1>1 DEF Retry
  <1> QED
    BY <1>2, <1>3 DEF Row

\* A row that has used up its attempts, n by now.
Bury(row, n) == [row EXCEPT !.status = "dead", !.attempts = n]

\* It is a dead row, with the same message for the same sends.
LEMMA BuriedType ==
  ASSUME NEW row \in Row, NEW n \in Nat
  PROVE  /\ Bury(row, n) \in Row /\ Bury(row, n).status = "dead"
         /\ Bury(row, n).msg = row.msg /\ Bury(row, n).covers = row.covers
  BY DEF Bury, Row

\* A row that is claimed is a leased row, with the same message for the same sends.
LEMMA LeasedType ==
  ASSUME NEW row \in Row, NEW w \in Loops \cup {"none"}
  PROVE  /\ Leased(row, w) \in Row /\ Leased(row, w).status = "processing" /\ Leased(row, w).owner = w
         /\ Leased(row, w).msg = row.msg /\ Leased(row, w).covers = row.covers
  <1>1. PICK r : r = Leased(row, w)
    OBVIOUS
  <1>2. r = [status |-> "processing", msg |-> row.msg, attempts |-> row.attempts, run_after |-> 0, covers |-> row.covers,
             owner |-> w]
    BY <1>1 DEF Leased, Row
  <1>3. r \in Row
    BY <1>2 DEF Row
  <1> QED
    BY <1>1, <1>2, <1>3

\* The SELECT of the reclaim.
LEMMA LookInv ==
  ASSUME Inv, NEW w \in Loops, Look(w)
  PROVE  Inv'
  <1> DEFINE l == [Idle EXCEPT !.at = "reclaiming", !.stale = {<<i, jobs[i].attempts>> : i \in Expired}]
  <1>1. \A i \in Expired : i \in Ids /\ jobs[i].attempts \in Nat
    BY TypeParts DEF Inv, TableOK, Row, Expired, InStatus
  <1>2. {<<i, jobs[i].attempts>> : i \in Expired} \subseteq Ids \X Nat
    BY <1>1
  <1>3. l \in Loop
    BY <1>2, EmptyType DEF Loop
  <1>4. l.at = "reclaiming" /\ l.slot = FALSE /\ loop' = [loop EXCEPT ![w] = l] /\ up[home[w]] # "down"
    BY DEF Look, Idle
  <1> HIDE DEF l
  <1>5. loop[w].slot = FALSE
    BY TypeParts DEF Inv, CleanLoops, Look, LoopsOK, Loop
  <1>6. KeptLoop(w)
    BY <1>3, <1>4, TypeParts DEF Inv, LoopsOK, KeptLoop
  <1>7. SlotAccounting' /\ SlotsOK'
    BY <1>3, <1>4, <1>5, OneSlot DEF Look
  <1>8. CleanStep
    BY <1>3, <1>4, <1>6, <1>7, OneLoop DEF Look
  <1> QED
    BY <1>8, LoopsOnly DEF Look

\* The row of a late reclaim is put back or buried if it is still leased.
LEMMA ReclaimInv ==
  ASSUME Inv, NEW w \in Loops, Reclaim(w)
  PROVE  Inv'
  <1>1. PICK r \in loop[w].stale :
          /\ jobs' = IF r[1] \in ActiveIds(home[w]) THEN jobs ELSE [jobs EXCEPT ![r[1]] = Reclaimed(@, r[2] + 1)]
          /\ loop' = [loop EXCEPT ![w].stale = @ \ {r}]
    BY DEF Reclaim
  <1>2. loop[w] \in Loop /\ r[1] \in Ids /\ r[2] \in Nat /\ jobs \in [Ids -> Row]
    BY TypeParts DEF Inv, LoopsOK, Loop, TableOK
  <1>3. jobs' = [i \in Ids |-> jobs'[i]] /\ \A i \in Ids : Touched(i)
    <2>1. jobs[r[1]] \in Row /\ r[2] + 1 \in Nat
      BY <1>2
    <2>2. CASE jobs[r[1]].status = "processing"
      <3>1. PICK row :
              /\ row = Reclaimed(jobs[r[1]], r[2] + 1)
              /\ \/ row = Bury(jobs[r[1]], r[2] + 1)
                 \/ row = Retry(jobs[r[1]], 0, r[2] + 1)
        BY <2>2 DEF Reclaimed, Bury, Retry
      <3>2. row \in Row /\ row.msg = jobs[r[1]].msg /\ row.covers = jobs[r[1]].covers /\ row.status \in {"pending", "dead"}
        <4>1. CASE row = Bury(jobs[r[1]], r[2] + 1)
          BY <2>1, <4>1, BuriedType
        <4>2. CASE row = Retry(jobs[r[1]], 0, r[2] + 1)
          BY <2>1, <4>2, RetriedType
        <4> QED
          BY <3>1, <4>1, <4>2
      <3>3. jobs' = jobs \/ jobs' = [jobs EXCEPT ![r[1]] = row]
        BY <1>1, <3>1
      <3> QED
        BY <1>2, <2>2, <3>2, <3>3 DEF Touched
    <2>3. CASE jobs[r[1]].status # "processing"
      <3>1. Reclaimed(jobs[r[1]], r[2] + 1) = jobs[r[1]]
        BY <2>3 DEF Reclaimed
      <3>2. jobs' = jobs \/ jobs' = [jobs EXCEPT ![r[1]] = jobs[r[1]]]
        BY <1>1, <3>1
      <3>3. jobs' = jobs
        BY <1>2, <3>2
      <3> QED
        BY <3>3, TableAlone
    <2> QED
      BY <2>2, <2>3
  <1> DEFINE l == [loop[w] EXCEPT !.stale = @ \ {r}]
  <1>4. l \in Loop /\ l.at = loop[w].at /\ l.slot = loop[w].slot /\ loop' = [loop EXCEPT ![w] = l]
    BY <1>1, <1>2 DEF Loop
  <1>5. loop[w].at = "reclaiming" /\ ~loop[w].slot
    BY DEF Reclaim, Inv, CleanLoops
  <1> HIDE DEF l
  <1>6. KeptLoop(w)
    BY <1>4, <1>5, TypeParts DEF Inv, LoopsOK, KeptLoop
  <1>7. SlotAccounting' /\ SlotsOK'
    BY <1>4, OneSlot DEF Reclaim
  <1>8. CleanStep
    BY <1>4, <1>5, <1>6, <1>7, BusyUp, OneLoop DEF Reclaim
  <1> QED
    BY <1>3, <1>8, TouchingStep, SendersAlone, ProcsAlone, FaultType DEF Reclaim

\* A claim statement is a loop that runs nothing.
LEMMA ClaimStatementType ==
  ASSUME Inv, NEW b \in BOOLEAN
  PROVE  ClaimStatement(b) \in Loop /\ ClaimStatement(b).at = "claiming" /\ ClaimStatement(b).slot = b
  <1>1. Offered(b) \subseteq Ids
    BY DEF Offered, InStatus
  <1> QED
    BY <1>1, EmptyType DEF ClaimStatement, Loop, Idle

\* A loop that holds no slot asks the background, or gives up.
LEMMA AskBackgroundClean ==
  ASSUME Inv, NEW w \in Loops, AskBackground(w), ~loop[w].slot, up[home[w]] # "down", UNCHANGED <<home, up>>
  PROVE  CleanStep
  <1>1. loop \in [Loops -> Loop] /\ Idle \in Loop /\ Idle.slot = FALSE /\ Idle.at = "idle" /\ loop[w].slot \in BOOLEAN
    BY EmptyType, TypeParts DEF Inv, LoopsOK, Loop, Idle
  <1>2. CASE /\ bg[home[w]] < BackgroundConcurrency
             /\ loop' = [loop EXCEPT ![w] = ClaimStatement(TRUE)] /\ bg' = [bg EXCEPT ![home[w]] = @ + 1]
    <2> DEFINE l == ClaimStatement(TRUE)
    <2>1. l \in Loop /\ l.at = "claiming" /\ l.slot = TRUE
      BY ClaimStatementType
    <2> HIDE DEF l
    <2>2. loop'[w] = l /\ \A v \in Loops : v # w => loop'[v] = loop[v]
      BY <1>1, <1>2 DEF l
    <2>3. SlotAccounting' /\ SlotsOK'
      BY <1>2, <2>1, <2>2, SlotTaken
    <2>4. KeptLoop(w)
      BY <2>1, <2>2 DEF KeptLoop
    <2>5. loop' = [loop EXCEPT ![w] = l]
      BY <1>2 DEF l
    <2> QED
      BY <2>1, <2>3, <2>4, <2>5, OneLoop
  <1>3. CASE loop' = [loop EXCEPT ![w] = Idle] /\ UNCHANGED bg
    <2>1. SlotAccounting' /\ SlotsOK'
      BY <1>1, <1>3, OneSlot
    <2>2. KeptLoop(w)
      BY <1>1, <1>3 DEF KeptLoop
    <2> QED
      BY <1>1, <1>3, <2>1, <2>2, OneLoop
  <1> QED
    BY <1>2, <1>3 DEF AskBackground

\* claimNext begins.
LEMMA StartClaimInv ==
  ASSUME Inv, NEW w \in Loops, StartClaim(w)
  PROVE  Inv'
  <1>1. ~loop[w].slot /\ up[home[w]] # "down"
    BY BusyUp DEF StartClaim, Inv, CleanLoops
  <1>2. CASE AskBackground(w)
    BY <1>1, <1>2, AskBackgroundClean, LoopsOnly DEF StartClaim
  <1>3. CASE loop' = [loop EXCEPT ![w] = ClaimStatement(FALSE)] /\ UNCHANGED bg
    <2> DEFINE l == ClaimStatement(FALSE)
    <2>1. l \in Loop /\ l.at = "claiming" /\ l.slot = FALSE
      BY ClaimStatementType
    <2> HIDE DEF l
    <2>2. loop' = [loop EXCEPT ![w] = l] /\ loop \in [Loops -> Loop]
      BY <1>3, TypeParts DEF l, Inv, LoopsOK
    <2>3. KeptLoop(w)
      BY <2>1, <2>2 DEF KeptLoop
    <2>4. SlotAccounting' /\ SlotsOK'
      <3>1. loop[w].slot = FALSE
        BY <1>1, <2>2 DEF Loop
      <3> QED
        BY <1>3, <2>1, <2>2, <3>1, OneSlot DEF StartClaim
    <2> QED
      BY <1>1, <2>1, <2>2, <2>3, <2>4, OneLoop, LoopsOnly DEF StartClaim
  <1> QED
    BY <1>2, <1>3 DEF StartClaim

\* A claim that returns no row.
LEMMA ClaimNothingInv ==
  ASSUME Inv, NEW w \in Loops, ClaimNothing(w)
  PROVE  Inv'
  <1>1. up[home[w]] # "down"
    BY BusyUp DEF ClaimNothing
  <1>2. CASE ~loop[w].slot /\ AskBackground(w)
    BY <1>1, <1>2, AskBackgroundClean, LoopsOnly DEF ClaimNothing
  <1>3. CASE loop[w].slot /\ loop' = [loop EXCEPT ![w] = Idle] /\ bg' = [bg EXCEPT ![home[w]] = @ - 1]
    <2>1. Finally(w)
      <3>1. Max2(0, bg[home[w]] - 1) = bg[home[w]] - 1
        BY <1>3, HeldSlot DEF Max2
      <3> QED
        BY <1>3, <3>1 DEF Finally
    <2> QED
      BY <2>1, FinallyClean, LoopsOnly DEF ClaimNothing
  <1> QED
    BY <1>2, <1>3 DEF ClaimNothing

\* A claim that throws gives its slot back, and may leave a row leased to nobody.
LEMMA ClaimThrowsInv ==
  ASSUME Inv, NEW w \in Loops, ClaimThrows(w)
  PROVE  Inv'
  <1>1. CleanStep
    <2>1. Finally(w)
      <3>1. loop[w].slot => Max2(0, bg[home[w]] - 1) = bg[home[w]] - 1
        BY HeldSlot DEF Max2
      <3> QED
        BY <3>1 DEF Finally, ClaimThrows, RolledBack
    <2> QED
      BY <2>1, FinallyClean DEF ClaimThrows
  <1>2. CASE UNCHANGED jobs
    BY <1>1, <1>2, LoopsOnly DEF ClaimThrows
  <1>3. ASSUME NEW i \in Claimable(w), jobs' = [jobs EXCEPT ![i] = Leased(@, "none")]
        PROVE  Inv'
    <2>1. i \in Ids /\ jobs \in [Ids -> Row] /\ jobs[i].status = "pending"
      BY TypeParts DEF Inv, LoopsOK, Loop, TableOK, Claimable
    <2> DEFINE row == Leased(jobs[i], "none")
    <2>2. /\ row \in Row /\ row.msg = jobs[i].msg /\ row.covers = jobs[i].covers
          /\ row.status = "processing" /\ row.owner = "none"
      BY <2>1, LeasedType
    <2> HIDE DEF row
    <2>3. jobs'[i] = row /\ jobs' \in [Ids -> Row] /\ \A j \in Ids : j # i => jobs'[j] = jobs[j]
      BY <1>3, <2>1, <2>2 DEF row
    <2>4. UNCHANGED <<home, sends, settled, raced>>
      BY DEF ClaimThrows
    <2>5. ASSUME NEW j \in Ids
          PROVE  RowStep(j) /\ jobs'[j].covers = jobs[j].covers
      <3>1. jobs[j].covers \subseteq 1 .. sends'
        BY <2>4 DEF Inv, CleanRows
      <3>2. CASE j = i
        BY <2>1, <2>2, <2>3, <3>1, <3>2 DEF RowStep, KeptRow, KeyOf
      <3>3. CASE j # i
        BY <2>3, <3>1, <3>3 DEF RowStep, KeptRow, KeyOf
      <3> QED
        BY <3>2, <3>3
    <2>6. TableOK' /\ CountsOK'
      <3>1. \A j \in Ids : j > sends => jobs[j] = NoRow
        BY TypeParts DEF Inv, TableOK
      <3>2. ~(i > sends)
        BY <2>1, <3>1 DEF NoRow
      <3> QED
        BY <2>3, <2>4, <3>1, <3>2, TypeParts DEF Inv, TableOK, CountsOK
    <2>7. LossNeedsRace'
      <3>1. \A j \in Ids : jobs[j].covers \subseteq UNION {jobs'[k].covers : k \in Ids}
        BY <2>5
      <3> QED
        BY <2>4, <3>1, KeptCovers
    <2> QED
      BY <1>1, <2>4, <2>5, <2>6, <2>7, SafeStep, SendersAlone, ProcsAlone, FaultType DEF ClaimThrows
  <1> QED
    BY <1>2, <1>3 DEF ClaimThrows

\* The connection is lost: the row is left to the reclaim.
LEMMA LeaveForReclaimInv ==
  ASSUME Inv, NEW w \in Loops, LeaveForReclaim(w)
  PROVE  Inv'
  BY FinallyClean, LoopsOnly DEF LeaveForReclaim

\* A job that ends with its row touched at most, by a write that finds the row or not.
LEMMA UpdateInv ==
  ASSUME Inv, NEW w \in Loops, NEW i \in Ids, NEW row \in Row, Update(i, row),
         row.msg = jobs[i].msg, row.covers = jobs[i].covers, row.status \in {"pending", "dead"},
         Finally(w), UNCHANGED <<home, sender, up, chores, sends, settled, raced, faults>>
  PROVE  Inv'
  <1>1. jobs \in [Ids -> Row]
    BY TypeParts DEF Inv, TableOK
  <1>2. jobs' = [j \in Ids |-> jobs'[j]] /\ \A j \in Ids : Touched(j)
    BY <1>1 DEF Update, Touched
  <1> QED
    BY <1>2, FinallyClean, TouchingStep, SendersAlone, ProcsAlone, FaultType

\* A loop at work runs a row of the table.
LEMMA WorkingRow ==
  ASSUME Inv, NEW w \in Loops, loop[w].at \in {"working", "folding"}
  PROVE  /\ w \in Working /\ loop[w] \in Loop /\ loop[w].id \in Ids /\ jobs[loop[w].id] \in Row
         /\ loop[w].covers \subseteq 1 .. sends
  BY TypeParts DEF Inv, CleanLoops, LoopsOK, TableOK, Working

\* A job that a gate or a lock defers.
LEMMA PutBackInv ==
  ASSUME Inv, NEW w \in Loops, PutBack(w)
  PROVE  Inv'
  <1>1. loop[w].id \in Ids /\ jobs[loop[w].id] \in Row
    BY WorkingRow DEF PutBack, Ends
  <1> DEFINE row == Repend(jobs[loop[w].id], 1)
  <1>2. row \in Row /\ row.status = "pending" /\ row.msg = jobs[loop[w].id].msg /\ row.covers = jobs[loop[w].id].covers
    BY <1>1, RependType
  <1>3. Update(loop[w].id, row)
    BY DEF PutBack
  <1> HIDE DEF row
  <1> QED
    BY <1>1, <1>2, <1>3, UpdateInv DEF PutBack, Ends

\* A job that fails is put back, or buried.
LEMMA FailInv ==
  ASSUME Inv, NEW w \in Loops, Fail(w)
  PROVE  Inv'
  <1>1. loop[w].id \in Ids /\ jobs[loop[w].id] \in Row /\ loop[w].attempts + 1 \in Nat
    BY WorkingRow DEF Fail, Ends, Loop
  <1>2. PICK row :
          /\ Update(loop[w].id, row)
          /\ \/ row = Bury(jobs[loop[w].id], loop[w].attempts + 1)
             \/ row = Retry(jobs[loop[w].id], 1, loop[w].attempts + 1)
    BY DEF Fail, Bury, Retry
  <1>3. /\ row \in Row /\ row.status \in {"pending", "dead"} /\ row.msg = jobs[loop[w].id].msg
        /\ row.covers = jobs[loop[w].id].covers
    <2>1. CASE row = Bury(jobs[loop[w].id], loop[w].attempts + 1)
      BY <1>1, <2>1, BuriedType
    <2>2. CASE row = Retry(jobs[loop[w].id], 1, loop[w].attempts + 1)
      BY <1>1, <2>2, RetriedType
    <2> QED
      BY <1>2, <2>1, <2>2
  <1> QED
    BY <1>1, <1>2, <1>3, UpdateInv DEF Fail, Ends

\* A step that deletes the rows S, whose sends are settled or at risk.
LEMMA DeletingStep ==
  ASSUME Inv, NEW S \in SUBSET Ids, jobs' = [i \in Ids |-> IF i \in S THEN NoRow ELSE jobs[i]],
         settled \subseteq settled', raced \subseteq raced', settled' \cup raced' \subseteq 1 .. sends,
         \A i \in S : jobs[i].covers \subseteq settled' \cup raced',
         UNCHANGED <<home, sends, sender, up, chores, faults>>, CleanStep
  PROVE  Inv'
  <1>1. \A i \in Ids : jobs'[i] = NoRow \/ jobs'[i] = jobs[i]
    OBVIOUS
  <1>2. TableOK'
    BY EmptyType, TypeParts DEF Inv, TableOK
  <1>3. CountsOK'
    BY TypeParts DEF Inv, CountsOK
  <1>4. ASSUME NEW i \in Ids
        PROVE  RowStep(i)
    <2>1. jobs[i].covers \subseteq 1 .. sends
      BY DEF Inv, CleanRows
    <2> QED
      BY <1>1, <2>1 DEF RowStep, KeptRow, KeyOf
  <1>5. LossNeedsRace'
    <2>1. ASSUME NEW i \in Ids
          PROVE  jobs[i].covers \subseteq settled' \cup raced' \cup UNION {jobs'[j].covers : j \in Ids}
      <3>1. CASE i \in S
        BY <3>1
      <3>2. CASE i \notin S
        BY <3>2
      <3> QED
        BY <3>1, <3>2
    <2> QED
      BY <2>1, KeptCovers
  <1> QED
    BY <1>2, <1>3, <1>4, <1>5, SafeStep, SendersAlone, ProcsAlone, FaultType

\* A job that succeeds deletes its row: what the row stands for was in the job, or is at risk.
LEMMA SucceedInv ==
  ASSUME Inv, NEW w \in Loops, Succeed(w)
  PROVE  Inv'
  <1> DEFINE i == loop[w].id
  <1>1. w \in Working /\ i \in Ids /\ loop[w].covers \subseteq 1 .. sends
    BY WorkingRow DEF Succeed, Ends
  <1>2. jobs' = [j \in Ids |-> IF j \in {i} THEN NoRow ELSE jobs[j]]
    BY TypeParts DEF Succeed, Inv, TableOK
  <1>3. jobs[i].covers \subseteq 1 .. sends /\ settled \cup raced \subseteq 1 .. sends
    BY <1>1, TypeParts DEF Inv, CleanRows, CountsOK
  <1>4. jobs[i].covers \subseteq settled' \cup raced'
    <2>1. CASE Owns(w)
      BY <1>1, <2>1 DEF Inv, Held, Succeed
    <2>2. CASE ~Owns(w)
      BY <2>2 DEF Succeed
    <2> QED
      BY <2>1, <2>2
  <1>5. settled \subseteq settled' /\ raced \subseteq raced' /\ settled' \cup raced' \subseteq 1 .. sends
    BY <1>1, <1>3 DEF Succeed
  <1>6. CleanStep
    BY FinallyClean DEF Succeed, Ends
  <1>7. UNCHANGED <<home, sends, sender, up, chores, faults>>
    BY DEF Succeed, Ends
  <1> HIDE DEF i
  <1> DEFINE S == {i}
  <1>8. S \in SUBSET Ids /\ jobs' = [j \in Ids |-> IF j \in S THEN NoRow ELSE jobs[j]]
    BY <1>1, <1>2
  <1>9. \A j \in S : jobs[j].covers \subseteq settled' \cup raced'
    BY <1>4
  <1> HIDE DEF S
  <1> QED
    BY <1>5, <1>6, <1>7, <1>8, <1>9, DeletingStep

\* An operator discards dead rows.
LEMMA DiscardInv ==
  ASSUME Inv, NEW S \in SUBSET Ids, Discard(S)
  PROVE  Inv'
  <1>1. \A i \in S : jobs[i].covers \subseteq 1 .. sends
    BY DEF Inv, CleanRows
  <1>2. settled' \cup raced' \subseteq 1 .. sends
    BY <1>1, TypeParts DEF Inv, CountsOK, Discard
  <1>3. \A i \in S : jobs[i].covers \subseteq settled' \cup raced'
    BY DEF Discard
  <1>4. CleanStep
    BY LoopsAlone DEF Discard
  <1>5. jobs' = [i \in Ids |-> IF i \in S THEN NoRow ELSE jobs[i]] /\ settled \subseteq settled'
    BY DEF Discard
  <1> QED
    BY <1>2, <1>3, <1>4, <1>5, DeletingStep DEF Discard

\* deferPendingJobsForRateLimit touches pending rows.
LEMMA SweptRows ==
  ASSUME Inv, NEW m
  PROVE  \A i \in Ids : /\ Swept(m)[i] \in Row /\ Swept(m)[i].msg = jobs[i].msg /\ Swept(m)[i].covers = jobs[i].covers
                        /\ Swept(m)[i].status = jobs[i].status /\ Swept(m)[i].owner = jobs[i].owner
                        /\ jobs[i].status # "pending" => Swept(m)[i] = jobs[i]
  <1> SUFFICES ASSUME NEW i \in Ids
               PROVE  /\ Swept(m)[i] \in Row /\ Swept(m)[i].msg = jobs[i].msg /\ Swept(m)[i].covers = jobs[i].covers
                      /\ Swept(m)[i].status = jobs[i].status /\ Swept(m)[i].owner = jobs[i].owner
                      /\ jobs[i].status # "pending" => Swept(m)[i] = jobs[i]
    OBVIOUS
  <1>1. jobs[i] \in Row
    BY TypeParts DEF Inv, TableOK
  <1>2. PICK r : r = Swept(m)[i]
    OBVIOUS
  <1>3. r = jobs[i] \/ (jobs[i].status = "pending" /\ r = [jobs[i] EXCEPT !.run_after = 1])
    BY <1>2 DEF Swept
  <1>4. /\ r \in Row /\ r.msg = jobs[i].msg /\ r.covers = jobs[i].covers /\ r.status = jobs[i].status
        /\ r.owner = jobs[i].owner
    BY <1>1, <1>3 DEF Row
  <1> QED
    BY <1>2, <1>3, <1>4

\* A rate-limited job is put back, or looks for the row to fold into.
LEMMA RateLimitedInv ==
  ASSUME Inv, NEW w \in Loops, RateLimited(w)
  PROVE  Inv'
  <1> DEFINE id == loop[w].id  m == loop[w].msg
  <1>1. w \in Working /\ loop[w] \in Loop /\ id \in Ids
    BY WorkingRow DEF RateLimited, Ends
  <1>2. UNCHANGED <<home, sender, up, chores, sends, settled, raced, faults>> /\ loop[w].at = "working"
    BY DEF RateLimited, Ends
  <1>3. DOMAIN Swept(m) = Ids /\ \A i \in Ids : Swept(m)[i] \in Row
    BY SweptRows DEF Swept
  <1>4. ASSUME NEW i \in Twins(id, m), jobs' = Swept(m), loop' = [loop EXCEPT ![w].at = "folding", ![w].twin = i], UNCHANGED bg
        PROVE  Inv'
    <2>1. i \in Ids \ {id} /\ i \in Nat
      BY DEF Twins, InStatus, Ids
    <2> DEFINE l == [loop[w] EXCEPT !.at = "folding", !.twin = i]
    <2>2. /\ l \in Loop /\ l.at = "folding" /\ l.twin = i /\ l.id = loop[w].id /\ l.msg = loop[w].msg
          /\ l.covers = loop[w].covers /\ l.blind = loop[w].blind /\ l.slot = loop[w].slot
      BY <1>1, <2>1 DEF Loop
    <2>3. loop' = [loop EXCEPT ![w] = l]
      BY <1>4
    <2> HIDE DEF l
    <2>4. KeptLoop(w)
      BY <1>2, <2>1, <2>2, <2>3, TypeParts DEF KeptLoop, Inv, LoopsOK
    <2>5. SlotAccounting' /\ SlotsOK'
      BY <1>2, <1>4, <2>2, <2>3, OneSlot
    <2>6. CleanStep
      BY <1>2, <2>2, <2>3, <2>4, <2>5, BusyUp, OneLoop
    <2>7. jobs' = [j \in Ids |-> jobs'[j]] /\ \A j \in Ids : Touched(j)
      <3>1. jobs' = [j \in Ids |-> jobs'[j]]
        BY <1>4 DEF Swept
      <3> QED
        BY <1>4, <3>1, SweptRows DEF Touched
    <2> QED
      BY <1>2, <2>6, <2>7, TouchingStep, SendersAlone, ProcsAlone, FaultType
  <1>5. CASE /\ jobs' = IF Swept(m)[id].status = "none" THEN Swept(m) ELSE [Swept(m) EXCEPT ![id] = Repend(@, 1)]
             /\ Finally(w)
    <2>1. jobs' = [j \in Ids |-> jobs'[j]]
      BY <1>5 DEF Swept
    <2>2. ASSUME NEW j \in Ids
          PROVE  Touched(j)
      <3>1. CASE j # id \/ Swept(m)[id].status = "none"
        <4>1. jobs'[j] = Swept(m)[j]
          BY <1>3, <1>5, <3>1
        <4> QED
          BY <4>1, SweptRows DEF Touched
      <3>2. CASE j = id /\ Swept(m)[id].status # "none"
        <4>1. jobs'[j] = Repend(Swept(m)[j], 1)
          BY <1>3, <1>5, <3>2
        <4> QED
          BY <3>2, <4>1, SweptRows, RependType DEF Touched
      <3> QED
        BY <3>1, <3>2
    <2> QED
      BY <1>2, <1>5, <2>1, <2>2, FinallyClean, TouchingStep, SendersAlone, ProcsAlone, FaultType
  <1> QED
    BY <1>4, <1>5 DEF RateLimited

\* The fold: the twin stands for the sends of the job's row, or they are at risk.
LEMMA FoldInv ==
  ASSUME Inv, NEW w \in Loops, Fold(w)
  PROVE  Inv'
  <1> DEFINE id == loop[w].id  t == loop[w].twin
             twin == [jobs[t] EXCEPT !.run_after = Max2(@, 1), !.covers = @ \cup jobs[id].covers]
  <1>1. id \in Ids /\ t \in Ids /\ t # id /\ jobs \in [Ids -> Row] /\ jobs[t] \in Row /\ jobs[id] \in Row
    BY WorkingRow, TypeParts DEF Fold, Inv, CleanLoops, TableOK
  <1>2. UNCHANGED <<home, sender, up, chores, sends, settled, faults>>
    BY DEF Fold
  <1>3. \A i \in Ids : jobs[i].covers \subseteq 1 .. sends
    BY DEF Inv, CleanRows
  <1>4. /\ twin \in Row /\ twin.msg = jobs[t].msg /\ twin.status = jobs[t].status /\ twin.owner = jobs[t].owner
        /\ twin.covers = jobs[t].covers \cup jobs[id].covers
    <2>1. PICK q \in Row, x \in SUBSET Ids : q = jobs[t] /\ x = jobs[id].covers
      BY <1>1 DEF Row
    <2>2. PICK n \in Int : n = Max2(q.run_after, 1)
      BY DEF Row, Max2
    <2>3. twin = [q EXCEPT !.run_after = n, !.covers = q.covers \cup x]
      BY <2>1, <2>2
    <2> HIDE DEF twin
    <2> QED
      BY <2>1, <2>2, <2>3 DEF Row
  <1>5. /\ jobs' = [i \in Ids |-> IF i = id THEN NoRow ELSE IF i = t /\ jobs[t].status # "none" THEN twin ELSE jobs[i]]
        /\ raced' = IF jobs[t].status = "pending" THEN raced ELSE raced \cup jobs[id].covers
    BY DEF Fold
  <1>6. CleanStep
    BY FinallyClean DEF Fold
  <1> HIDE DEF id, t, twin
  <1>7. ASSUME NEW i \in Ids
        PROVE  jobs'[i] \in Row /\ RowStep(i)
    <2>1. CASE i = id
      BY <1>5, <2>1, EmptyType DEF RowStep
    <2>2. CASE i # id /\ i = t /\ jobs[t].status # "none"
      <3>1. jobs'[i] = twin
        BY <1>5, <2>2
      <3>2. twin.covers \subseteq 1 .. sends'
        BY <1>1, <1>2, <1>3, <1>4
      <3>3. jobs[t].status = "processing" => twin.covers \subseteq jobs[t].covers \cup raced'
        BY <1>4, <1>5
      <3> QED
        BY <1>4, <2>2, <3>1, <3>2, <3>3 DEF RowStep, KeptRow, KeyOf
    <2>3. CASE i # id /\ ~(i = t /\ jobs[t].status # "none")
      <3>1. jobs'[i] = jobs[i]
        BY <1>5, <2>3
      <3> QED
        BY <1>1, <1>2, <1>3, <3>1 DEF RowStep, KeptRow, KeyOf
    <2> QED
      BY <2>1, <2>2, <2>3
  <1>8. raced \subseteq raced' /\ settled \cup raced' \subseteq 1 .. sends
    BY <1>1, <1>3, <1>5, TypeParts DEF Inv, CountsOK
  <1>9. TableOK' /\ CountsOK'
    <2>1. \A i \in Ids : i > sends' => jobs'[i] = NoRow
      <3>1. (\A i \in Ids : i > sends => jobs[i] = NoRow) /\ NoRow.status = "none"
        BY TypeParts DEF Inv, TableOK, NoRow
      <3>2. \A i \in Ids : jobs[i].status = "none" => jobs'[i] \in {NoRow, jobs[i]}
        BY <1>5
      <3> QED
        BY <1>2, <3>1, <3>2
    <2>2. jobs' \in [Ids -> Row]
      BY <1>5, <1>7
    <2> QED
      BY <1>2, <1>8, <2>1, <2>2, TypeParts DEF Inv, TableOK, CountsOK
  <1>10. LossNeedsRace'
    <2>1. ASSUME NEW i \in Ids
          PROVE  jobs[i].covers \subseteq settled' \cup raced' \cup UNION {jobs'[j].covers : j \in Ids}
      <3>1. CASE i = id /\ jobs[t].status = "pending"
        <4>1. jobs'[t] = twin
          BY <1>1, <1>5, <3>1
        <4>2. jobs[i].covers \subseteq jobs'[t].covers
          BY <1>4, <3>1, <4>1
        <4> QED
          BY <1>1, <4>2
      <3>2. CASE i = id /\ jobs[t].status # "pending"
        <4>1. jobs[id].covers \subseteq raced'
          BY <1>5, <3>2
        <4> QED
          BY <3>2, <4>1
      <3>3. CASE i # id /\ i = t /\ jobs[t].status # "none"
        <4>1. jobs'[i] = twin
          BY <1>5, <3>3
        <4>2. jobs[i].covers \subseteq jobs'[i].covers
          BY <1>4, <3>3, <4>1
        <4> QED
          BY <4>2
      <3>4. CASE i # id /\ ~(i = t /\ jobs[t].status # "none")
        <4>1. jobs'[i] = jobs[i]
          BY <1>5, <3>4
        <4> QED
          BY <4>1
      <3> QED
        BY <3>1, <3>2, <3>3, <3>4
    <2> QED
      BY <1>2, <1>8, <2>1, KeptCovers
  <1> QED
    BY <1>2, <1>6, <1>7, <1>8, <1>9, <1>10, SafeStep, SendersAlone, ProcsAlone, FaultType

\* A claim: the row is leased to a loop that knows its key and what it stands for, and that was blind to every other
\* lease on that key.
LEMMA ClaimInv ==
  ASSUME Inv, NEW w \in Loops, Claim(w)
  PROVE  Inv'
  <1>1. PICK i \in Claimable(w) :
          /\ jobs' = [jobs EXCEPT ![i] = Leased(@, w)]
          /\ loop' = [loop EXCEPT ![w] =
               [Idle EXCEPT !.at = "working", !.id = i, !.msg = jobs[i].msg, !.covers = jobs[i].covers,
                            !.attempts = jobs[i].attempts, !.slot = loop[w].slot, !.blind = KeyBusy(i)]]
    BY DEF Claim
  <1>2. /\ i \in Ids /\ i \in Nat /\ jobs \in [Ids -> Row] /\ jobs[i] \in Row /\ jobs[i].status = "pending"
        /\ loop \in [Loops -> Loop] /\ loop[w].slot \in BOOLEAN
    BY TypeParts DEF Inv, LoopsOK, Loop, TableOK, Claimable, Ids
  <1>3. UNCHANGED <<home, sender, bg, up, chores, sends, settled, raced, faults>> /\ loop[w].at = "claiming"
    BY DEF Claim
  <1> DEFINE l == [Idle EXCEPT !.at = "working", !.id = i, !.msg = jobs[i].msg, !.covers = jobs[i].covers,
                               !.attempts = jobs[i].attempts, !.slot = loop[w].slot, !.blind = KeyBusy(i)]
             row == Leased(jobs[i], w)
  <1>4. /\ l \in Loop /\ l.at = "working" /\ l.id = i /\ l.msg = jobs[i].msg /\ l.covers = jobs[i].covers
        /\ l.slot = loop[w].slot /\ l.blind = KeyBusy(i)
    <2>1. PICK b \in BOOLEAN : b = KeyBusy(i)
      BY DEF KeyBusy
    <2>3. PICK r : r = l
      OBVIOUS
    <2>5. r = [at |-> "working", stale |-> {}, seen |-> {}, id |-> i, msg |-> jobs[i].msg, covers |-> jobs[i].covers,
               attempts |-> jobs[i].attempts, twin |-> 0, slot |-> loop[w].slot, blind |-> KeyBusy(i)]
      BY <2>3 DEF Idle
    <2> HIDE DEF l
    <2>4. r \in Loop
      BY <1>2, <2>1, <2>5 DEF Loop, Row
    <2> QED
      BY <2>3, <2>4, <2>5
  <1>5. row \in Row /\ row.status = "processing" /\ row.owner = w /\ row.msg = jobs[i].msg /\ row.covers = jobs[i].covers
    BY <1>2, LeasedType
  <1>6. /\ loop'[w] = l /\ \A v \in Loops : v # w => loop'[v] = loop[v]
        /\ jobs'[i] = row /\ \A j \in Ids : j # i => jobs'[j] = jobs[j]
        /\ jobs' \in [Ids -> Row] /\ loop' \in [Loops -> Loop]
    BY <1>1, <1>2, <1>4, <1>5
  <1> HIDE DEF l, row
  <1>7. /\ \A j \in Ids : jobs'[j].covers = jobs[j].covers /\ jobs'[j].msg = jobs[j].msg
        /\ \A j \in Ids : jobs'[j].status = "none" \/ jobs[j].status = "none" => jobs'[j] = jobs[j]
    BY <1>2, <1>5, <1>6
  <1>8. TypeOK'
    <2>1. TableOK'
      <3>1. \A j \in Ids : j > sends => jobs[j] = NoRow
        BY TypeParts DEF Inv, TableOK
      <3>2. ~(i > sends)
        BY <1>2, <3>1 DEF NoRow
      <3> QED
        BY <1>3, <1>6, <3>1, <3>2 DEF TableOK
    <2>2. LoopsOK'
      BY <1>6 DEF LoopsOK
    <2>3. DownOK'
      <3>1. up[home[w]] # "down"
        BY <1>3, BusyUp
      <3> QED
        BY <1>3, <1>6, <3>1, TypeParts DEF Inv, DownOK
    <2>4. SendersOK' /\ SlotsOK' /\ ProcsOK' /\ CountsOK' /\ FaultsOK'
      BY <1>3, TypeParts DEF Inv, SendersOK, SlotsOK, ProcsOK, CountsOK, FaultsOK
    <2> QED
      BY <2>1, <2>2, <2>3, <2>4, TypeParts
  <1>9. CleanRows'
    BY <1>3, <1>7 DEF Inv, CleanRows
  <1>10. CleanLoops'
    <2>1. jobs[i].covers \subseteq 1 .. sends
      BY <1>2 DEF Inv, CleanRows
    <2>2. ASSUME NEW v \in Loops
          PROVE  /\ loop'[v].at \in {"idle", "reclaiming"} => ~loop'[v].slot
                 /\ v \in Working' => loop'[v].id \in Ids /\ loop'[v].covers \subseteq 1 .. sends'
                 /\ loop'[v].at = "folding" => loop'[v].twin \in Ids \ {loop'[v].id}
      <3>1. CASE v = w
        BY <1>2, <1>3, <1>4, <1>6, <2>1, <3>1
      <3>2. CASE v # w
        BY <1>3, <1>6, <3>2 DEF Inv, CleanLoops, Working
      <3> QED
        BY <3>1, <3>2
    <2> QED
      BY <2>2 DEF CleanLoops
  <1>11. CleanSenders'
    <2>1. Writing' = Writing
      BY <1>3 DEF Writing
    <2>2. MaxSends \in Nat /\ sends \in 0 .. MaxSends
      BY PgAssumption, TypeParts DEF Inv, CountsOK
    <2>3. \A j \in 1 .. sends : j \in Ids
      BY <2>2 DEF Ids
    <2>4. sends' + Cardinality(Writing') <= MaxSends
      BY <1>3, <2>1 DEF Inv, CleanSenders
    <2>5. ASSUME NEW s \in Writing', sender'[s].target # 0
          PROVE  /\ sender'[s].target \in 1 .. sends'
                 /\ jobs'[sender'[s].target].status # "none" =>
                      jobCoalesceKey(jobs'[sender'[s].target].msg) = jobCoalesceKey(sender'[s].msg)
      <3>1. PICK t : t = sender[s].target /\ sender'[s] = sender[s]
        BY <1>3
      <3>2. t \in 1 .. sends /\ (jobs[t].status # "none" => KeyOf(t) = jobCoalesceKey(sender[s].msg))
        BY <2>1, <2>5, <3>1 DEF Inv, CleanSenders
      <3> QED
        BY <1>3, <1>7, <2>3, <3>1, <3>2 DEF KeyOf
    <2> QED
      BY <2>4, <2>5 DEF CleanSenders, KeyOf
  <1>12. ASSUME NEW v \in Working', v # w, Owns(v)'
         PROVE  v \in Working /\ Owns(v) /\ loop'[v] = loop[v] /\ loop[v].id \in Ids /\ loop[v].id # i
    <2>1. v \in Working /\ loop'[v] = loop[v] /\ loop[v].id \in Ids
      BY <1>6, <1>12 DEF Working, Inv, CleanLoops
    <2> QED
      BY <1>5, <1>6, <1>12, <2>1 DEF Owns
  <1>13. Held'
    <2> SUFFICES ASSUME NEW v \in Working', Owns(v)'
                 PROVE  /\ jobCoalesceKey(jobs'[loop'[v].id].msg) = jobCoalesceKey(loop'[v].msg)
                        /\ jobs'[loop'[v].id].covers \subseteq loop'[v].covers \cup raced'
      BY DEF Held, KeyOf
    <2>1. CASE v = w
      BY <1>4, <1>5, <1>6, <2>1
    <2>2. CASE v # w
      BY <1>3, <1>6, <1>12, <2>2 DEF Inv, Held, KeyOf
    <2> QED
      BY <2>1, <2>2
  <1>14. SlotAccounting'
    BY <1>3, <1>4, <1>6, SlotsSame
  <1>15. LossNeedsRace'
    BY <1>3, <1>7, KeptCovers
  <1>16. SharedKeyHasCause'
    <2>1. ASSUME NEW v \in Working', v # w, Owns(v)', jobCoalesceKey(loop'[v].msg) = jobCoalesceKey(loop'[w].msg),
                 jobCoalesceKey(loop'[w].msg) # NoKey
          PROVE  loop'[w].blind
      <3>1. jobs[loop[v].id].status = "processing" /\ KeyOf(loop[v].id) = jobCoalesceKey(loop[v].msg)
        BY <1>12, <2>1 DEF Inv, Held, Owns
      <3>2. KeyOf(i) = jobCoalesceKey(loop[v].msg) /\ KeyOf(i) # NoKey
        BY <1>4, <1>6, <1>12, <2>1 DEF KeyOf
      <3>3. KeyBusy(i)
        BY <1>12, <2>1, <3>1, <3>2 DEF KeyBusy, InStatus
      <3> QED
        BY <1>4, <1>6, <3>3
    <2>2. ASSUME NEW u \in Working', NEW v \in Working', u # v, Owns(u)', Owns(v)',
                 jobCoalesceKey(loop'[u].msg) # NoKey, jobCoalesceKey(loop'[u].msg) = jobCoalesceKey(loop'[v].msg)
          PROVE  loop'[u].blind \/ loop'[v].blind
      <3>1. CASE u = w \/ v = w
        BY <2>1, <2>2, <3>1
      <3>2. CASE u # w /\ v # w
        BY <1>12, <2>2, <3>2 DEF Inv, SharedKeyHasCause
      <3> QED
        BY <3>1, <3>2
    <2> QED
      BY <2>2 DEF SharedKeyHasCause
  <1> QED
    BY <1>3, <1>8, <1>9, <1>10, <1>11, <1>13, <1>14, <1>15, <1>16 DEF Inv

\* The SELECT of an enqueue() sets a number aside, and finds a pending row of the message's key or none.
LEMMA SelectInv ==
  ASSUME Inv, NEW s \in Senders, NEW m \in Messages, Select(s, m)
  PROVE  Inv'
  <1>1. UNCHANGED <<home, jobs, loop, bg, up, chores, sends, settled, raced, faults>> /\ sender[s].at = "idle"
    BY DEF Select
  <1>2. PICK i : /\ sender' = [sender EXCEPT ![s] = [at |-> "writing", msg |-> m, target |-> i]]
                 /\ i = 0 \/ (i \in InStatus("pending") /\ KeyOf(i) = jobCoalesceKey(m))
    BY DEF Select
  <1>3. sends \in 0 .. MaxSends /\ MaxSends \in Nat /\ m \in Msg /\ sender \in [Senders -> Sender]
    BY PgAssumption, TypeParts DEF Inv, CountsOK, SendersOK
  <1>4. i = 0 \/ i \in 1 .. sends
    <2>1. CASE i \in InStatus("pending")
      <3>1. i \in Ids /\ ~(i > sends)
        BY <2>1, TypeParts DEF Inv, TableOK, InStatus, NoRow
      <3> QED
        BY <1>3, <3>1 DEF Ids
    <2> QED
      BY <1>2, <2>1
  <1> DEFINE q == [at |-> "writing", msg |-> m, target |-> i]
  <1>5. q \in Sender /\ q.at = "writing" /\ q.msg = m /\ q.target = i
    BY <1>3, <1>4 DEF Sender
  <1>6. sender' = [sender EXCEPT ![s] = q]
    BY <1>2
  <1> HIDE DEF q
  <1>7. sender'[s] = q /\ (\A v \in Senders : v # s => sender'[v] = sender[v]) /\ sender' \in [Senders -> Sender]
    BY <1>3, <1>5, <1>6
  <1>8. TypeOK'
    BY <1>1, <1>7, TypeParts DEF Inv, TableOK, LoopsOK, SendersOK, SlotsOK, ProcsOK, DownOK, CountsOK, FaultsOK
  <1>9. CleanSenders'
    <2>1. Writing' = Writing \cup {s} /\ s \notin Writing
      BY <1>1, <1>5, <1>7 DEF Writing
    <2>2. IsFiniteSet(Writing)
      BY FiniteAssumption, FS_Subset DEF Writing
    <2>3. Cardinality(Writing') = Cardinality(Writing) + 1 /\ Cardinality(Writing) \in Nat
      BY <2>1, <2>2, FS_AddElement, FS_CardinalityType
    <2>4. sends + Cardinality(Writing) < MaxSends
      BY DEF Select
    <2>5. sends' + Cardinality(Writing') <= MaxSends
      BY <1>1, <1>3, <2>3, <2>4
    <2>6. ASSUME NEW v \in Writing', sender'[v].target # 0
          PROVE  /\ sender'[v].target \in 1 .. sends'
                 /\ jobs'[sender'[v].target].status # "none" =>
                      jobCoalesceKey(jobs'[sender'[v].target].msg) = jobCoalesceKey(sender'[v].msg)
      <3>1. CASE v = s
        BY <1>1, <1>2, <1>4, <1>5, <1>7, <2>6, <3>1 DEF KeyOf
      <3>2. CASE v # s
        <4>1. v \in Writing /\ sender'[v] = sender[v]
          BY <1>7, <2>1, <3>2 DEF Writing
        <4> QED
          BY <1>1, <2>6, <4>1 DEF Inv, CleanSenders, KeyOf
      <3> QED
        BY <3>1, <3>2
    <2> QED
      BY <2>5, <2>6 DEF CleanSenders, KeyOf
  <1>10. CleanRows' /\ CleanLoops' /\ Held' /\ SlotAccounting' /\ LossNeedsRace' /\ SharedKeyHasCause'
    BY <1>1 DEF Inv, CleanRows, CleanLoops, Held, SlotAccounting, LossNeedsRace, SharedKeyHasCause, Working, Owns, KeyOf, Covered
  <1> QED
    BY <1>1, <1>8, <1>9, <1>10 DEF Inv

\* The rows of an accepted message: a new one, or the one selected with its key, which stands for the message too, at
\* risk if it is not pending any more.
LEMMA WrittenRows ==
  ASSUME Inv, NEW s \in Senders, Write(s)
  PROVE  /\ sends + 1 <= MaxSends /\ TableOK' /\ CountsOK' /\ LossNeedsRace' /\ raced \subseteq raced'
         /\ \A i \in Ids : RowStep(i)
  <1> DEFINE n == sends + 1  t == sender[s].target  m == sender[s].msg
  <1>1. s \in Writing /\ sends' = n /\ UNCHANGED settled
    BY DEF Write, Writing
  <1>2. sends \in Nat /\ MaxSends \in Nat /\ jobs \in [Ids -> Row] /\ sender[s] \in Sender
    BY PgAssumption, TypeParts DEF Inv, CountsOK, TableOK, SendersOK
  <1>3. n <= MaxSends
    <2>1. IsFiniteSet(Writing) /\ Cardinality(Writing) \in Nat
      BY FiniteAssumption, FS_Subset, FS_CardinalityType DEF Writing
    <2>2. Cardinality(Writing) # 0
      BY <1>1, <2>1, FS_EmptySet
    <2>3. sends + Cardinality(Writing) <= MaxSends
      BY DEF Inv, CleanSenders
    <2> QED
      BY <1>2, <2>1, <2>2, <2>3
  <1>4. n \in Ids /\ m \in Msg /\ 1 .. n = (1 .. sends) \cup {n}
    BY <1>2, <1>3 DEF Ids, Sender
  <1>5. /\ \A i \in Ids : jobs[i].covers \subseteq 1 .. sends /\ (jobs[i].status = "none" => jobs[i] = NoRow)
        /\ \A i \in Ids : i > sends => jobs[i] = NoRow
        /\ settled \cup raced \subseteq 1 .. sends
    BY TypeParts DEF Inv, CleanRows, TableOK, CountsOK
  <1>6. ~(n > n) /\ \A i \in Ids : i > n => i > sends
    BY <1>2 DEF Ids
  <1>7. CASE t = 0
    <2> DEFINE row == [NoRow EXCEPT !.status = "pending", !.msg = m, !.covers = {n}]
    <2>1. row \in Row /\ row.status = "pending" /\ row.covers = {n}
      BY <1>4, EmptyType DEF Row
    <2>2. jobs' = [jobs EXCEPT ![n] = row] /\ UNCHANGED raced
      BY <1>7 DEF Write, Insert
    <2> HIDE DEF row, n, m
    <2>3. jobs'[n] = row /\ jobs' \in [Ids -> Row] /\ \A i \in Ids : i # n => jobs'[i] = jobs[i]
      BY <1>2, <1>4, <2>1, <2>2
    <2>4. TableOK'
      BY <1>1, <1>5, <1>6, <2>3 DEF TableOK
    <2>5. ASSUME NEW i \in Ids
          PROVE  RowStep(i)
      <3>1. CASE i = n
        <4>1. i > sends
          BY <1>2, <3>1 DEF n
        <4> QED
          BY <1>1, <1>4, <2>1, <2>3, <3>1, <4>1 DEF RowStep
      <3>2. CASE i # n
        BY <1>1, <1>4, <1>5, <2>3, <3>2 DEF RowStep, KeptRow, KeyOf
      <3> QED
        BY <3>1, <3>2
    <2>6. CountsOK'
      BY <1>1, <1>2, <1>3, <1>4, <1>5, <2>2 DEF CountsOK, n
    <2>7. jobs[n] = NoRow /\ NoRow.covers = {}
      <3>1. n > sends
        BY <1>2 DEF n
      <3> QED
        BY <1>4, <1>5, <3>1 DEF NoRow
    <2>8. ASSUME NEW i \in Ids
          PROVE  jobs[i].covers \subseteq UNION {jobs'[j].covers : j \in Ids}
      BY <2>3, <2>7
    <2>9. n \in jobs'[n].covers
      BY <2>1, <2>3
    <2>10. LossNeedsRace'
      BY <1>1, <1>4, <2>2, <2>8, <2>9, KeptCovers
    <2> QED
      BY <1>3, <2>2, <2>4, <2>5, <2>6, <2>10 DEF n
  <1>8. CASE t # 0
    <2>1. t \in 1 .. sends /\ (jobs[t].status # "none" => KeyOf(t) = jobCoalesceKey(m))
      BY <1>1, <1>8 DEF Inv, CleanSenders
    <2>2. t \in Ids /\ ~(t > sends)
      BY <1>2, <1>3, <2>1 DEF Ids
    <2>3. /\ jobs' = IF jobs[t].status = "none" THEN jobs
                     ELSE [jobs EXCEPT ![t].msg = m, ![t].covers = @ \cup {n}, ![t].run_after = Max2(@, 0)]
          /\ raced' = IF jobs[t].status = "pending" THEN raced ELSE raced \cup {n}
      BY <1>8 DEF Write, Coalesce
    <2>4. PICK row :
            /\ row \in Row /\ row.msg = m /\ row.covers = jobs[t].covers \cup {n} /\ row.status = jobs[t].status
            /\ row.owner = jobs[t].owner
            /\ jobs' = IF jobs[t].status = "none" THEN jobs ELSE [jobs EXCEPT ![t] = row]
      <3>1. PICK q \in Row : q = jobs[t]
        BY <1>2, <2>2
      <3>2. PICK d \in Int : d = Max2(q.run_after, 0)
        BY DEF Row, Max2
      <3>3. PICK row : row = [q EXCEPT !.msg = m, !.covers = @ \cup {n}, !.run_after = d]
        OBVIOUS
      <3>4. jobs' = IF jobs[t].status = "none" THEN jobs ELSE [jobs EXCEPT ![t] = row]
        BY <2>3, <3>1, <3>2, <3>3
      <3> HIDE DEF n, m, t
      <3>5. row = [status |-> q.status, msg |-> m, attempts |-> q.attempts, run_after |-> d, covers |-> q.covers \cup {n},
                   owner |-> q.owner]
        BY <3>3 DEF Row
      <3>6. row \in Row
        BY <1>4, <3>5 DEF Row
      <3>7. row.msg = m /\ row.covers = q.covers \cup {n} /\ row.status = q.status /\ row.owner = q.owner
        BY <3>5
      <3> QED
        BY <3>1, <3>4, <3>6, <3>7
    <2> HIDE DEF n, m, t
    <2>5. /\ jobs' \in [Ids -> Row] /\ (\A i \in Ids : i # t => jobs'[i] = jobs[i])
          /\ jobs[t].status = "none" => jobs'[t] = jobs[t]
          /\ jobs[t].status # "none" => jobs'[t] = row
      BY <1>2, <2>2, <2>4
    <2>6. TableOK'
      <3>1. \A i \in Ids : i > sends' => i > sends /\ i # t
        BY <1>1, <1>6, <2>2
      <3> QED
        BY <1>5, <2>5, <3>1 DEF TableOK
    <2>7. ASSUME NEW i \in Ids
          PROVE  RowStep(i) /\ jobs[i].covers \subseteq jobs'[i].covers
      <3>1. CASE i # t \/ jobs[t].status = "none"
        BY <1>1, <1>4, <1>5, <2>5, <3>1 DEF RowStep, KeptRow, KeyOf
      <3>2. CASE i = t /\ jobs[t].status # "none"
        <4>1. jobs'[i] = row /\ row.covers \subseteq 1 .. sends'
          BY <1>1, <1>4, <1>5, <2>4, <2>5, <3>2
        <4>2. jobs[t].status = "processing" => row.covers \subseteq jobs[t].covers \cup raced'
          BY <2>3, <2>4
        <4> QED
          BY <2>1, <2>4, <3>2, <4>1, <4>2 DEF RowStep, KeptRow
      <3> QED
        BY <3>1, <3>2
    <2>8. CountsOK' /\ raced \subseteq raced'
      BY <1>1, <1>2, <1>3, <1>4, <1>5, <2>3 DEF CountsOK, n
    <2>9. n \in raced' \/ n \in jobs'[t].covers
      BY <2>3, <2>4, <2>5
    <2>10. LossNeedsRace'
      <3>1. ASSUME NEW i \in Ids
            PROVE  jobs[i].covers \subseteq UNION {jobs'[j].covers : j \in Ids}
        BY <2>7
      <3> QED
        BY <1>1, <1>4, <2>2, <2>8, <2>9, <3>1, KeptCovers
    <2> QED
      BY <1>3, <2>6, <2>7, <2>8, <2>10 DEF n
  <1> QED
    BY <1>7, <1>8

\* The write of an enqueue().
LEMMA WriteInv ==
  ASSUME Inv, NEW s \in Senders, Write(s)
  PROVE  Inv'
  <1>1. UNCHANGED <<home, loop, bg, up, chores, settled, faults>> /\ sends' = sends + 1 /\ s \in Writing
    BY DEF Write, Writing
  <1>2. sender' = [sender EXCEPT ![s] = Quiet] /\ sender \in [Senders -> Sender] /\ sends \in Nat
    BY PgAssumption, TypeParts DEF Write, Inv, SendersOK, CountsOK
  <1>3. CleanStep
    BY <1>1, LoopsAlone
  <1>4. SendersOK' /\ \A v \in Senders : sender'[v] = sender[v] \/ sender'[v] = Quiet
    BY <1>2, EmptyType DEF SendersOK
  <1>5. /\ CleanRows' /\ Held' /\ SharedKeyHasCause'
        /\ \A w \in Loops : /\ w \in Working' => loop'[w].id \in Ids /\ loop'[w].covers \subseteq 1 .. sends'
                            /\ loop'[w].at = "folding" => loop'[w].twin \in Ids \ {loop'[w].id}
    BY <1>1, <1>3, WrittenRows, KeptClaims DEF CleanStep
  <1>6. CleanLoops'
    BY <1>3, <1>5 DEF CleanLoops, CleanStep
  <1>7. CleanSenders'
    <2>1. Writing' = Writing \ {s}
      BY <1>2 DEF Writing, Quiet
    <2>2. IsFiniteSet(Writing)
      BY FiniteAssumption, FS_Subset DEF Writing
    <2>3. Cardinality(Writing') = Cardinality(Writing) - 1 /\ Cardinality(Writing) \in Nat
      BY <1>1, <2>1, <2>2, FS_RemoveElement, FS_CardinalityType
    <2>4. sends' + Cardinality(Writing') <= MaxSends
      BY <1>1, <1>2, <2>3, PgAssumption DEF Inv, CleanSenders
    <2> QED
      BY <1>1, <1>4, <2>4, WrittenRows, KeptTargets DEF CleanSenders, KeyOf
  <1>8. TypeOK'
    BY <1>1, <1>3, <1>4, WrittenRows, ProcsAlone, FaultType, TypeParts DEF CleanStep
  <1> QED
    BY <1>1, <1>3, <1>5, <1>6, <1>7, <1>8, WrittenRows DEF Inv, CleanStep

-----------------------------------------------------------------------------
(* Revival, boot, shutdown, time                                           *)

\* A step of a process that touches at most the table, its state and its chores.
LEMMA ProcInv ==
  ASSUME Inv, jobs' = [i \in Ids |-> jobs'[i]], \A i \in Ids : Touched(i), ProcsOK', CleanStep,
         UNCHANGED <<home, sender, sends, settled, raced>>, Fault \/ UNCHANGED faults
  PROVE  Inv'
  BY TouchingStep, SendersAlone, FaultType

\* The loops of a process that changes its state, not to or from being down with work.
LEMMA UpClean ==
  ASSUME Inv, NEW p \in Procs, NEW u \in {"booting", "up", "draining", "stopping"}, up' = [up EXCEPT ![p] = u],
         UNCHANGED <<home, loop, bg>>
  PROVE  CleanStep /\ up' \in [Procs -> {"booting", "up", "draining", "stopping", "down"}]
  <1>1. up \in [Procs -> {"booting", "up", "draining", "stopping", "down"}]
    BY TypeParts DEF Inv, ProcsOK
  <1>2. \A w \in Loops : KeptLoop(w) /\ (loop'[w].at \in {"idle", "reclaiming"} => ~loop'[w].slot)
    BY DEF Inv, CleanLoops, KeptLoop
  <1>3. \A q \in Procs : up'[q] = "down" => up[q] = "down"
    BY <1>1
  <1>4. LoopsOK' /\ DownOK'
    BY <1>3, TypeParts DEF Inv, LoopsOK, DownOK
  <1> QED
    BY <1>1, <1>2, <1>4, SlotsSame DEF CleanStep

\* reviveEligibleDeadJobs looks for its rows.
LEMMA LookDeadInv ==
  ASSUME Inv, NEW p \in Procs, LookDead(p)
  PROVE  Inv'
  <1>1. {<<"dead", i>> : i \in Revivable} \subseteq {"dead", "processing"} \X Ids
    BY DEF Revivable, InStatus
  <1>2. ProcsOK'
    BY <1>1, TypeParts DEF Inv, ProcsOK, LookDead
  <1> QED
    BY <1>2, TableAlone, LoopsAlone, ProcInv DEF LookDead

\* A row is revived, or recovered at boot, if it is still what the SELECT saw.
LEMMA DoChoreInv ==
  ASSUME Inv, NEW p \in Procs, DoChore(p)
  PROVE  Inv'
  <1>1. PICK c \in chores[p] :
          /\ jobs' = IF StillIn(c[2], c[1]) THEN [jobs EXCEPT ![c[2]] = Repend(@, 0)] ELSE jobs
          /\ chores' = [chores EXCEPT ![p] = @ \ {c}]
    BY DEF DoChore
  <1>2. /\ chores \in [Procs -> SUBSET ({"dead", "processing"} \X Ids)] /\ jobs \in [Ids -> Row]
        /\ c[1] \in {"dead", "processing"} /\ c[2] \in Ids
    BY TypeParts DEF Inv, ProcsOK, TableOK
  <1>3. ProcsOK'
    BY <1>1, <1>2, TypeParts DEF Inv, ProcsOK, DoChore
  <1>4. jobs' = [i \in Ids |-> jobs'[i]] /\ \A i \in Ids : Touched(i)
    <2>1. PICK row : row = Repend(jobs[c[2]], 0)
      OBVIOUS
    <2>2. row \in Row /\ row.status = "pending" /\ row.msg = jobs[c[2]].msg /\ row.covers = jobs[c[2]].covers
      BY <1>2, <2>1, RependType
    <2>3. jobs' = jobs \/ (jobs' = [jobs EXCEPT ![c[2]] = row] /\ jobs[c[2]].status # "none")
      BY <1>1, <1>2, <2>1 DEF StillIn
    <2> QED
      BY <1>2, <2>2, <2>3 DEF Touched
  <1> QED
    BY <1>3, <1>4, LoopsAlone, ProcInv DEF DoChore

\* An operator replays a dead row.
LEMMA ReplayInv ==
  ASSUME Inv, NEW i \in Ids, ReplayDeadLetterJob(i)
  PROVE  Inv'
  <1>1. jobs \in [Ids -> Row] /\ jobs[i].status = "dead"
    BY TypeParts DEF Inv, TableOK, ReplayDeadLetterJob, InStatus
  <1>2. PICK row : row = Retry(jobs[i], 0, 0) /\ jobs' = [jobs EXCEPT ![i] = row]
    BY DEF ReplayDeadLetterJob, Retry
  <1>3. row \in Row /\ row.status = "pending" /\ row.msg = jobs[i].msg /\ row.covers = jobs[i].covers
    BY <1>1, <1>2, RetriedType
  <1>4. jobs' = [j \in Ids |-> jobs'[j]] /\ \A j \in Ids : Touched(j)
    BY <1>1, <1>2, <1>3 DEF Touched
  <1> QED
    BY <1>4, LoopsAlone, ProcsAlone, ProcInv DEF ReplayDeadLetterJob

\* A process ends, in a crash or after its shutdown.
LEMMA ForgetInv ==
  ASSUME Inv, NEW p \in Procs, Forget(p), Fault \/ UNCHANGED faults
  PROVE  Inv'
  <1>1. /\ up \in [Procs -> {"booting", "up", "draining", "stopping", "down"}] /\ loop \in [Loops -> Loop]
        /\ chores \in [Procs -> SUBSET ({"dead", "processing"} \X Ids)] /\ sender \in [Senders -> Sender]
    BY TypeParts DEF Inv, ProcsOK, LoopsOK, SendersOK
  <1>2. UNCHANGED <<home, jobs, sends, settled, raced>> /\ up' = [up EXCEPT ![p] = "down"] /\ chores' = [chores EXCEPT ![p] = {}]
    BY DEF Forget
  <1>3. \A w \in Loops : loop'[w] = IF home[w] = p THEN Idle ELSE loop[w]
    BY DEF Forget
  <1>4. ProcsOK'
    BY <1>1, <1>2 DEF ProcsOK
  <1>5. LoopsOK'
    BY <1>1, EmptyType DEF LoopsOK, Forget
  <1>6. DownOK'
    BY <1>1, <1>2, <1>3, TypeParts DEF Inv, DownOK
  <1>7. \A w \in Loops : KeptLoop(w) /\ (loop'[w].at \in {"idle", "reclaiming"} => ~loop'[w].slot)
    BY <1>3 DEF Inv, CleanLoops, KeptLoop, Idle
  <1>8. CleanStep
    BY <1>5, <1>6, <1>7, SlotsForgotten DEF CleanStep
  <1>9. QuietSenders
    BY <1>1, EmptyType DEF QuietSenders, SendersOK, Forget
  <1> QED
    BY <1>2, <1>4, <1>8, <1>9, TableAlone, TouchingStep, FaultType

\* stop(), its return, init() and start().
LEMMA ProcStepInv ==
  ASSUME Inv, NEW p \in Procs, Stop(p) \/ Abandon(p) \/ Boot(p) \/ Start(p)
  PROVE  Inv'
  <1>1. chores \in [Procs -> SUBSET ({"dead", "processing"} \X Ids)] /\ jobs \in [Ids -> Row]
    BY TypeParts DEF Inv, ProcsOK, TableOK
  <1>2. CASE Stop(p) \/ Start(p)
    BY <1>1, <1>2, UpClean, TableAlone, ProcInv DEF Stop, Start, ProcsOK
  <1>3. CASE Boot(p)
    <2>1. {<<"processing", i>> : i \in Expired} \subseteq {"dead", "processing"} \X Ids
      BY DEF Expired, InStatus
    <2>2. chores' \in [Procs -> SUBSET ({"dead", "processing"} \X Ids)]
      BY <1>1, <1>3, <2>1 DEF Boot
    <2> QED
      BY <1>3, <2>2, UpClean, TableAlone, ProcInv DEF Boot, ProcsOK
  <1>4. CASE Abandon(p)
    <2>1. jobs' = [i \in Ids |-> jobs'[i]]
      BY <1>4 DEF Abandon
    <2>2. ASSUME NEW i \in Ids
          PROVE  Touched(i)
      <3>1. PICK row : row = Repend(jobs[i], 0)
        OBVIOUS
      <3>2. row \in Row /\ row.status = "pending" /\ row.msg = jobs[i].msg /\ row.covers = jobs[i].covers
        BY <1>1, <3>1, RependType
      <3>3. jobs'[i] = jobs[i] \/ (jobs'[i] = row /\ jobs[i].status = "processing")
        BY <1>4, <3>1 DEF Abandon
      <3> QED
        BY <3>2, <3>3 DEF Touched
    <2> QED
      BY <1>1, <1>4, <2>1, <2>2, UpClean, ProcInv DEF Abandon, ProcsOK
  <1> QED
    BY <1>2, <1>3, <1>4

\* Time moves a row's run_after only.
LEMMA AgedType ==
  ASSUME NEW row \in Row, NEW b
  PROVE  /\ Aged(row, b) \in Row /\ Aged(row, b).status = row.status /\ Aged(row, b).msg = row.msg
         /\ Aged(row, b).covers = row.covers /\ Aged(row, b).owner = row.owner
         /\ row = NoRow => Aged(row, b) = NoRow
  <1>1. PICK d : d = IF row.status = "pending" THEN Max2(row.run_after - 1, 0)
                     ELSE IF row.status # "processing" THEN row.run_after
                     ELSE IF b THEN 0 ELSE Max2(row.run_after - 1, -Timeout)
    OBVIOUS
  <1>2. d \in Int
    BY <1>1, PgAssumption DEF Max2, Row
  <1>3. PICK r : r = Aged(row, b)
    OBVIOUS
  <1>4. r = [row EXCEPT !.run_after = d]
    BY <1>1, <1>3 DEF Aged
  <1>5. /\ r \in Row /\ r.status = row.status /\ r.msg = row.msg /\ r.covers = row.covers /\ r.owner = row.owner
    BY <1>2, <1>4 DEF Row
  <1>6. ASSUME row = NoRow
        PROVE  r = NoRow
    <2>1. d = row.run_after
      BY <1>1, <1>6 DEF NoRow
    <2> QED
      BY <1>4, <1>6, <2>1 DEF NoRow
  <1> QED
    BY <1>3, <1>5, <1>6

\* A unit of time.
LEMMA TickInv ==
  ASSUME Inv, Tick
  PROVE  Inv'
  <1>1. PICK silent \in SUBSET Working : jobs' = [i \in Ids |-> Aged(jobs[i], i \in Beaten(silent))]
    BY DEF Tick
  <1>2. jobs' = [i \in Ids |-> jobs'[i]]
    BY <1>1
  <1>3. ASSUME NEW i \in Ids
        PROVE  Touched(i)
    <2>1. jobs[i] \in Row /\ (jobs[i].status = "none" => jobs[i] = NoRow)
      BY TypeParts DEF Inv, TableOK, CleanRows
    <2>2. PICK r : r = Aged(jobs[i], i \in Beaten(silent)) /\ jobs'[i] = r
      BY <1>1
    <2>3. /\ r \in Row /\ r.status = jobs[i].status /\ r.msg = jobs[i].msg /\ r.covers = jobs[i].covers
          /\ r.owner = jobs[i].owner /\ (jobs[i] = NoRow => r = NoRow)
      BY <2>1, <2>2, AgedType
    <2> QED
      BY <2>1, <2>2, <2>3 DEF Touched
  <1> QED
    BY <1>2, <1>3, LoopsAlone, ProcsAlone, ProcInv DEF Tick

-----------------------------------------------------------------------------
(* The theorems                                                            *)

\* The queue starts with an empty table and nothing under way.
LEMMA InitInv ==
  ASSUME Init
  PROVE  Inv
  <1>1. TypeOK
    <2>1. TableOK /\ LoopsOK /\ SendersOK /\ SlotsOK /\ ProcsOK /\ CountsOK /\ FaultsOK
      BY EmptyType, PgAssumption DEF Init, TableOK, LoopsOK, SendersOK, SlotsOK, ProcsOK, CountsOK, FaultsOK
    <2>2. DownOK
      BY DEF Init, DownOK
    <2> QED
      BY <2>1, <2>2, TypeParts
  <1>2. Working = {} /\ Writing = {}
    BY DEF Init, Working, Writing, Idle, Quiet
  <1>3. CleanRows /\ CleanLoops
    BY <1>2 DEF Init, CleanRows, CleanLoops, NoRow, Idle
  <1>4. CleanSenders
    BY <1>2, FS_EmptySet, PgAssumption DEF Init, CleanSenders
  <1>5. Held /\ SharedKeyHasCause
    BY <1>2 DEF Held, SharedKeyHasCause
  <1>6. SlotAccounting
    <2>1. \A p \in Procs : Holders(p) = {}
      BY DEF Init, Idle, Holders
    <2>2. \A p \in Procs : Cardinality(Holders(p)) = 0 /\ bg[p] = 0
      BY <2>1, FS_EmptySet DEF Init
    <2>3. 0 <= BackgroundConcurrency
      BY PgAssumption
    <2> QED
      BY <2>2, <2>3, SlotParts
  <1>7. LossNeedsRace
    BY DEF Init, LossNeedsRace
  <1> QED
    BY <1>1, <1>3, <1>4, <1>5, <1>6, <1>7 DEF Init, Inv

\* Every step of every loop, producer, process and operator keeps the invariant.
LEMMA Inductive ==
  ASSUME Inv, [Next]_vars
  PROVE  Inv'
  <1>1. ASSUME NEW s \in Senders, Write(s) \/ \E m \in Messages : Select(s, m)
        PROVE  Inv'
    BY <1>1, WriteInv, SelectInv
  <1>2. ASSUME NEW w \in Loops, LoopStep(w) \/ ClaimThrows(w) \/ LeaveForReclaim(w)
        PROVE  Inv'
    <2>1. CASE Look(w) \/ Reclaim(w) \/ StartClaim(w) \/ Claim(w) \/ ClaimNothing(w)
      BY <2>1, LookInv, ReclaimInv, StartClaimInv, ClaimInv, ClaimNothingInv
    <2>2. CASE End(w)
      BY <2>2, SucceedInv, PutBackInv, FailInv, RateLimitedInv, FoldInv DEF End
    <2> QED
      BY <1>2, <2>1, <2>2, ClaimThrowsInv, LeaveForReclaimInv DEF LoopStep
  <1>3. ASSUME NEW p \in Procs, ProcStep(p) \/ LookDead(p) \/ Crash(p) \/ Stop(p)
        PROVE  Inv'
    BY <1>3, ProcStepInv, DoChoreInv, LookDeadInv, ForgetInv DEF ProcStep, Crash, Exit
  <1>4. ASSUME NEW i \in Ids, ReplayDeadLetterJob(i) \/ (i \in InStatus("dead") /\ Discard({i}))
        PROVE  Inv'
    <2>1. PICK S : S = {i}
      OBVIOUS
    <2>2. S \in SUBSET Ids
      BY <2>1
    <2>3. CASE Discard(S)
      BY <2>2, <2>3, DiscardInv
    <2> QED
      BY <1>4, <2>1, <2>3, ReplayInv
  <1>5. CASE Discard(InStatus("dead"))
    <2>1. InStatus("dead") \in SUBSET Ids
      BY DEF InStatus
    <2> QED
      BY <1>5, <2>1, DiscardInv
  <1>6. CASE UNCHANGED vars
    <2>1. UNCHANGED <<home, jobs, loop, sender, bg, up, chores, sends, settled, raced, faults>>
      BY <1>6 DEF vars
    <2> QED
      BY <2>1, TableAlone, LoopsAlone, ProcsAlone, ProcInv
  <1> QED
    BY <1>1, <1>2, <1>3, <1>4, <1>5, <1>6, TickInv DEF Next

\* The invariant holds in every reachable state.
THEOREM Invariance == Spec => []Inv
  <1>1. Init => Inv
    BY InitInv
  <1>2. Inv /\ [Next]_vars => Inv'
    BY Inductive
  <1> QED
    BY <1>1, <1>2, PTL DEF Spec

\* Every variable keeps its type: also settled and raced hold accepted messages only, and a process that is down runs
\* nothing.
THEOREM TypeCorrect == Spec => []TypeOK
  <1>1. Inv => TypeOK
    BY DEF Inv
  <1> QED
    BY <1>1, Invariance, PTL

\* activeBackground of every process is the number of its loops that hold a slot, and within its limit, whatever
\* claim statement throws and whenever a process ends.
THEOREM SlotsAccounted == Spec => []SlotAccounting
  <1>1. Inv => SlotAccounting
    BY DEF Inv
  <1> QED
    BY <1>1, Invariance, PTL

\* A message is lost only by a write by id that met its row changed since it was read.
THEOREM LossesRaced == Spec => []LossNeedsRace
  <1>1. Inv => LossNeedsRace
    BY DEF Inv
  <1> QED
    BY <1>1, Invariance, PTL

\* Two claims on one coalescing key come from a claim statement whose snapshot missed the other.
THEOREM SharedKeys == Spec => []SharedKeyHasCause
  <1>1. Inv => SharedKeyHasCause
    BY DEF Inv
  <1> QED
    BY <1>1, Invariance, PTL

-----------------------------------------------------------------------------
(* Who takes a row from a loop that runs it                                *)

\* The lease on row i outlives the step.
KeptLease(i) ==
  jobs[i].status = "processing" => jobs'[i].status = "processing" /\ jobs'[i].owner = jobs[i].owner

\* A loop that runs a row loses it only in a step that ends the lease.
LEMMA StillOwns ==
  ASSUME Inv, NEW w \in Working, Owns(w), loop'[w] = loop[w], KeptLease(loop[w].id)
  PROVE  Owns(w)'
  BY Zenon DEF Owns, KeptLease

\* Enqueues, claims, operators and the clock end no lease.
LEMMA LeaseSafe ==
  ASSUME Inv, NEW i \in Ids,
         \/ \E s \in Senders : Write(s) \/ \E m \in Messages : Select(s, m)
         \/ \E v \in Loops : Look(v) \/ StartClaim(v) \/ Claim(v) \/ ClaimNothing(v) \/ ClaimThrows(v) \/ LeaveForReclaim(v)
         \/ \E p \in Procs : LookDead(p) \/ Forget(p) \/ Stop(p) \/ Boot(p) \/ Start(p)
         \/ \E j \in Ids : ReplayDeadLetterJob(j) \/ (j \in InStatus("dead") /\ Discard({j}))
         \/ Discard(InStatus("dead")) \/ Tick \/ UNCHANGED vars
  PROVE  KeptLease(i)
  <1>1. jobs \in [Ids -> Row] /\ jobs[i] \in Row
    BY TypeParts DEF Inv, TableOK
  <1>2. CASE UNCHANGED jobs
    BY <1>2 DEF KeptLease
  <1>3. ASSUME NEW s \in Senders, Write(s)
        PROVE  KeptLease(i)
    <2>1. RowStep(i) /\ (i > sends => jobs[i] = NoRow)
      BY <1>3, WrittenRows, TypeParts DEF Inv, TableOK
    <2>2. CASE sender[s].target = 0
      <3>1. PICK row : jobs' = [jobs EXCEPT ![sends + 1] = row]
        BY <1>3, <2>2 DEF Write, Insert
      <3>2. jobs'[i] = jobs[i] \/ i = sends + 1
        BY <1>1, <3>1
      <3>3. i = sends + 1 => i > sends
        BY TypeParts DEF Inv, CountsOK
      <3> QED
        BY <2>1, <3>2, <3>3 DEF KeptLease, NoRow
    <2>3. CASE sender[s].target # 0
      <3> DEFINE t == sender[s].target  m == sender[s].msg  n == sends + 1
      <3>1. jobs' = IF jobs[t].status = "none" THEN jobs
                    ELSE [jobs EXCEPT ![t].msg = m, ![t].covers = @ \cup {n}, ![t].run_after = Max2(@, 0)]
        BY <1>3, <2>3, Zenon DEF Write, Coalesce
      <3> HIDE DEF t, m, n
      <3>2. CASE i = t /\ jobs[t].status # "none"
        <4>1. jobs'[i] = [jobs[i] EXCEPT !.msg = m, !.covers = @ \cup {n}, !.run_after = Max2(@, 0)]
          BY <1>1, <3>1, <3>2
        <4>2. jobs'[i].status = jobs[i].status /\ jobs'[i].owner = jobs[i].owner
          BY <1>1, <4>1 DEF Row
        <4> QED
          BY <4>2 DEF KeptLease
      <3>3. CASE ~(i = t /\ jobs[t].status # "none")
        <4>1. jobs'[i] = jobs[i]
          BY <1>1, <3>1, <3>3
        <4> QED
          BY <4>1 DEF KeptLease
      <3> QED
        BY <3>2, <3>3, Zenon
    <2> QED
      BY <2>2, <2>3
  <1>4. ASSUME NEW v \in Loops, Claim(v) \/ ClaimThrows(v)
        PROVE  KeptLease(i)
    <2>1. ASSUME NEW j \in Claimable(v), NEW o, jobs' = [jobs EXCEPT ![j] = Leased(@, o)]
          PROVE  KeptLease(i)
      <3>1. jobs[j].status = "pending"
        BY DEF Claimable
      <3> QED
        BY <1>1, <2>1, <3>1 DEF KeptLease
    <2> QED
      BY <1>2, <1>4, <2>1 DEF Claim, ClaimThrows
  <1>5. ASSUME NEW j \in Ids, ReplayDeadLetterJob(j)
        PROVE  KeptLease(i)
    <2>1. jobs[j].status = "dead"
      BY <1>5 DEF ReplayDeadLetterJob, InStatus
    <2>2. jobs'[i] = jobs[i] \/ i = j
      BY <1>1, <1>5 DEF ReplayDeadLetterJob
    <2> QED
      BY <2>1, <2>2 DEF KeptLease
  <1>6. ASSUME NEW S, Discard(S), S \subseteq InStatus("dead")
        PROVE  KeptLease(i)
    BY <1>6 DEF KeptLease, Discard, InStatus
  <1>7. ASSUME NEW j \in InStatus("dead"), Discard({j})
        PROVE  KeptLease(i)
    BY <1>6, <1>7
  <1>8. CASE Tick
    <2>1. PICK b : jobs'[i] = Aged(jobs[i], b)
      BY <1>8 DEF Tick
    <2>2. Aged(jobs[i], b).status = jobs[i].status /\ Aged(jobs[i], b).owner = jobs[i].owner
      BY <1>1, AgedType
    <2> QED
      BY <2>1, <2>2 DEF KeptLease
  <1> QED
    BY <1>2, <1>3, <1>4, <1>5, <1>6, <1>7, <1>8
       DEF Select, Look, StartClaim, ClaimNothing, LeaveForReclaim, LookDead, Forget, Stop, Boot, Start, vars

\* A late reclaim takes a row it had seen expired.
LEMMA ReclaimTakes ==
  ASSUME Inv, NEW w \in Working, NEW v \in Loops, Reclaim(v), ~KeptLease(loop[w].id)
  PROVE  Excused(w)
  <1>1. PICK r \in loop[v].stale :
          jobs' = IF r[1] \in ActiveIds(home[v]) THEN jobs ELSE [jobs EXCEPT ![r[1]] = Reclaimed(@, r[2] + 1)]
    BY DEF Reclaim
  <1>2. r[1] = loop[w].id
    BY <1>1, TypeParts DEF Inv, TableOK, KeptLease
  <1> QED
    BY <1>2 DEF Excused

\* A loop that ends a job writes to the row it runs; w, which goes on, is another one.
LEMMA EndTakes ==
  ASSUME Inv, NEW w \in Working, loop'[w] = loop[w], NEW v \in Loops, End(v), ~KeptLease(loop[w].id)
  PROVE  Excused(w)
  <1>1. loop[v].at \in {"working", "folding"}
    BY DEF End, Succeed, PutBack, Fail, RateLimited, Fold, Ends
  <1>2. v \in Working /\ loop[v].id \in Ids /\ jobs \in [Ids -> Row] /\ loop[w].id \in Ids /\ w \in Loops
    BY <1>1, WorkingRow, TypeParts DEF Inv, TableOK, Working
  <1>3. Finally(v) => v # w
    BY <1>1, <1>2, TypeParts DEF Finally, Idle, Inv, LoopsOK, Working
  <1>4. ASSUME NEW m, NEW i \in Ids, jobs'[i] = Swept(m)[i]
        PROVE  KeptLease(i)
    BY <1>4, SweptRows DEF KeptLease
  <1>5. Finally(v) /\ loop[w].id = loop[v].id
    <2>1. CASE Succeed(v) \/ PutBack(v) \/ Fail(v)
      <3>1. Finally(v) /\ (jobs' = jobs \/ \E row : jobs' = [jobs EXCEPT ![loop[v].id] = row])
        BY <2>1 DEF Succeed, PutBack, Fail, Update
      <3> QED
        BY <1>2, <3>1 DEF KeptLease
    <2>2. CASE RateLimited(v)
      <3>1. PICK J : /\ J = Swept(loop[v].msg)
                     /\ \/ jobs' = J
                        \/ Finally(v) /\ \E row : jobs' = [J EXCEPT ![loop[v].id] = row]
        BY <2>2 DEF RateLimited
      <3>2. DOMAIN J = Ids
        BY <3>1 DEF Swept
      <3>3. CASE jobs'[loop[w].id] = J[loop[w].id]
        BY <1>2, <1>4, <3>1, <3>3
      <3> QED
        BY <1>2, <3>1, <3>2, <3>3
    <2>3. CASE Fold(v)
      <3>1. CASE loop[w].id # loop[v].id
        <4>1. \/ jobs'[loop[w].id] = jobs[loop[w].id]
              \/ \E d, c : jobs'[loop[w].id] = [jobs[loop[w].id] EXCEPT !.run_after = d, !.covers = c]
          BY <1>2, <2>3, <3>1 DEF Fold
        <4>2. jobs[loop[w].id] \in Row
          BY <1>2
        <4> QED
          BY <4>1, <4>2 DEF KeptLease, Row
      <3> QED
        BY <2>3, <3>1 DEF Fold
    <2> QED
      BY <2>1, <2>2, <2>3 DEF End
  <1> QED
    BY <1>2, <1>3, <1>5 DEF Excused

\* The boot recovery takes a row it had seen expired, and the shutdown of a process the rows its loops run.
LEMMA ProcTakes ==
  ASSUME Inv, NEW w \in Working, NEW p \in Procs, DoChore(p) \/ Abandon(p), ~KeptLease(loop[w].id)
  PROVE  Excused(w)
  <1>1. jobs \in [Ids -> Row] /\ loop[w].id \in Ids /\ chores[p] \subseteq {"dead", "processing"} \X Ids
    BY TypeParts DEF Inv, TableOK, Working, CleanLoops, ProcsOK
  <1>2. CASE DoChore(p)
    <2>1. PICK c \in chores[p] : jobs' = IF StillIn(c[2], c[1]) THEN [jobs EXCEPT ![c[2]] = Repend(@, 0)] ELSE jobs
      BY <1>2 DEF DoChore
    <2>2. jobs[loop[w].id].status = "processing" /\ c[2] = loop[w].id /\ StillIn(c[2], c[1])
      BY <1>1, <2>1 DEF KeptLease
    <2>3. c = <<"processing", loop[w].id>>
      BY <1>1, <2>2 DEF StillIn
    <2> QED
      BY <2>3 DEF Excused
  <1>3. CASE Abandon(p)
    <2>1. loop[w].id \in ActiveIds(p) /\ up[p] = "draining"
      BY <1>1, <1>3 DEF Abandon, KeptLease
    <2>2. PICK v \in Working : home[v] = p /\ loop[v].id = loop[w].id
      BY <2>1 DEF ActiveIds
    <2> QED
      BY <2>1, <2>2 DEF Excused
  <1> QED
    BY <1>2, <1>3

\* A loop that goes on running a row it holds loses it only for a cause.
THEOREM TakenOnlyForCause == Spec => TakenForCause
  <1>1. ASSUME Inv, [Next]_vars, NEW w \in Working, Owns(w), loop'[w] = loop[w], ~Owns(w)'
        PROVE  Excused(w)
    <2>1. ~KeptLease(loop[w].id) /\ loop[w].id \in Ids
      BY <1>1, StillOwns DEF Inv, CleanLoops, Working
    <2>2. \/ \E v \in Loops : Reclaim(v) \/ End(v)
          \/ \E p \in Procs : DoChore(p) \/ Abandon(p)
      BY <1>1, <2>1, LeaseSafe DEF Next, LoopStep, ProcStep, Crash, Exit
    <2> QED
      BY <1>1, <2>1, <2>2, ReclaimTakes, EndTakes, ProcTakes
  <1>2. Inv /\ [Next]_vars => [\A w \in Working : (Owns(w) /\ loop'[w] = loop[w] /\ ~Owns(w)') => Excused(w)]_vars
    BY <1>1
  <1> QED
    BY <1>2, Invariance, PTL DEF Spec, TakenForCause
=============================================================================
