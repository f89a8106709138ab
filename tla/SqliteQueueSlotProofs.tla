------------------------ MODULE SqliteQueueSlotProofs ------------------------
(***************************************************************************)
(* The in-memory counters of SqliteQueue, the background slots and the     *)
(* jobs of each installation, agree with the jobs in flight.               *)
(***************************************************************************)
EXTENDS SqliteQueueProofs, FiniteSetTheorems

\* The jobs that hold something are so many that they can be counted.
LEMMA FiniteHolders ==
  ASSUME TypeOK
  PROVE  IsFiniteSet(SlotHolders) /\ \A k : IsFiniteSet(Counted(k))
  <1>1. SlotHolders \subseteq Workers /\ \A k : Counted(k) \subseteq Workers
    BY DEF SlotHolders, Counted, Busy
  <1> QED
    BY <1>1, WorkersAssumption, FS_Subset

\* The finally block gives back what its job holds, and nothing else.
LEMMA ReleaseSlots ==
  ASSUME TypeOK, SlotAccounting, NEW w \in Busy, Release(w)
  PROVE  SlotAccounting'
  <1>1. w \in Workers /\ worker \in [Workers -> Job] /\ worker[w] \in Job
    BY DEF TypeOK, LoopsOK, Busy
  <1>2. Busy' = Busy \ {w} /\ \A v \in Workers : v # w => worker'[v] = worker[v]
    BY <1>1, ReleaseType DEF Release
  <1>3. \A v \in Busy : v \in Workers
    BY DEF Busy
  <1>4. SlotHolders' = SlotHolders \ {w}
    BY <1>2, <1>3 DEF SlotHolders
  <1>5. \A k : Counted(k)' = Counted(k) \ {w}
    BY <1>2, <1>3 DEF Counted
  <1>6. activeBackground \in Nat /\ instCount \in [Installations -> Nat]
    BY DEF TypeOK, LoopsOK
  <1>7. activeBackground' = Cardinality(SlotHolders') /\ activeBackground' <= BackgroundConcurrency
    <2>1. activeBackground = Cardinality(SlotHolders) /\ activeBackground <= BackgroundConcurrency
      BY DEF SlotAccounting
    <2>2. CASE worker[w].slot
      <3>1. w \in SlotHolders
        BY <2>2 DEF SlotHolders
      <3>2. Cardinality(SlotHolders') = Cardinality(SlotHolders) - 1
        BY <1>4, <3>1, FiniteHolders, FS_RemoveElement
      <3>3. Cardinality(SlotHolders') \in Nat
        <4>1. IsFiniteSet(SlotHolders')
          BY <1>4, FiniteHolders, FS_Subset
        <4> QED
          BY <4>1, FS_CardinalityType
      <3>4. activeBackground' = Max2(0, activeBackground - 1)
        BY <2>2 DEF Release
      <3> QED
        BY <1>6, <2>1, <3>2, <3>3, <3>4, QueueAssumption DEF Max2
    <2>3. CASE ~worker[w].slot
      <3>1. SlotHolders' = SlotHolders
        BY <1>4, <2>3 DEF SlotHolders
      <3> QED
        BY <2>1, <2>3, <3>1 DEF Release
    <2> QED
      BY <2>2, <2>3
  <1>8. ASSUME NEW k \in Installations
        PROVE  instCount'[k] = Cardinality(Counted(k)') /\ instCount'[k] <= InstLimit
    <2>1. instCount[k] = Cardinality(Counted(k)) /\ instCount[k] <= InstLimit
      BY DEF SlotAccounting
    <2>2. CASE worker[w].inst = k
      <3>1. w \in Counted(k)
        BY <2>2 DEF Counted
      <3>2. Cardinality(Counted(k)') = Cardinality(Counted(k)) - 1
        BY <1>5, <3>1, FiniteHolders, FS_RemoveElement
      <3>3. Cardinality(Counted(k)') \in Nat
        <4>1. IsFiniteSet(Counted(k)')
          BY <1>5, FiniteHolders, FS_Subset
        <4> QED
          BY <4>1, FS_CardinalityType
      <3>4. instCount'[k] = Max2(0, instCount[k] - 1)
        BY <1>6, <2>2, CatalogAssumption DEF Release
      <3>5. instCount[k] \in Nat
        BY <1>6
      <3> QED
        BY <2>1, <3>2, <3>3, <3>4, <3>5, QueueAssumption DEF Max2
    <2>3. CASE worker[w].inst # k
      <3>1. Counted(k)' = Counted(k)
        BY <1>5, <2>3 DEF Counted
      <3>2. instCount'[k] = instCount[k]
        BY <1>6, <2>3 DEF Release
      <3> QED
        BY <2>1, <3>1, <3>2
    <2> QED
      BY <2>2, <2>3
  <1> QED
    BY <1>7, <1>8 DEF SlotAccounting

\* A step that leaves the loops and the counters alone leaves them in agreement.
LEMMA SlotsUnmoved ==
  ASSUME SlotAccounting, UNCHANGED <<worker, activeBackground, instCount>>
  PROVE  SlotAccounting'
  BY DEF SlotAccounting, SlotHolders, Counted, Busy

\* The end of the process empties the counters along with the loops.
LEMMA ForgetSlots == ASSUME Forget PROVE SlotAccounting'
  <1>1. Busy' = {}
    BY DEF Forget, Busy, NoJob
  <1>2. SlotHolders' = {} /\ \A k : Counted(k)' = {}
    BY <1>1 DEF SlotHolders, Counted
  <1>3. activeBackground' = 0 /\ \A k \in Installations : instCount'[k] = 0
    BY DEF Forget
  <1> QED
    BY <1>2, <1>3, FS_EmptySet, QueueAssumption DEF SlotAccounting

\* A background row is only claimed while a slot is free.
LEMMA SlotFree == ASSUME NEW J, BackgroundClaim(J) # {} PROVE activeBackground < BackgroundConcurrency
  BY DEF BackgroundClaim

\* A job is only counted against an installation that is below its limit.
LEMMA InstallationFree ==
  ASSUME NEW J, NEW i, Admission(J, i) = "consuming",
         installationConcurrencyKeyForJob(J[i].msg) # "none"
  PROVE  ~(instCount[installationConcurrencyKeyForJob(J[i].msg)] >= InstLimit)
  BY DEF Admission, evaluateInstallationConcurrencyAdmission

\* A claim counts its job once in each counter it falls under, and below the limits.
LEMMA ClaimSlots ==
  ASSUME TypeOK, SlotAccounting, NEW w \in Workers, worker[w].phase = "idle",
         NEW J \in [Ids -> Row], NEW i \in Ids, NEW slot \in BOOLEAN, Claim(w, J, i, slot),
         slot => activeBackground < BackgroundConcurrency
  PROVE  SlotAccounting'
  <1> DEFINE claimed == [J EXCEPT ![i] = Leased(J[i])]
             gate == Admission(claimed, i)
             inst == IF gate = "consuming" THEN installationConcurrencyKeyForJob(J[i].msg) ELSE "none"
             job == [id |-> i, msg |-> J[i].msg, ver |-> J[i].ver, covers |-> J[i].covers,
                     attempts |-> J[i].attempts, slot |-> slot, inst |-> inst, phase |-> gate]
  <1>1. /\ worker' = [worker EXCEPT ![w] = job]
        /\ activeBackground' = IF slot THEN activeBackground + 1 ELSE activeBackground
        /\ instCount' = IF inst = "none" THEN instCount
                        ELSE [instCount EXCEPT ![inst] = instCount[inst] + 1]
    BY DEF Claim
  <1>2. gate \in Gates \cup {"consuming"}
    BY AdmissionType
  <1>3. claimed[i].msg = J[i].msg
    BY LeasedType DEF SameContent
  <1>4. inst # "none" => inst \in Installations /\ ~(instCount[inst] >= InstLimit)
    <2>1. J[i].msg \in Msg
      BY DEF Row
    <2> HIDE DEF claimed
    <2> QED
      BY <1>3, <2>1, InstallationType, InstallationFree
  <1> HIDE DEF gate, inst, claimed
  <1>5. job.slot = slot /\ job.inst = inst /\ job.phase = gate /\ gate # "idle"
    BY <1>2 DEF Gates
  <1> HIDE DEF job
  <1>6. worker'[w] = job /\ \A v \in Workers : v # w => worker'[v] = worker[v]
    BY <1>1 DEF TypeOK, LoopsOK
  <1>7. w \notin Busy /\ Busy' = Busy \cup {w} /\ \A v \in Busy : v \in Workers
    BY <1>5, <1>6 DEF Busy
  <1>8. activeBackground \in Nat /\ instCount \in [Installations -> Nat]
    BY DEF TypeOK, LoopsOK
  <1>9. activeBackground' = Cardinality(SlotHolders') /\ activeBackground' <= BackgroundConcurrency
    <2>1. activeBackground = Cardinality(SlotHolders) /\ activeBackground <= BackgroundConcurrency
      BY DEF SlotAccounting
    <2>2. CASE slot
      <3>1. SlotHolders' = SlotHolders \cup {w} /\ w \notin SlotHolders
        BY <1>5, <1>6, <1>7, <2>2 DEF SlotHolders
      <3>2. Cardinality(SlotHolders') = Cardinality(SlotHolders) + 1
        BY <3>1, FiniteHolders, FS_AddElement
      <3> QED
        BY <1>1, <1>8, <2>1, <2>2, <3>2, QueueAssumption
    <2>3. CASE ~slot
      <3>1. SlotHolders' = SlotHolders
        BY <1>5, <1>6, <1>7, <2>3 DEF SlotHolders
      <3> QED
        BY <1>1, <2>1, <2>3, <3>1
    <2> QED
      BY <2>2, <2>3
  <1>10. ASSUME NEW k \in Installations
         PROVE  instCount'[k] = Cardinality(Counted(k)') /\ instCount'[k] <= InstLimit
    <2>1. instCount[k] = Cardinality(Counted(k)) /\ instCount[k] <= InstLimit /\ instCount[k] \in Nat
      BY <1>8 DEF SlotAccounting
    <2>2. CASE inst = k
      <3>1. Counted(k)' = Counted(k) \cup {w} /\ w \notin Counted(k)
        BY <1>5, <1>6, <1>7, <2>2 DEF Counted
      <3>2. Cardinality(Counted(k)') = Cardinality(Counted(k)) + 1
        BY <3>1, FiniteHolders, FS_AddElement
      <3>3. inst # "none"
        BY <2>2, CatalogAssumption
      <3>4. instCount'[k] = instCount[k] + 1 /\ ~(instCount[k] >= InstLimit)
        BY <1>1, <1>4, <1>8, <2>2, <3>3
      <3> QED
        BY <2>1, <3>2, <3>4, QueueAssumption
    <2>3. CASE inst # k
      <3>1. Counted(k)' = Counted(k)
        BY <1>5, <1>6, <1>7, <2>3 DEF Counted
      <3>2. instCount'[k] = instCount[k]
        BY <1>1, <1>4, <1>8, <2>3
      <3> QED
        BY <2>1, <3>1, <3>2
    <2> QED
      BY <2>2, <2>3
  <1> QED
    BY <1>9, <1>10 DEF SlotAccounting

\* Every step of the queue keeps the counters in agreement.
LEMMA SlotsInductive == Inv /\ SlotAccounting /\ [Next]_vars => SlotAccounting'
  <1> SUFFICES ASSUME Inv, SlotAccounting, [Next]_vars PROVE SlotAccounting'
    OBVIOUS
  <1>1. TypeOK
    BY DEF Inv
  <1>2. ASSUME NEW w \in Workers, ProcessOne(w) PROVE SlotAccounting'
    <2>1. PICK jitter \in [Expired(jobs) -> Jitters] :
            LET J == reclaimExpiredProcessingJobs(jobs, jitter) IN
            \/ \E i \in ForegroundClaim(J) : Claim(w, J, i, FALSE)
            \/ \E i \in BackgroundClaim(J) : Claim(w, J, i, TRUE)
            \/ UNCHANGED <<worker, activeBackground, instCount>>
      BY <1>2, Zenon DEF ProcessOne
    <2> DEFINE J == reclaimExpiredProcessingJobs(jobs, jitter)
    <2>2. J \in [Ids -> Row]
      BY <1>1, ReclaimReschedules DEF Rescheduled
    <2>3. worker[w].phase = "idle"
      BY <1>2 DEF ProcessOne
    <2>4. CASE \E i \in ForegroundClaim(J) : Claim(w, J, i, FALSE)
      <3> HIDE DEF J
      <3> QED
        BY <1>1, <2>2, <2>3, <2>4, ClaimIsFree, ClaimSlots
    <2>5. CASE \E i \in BackgroundClaim(J) : Claim(w, J, i, TRUE)
      <3> HIDE DEF J
      <3>1. activeBackground < BackgroundConcurrency
        BY <2>5, SlotFree
      <3> QED
        BY <1>1, <2>2, <2>3, <2>5, <3>1, ClaimIsFree, ClaimSlots
    <2>6. CASE UNCHANGED <<worker, activeBackground, instCount>>
      BY <2>6, SlotsUnmoved
    <2> QED
      BY <2>1, <2>4, <2>5, <2>6
  <1>3. ASSUME NEW w \in Workers, FinishDefer(w) \/ FinishConsume(w) \/ DriverFault(w)
        PROVE  SlotAccounting'
    <2>1. w \in Busy /\ Release(w)
      BY <1>3 DEF FinishDefer, FinishConsume, ConsumeSucceeds, ConsumeContended,
         ConsumeRateLimited, ConsumeFails, Consumed, DriverFault, Busy, Gates
    <2> QED
      BY <1>1, <2>1, ReleaseSlots
  <1>4. CASE Exit \/ Crash
    BY <1>4, ForgetSlots DEF Exit, Crash
  <1>5. ASSUME NEW m, NEW delay, Enqueue(m, delay) PROVE SlotAccounting'
    <2>1. \E over : AcceptSend(m, over)
      BY <1>5, Zenon DEF Enqueue, EnqueueAbsorbed, EnqueueMerged, EnqueueSuperseding,
         EnqueueCoalesced, EnqueueInserted
    <2> QED
      BY <2>1, SlotsUnmoved DEF AcceptSend
  <1>6. CASE ReviveDeadLetterJobs \/ ReleaseStaleForegroundDeferrals \/ PurgeDeadLetterJobs
             \/ Stop \/ Boot
    BY <1>6, SlotsUnmoved DEF ReviveDeadLetterJobs, ReleaseStaleForegroundDeferrals,
       PurgeDeadLetterJobs, Discard, Stop, Boot, Quiet
  <1>7. ASSUME NEW i, ReplayDeadLetterJob(i) \/ DeleteDeadLetterJob(i) PROVE SlotAccounting'
    BY <1>7, SlotsUnmoved DEF ReplayDeadLetterJob, DeleteDeadLetterJob, Discard, Quiet
  <1>8. ASSUME NEW k, NEW level, ChangeBudget(k, level) PROVE SlotAccounting'
    BY <1>8, SlotsUnmoved DEF ChangeBudget, Still
  <1>9. ASSUME NEW h, ChangeHost(h) PROVE SlotAccounting'
    BY <1>9, SlotsUnmoved DEF ChangeHost, Still
  <1>10. CASE CacheExpires \/ Tick \/ UNCHANGED vars
    BY <1>10, SlotsUnmoved DEF CacheExpires, Tick, Still, vars
  <1> QED
    BY <1>2, <1>3, <1>4, <1>5, <1>6, <1>7, <1>8, <1>9, <1>10 DEF Next

\* No slot is leaked or given back twice, through deferrals, failures, driver faults, shutdowns and
\* crashes, and neither limit is ever exceeded.
THEOREM SlotsAccounted == Spec => []SlotAccounting
  <1>1. Init => SlotAccounting
    <2> SUFFICES ASSUME Init PROVE SlotAccounting
      OBVIOUS
    <2>1. Busy = {}
      BY DEF Init, Busy, NoJob
    <2>2. SlotHolders = {} /\ \A k : Counted(k) = {}
      BY <2>1 DEF SlotHolders, Counted
    <2>3. activeBackground = 0 /\ \A k \in Installations : instCount[k] = 0
      BY DEF Init
    <2> QED
      BY <2>2, <2>3, FS_EmptySet, QueueAssumption DEF SlotAccounting
  <1> QED
    BY <1>1, SlotsInductive, Invariance, PTL DEF Spec

=============================================================================
