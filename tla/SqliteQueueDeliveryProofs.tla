---------------------- MODULE SqliteQueueDeliveryProofs ----------------------
(***************************************************************************)
(* SqliteQueue implements JobDelivery, for any number of pump loops,       *)
(* messages, sends, faults, delays and limits: the refinement that         *)
(* SqliteQueueDelivery states.                                             *)
(***************************************************************************)
EXTENDS SqliteQueueDelivery, SqliteQueueProofs

-----------------------------------------------------------------------------
(* Where the sends are, row by row                                         *)

\* A send is in one row at most, and in none once it is settled; every row stands for some send.
Apart ==
  /\ \A i, j \in Ids : \A n : n \in jobs[i].covers /\ n \in jobs[j].covers => i = j
  /\ \A i \in Ids : \A n : n \in jobs[i].covers => n \notin settled
  /\ \A i \in Ids : jobs[i].status # "none" => \E n : n \in jobs[i].covers
  /\ \A i \in Ids : jobs[i].status = "none" => jobs[i].covers = {}

\* The rows that are being consumed, and the sends of some rows.
Consuming == {v \in Workers : worker[v].phase = "consuming"}
Running == {worker[w].id : w \in Consuming}
Covered(J, S) == UNION {J[i].covers : i \in S}
Waits == CoveredBy({"pending", "processing"}) \ UNION Runs

\* A loop that is consuming is busy with a row of its own.
LEMMA ConsumingRow ==
  Inv => /\ Consuming \subseteq Busy
         /\ \A w \in Consuming : /\ worker[w].id \in Ids
                                 /\ jobs[worker[w].id].status = "processing"
                                 /\ jobs[worker[w].id].covers = worker[w].covers
  <1> SUFFICES ASSUME Inv
               PROVE  /\ Consuming \subseteq Busy
                      /\ \A w \in Consuming : /\ worker[w].id \in Ids
                                              /\ jobs[worker[w].id].status = "processing"
                                              /\ jobs[worker[w].id].covers = worker[w].covers
    OBVIOUS
  <1>1. Consuming \subseteq Busy
    BY DEF Consuming, Busy
  <1> QED
    BY <1>1, BusyRow

\* The refinement mapping in terms of rows: the runs are the rows that are being consumed, and the
\* sends that wait are those of the other rows that can still run.
Mapped ==
  /\ Running \subseteq Live(jobs)
  /\ Runs = {jobs[i].covers : i \in Running}
  /\ Waits = Covered(jobs, Live(jobs) \ Running)
  /\ CoveredBy({"dead"}) = Covered(jobs, Dead)

LEMMA Places == Inv /\ Apart => Mapped
  <1> SUFFICES ASSUME Inv, Apart PROVE Mapped
    OBVIOUS
  <1>1. Running \subseteq Live(jobs)
    BY ConsumingRow DEF Running, Live
  <1>2. Runs = {jobs[i].covers : i \in Running}
    <2>1. Runs = {worker[w].covers : w \in Consuming}
      BY DEF Runs, Consuming
    <2>2. \A w \in Consuming : worker[w].id \in Running /\ worker[w].covers = jobs[worker[w].id].covers
      BY ConsumingRow DEF Running
    <2>3. \A i \in Running : \E w \in Consuming : worker[w].id = i
      BY DEF Running
    <2> QED
      BY <2>1, <2>2, <2>3
  <1>3. Waits = Covered(jobs, Live(jobs) \ Running)
    <2>1. ASSUME NEW n PROVE n \in UNION Runs <=> \E i \in Running : n \in jobs[i].covers
      BY <1>2
    <2>2. ASSUME NEW n
          PROVE  n \in CoveredBy({"pending", "processing"}) <=> \E i \in Live(jobs) : n \in jobs[i].covers
      BY DEF CoveredBy, Live
    <2>3. ASSUME NEW n
          PROVE  n \in Covered(jobs, Live(jobs) \ Running)
                   <=> \E i \in Live(jobs) \ Running : n \in jobs[i].covers
      BY DEF Covered
    <2>4. \A i \in Live(jobs) : i \in Ids
      BY DEF Live
    <2>5. ASSUME NEW n PROVE n \in Waits <=> n \in Covered(jobs, Live(jobs) \ Running)
      <3>1. n \in Waits <=> n \in CoveredBy({"pending", "processing"}) /\ n \notin UNION Runs
        BY DEF Waits
      <3>2. \A i, j \in Live(jobs) : n \in jobs[i].covers /\ n \in jobs[j].covers => i = j
        BY <2>4 DEF Apart
      <3> QED
        BY <1>1, <2>1, <2>2, <2>3, <3>1, <3>2
    <2> QED
      BY <2>5
  <1>4. CoveredBy({"dead"}) = Covered(jobs, Dead)
    BY DEF CoveredBy, Covered, Dead
  <1> QED
    BY <1>1, <1>2, <1>3, <1>4 DEF Mapped

LEMMA PlacesNext == Inv' /\ Apart' => Mapped'
  BY Places, PTL

-----------------------------------------------------------------------------
(* Taking a row out of some rows                                           *)

\* The sends of the other rows are the sends of all of them but those of this row.
LEMMA CoveredSplit ==
  ASSUME Apart, NEW S \in SUBSET Ids, NEW i \in S
  PROVE  /\ Covered(jobs, S \ {i}) = Covered(jobs, S) \ jobs[i].covers
         /\ Covered(jobs, S) = Covered(jobs, S \ {i}) \cup jobs[i].covers
  <1>1. ASSUME NEW n
        PROVE  /\ n \in Covered(jobs, S) <=> \E j \in S : n \in jobs[j].covers
               /\ n \in Covered(jobs, S \ {i}) <=> \E j \in S \ {i} : n \in jobs[j].covers
    BY DEF Covered
  <1>2. \A n : \A j \in S : n \in jobs[j].covers /\ n \in jobs[i].covers => j = i
    BY DEF Apart
  <1>3. ASSUME NEW n
        PROVE  n \in Covered(jobs, S \ {i}) <=> n \in Covered(jobs, S) /\ n \notin jobs[i].covers
    BY <1>1, <1>2
  <1>4. ASSUME NEW n
        PROVE  n \in Covered(jobs, S) <=> n \in Covered(jobs, S \ {i}) \/ n \in jobs[i].covers
    BY <1>1
  <1> QED
    BY <1>3, <1>4

\* The groups of the other rows are the groups of all of them but that of this row.
LEMMA GroupsSplit ==
  ASSUME Apart, NEW S \in SUBSET Ids, NEW i \in S, jobs[i].status # "none"
  PROVE  {jobs[j].covers : j \in S \ {i}} = {jobs[j].covers : j \in S} \ {jobs[i].covers}
  <1>1. \E n : n \in jobs[i].covers
    BY DEF Apart
  <1>2. \A j \in S : jobs[j].covers = jobs[i].covers => j = i
    BY <1>1 DEF Apart
  <1> QED
    BY <1>2

-----------------------------------------------------------------------------
(* Steps that leave every send in its row                                  *)

\* Every row keeps its sends, and whether it can still run.
Kept(J, K) ==
  \A i \in Ids : /\ K[i].covers = J[i].covers
                 /\ K[i].status \in {"pending", "processing"} <=> J[i].status \in {"pending", "processing"}
                 /\ K[i].status = "dead" <=> J[i].status = "dead"
                 /\ K[i].status = "none" <=> J[i].status = "none"

LEMMA KeptStep ==
  ASSUME Inv, Apart, Inv', Kept(jobs, jobs'), settled' = settled
  PROVE  /\ Apart'
         /\ Running' \subseteq Live(jobs) /\ Running \subseteq Live(jobs) /\ Live(jobs) \subseteq Ids
         /\ CoveredBy({"dead"})' = CoveredBy({"dead"})
         /\ Runs = {jobs[i].covers : i \in Running}
         /\ Runs' = {jobs[i].covers : i \in Running'}
         /\ Waits = Covered(jobs, Live(jobs) \ Running)
         /\ Waits' = Covered(jobs, Live(jobs) \ Running')
  <1>1. Apart'
    <2>1. \A i \in Ids : jobs'[i].covers = jobs[i].covers /\ (jobs'[i].status = "none" <=> jobs[i].status = "none")
      BY DEF Kept
    <2> QED
      BY <2>1 DEF Apart
  <1>2. Mapped /\ Mapped'
    BY <1>1, Places, PlacesNext
  <1>3. Live(jobs)' = Live(jobs) /\ Dead' = Dead /\ Live(jobs) \subseteq Ids /\ Dead \subseteq Ids
    BY DEF Kept, Live, Dead
  <1>4. ASSUME NEW S \in SUBSET Ids
        PROVE  /\ {jobs'[i].covers : i \in S} = {jobs[i].covers : i \in S}
               /\ Covered(jobs', S) = Covered(jobs, S)
    BY DEF Kept, Covered
  <1>5. Running' \subseteq Live(jobs) /\ Running \subseteq Live(jobs)
    BY <1>2, <1>3 DEF Mapped
  <1>6. CoveredBy({"dead"})' = CoveredBy({"dead"})
    BY <1>2, <1>3, <1>4 DEF Mapped
  <1>7. Runs = {jobs[i].covers : i \in Running} /\ Waits = Covered(jobs, Live(jobs) \ Running)
    BY <1>2 DEF Mapped
  <1>8. Runs' = {jobs[i].covers : i \in Running'}
    <2>1. Runs' = {jobs'[i].covers : i \in Running'}
      BY <1>2 DEF Mapped
    <2>2. Running' \in SUBSET Ids
      BY <1>3, <1>5
    <2> QED
      BY <1>4, <2>1, <2>2
  <1>9. Waits' = Covered(jobs, Live(jobs) \ Running')
    <2>1. Waits' = Covered(jobs', Live(jobs) \ Running')
      BY <1>2, <1>3 DEF Mapped
    <2>2. Live(jobs) \ Running' \in SUBSET Ids
      BY <1>3
    <2> QED
      BY <1>4, <2>1, <2>2
  <1> QED
    BY <1>1, <1>3, <1>5, <1>6, <1>7, <1>8, <1>9

\* What JobDelivery allows.
Promised == [Delivery!Next]_(Delivery!vars)

\* Nothing starts or ends: the sends stay where they are.
LEMMA Stays ==
  ASSUME Inv, Apart, Inv', Kept(jobs, jobs'), settled' = settled, Running' = Running
  PROVE  Apart' /\ Promised
  <1>1. /\ Apart' /\ CoveredBy({"dead"})' = CoveredBy({"dead"})
        /\ Runs' = Runs /\ Waits' = Waits
    BY KeptStep
  <1>2. UNCHANGED Delivery!vars
    BY <1>1 DEF Delivery!vars, Waits
  <1> QED
    BY <1>1, <1>2 DEF Promised

\* A row that waited is consumed.
LEMMA Starts ==
  ASSUME Inv, Apart, Inv', Kept(jobs, jobs'), settled' = settled,
         NEW i \in Ids, i \notin Running, Running' = Running \cup {i}
  PROVE  Apart' /\ Promised
  <1> DEFINE group == jobs[i].covers
  <1>1. /\ Apart' /\ Running' \subseteq Live(jobs) /\ Live(jobs) \subseteq Ids
        /\ CoveredBy({"dead"})' = CoveredBy({"dead"})
        /\ Runs = {jobs[j].covers : j \in Running}
        /\ Runs' = {jobs[j].covers : j \in Running'}
        /\ Waits = Covered(jobs, Live(jobs) \ Running)
        /\ Waits' = Covered(jobs, Live(jobs) \ Running')
    BY KeptStep
  <1>2. i \in Live(jobs) \ Running /\ Live(jobs) \ Running \in SUBSET Ids
    BY <1>1
  <1>3. Runs' = Runs \cup {group}
    BY <1>1
  <1>4. Waits' = Waits \ group /\ group \subseteq Waits
    <2>1. Live(jobs) \ Running' = (Live(jobs) \ Running) \ {i}
      OBVIOUS
    <2> QED
      BY <1>1, <1>2, <2>1, CoveredSplit
  <1>5. group # {}
    BY <1>2 DEF Apart, Live
  <1>6. Delivery!Start
    BY <1>1, <1>3, <1>4, <1>5 DEF Delivery!Start, Waits
  <1> QED
    BY <1>1, <1>6 DEF Promised, Delivery!Next

\* A row is no longer consumed, and waits.
LEMMA Returns ==
  ASSUME Inv, Apart, Inv', Kept(jobs, jobs'), settled' = settled,
         NEW i \in Running, Running' = Running \ {i}
  PROVE  Apart' /\ Promised
  <1> DEFINE group == jobs[i].covers
  <1>1. /\ Apart' /\ Running \subseteq Live(jobs) /\ Live(jobs) \subseteq Ids
        /\ CoveredBy({"dead"})' = CoveredBy({"dead"})
        /\ Runs = {jobs[j].covers : j \in Running}
        /\ Runs' = {jobs[j].covers : j \in Running'}
        /\ Waits = Covered(jobs, Live(jobs) \ Running)
        /\ Waits' = Covered(jobs, Live(jobs) \ Running')
    BY KeptStep
  <1>2. /\ i \in Live(jobs) \ Running' /\ Live(jobs) \ Running' \in SUBSET Ids
        /\ Running \in SUBSET Ids /\ jobs[i].status # "none"
    BY <1>1 DEF Live
  <1>3. Runs' = Runs \ {group} /\ group \in Runs
    BY <1>1, <1>2, GroupsSplit
  <1>4. Waits' = Waits \cup group
    <2>1. Live(jobs) \ Running = (Live(jobs) \ Running') \ {i}
      BY <1>1
    <2> QED
      BY <1>1, <1>2, <2>1, CoveredSplit
  <1>5. Delivery!End
    BY <1>1, <1>3, <1>4 DEF Delivery!End, Waits
  <1> QED
    BY <1>1, <1>5 DEF Promised, Delivery!Next

\* The process ends, and whatever was consumed waits.
LEMMA Dies ==
  ASSUME Inv, Apart, Inv', Kept(jobs, jobs'), settled' = settled, Running' = {}
  PROVE  Apart' /\ Promised
  <1>1. /\ Apart' /\ Running \subseteq Live(jobs)
        /\ CoveredBy({"dead"})' = CoveredBy({"dead"})
        /\ Runs = {jobs[j].covers : j \in Running} /\ Runs' = {}
        /\ Waits = Covered(jobs, Live(jobs) \ Running)
        /\ Waits' = Covered(jobs, Live(jobs))
    BY KeptStep
  <1>2. Waits' = Waits \cup UNION Runs
    <2>1. ASSUME NEW n PROVE n \in Waits' <=> n \in Waits \/ n \in UNION Runs
      BY <1>1 DEF Covered
    <2> QED
      BY <2>1
  <1>3. Delivery!Die
    BY <1>1, <1>2 DEF Delivery!Die, Waits
  <1> QED
    BY <1>1, <1>3 DEF Promised, Delivery!Next

-----------------------------------------------------------------------------
(* Steps that move sends between rows, or out of them                      *)

\* Rows that keep their sends stand together for the same ones.
LEMMA SameCovered ==
  ASSUME NEW S, \A j \in S : jobs'[j].covers = jobs[j].covers
  PROVE  /\ Covered(jobs', S) = Covered(jobs, S)
         /\ {jobs'[j].covers : j \in S} = {jobs[j].covers : j \in S}
  <1>1. {jobs'[j].covers : j \in S} = {jobs[j].covers : j \in S}
    OBVIOUS
  <1> QED
    BY <1>1 DEF Covered

\* What the mapping says of a state.
LEMMA Here ==
  ASSUME Inv, Apart
  PROVE  /\ Running \subseteq Live(jobs) /\ Live(jobs) \subseteq Ids /\ Dead \subseteq Ids
         /\ Runs = {jobs[j].covers : j \in Running}
         /\ Waits = Covered(jobs, Live(jobs) \ Running)
         /\ CoveredBy({"dead"}) = Covered(jobs, Dead)
         /\ \A j \in Live(jobs) \cup Dead : jobs[j].status # "none"
         /\ \A j \in Live(jobs) : j \notin Dead
  BY Places DEF Mapped, Live, Dead

\* The other runs go on when one ends.
LEMMA OneRunEnds ==
  ASSUME Inv, Apart, Inv', Apart', NEW i \in Running, Running' = Running \ {i},
         \A j \in Running : j # i => jobs'[j].covers = jobs[j].covers
  PROVE  Runs' = Runs \ {jobs[i].covers} /\ jobs[i].covers \in Runs
  <1>1. /\ Running \in SUBSET Ids /\ Runs = {jobs[j].covers : j \in Running}
        /\ jobs[i].status # "none"
    BY Here
  <1>2. Runs' = {jobs'[j].covers : j \in Running'}
    BY PlacesNext DEF Mapped
  <1>3. \A j \in Running' : jobs'[j].covers = jobs[j].covers
    OBVIOUS
  <1>4. Runs' = {jobs[j].covers : j \in Running'}
    BY <1>2, <1>3
  <1> QED
    BY <1>1, <1>4, GroupsSplit

\* A run succeeds: its row is deleted.
LEMMA Settles ==
  ASSUME Inv, Apart, Inv', NEW i \in Running, Running' = Running \ {i},
         jobs'[i] = NoRow, \A j \in Ids : j # i => jobs'[j] = jobs[j],
         settled' = settled \cup jobs[i].covers
  PROVE  Apart' /\ Promised
  <1>1. /\ Running \subseteq Live(jobs) /\ Live(jobs) \subseteq Ids /\ Dead \subseteq Ids
        /\ Waits = Covered(jobs, Live(jobs) \ Running)
        /\ CoveredBy({"dead"}) = Covered(jobs, Dead) /\ \A j \in Live(jobs) : j \notin Dead
    BY Here
  <1>2. NoRow.status = "none" /\ NoRow.covers = {}
    BY DEF NoRow
  <1>3. Apart'
    BY <1>1, <1>2 DEF Apart
  <1>4. Runs' = Runs \ {jobs[i].covers} /\ jobs[i].covers \in Runs
    BY <1>1, <1>3, OneRunEnds
  <1>5. Live(jobs)' = Live(jobs) \ {i} /\ Dead' = Dead
    BY <1>1, <1>2 DEF Live, Dead
  <1>6. /\ \A j \in Dead : jobs'[j].covers = jobs[j].covers
        /\ \A j \in Live(jobs) \ Running : jobs'[j].covers = jobs[j].covers
    BY <1>1
  <1>7. /\ Covered(jobs', Dead) = Covered(jobs, Dead)
        /\ Covered(jobs', Live(jobs) \ Running) = Covered(jobs, Live(jobs) \ Running)
    BY <1>6, SameCovered
  <1>8. CoveredBy({"dead"})' = CoveredBy({"dead"}) /\ Waits' = Waits
    <2>1. Live(jobs)' \ Running' = Live(jobs) \ Running
      BY <1>5
    <2> QED
      BY <1>1, <1>3, <1>5, <1>7, <2>1, PlacesNext DEF Mapped
  <1>9. Delivery!End
    BY <1>4, <1>8 DEF Delivery!End, Waits
  <1> QED
    BY <1>3, <1>9 DEF Promised, Delivery!Next

\* A run fails for the last time: its row is a dead letter.
LEMMA GivesUp ==
  ASSUME Inv, Apart, Inv', NEW i \in Running, Running' = Running \ {i},
         jobs'[i].covers = jobs[i].covers, jobs'[i].status = "dead",
         \A j \in Ids : j # i => jobs'[j] = jobs[j], settled' = settled
  PROVE  Apart' /\ Promised
  <1>1. /\ Running \subseteq Live(jobs) /\ Live(jobs) \subseteq Ids /\ Dead \subseteq Ids
        /\ Waits = Covered(jobs, Live(jobs) \ Running)
        /\ CoveredBy({"dead"}) = Covered(jobs, Dead) /\ \A j \in Live(jobs) : j \notin Dead
        /\ \A j \in Live(jobs) \cup Dead : jobs[j].status # "none"
    BY Here
  <1>2. \A j \in Ids : /\ jobs'[j].covers = jobs[j].covers
                       /\ jobs'[j].status = "none" <=> jobs[j].status = "none"
    BY <1>1
  <1>3. Apart'
    BY <1>2 DEF Apart
  <1>4. Runs' = Runs \ {jobs[i].covers} /\ jobs[i].covers \in Runs
    BY <1>1, <1>2, <1>3, OneRunEnds
  <1>5. Live(jobs)' = Live(jobs) \ {i} /\ Dead' = Dead \cup {i} /\ Dead' \ {i} = Dead
    BY <1>1 DEF Live, Dead
  <1>6. Dead' \in SUBSET Ids /\ i \in Dead' /\ Live(jobs)' \ Running' = Live(jobs) \ Running
    BY <1>1, <1>5
  <1>7. /\ Covered(jobs', Dead') = Covered(jobs, Dead')
        /\ Covered(jobs', Live(jobs) \ Running) = Covered(jobs, Live(jobs) \ Running)
    BY <1>1, <1>2, <1>6, SameCovered
  <1>8. Waits' = Waits
    BY <1>1, <1>3, <1>6, <1>7, PlacesNext DEF Mapped
  <1>9. CoveredBy({"dead"})' = CoveredBy({"dead"}) \cup jobs[i].covers
    <2>1. CoveredBy({"dead"})' = Covered(jobs, Dead')
      BY <1>3, <1>7, PlacesNext DEF Mapped
    <2> QED
      BY <1>1, <1>5, <1>6, <2>1, CoveredSplit
  <1>10. Delivery!End
    BY <1>4, <1>8, <1>9 DEF Delivery!End, Waits
  <1> QED
    BY <1>3, <1>10 DEF Promised, Delivery!Next

\* A run ends, and its row is folded into one that waits.
LEMMA Folds ==
  ASSUME Inv, Apart, Inv', NEW i \in Running, Running' = Running \ {i},
         NEW twin \in Live(jobs) \ Running,
         jobs'[i] = NoRow, jobs'[twin].status \in {"pending", "processing"},
         jobs'[twin].covers = jobs[twin].covers \cup jobs[i].covers,
         \A j \in Ids : j # i /\ j # twin =>
           jobs'[j].covers = jobs[j].covers /\ jobs'[j].status = jobs[j].status,
         settled' = settled
  PROVE  Apart' /\ Promised
  <1>1. /\ Running \subseteq Live(jobs) /\ Live(jobs) \subseteq Ids /\ Dead \subseteq Ids
        /\ Waits = Covered(jobs, Live(jobs) \ Running)
        /\ CoveredBy({"dead"}) = Covered(jobs, Dead) /\ \A j \in Live(jobs) : j \notin Dead
        /\ \A j \in Live(jobs) \cup Dead : jobs[j].status # "none"
    BY Here
  <1>2. NoRow.status = "none" /\ NoRow.covers = {} /\ twin # i /\ i \in Ids /\ twin \in Ids
    BY <1>1 DEF NoRow
  <1>3. Apart'
    <2>1. /\ jobs'[i].covers = {} /\ jobs'[i].status = "none"
          /\ jobs'[twin].status # "none" /\ jobs[twin].status # "none"
      BY <1>1, <1>2
    <2>2. \A j \in Ids : \A n : n \in jobs'[j].covers =>
             \/ n \in jobs[j].covers /\ j # i
             \/ n \in jobs[i].covers /\ j = twin
      BY <1>2, <2>1
    <2>3. \A j \in Ids : \A n : n \in jobs'[j].covers => n \notin settled'
      BY <1>2, <2>2 DEF Apart
    <2>4. ASSUME NEW j \in Ids, NEW k \in Ids, NEW n, n \in jobs'[j].covers, n \in jobs'[k].covers
          PROVE  j = k
      <3>1. \A p, q \in Ids : n \in jobs[p].covers /\ n \in jobs[q].covers => p = q
        BY DEF Apart
      <3>2. /\ (n \in jobs[j].covers /\ j # i) \/ (n \in jobs[i].covers /\ j = twin)
            /\ (n \in jobs[k].covers /\ k # i) \/ (n \in jobs[i].covers /\ k = twin)
        BY <2>2, <2>4
      <3> QED
        BY <1>2, <3>1, <3>2
    <2>5. ASSUME NEW j \in Ids
          PROVE  /\ jobs'[j].status # "none" => \E n : n \in jobs'[j].covers
                 /\ jobs'[j].status = "none" => jobs'[j].covers = {}
      <3>1. /\ jobs[j].status # "none" => \E n : n \in jobs[j].covers
            /\ jobs[j].status = "none" => jobs[j].covers = {}
        BY DEF Apart
      <3>2. CASE j = i
        BY <2>1, <3>2
      <3>3. CASE j = twin
        BY <2>1, <3>1, <3>3
      <3>4. CASE j # i /\ j # twin
        BY <3>1, <3>4
      <3> QED
        BY <3>2, <3>3, <3>4
    <2> QED
      BY <2>3, <2>4, <2>5 DEF Apart
  <1>4. Runs' = Runs \ {jobs[i].covers} /\ jobs[i].covers \in Runs
    BY <1>1, <1>3, OneRunEnds
  <1>5. Live(jobs)' = Live(jobs) \ {i} /\ Dead' = Dead
    BY <1>1, <1>2 DEF Live, Dead
  <1>6. CoveredBy({"dead"})' = CoveredBy({"dead"})
    <2>1. \A j \in Dead : jobs'[j].covers = jobs[j].covers
      BY <1>1
    <2>2. Covered(jobs', Dead) = Covered(jobs, Dead)
      BY <2>1, SameCovered
    <2> QED
      BY <1>1, <1>3, <1>5, <2>2, PlacesNext DEF Mapped
  <1>7. Waits' = Waits \cup jobs[i].covers
    <2>1. Live(jobs)' \ Running' = Live(jobs) \ Running
      BY <1>5
    <2>2. Waits' = Covered(jobs', Live(jobs) \ Running)
      BY <1>3, <2>1, PlacesNext DEF Mapped
    <2>3. ASSUME NEW n PROVE n \in Waits' <=> n \in Waits \/ n \in jobs[i].covers
      <3>1. n \in Waits' <=> \E j \in Live(jobs) \ Running : n \in jobs'[j].covers
        BY <2>2 DEF Covered
      <3>2. n \in Waits <=> \E j \in Live(jobs) \ Running : n \in jobs[j].covers
        BY <1>1 DEF Covered
      <3>3. \A j \in Live(jobs) \ Running :
              jobs'[j].covers = IF j = twin THEN jobs[j].covers \cup jobs[i].covers ELSE jobs[j].covers
        BY <1>1
      <3> QED
        BY <3>1, <3>2, <3>3
    <2> QED
      BY <2>3
  <1>8. Delivery!End
    BY <1>4, <1>6, <1>7 DEF Delivery!End, Waits
  <1> QED
    BY <1>3, <1>8 DEF Promised, Delivery!Next

\* Dead letters are made claimable again.
LEMMA Revives ==
  ASSUME Inv, Apart, Inv', Running' = Running, settled' = settled,
         NEW S \in SUBSET Dead, S # {},
         \A j \in Ids : jobs'[j].covers = jobs[j].covers,
         \A j \in S : jobs'[j].status = "pending",
         \A j \in Ids : j \notin S => jobs'[j].status = jobs[j].status
  PROVE  Apart' /\ Promised
  <1> DEFINE freed == Covered(jobs, S)
  <1>1. /\ Running \subseteq Live(jobs) /\ Live(jobs) \subseteq Ids /\ Dead \subseteq Ids
        /\ Waits = Covered(jobs, Live(jobs) \ Running)
        /\ Runs = {jobs[j].covers : j \in Running}
        /\ CoveredBy({"dead"}) = Covered(jobs, Dead) /\ \A j \in Live(jobs) : j \notin Dead
        /\ \A j \in Live(jobs) \cup Dead : jobs[j].status # "none"
    BY Here
  <1>2. Apart'
    <2>1. \A j \in Ids : jobs'[j].status = "none" <=> jobs[j].status = "none"
      BY <1>1
    <2> QED
      BY <2>1 DEF Apart
  <1>3. Live(jobs)' = Live(jobs) \cup S /\ Dead' = Dead \ S
    BY <1>1 DEF Live, Dead
  <1>4. \A T \in SUBSET Ids : /\ Covered(jobs', T) = Covered(jobs, T)
                              /\ {jobs'[j].covers : j \in T} = {jobs[j].covers : j \in T}
    BY SameCovered
  <1>5. Runs' = Runs
    BY <1>1, <1>2, <1>4, PlacesNext DEF Mapped
  <1>6. Waits' = Waits \cup freed
    <2>1. Waits' = Covered(jobs', Live(jobs)' \ Running)
      BY <1>2, PlacesNext DEF Mapped
    <2>2. Live(jobs)' \ Running = (Live(jobs) \ Running) \cup S
      BY <1>1, <1>3
    <2>3. (Live(jobs) \ Running) \cup S \in SUBSET Ids
      BY <1>1
    <2>4. Waits' = Covered(jobs, (Live(jobs) \ Running) \cup S)
      BY <1>4, <2>1, <2>2, <2>3
    <2> QED
      BY <1>1, <2>4 DEF Covered
  <1>7. CoveredBy({"dead"})' = CoveredBy({"dead"}) \ freed
    <2>1. CoveredBy({"dead"})' = Covered(jobs', Dead')
      BY <1>2, PlacesNext DEF Mapped
    <2>2. CoveredBy({"dead"})' = Covered(jobs, Dead \ S)
      BY <1>1, <1>3, <1>4, <2>1
    <2> QED
      BY <1>1, <2>2 DEF Covered, Apart
  <1>8. freed \subseteq CoveredBy({"dead"}) /\ freed # {}
    <2>1. PICK j \in S : TRUE
      OBVIOUS
    <2>2. \E n : n \in jobs[j].covers
      BY <1>1, <2>1 DEF Apart
    <2> QED
      BY <1>1, <2>1, <2>2 DEF Covered
  <1>9. Delivery!Redirect
    BY <1>5, <1>6, <1>7, <1>8 DEF Delivery!Redirect, Waits
  <1> QED
    BY <1>2, <1>9 DEF Promised, Delivery!Next

\* An operator deletes dead letters.
LEMMA Discards ==
  ASSUME Inv, Apart, Inv', Running' = Running,
         NEW S \in SUBSET Dead, S # {},
         \A j \in S : jobs'[j] = NoRow, \A j \in Ids : j \notin S => jobs'[j] = jobs[j],
         settled' = settled \cup Covered(jobs, S)
  PROVE  Apart' /\ Promised
  <1> DEFINE thrown == Covered(jobs, S)
  <1>1. /\ Running \subseteq Live(jobs) /\ Live(jobs) \subseteq Ids /\ Dead \subseteq Ids
        /\ Waits = Covered(jobs, Live(jobs) \ Running)
        /\ Runs = {jobs[j].covers : j \in Running}
        /\ CoveredBy({"dead"}) = Covered(jobs, Dead) /\ \A j \in Live(jobs) : j \notin Dead
        /\ \A j \in Live(jobs) \cup Dead : jobs[j].status # "none"
    BY Here
  <1>2. NoRow.status = "none" /\ NoRow.covers = {}
    BY DEF NoRow
  <1>3. Apart'
    <2>1. \A j \in S : jobs'[j].covers = {} /\ jobs'[j].status = "none"
      BY <1>2
    <2>2. \A n : n \in settled' => n \in settled \/ \E j \in S : n \in jobs[j].covers
      BY DEF Covered
    <2>3. \A j \in Ids : \A n : n \in jobs'[j].covers => j \notin S /\ n \in jobs[j].covers
      BY <2>1
    <2>4. \A j \in Ids : \A n : n \in jobs'[j].covers => n \notin settled'
      BY <1>1, <2>2, <2>3 DEF Apart
    <2>5. \A j, k \in Ids : \A n : n \in jobs'[j].covers /\ n \in jobs'[k].covers => j = k
      BY <2>3 DEF Apart
    <2>6. \A j \in Ids : /\ jobs'[j].status # "none" => \E n : n \in jobs'[j].covers
                         /\ jobs'[j].status = "none" => jobs'[j].covers = {}
      BY <2>1 DEF Apart
    <2> QED
      BY <2>4, <2>5, <2>6 DEF Apart
  <1>4. Live(jobs)' = Live(jobs) /\ Dead' = Dead \ S
    BY <1>1, <1>2 DEF Live, Dead
  <1>5. ASSUME NEW T \in SUBSET Ids, \A j \in T : j \notin S
        PROVE  /\ Covered(jobs', T) = Covered(jobs, T)
               /\ {jobs'[j].covers : j \in T} = {jobs[j].covers : j \in T}
    BY <1>5, SameCovered
  <1>6. Runs' = Runs /\ Waits' = Waits
    <2>1. /\ Running \in SUBSET Ids /\ Live(jobs) \ Running \in SUBSET Ids
          /\ \A j \in Live(jobs) : j \notin S
      BY <1>1
    <2>2. Runs' = {jobs'[j].covers : j \in Running} /\ Waits' = Covered(jobs', Live(jobs) \ Running)
      BY <1>3, <1>4, PlacesNext DEF Mapped
    <2>3. \A j \in Running : j \notin S
      BY <1>1, <2>1
    <2> QED
      BY <1>1, <1>5, <2>1, <2>2, <2>3
  <1>7. CoveredBy({"dead"})' = CoveredBy({"dead"}) \ thrown
    <2>1. CoveredBy({"dead"})' = Covered(jobs', Dead \ S)
      BY <1>3, <1>4, PlacesNext DEF Mapped
    <2>2. CoveredBy({"dead"})' = Covered(jobs, Dead \ S)
      BY <1>1, <1>5, <2>1
    <2> QED
      BY <1>1, <2>2 DEF Covered, Apart
  <1>8. thrown \subseteq CoveredBy({"dead"}) /\ thrown # {}
    <2>1. PICK j \in S : TRUE
      OBVIOUS
    <2>2. \E n : n \in jobs[j].covers
      BY <1>1, <2>1 DEF Apart
    <2> QED
      BY <1>1, <2>1, <2>2 DEF Covered
  <1>9. Delivery!Redirect
    BY <1>6, <1>7, <1>8 DEF Delivery!Redirect, Waits
  <1> QED
    BY <1>3, <1>9 DEF Promised, Delivery!Next

\* A message is accepted: it waits, in a row of its own or in one that waited already.
LEMMA Accepts ==
  ASSUME Inv, Apart, Inv', Running' = Running, settled' = settled, sends + 1 \in Ids,
         NEW m, NEW i, NEW gone, Takes(m, i, gone)
  PROVE  Apart' /\ Promised
  <1> DEFINE n == sends + 1
  <1>1. /\ Running \subseteq Live(jobs) /\ Live(jobs) \subseteq Ids /\ Dead \subseteq Ids
        /\ Waits = Covered(jobs, Live(jobs) \ Running)
        /\ Runs = {jobs[j].covers : j \in Running}
        /\ CoveredBy({"dead"}) = Covered(jobs, Dead) /\ \A j \in Live(jobs) : j \notin Dead
        /\ \A j \in Live(jobs) \cup Dead : jobs[j].status # "none"
    BY Here
  <1>2. /\ i \in Ids /\ gone \subseteq Ids /\ i \notin gone
        /\ jobs[i].status \in {"pending", "none"} /\ \A j \in gone : jobs[j].status = "pending"
        /\ jobs'[i].status = "pending"
        /\ jobs'[i].covers = jobs[i].covers \cup {n} \cup Covered(jobs, gone)
        /\ \A j \in Ids : j # i => jobs'[j] = IF j \in gone THEN NoRow ELSE jobs[j]
    BY DEF Takes, Covered
  <1>3. NoRow.status = "none" /\ NoRow.covers = {}
    BY DEF NoRow
  <1>4. n \notin settled /\ \A j \in Ids : n \notin jobs[j].covers
    <2>1. sends \in Nat
      BY QueueAssumption DEF Inv, TypeOK, WorldOK
    <2>2. n \notin 1 .. sends
      BY <2>1
    <2> HIDE DEF n
    <2> QED
      BY <2>2 DEF Inv, NothingLost
  <1>5. \A j \in Running : j # i /\ j \notin gone
    <2>1. \A j \in Running : jobs[j].status = "processing"
      BY ConsumingRow DEF Running
    <2> QED
      BY <1>2, <2>1
  <1> HIDE DEF n
  <1>6. \A k : k \in Covered(jobs, gone) <=> \E j \in gone : k \in jobs[j].covers
    BY DEF Covered
  <1>7. \A j \in Ids : j # i =>
          /\ j \in gone => jobs'[j].status = "none" /\ jobs'[j].covers = {}
          /\ j \notin gone => jobs'[j] = jobs[j]
    BY <1>2, <1>3
  <1>8. Apart'
    <2>1. ASSUME NEW j \in Ids, NEW k, k \in jobs'[j].covers
          PROVE  \/ j # i /\ j \notin gone /\ k \in jobs[j].covers
                 \/ j = i /\ (k = n \/ k \in jobs[i].covers \/ \E g \in gone : k \in jobs[g].covers)
      <3>1. CASE j = i
        BY <1>2, <1>6, <2>1, <3>1
      <3>2. CASE j # i
        BY <1>7, <2>1, <3>2
      <3> QED
        BY <3>1, <3>2
    <2>2. ASSUME NEW j \in Ids, NEW k, k \in jobs'[j].covers PROVE k \notin settled'
      BY <1>2, <1>4, <2>1, <2>2 DEF Apart
    <2>3. ASSUME NEW j \in Ids, NEW l \in Ids, NEW k, k \in jobs'[j].covers, k \in jobs'[l].covers
          PROVE  j = l
      <3>1. \A p, q \in Ids : k \in jobs[p].covers /\ k \in jobs[q].covers => p = q
        BY DEF Apart
      <3> QED
        BY <1>2, <1>4, <2>1, <2>3, <3>1
    <2>4. ASSUME NEW j \in Ids
          PROVE  /\ jobs'[j].status # "none" => \E k : k \in jobs'[j].covers
                 /\ jobs'[j].status = "none" => jobs'[j].covers = {}
      <3>1. CASE j = i
        BY <1>2, <3>1
      <3>2. CASE j # i
        BY <1>7, <3>2 DEF Apart
      <3> QED
        BY <3>1, <3>2
    <2> QED
      BY <2>2, <2>3, <2>4 DEF Apart
  <1>9. Live(jobs)' = (Live(jobs) \ gone) \cup {i} /\ Dead' = Dead
    BY <1>2, <1>7 DEF Live, Dead
  <1>10. \A j \in Dead \cup Running : jobs'[j].covers = jobs[j].covers
    BY <1>1, <1>2, <1>5, <1>7 DEF Dead
  <1>11. CoveredBy({"dead"})' = CoveredBy({"dead"}) /\ Runs' = Runs
    <2>1. /\ Covered(jobs', Dead) = Covered(jobs, Dead)
          /\ {jobs'[j].covers : j \in Running} = {jobs[j].covers : j \in Running}
      BY <1>10, SameCovered
    <2> QED
      BY <1>1, <1>8, <1>9, <2>1, PlacesNext DEF Mapped
  <1>12. Waits' = Waits \cup {n}
    <2>1. Waits' = Covered(jobs', ((Live(jobs) \ gone) \cup {i}) \ Running)
      BY <1>8, <1>9, PlacesNext DEF Mapped
    <2>2. ASSUME NEW k PROVE k \in Waits' <=> k \in Waits \/ k = n
      <3>1. k \in Waits <=> \E j \in Live(jobs) \ Running : k \in jobs[j].covers
        BY <1>1 DEF Covered
      <3>2. k \in Waits' <=> \E j \in ((Live(jobs) \ gone) \cup {i}) \ Running : k \in jobs'[j].covers
        BY <2>1 DEF Covered
      <3>3. gone \subseteq Live(jobs) \ Running /\ (jobs[i].covers = {} \/ i \in Live(jobs) \ Running)
        BY <1>2, <1>5 DEF Live, Apart
      <3>4. k \in jobs'[i].covers <=> k = n \/ k \in jobs[i].covers \/ \E j \in gone : k \in jobs[j].covers
        BY <1>2, <1>6
      <3>5. \A j \in Live(jobs) : j # i /\ j \notin gone => jobs'[j].covers = jobs[j].covers
        BY <1>1, <1>7
      <3>6. k \in Waits' => k \in Waits \/ k = n
        BY <3>1, <3>2, <3>3, <3>4, <3>5
      <3>7. k = n => k \in Waits'
        BY <1>5, <3>2, <3>4
      <3>8. k \in Waits => k \in Waits'
        BY <1>5, <3>1, <3>2, <3>3, <3>4, <3>5
      <3> QED
        BY <3>6, <3>7, <3>8
    <2> QED
      BY <2>2
  <1>13. n \notin Waits \cup (UNION Runs) \cup CoveredBy({"dead"}) \cup settled
    <2>1. \A S \in SUBSET Ids : n \notin Covered(jobs, S)
      BY <1>4 DEF Covered
    <2>2. n \notin UNION Runs
      BY <1>1, <1>4
    <2>3. n \notin Waits /\ n \notin CoveredBy({"dead"})
      BY <1>1, <2>1
    <2> QED
      BY <1>4, <2>2, <2>3
  <1>14. Delivery!Accept
    <2>1. n \in Ids \ (Waits \cup (UNION Runs) \cup CoveredBy({"dead"}) \cup settled)
      BY <1>13 DEF n
    <2> QED
      BY <1>11, <1>12, <2>1 DEF Delivery!Accept, Delivery!Accepted, Waits
  <1> QED
    BY <1>8, <1>14 DEF Promised, Delivery!Next

-----------------------------------------------------------------------------
(* What each step does to the rows that are being consumed                 *)

\* Loops that stay as they are consume what they did.
LEMMA SameLoops == ASSUME worker' = worker PROVE Running' = Running
  BY DEF Running, Consuming

\* The finally block ends a run, if its job had come that far.
LEMMA ReleasedRun ==
  ASSUME Inv, NEW w \in Busy, Release(w)
  PROVE  /\ worker[w].phase = "consuming" => /\ worker[w].id \in Running
                                             /\ Running' = Running \ {worker[w].id}
         /\ worker[w].phase # "consuming" => Running' = Running
  <1>1. w \in Workers /\ worker \in [Workers -> Job]
    BY DEF Busy, Inv, TypeOK, LoopsOK
  <1>2. worker'[w].phase = "idle" /\ \A v \in Workers : v # w => worker'[v] = worker[v]
    BY <1>1 DEF Release, NoJob
  <1>3. Consuming' = Consuming \ {w}
    BY <1>1, <1>2 DEF Consuming
  <1>4. \A v \in Consuming : v \in Workers /\ (v # w => worker[v].id # worker[w].id)
    BY ConsumingRow, BusyRow DEF Consuming
  <1>5. \A v \in Consuming \ {w} : worker'[v] = worker[v]
    BY <1>2, <1>4
  <1>6. Running' = {worker[v].id : v \in Consuming \ {w}}
    BY <1>3, <1>5 DEF Running
  <1>7. CASE worker[w].phase = "consuming"
    <2>1. w \in Consuming
      BY <1>1, <1>7 DEF Consuming
    <2>2. worker[w].id \in Running
      BY <2>1 DEF Running
    <2>3. Running' = Running \ {worker[w].id}
      BY <1>4, <1>6, <2>1 DEF Running
    <2> QED
      BY <1>7, <2>2, <2>3
  <1>8. CASE worker[w].phase # "consuming"
    <2>1. Consuming \ {w} = Consuming
      BY <1>8 DEF Consuming
    <2> QED
      BY <1>6, <1>8, <2>1 DEF Running
  <1> QED
    BY <1>7, <1>8

\* Rescheduling keeps the sends in their rows, as long as no dead letter is revived.
LEMMA RescheduledKept ==
  ASSUME NEW J \in [Ids -> Row], NEW K, Rescheduled(J, K),
         \A i \in Ids : J[i].status = "dead" => K[i].status = "dead"
  PROVE  Kept(J, K)
  <1>1. ASSUME NEW i \in Ids
        PROVE  /\ K[i].covers = J[i].covers /\ K[i].status \in {J[i].status, "pending"}
               /\ J[i].status = "none" => K[i] = J[i]
               /\ J[i].status = "dead" => K[i].status = "dead"
    <2>1. RowRescheduled(J[i], K[i])
      BY DEF Rescheduled
    <2> QED
      BY <2>1 DEF RowRescheduled, SameContent
  <1>2. ASSUME NEW i \in Ids
        PROVE  /\ K[i].status \in {"pending", "processing"} <=> J[i].status \in {"pending", "processing"}
               /\ K[i].status = "dead" <=> J[i].status = "dead"
               /\ K[i].status = "none" <=> J[i].status = "none"
    <2>1. J[i].status \in {"none", "pending", "processing", "dead"}
      BY DEF Row
    <2> QED
      BY <1>1, <2>1
  <1> QED
    BY <1>1, <1>2 DEF Kept

\* A job that is put back keeps the sends in their rows.
LEMMA PutBackKept ==
  ASSUME Inv, NEW w \in Busy, Rescheduled(jobs, jobs'),
         \A i \in Ids : i # worker[w].id => jobs'[i].status = jobs[i].status
  PROVE  Kept(jobs, jobs')
  <1>1. \A i \in Ids : jobs[i].status = "dead" => jobs'[i].status = "dead"
    BY BusyRow
  <1> QED
    BY <1>1, WorldTypes, RescheduledKept

-----------------------------------------------------------------------------
(* Every step of the queue is a step of JobDelivery                        *)

LEMMA EnqueueStep ==
  ASSUME Inv, Apart, Inv', NEW m \in Messages, NEW delay \in EnqueueDelays, Enqueue(m, delay)
  PROVE  Apart' /\ Promised
  <1>1. PICK i, gone : Takes(m, i, gone)
    BY EnqueueTakes
  <1>2. PICK over : AcceptSend(m, over)
    BY Zenon DEF Enqueue, EnqueueAbsorbed, EnqueueMerged, EnqueueSuperseding,
       EnqueueCoalesced, EnqueueInserted
  <1>3. worker' = worker /\ settled' = settled
    BY <1>2 DEF AcceptSend
  <1>4. sends + 1 \in Ids
    <2>1. Accepting
      BY Zenon DEF Enqueue, EnqueueAbsorbed, EnqueueMerged, EnqueueSuperseding,
         EnqueueCoalesced, EnqueueInserted
    <2> QED
      BY <2>1, WorldTypes, QueueAssumption DEF Accepting, Ids
  <1> QED
    BY <1>1, <1>3, <1>4, SameLoops, Accepts

LEMMA FinishDeferStep ==
  ASSUME Inv, Apart, Inv', NEW w \in Workers, FinishDefer(w) PROVE Apart' /\ Promised
  <1>1. /\ w \in Busy /\ Rescheduled(jobs, jobs')
        /\ \A i \in Ids : i # worker[w].id => jobs'[i] = jobs[i]
    BY FinishDeferRows
  <1>2. Release(w) /\ settled' = settled /\ worker[w].phase # "consuming"
    BY DEF FinishDefer, Gates
  <1> QED
    BY <1>1, <1>2, ReleasedRun, PutBackKept, Stays

LEMMA DriverFaultStep ==
  ASSUME Inv, Apart, Inv', NEW w \in Workers, DriverFault(w) PROVE Apart' /\ Promised
  <1>1. w \in Busy /\ Release(w) /\ jobs' = jobs /\ settled' = settled
    BY DEF DriverFault, Busy
  <1>2. Kept(jobs, jobs')
    BY <1>1 DEF Kept
  <1> QED
    BY <1>1, <1>2, ReleasedRun, Stays, Returns

LEMMA SucceedsStep ==
  ASSUME Inv, Apart, Inv', NEW w \in Workers, ConsumeSucceeds(w) PROVE Apart' /\ Promised
  <1> DEFINE id == worker[w].id
  <1>1. /\ w \in Busy /\ Release(w) /\ worker[w].phase = "consuming"
        /\ jobs' = [jobs EXCEPT ![id] = NoRow] /\ settled' = settled \cup worker[w].covers
    BY DEF ConsumeSucceeds, Consumed, Busy
  <1>2. id \in Ids /\ jobs[id].covers = worker[w].covers
    BY <1>1, BusyRow
  <1>3. jobs'[id] = NoRow /\ \A i \in Ids : i # id => jobs'[i] = jobs[i]
    BY <1>1, <1>2, WorldTypes
  <1>4. id \in Running /\ Running' = Running \ {id}
    BY <1>1, ReleasedRun
  <1> QED
    BY <1>1, <1>2, <1>3, <1>4, Settles

LEMMA ContendedStep ==
  ASSUME Inv, Apart, Inv', NEW w \in Workers, ConsumeContended(w) PROVE Apart' /\ Promised
  <1>1. /\ w \in Busy /\ Rescheduled(jobs, jobs')
        /\ \A i \in Ids : i # worker[w].id => jobs'[i] = jobs[i]
    BY ContendedRows
  <1>2. Release(w) /\ settled' = settled /\ worker[w].phase = "consuming"
    BY DEF ConsumeContended, Consumed
  <1> QED
    BY <1>1, <1>2, ReleasedRun, PutBackKept, Returns

LEMMA FailsStep ==
  ASSUME Inv, Apart, Inv', NEW w \in Workers, ConsumeFails(w) PROVE Apart' /\ Promised
  <1> DEFINE id == worker[w].id
  <1>1. /\ w \in Busy /\ id \in Ids /\ jobs[id].status = "processing"
        /\ \A i \in Ids : i # id => jobs'[i] = jobs[i]
        /\ jobs'[id].covers = jobs[id].covers /\ jobs'[id].status \in {"pending", "dead"}
    BY FailsRows
  <1>2. Release(w) /\ settled' = settled /\ worker[w].phase = "consuming"
    BY DEF ConsumeFails, Consumed
  <1>3. id \in Running /\ Running' = Running \ {id}
    BY <1>1, <1>2, ReleasedRun
  <1>4. CASE jobs'[id].status = "dead"
    BY <1>1, <1>2, <1>3, <1>4, GivesUp
  <1>5. CASE jobs'[id].status = "pending"
    <2>1. Kept(jobs, jobs')
      BY <1>1, <1>5 DEF Kept
    <2> QED
      BY <1>2, <1>3, <2>1, Returns
  <1> QED
    BY <1>1, <1>4, <1>5

LEMMA RateLimitedStep ==
  ASSUME Inv, Apart, Inv', NEW w \in Workers, ConsumeRateLimited(w) PROVE Apart' /\ Promised
  <1> DEFINE id == worker[w].id
  <1>1. w \in Busy /\ Release(w) /\ settled' = settled /\ worker[w].phase = "consuming"
    BY DEF ConsumeRateLimited, Consumed, Busy
  <1>2. id \in Running /\ Running' = Running \ {id}
    BY <1>1, ReleasedRun
  <1>3. CASE Rescheduled(jobs, jobs') /\ \A i \in Ids : i # id => jobs'[i].status = jobs[i].status
    BY <1>1, <1>2, <1>3, PutBackKept, Returns
  <1>4. ASSUME NEW twin, Folded(id, twin) PROVE Apart' /\ Promised
    <2>1. \A j \in Running : jobs[j].status = "processing"
      BY ConsumingRow DEF Running
    <2>2. twin \in Live(jobs) \ Running
      BY <1>4, <2>1 DEF Folded, Live
    <2>3. /\ jobs'[id] = NoRow /\ jobs'[twin].status \in {"pending", "processing"}
          /\ jobs'[twin].covers = jobs[twin].covers \cup jobs[id].covers
          /\ \A j \in Ids : j # id /\ j # twin =>
               jobs'[j].covers = jobs[j].covers /\ jobs'[j].status = jobs[j].status
      BY <1>4 DEF Folded, SameContent
    <2> QED
      BY <1>1, <1>2, <2>2, <2>3, Folds
  <1> QED
    BY <1>3, <1>4, RateLimitedRows

\* A claim that the gates admit starts a run; one that a gate defers, and the lease reclaim before
\* it, leave the sends where they are.
LEMMA ProcessOneStep ==
  ASSUME Inv, Apart, Inv', NEW w \in Workers, ProcessOne(w) PROVE Apart' /\ Promised
  <1>1. worker[w].phase = "idle" /\ settled' = settled
    BY DEF ProcessOne
  <1>2. PICK jitter \in [Expired(jobs) -> Jitters] :
          LET J == reclaimExpiredProcessingJobs(jobs, jitter) IN
          \/ \E i \in ForegroundClaim(J) : Claim(w, J, i, FALSE)
          \/ \E i \in BackgroundClaim(J) : Claim(w, J, i, TRUE)
          \/ jobs' = J /\ worker' = worker
    BY Zenon DEF ProcessOne
  <1> DEFINE J == reclaimExpiredProcessingJobs(jobs, jitter)
  <1>3. Rescheduled(jobs, J) /\ \A j \in Ids : j \in ActiveIds => J[j] = jobs[j]
    BY ReclaimReschedules DEF Inv
  <1>4. J \in [Ids -> Row]
    BY <1>3 DEF Rescheduled
  <1>5. Kept(jobs, J)
    <2>1. \A i \in Ids : jobs[i].status = "dead" => J[i].status = "dead"
      BY DEF reclaimExpiredProcessingJobs, Expired
    <2> QED
      BY <1>3, <2>1, WorldTypes, RescheduledKept
  <1>6. CASE jobs' = J /\ worker' = worker
    BY <1>1, <1>5, <1>6, SameLoops, Stays
  <1>7. ASSUME NEW i \in ForegroundClaim(J) \cup BackgroundClaim(J), NEW slot \in BOOLEAN,
               Claim(w, J, i, slot)
        PROVE  Apart' /\ Promised
    <2> HIDE DEF J
    <2>1. i \in Ids /\ J[i].status = "pending"
      BY ClaimIsFree
    <2>2. /\ jobs' = [J EXCEPT ![i] = Leased(J[i])]
          /\ SameContent(J[i], Leased(J[i])) /\ Leased(J[i]).status = "processing"
      BY <1>4, <1>7, <2>1, LeasedType DEF Claim
    <2>3. Kept(jobs, jobs')
      <3>1. /\ jobs'[i].covers = J[i].covers /\ jobs'[i].status = "processing"
            /\ \A j \in Ids : j # i => jobs'[j] = J[j]
        BY <1>4, <2>1, <2>2 DEF SameContent
      <3>2. ASSUME NEW j \in Ids
            PROVE  /\ jobs'[j].covers = jobs[j].covers
                   /\ jobs'[j].status \in {"pending", "processing"}
                        <=> jobs[j].status \in {"pending", "processing"}
                   /\ jobs'[j].status = "dead" <=> jobs[j].status = "dead"
                   /\ jobs'[j].status = "none" <=> jobs[j].status = "none"
        <4>1. /\ J[j].covers = jobs[j].covers
              /\ J[j].status \in {"pending", "processing"} <=> jobs[j].status \in {"pending", "processing"}
              /\ J[j].status = "dead" <=> jobs[j].status = "dead"
              /\ J[j].status = "none" <=> jobs[j].status = "none"
          BY <1>5 DEF Kept
        <4>2. CASE j = i
          BY <2>1, <3>1, <4>1, <4>2
        <4>3. CASE j # i
          BY <3>1, <4>1, <4>3
        <4> QED
          BY <4>2, <4>3
      <3> QED
        BY <3>2 DEF Kept
    <2>4. PICK gate : \E inst :
            worker' = [worker EXCEPT ![w] =
              [id |-> i, msg |-> J[i].msg, ver |-> J[i].ver, covers |-> J[i].covers,
               attempts |-> J[i].attempts, slot |-> slot, inst |-> inst, phase |-> gate]]
      BY <1>7, Zenon DEF Claim
    <2>5. /\ worker'[w].id = i /\ worker'[w].phase = gate
          /\ \A v \in Workers : v # w => worker'[v] = worker[v]
      BY <2>4 DEF Inv, TypeOK, LoopsOK
    <2>6. w \notin Consuming
      BY <1>1 DEF Consuming
    <2>7. CASE gate = "consuming"
      <3>1. Consuming' = Consuming \cup {w}
        BY <2>5, <2>6, <2>7 DEF Consuming
      <3>2. \A v \in Consuming : worker'[v] = worker[v]
        BY <2>5, <2>6 DEF Consuming
      <3>3. Running' = Running \cup {i}
        BY <2>5, <3>1, <3>2 DEF Running
      <3>4. i \notin Running
        <4>1. \A j \in Running : j \in ActiveIds /\ j \in Ids /\ jobs[j].status = "processing"
          BY ConsumingRow DEF Running, ActiveIds
        <4> QED
          BY <1>3, <2>1, <4>1
      <3> QED
        BY <1>1, <2>1, <2>3, <3>3, <3>4, Starts
    <2>8. CASE gate # "consuming"
      <3>1. Consuming' = Consuming
        BY <2>5, <2>6, <2>8 DEF Consuming
      <3>2. \A v \in Consuming : worker'[v] = worker[v]
        BY <2>5, <2>6 DEF Consuming
      <3>3. Running' = Running
        BY <3>1, <3>2 DEF Running
      <3> QED
        BY <1>1, <2>3, <3>3, Stays
    <2> QED
      BY <2>7, <2>8
  <1> QED
    BY <1>2, <1>6, <1>7

LEMMA ReviveStep ==
  ASSUME Inv, Apart, Inv', ReviveDeadLetterJobs PROVE Apart' /\ Promised
  <1>1. PICK jitter \in [Revivable -> Jitters] :
          jobs' = [i \in Ids |-> IF i \in Revivable THEN Repend(jobs[i], jitter[i]) ELSE jobs[i]]
    BY DEF ReviveDeadLetterJobs
  <1>2. worker' = worker /\ settled' = settled /\ Revivable # {} /\ Revivable \in SUBSET Dead
    BY DEF ReviveDeadLetterJobs, Quiet, Revivable, Dead
  <1>3. ASSUME NEW i \in Ids
        PROVE  /\ jobs'[i].covers = jobs[i].covers
               /\ i \in Revivable => jobs'[i].status = "pending"
               /\ i \notin Revivable => jobs'[i].status = jobs[i].status
    <2>1. CASE i \in Revivable
      <3>1. jitter[i] \in Int /\ jobs[i] \in Row
        BY <2>1, InputType, WorldTypes
      <3>2. jobs'[i] = Repend(jobs[i], jitter[i])
        BY <1>1, <2>1
      <3> QED
        BY <2>1, <3>1, <3>2, RependType DEF SameContent
    <2>2. CASE i \notin Revivable
      BY <1>1, <2>2
    <2> QED
      BY <2>1, <2>2
  <1>4. \A j \in Revivable : j \in Ids
    BY DEF Revivable
  <1> QED
    BY <1>2, <1>3, <1>4, SameLoops, Revives

LEMMA ReplayStep ==
  ASSUME Inv, Apart, Inv', NEW i \in Ids, ReplayDeadLetterJob(i) PROVE Apart' /\ Promised
  <1> DEFINE row == [Repend(jobs[i], 0) EXCEPT !.attempts = 0]
  <1>1. /\ i \in Dead /\ jobs' = [jobs EXCEPT ![i] = row] /\ worker' = worker /\ settled' = settled
    BY DEF ReplayDeadLetterJob, Quiet
  <1>2. row.status = "pending" /\ row.covers = jobs[i].covers
    <2>1. /\ Repend(jobs[i], 0) \in Row /\ Repend(jobs[i], 0).status = "pending"
          /\ Repend(jobs[i], 0).covers = jobs[i].covers
      BY WorldTypes, RependType DEF SameContent
    <2> QED
      BY <2>1 DEF Row
  <1> HIDE DEF row
  <1>3. jobs'[i] = row /\ \A j \in Ids : j # i => jobs'[j] = jobs[j]
    BY <1>1, WorldTypes
  <1>4. {i} \in SUBSET Dead /\ {i} # {}
    BY <1>1
  <1> QED
    BY <1>1, <1>2, <1>3, <1>4, SameLoops, Revives

LEMMA DiscardStep ==
  ASSUME Inv, Apart, Inv', NEW S \in SUBSET Dead, Discard(S) PROVE Apart' /\ Promised
  <1>1. /\ S # {} /\ worker' = worker
        /\ jobs' = [i \in Ids |-> IF i \in S THEN NoRow ELSE jobs[i]]
        /\ settled' = settled \cup Covered(jobs, S)
    BY DEF Discard, Quiet, Covered
  <1>2. \A j \in S : j \in Ids
    BY DEF Dead
  <1>3. (\A j \in S : jobs'[j] = NoRow) /\ \A j \in Ids : j \notin S => jobs'[j] = jobs[j]
    BY <1>1, <1>2
  <1> QED
    BY <1>1, <1>3, SameLoops, Discards

\* Sweeps, shutdown, boot, the environment and the clock.
LEMMA QuietStep ==
  ASSUME Inv, Apart, Inv', Rescheduled(jobs, jobs'),
         \A i \in Ids : jobs[i].status = "dead" => jobs'[i].status = "dead",
         worker' = worker, settled' = settled
  PROVE  Apart' /\ Promised
  BY WorldTypes, RescheduledKept, SameLoops, Stays

LEMMA LivenessSweepStep ==
  ASSUME Inv, Apart, Inv', ReleaseStaleForegroundDeferrals PROVE Apart' /\ Promised
  <1>1. Rescheduled(jobs, jobs') /\ \A i \in Ids : jobs'[i].status = jobs[i].status
    BY WorldTypes, SweepReschedules DEF ReleaseStaleForegroundDeferrals
  <1>2. worker' = worker /\ settled' = settled
    BY DEF ReleaseStaleForegroundDeferrals, Quiet
  <1> QED
    BY <1>1, <1>2, QuietStep

LEMMA BootStep == ASSUME Inv, Apart, Inv', Boot PROVE Apart' /\ Promised
  <1>1. worker' = worker /\ settled' = settled
    BY DEF Boot, Quiet
  <1> QED
    BY <1>1, BootRows, QuietStep

LEMMA TickStep == ASSUME Inv, Apart, Inv', Tick PROVE Apart' /\ Promised
  <1>1. worker' = worker /\ settled' = settled /\ jobs' = [i \in Ids |-> Aged(jobs[i])]
    BY DEF Tick, Still
  <1>2. \A i \in Ids : RowRescheduled(jobs[i], jobs'[i]) /\ jobs'[i].status = jobs[i].status
    BY <1>1, WorldTypes, AgedReschedules
  <1>3. Rescheduled(jobs, jobs')
    <2>1. jobs' = [i \in Ids |-> jobs'[i]]
      BY <1>1
    <2> QED
      BY <1>2, <2>1, WorldTypes, RescheduledTable
  <1> QED
    BY <1>1, <1>2, <1>3, QuietStep

\* The rest leaves table, loops and settled sends alone.
LEMMA IdleStep ==
  ASSUME Inv, Apart, Inv', UNCHANGED <<jobs, worker, settled>> PROVE Apart' /\ Promised
  BY SameTable, QuietStep

LEMMA EndOfProcessStep == ASSUME Inv, Apart, Inv', Exit \/ Crash PROVE Apart' /\ Promised
  <1>1. Forget
    BY DEF Exit, Crash
  <1>2. settled' = settled /\ Running' = {}
    <2>1. worker' = [w \in Workers |-> NoJob] /\ NoJob.phase = "idle" /\ settled' = settled
      BY <1>1 DEF Forget, NoJob
    <2>2. \A w \in Workers : worker'[w].phase = "idle"
      BY <2>1
    <2>3. Consuming' = {}
      BY <2>2 DEF Consuming
    <2> QED
      BY <2>1, <2>3 DEF Running
  <1>3. Kept(jobs, jobs')
    <2>1. CASE Exit
      BY <2>1, ExitRows, WorldTypes, RescheduledKept
    <2>2. CASE Crash
      BY <2>2 DEF Crash, Kept
    <2> QED
      BY <2>1, <2>2
  <1> QED
    BY <1>2, <1>3, Dies

-----------------------------------------------------------------------------
(* The refinement                                                          *)

\* The initial state of the queue is the initial state of JobDelivery.
LEMMA InitialRefinement == Init => Apart /\ Delivery!Init
  <1> SUFFICES ASSUME Init PROVE Apart /\ Delivery!Init
    OBVIOUS
  <1>1. /\ \A i \in Ids : jobs[i].covers = {} /\ jobs[i].status = "none"
        /\ \A w \in Workers : worker[w].phase = "idle"
        /\ settled = {}
    BY DEF Init, NoRow, NoJob
  <1>2. Apart
    BY <1>1 DEF Apart
  <1>3. Runs = {} /\ CoveredBy({"dead"}) = {} /\ CoveredBy({"pending", "processing"}) = {}
    BY <1>1 DEF Runs, CoveredBy
  <1> QED
    BY <1>1, <1>2, <1>3 DEF Delivery!Init

\* Every step of the queue is a step of JobDelivery, or none.
LEMMA StepRefinement == Inv /\ Apart /\ Inv' /\ [Next]_vars => Apart' /\ Promised
  <1> SUFFICES ASSUME Inv, Apart, Inv', [Next]_vars PROVE Apart' /\ Promised
    OBVIOUS
  <1>1. ASSUME NEW m \in Messages, NEW delay \in EnqueueDelays, Enqueue(m, delay)
        PROVE  Apart' /\ Promised
    BY <1>1, EnqueueStep
  <1>2. ASSUME NEW w \in Workers, ProcessOne(w) PROVE Apart' /\ Promised
    BY <1>2, ProcessOneStep
  <1>3. ASSUME NEW w \in Workers, FinishDefer(w) PROVE Apart' /\ Promised
    BY <1>3, FinishDeferStep
  <1>4. ASSUME NEW w \in Workers, FinishConsume(w) PROVE Apart' /\ Promised
    BY <1>4, SucceedsStep, ContendedStep, RateLimitedStep, FailsStep DEF FinishConsume
  <1>5. ASSUME NEW w \in Workers, DriverFault(w) PROVE Apart' /\ Promised
    BY <1>5, DriverFaultStep
  <1>6. CASE ReviveDeadLetterJobs \/ ReleaseStaleForegroundDeferrals
    BY <1>6, ReviveStep, LivenessSweepStep
  <1>7. ASSUME NEW i \in Ids, ReplayDeadLetterJob(i) PROVE Apart' /\ Promised
    BY <1>7, ReplayStep
  <1>8. ASSUME NEW i \in Ids, DeleteDeadLetterJob(i) PROVE Apart' /\ Promised
    BY <1>8, DiscardStep DEF DeleteDeadLetterJob
  <1>9. CASE PurgeDeadLetterJobs
    BY <1>9, DiscardStep DEF PurgeDeadLetterJobs
  <1>10. CASE Stop \/ CacheExpires \/ UNCHANGED vars
    BY <1>10, IdleStep DEF Stop, Quiet, CacheExpires, Still, vars
  <1>11. CASE Exit \/ Crash
    BY <1>11, EndOfProcessStep
  <1>12. CASE Boot \/ Tick
    BY <1>12, BootStep, TickStep
  <1>13. ASSUME NEW k \in AdmissionKeys, NEW level \in BudgetLevels, ChangeBudget(k, level)
         PROVE  Apart' /\ Promised
    BY <1>13, IdleStep DEF ChangeBudget, Still
  <1>14. ASSUME NEW h \in HostLoads, ChangeHost(h) PROVE Apart' /\ Promised
    BY <1>14, IdleStep DEF ChangeHost, Still
  <1> QED
    BY <1>1, <1>2, <1>3, <1>4, <1>5, <1>6, <1>7, <1>8, <1>9, <1>10, <1>11, <1>12, <1>13, <1>14
       DEF Next

\* The SQLite queue keeps the promise of JobDelivery: every accepted send is in exactly one place,
\* runs in one job at a time, and is settled only by a run whose claim already stood for it or by
\* an operator who deletes a dead letter.
THEOREM PromiseKept == Spec => KeepsPromise
  <1>1. Spec => Delivery!Init /\ Apart
    BY InitialRefinement DEF Spec
  <1>2. Spec => []Inv
    BY Invariance
  <1>3. Inv /\ Apart /\ Inv' /\ [Next]_vars => Apart' /\ [Delivery!Next]_(Delivery!vars)
    BY StepRefinement DEF Promised
  <1> QED
    BY <1>1, <1>2, <1>3, PTL DEF Spec, KeepsPromise, Delivery!Spec
=============================================================================
