------------------------- MODULE ReviewLocksProofs -------------------------
(***************************************************************************)
(* The locks of ReviewLocks keep passes apart for any number of processes, *)
(* passes and faults and any TTL and heartbeat interval the code allows:   *)
(* one inductive invariant, Inv, from which the invariants and the action  *)
(* properties of the module follow.                                        *)
(***************************************************************************)
EXTENDS ReviewLocks, TLAPS

\* The places a pass comes by, on each path.
Route(p) ==
  IF kind[p].path = "capclose"
  THEN {At("await", "cap"), At("claim", "pr"), At("await", "pr"), At("mutate", "pr"), At("release", "pr"),
        At("release", "cap")}
  ELSE {At("await", "pr"), At("publish", "pr"), At("await", "ai"), At("review", "ai"), At("persist", "ai"),
        At("release", "ai"), At("check", "pr"), At("await", "cap"), At("mutate", "cap"), At("release", "cap"),
        At("mutate", "pr"), At("release", "pr")}
       \cup (IF kind[p].path = "sweep" THEN {At("refresh", "pr")} ELSE {})

\* The keys a pass may have been granted where it is: its first one, and the one this place is about.
Room(p) ==
  IF ~Running(p) THEN {}
  ELSE IF Stage(p) \in {"await", "claim"} THEN {FirstKey(p)} \ {pc[p].key} ELSE {FirstKey(p), pc[p].key}

\* A pass is on its route, and was granted no key but those it has room for; while it runs it has a process and a
\* token.
PlacedAt(p) ==
  /\ Running(p) => pc[p] \in Route(p)
  /\ (Running(p) <=> proc[p] # None) /\ (Running(p) <=> cur[p] # None)
  /\ token[p] \subseteq Room(p)

\* A heartbeat runs for a granted lock that is not about to be released, and a review has one until it learns that its
\* lock is lost; a lock is late or lapsed, or its clocks run, only while the pass claims it.
BeatingAt(p) ==
  /\ beat[p] \subseteq token[p] \cap RenewedBy(p) /\ lost[p] \subseteq token[p]
  /\ \A k \in beat[p] : pc[p] # At("release", k)
  /\ Stage(p) = "refresh" => "pr" \notin beat[p] \cup lost[p]
  /\ Inside(p, "ai") => "ai" \in beat[p] \cup lost[p]
  /\ \A k \in late[p] \cup lapsed[p] : Claimed(p, k)
  /\ \A k \in Keys : k \in beat[p] \cup lost[p] \/ pc[p] = At("release", k) \/ (since[p][k] = 0 /\ fails[p][k] = 0)
  /\ \A k \in RenewedBy(p) \ (beat[p] \cup lost[p]) : k \in lapsed[p] /\ pc[p] # At("release", k) => k \in late[p]

\* Both, for every pass.
Local == \A p \in Passes : PlacedAt(p) /\ BeatingAt(p)

\* No two passes have one token.
Distinct == \A p, q \in Passes : cur[p] = cur[q] /\ cur[p] # None => p = q

\* A reply on a connection is for a pass of that process that waits for it, and for no other.
Wired ==
  \A P \in Procs : \A n \in DOMAIN replies[P] :
    /\ proc[replies[P][n].pass] = P /\ pc[replies[P][n].pass] = At("await", replies[P][n].key)
    /\ \A m \in DOMAIN replies[P] : m # n => replies[P][m].pass # replies[P][n].pass

\* A pass runs in a process that is not down, and a process gives up locks of its own passes, at its end.
Hosted ==
  /\ \A p \in Passes : Running(p) => life[proc[p]] # "down"
  /\ \A P \in Procs : \A k \in Keys : bulk[P][k] # None =>
       life[P] = "releasing" /\ \A p \in Passes : cur[p] = bulk[P][k] => proc[p] = P

\* A key that is granted on a connection is not any more the key of a pass of that process to which it was granted before.
Overtaken ==
  \A P \in Procs : \A n \in DOMAIN replies[P] : replies[P][n].answer = "ok" =>
    /\ \A p \in Passes : proc[p] = P /\ replies[P][n].key \in token[p] => store[replies[P][n].key] # cur[p]
    /\ \A m \in DOMAIN replies[P] : m < n /\ replies[P][m].key = replies[P][n].key /\ replies[P][m].answer = "ok" =>
         store[replies[P][n].key] # cur[replies[P][m].pass]

\* A key that has a heartbeat has as much of its TTL left as it should by the last renewal that did not fail, whoever
\* has the key; before the heartbeat starts, all of it.
TimelyAt(p, k) ==
  store[k] # None =>
    /\ k \in beat[p] \ late[p] /\ fails[p][k] < 2 => left[k] + since[p][k] + fails[p][k] * Interval >= Ttl
    /\ k \in RenewedBy(p) \ (beat[p] \cup late[p] \cup lost[p]) /\ Inside(p, k) => left[k] = Ttl
Timely == \A p \in Passes : \A k \in Keys : TimelyAt(p, k)

\* A pass whose claim nothing has happened to has its token in the key.
Owned == \A p \in Passes : \A k \in Keys : Protected(p, k) => store[k] = cur[p]

\* The same of a claim that is granted and not yet answered.
Granted(r, P) ==
  r.answer = "ok" =>
    /\ r.key \in RenewedBy(r.pass) \ late[r.pass] => store[r.key] = None \/ left[r.key] = Ttl
    /\ /\ life[P] # "releasing"
       /\ IF r.key = "ai" THEN r.pass \notin stolen /\ "ai" \notin late[r.pass] ELSE r.key \notin lapsed[r.pass]
       => store[r.key] = cur[r.pass]
GrantedOwned == \A P \in Procs : \A n \in DOMAIN replies[P] : Granted(replies[P][n], P)

Inv ==
  /\ TypeOK /\ Local /\ Distinct /\ Wired /\ Hosted /\ RegistryExact /\ Overtaken /\ Timely /\ Owned /\ GrantedOwned

-----------------------------------------------------------------------------
(* Types                                                                   *)

\* The type invariant's parts: Redis, the passes, their clocks, the connections and the processes.
Reply_ == [pass : Passes, key : Keys, answer : {"ok", "denied", "open"}]
RedisOK == store \in Entries /\ left \in [Keys -> 0 .. Ttl] /\ \A k \in Keys : store[k] = None <=> left[k] = 0
PassesOK ==
  /\ pc \in [Passes -> [stage : Stages, key : Keys]] /\ proc \in [Passes -> Procs \cup {None}]
  /\ cur \in [Passes -> Tokens \cup {None}] /\ token \in [Passes -> SUBSET Keys]
RunsOK == \A p \in Passes : (Running(p) <=> proc[p] # None) /\ (Running(p) <=> cur[p] # None)
BeatsOK ==
  /\ beat \in [Passes -> SUBSET Keys] /\ lost \in [Passes -> SUBSET Keys]
  /\ late \in [Passes -> SUBSET Keys] /\ lapsed \in [Passes -> SUBSET Keys]
  /\ since \in Clock(Interval) /\ fails \in Clock(2)
SetsOK == aborting \subseteq Passes /\ stolen \subseteq Passes
WireOK == replies \in [Procs -> Seq(Reply_)]
HostsOK ==
  /\ held \in [Procs -> Entries] /\ bulk \in [Procs -> Entries]
  /\ life \in [Procs -> {"up", "draining", "releasing", "down"}]
FaultsOK == faults \in 0 .. MaxFaults

\* The type invariant, by the part of the state it is about.
LEMMA TypeParts ==
  /\ TypeOK <=> kind \in Kinds /\ RedisOK /\ PassesOK /\ RunsOK /\ BeatsOK /\ SetsOK /\ WireOK /\ HostsOK /\ FaultsOK
  /\ TypeOK' <=> kind' \in Kinds /\ RedisOK' /\ PassesOK' /\ RunsOK' /\ BeatsOK' /\ SetsOK' /\ WireOK' /\ HostsOK' /\ FaultsOK'
  BY DEF TypeOK, RedisOK, PassesOK, RunsOK, BeatsOK, SetsOK, WireOK, HostsOK, FaultsOK, Reply_

\* Every pass is on one of the three paths.
LEMMA KindType ==
  ASSUME Inv, NEW p \in Passes
  PROVE  /\ kind[p].path \in {"sweep", "webhook", "capclose"} /\ FirstKey(p) \in Keys /\ RenewedBy(p) \subseteq Keys
         /\ "ai" \in RenewedBy(p) /\ "cap" \notin RenewedBy(p) /\ ("pr" \in RenewedBy(p) <=> kind[p].path = "sweep")
  BY LocksAssumption, TypeParts DEF Inv, FirstKey, RenewedBy, Keys

\* A place is a stage and a key.
LEMMA PlaceEq ==
  /\ \A s, k, t, j : At(s, k) = At(t, j) <=> s = t /\ k = j
  /\ \A s, k : At(s, k).stage = s /\ At(s, k).key = k
  /\ \A s \in Stages : \A k \in Keys : At(s, k) \in [stage : Stages, key : Keys]
  /\ \A a \in [stage : Stages, key : Keys] : \A s, k : a = At(s, k) <=> a.stage = s /\ a.key = k
  BY DEF At

\* The TTL and the interval are long enough for two renewals.
LEMMA Times == Ttl \in Nat /\ Interval \in Nat /\ Interval >= 1 /\ Ttl >= 3 * Interval /\ Ttl >= 1
  BY LocksAssumption

\* A pass that was granted a key runs, and its token is none that stands for nothing.
LEMMA GrantedRuns ==
  ASSUME Inv, NEW p \in Passes, token[p] # {}
  PROVE  Running(p) /\ cur[p] # None /\ proc[p] \in Procs /\ life[proc[p]] # "down"
  BY TypeParts DEF Inv, Local, PlacedAt, Room, PassesOK, Hosted

\* A pass that a reply is for runs in the process of the connection.
LEMMA RepliedRuns ==
  ASSUME Inv, NEW P \in Procs, NEW n \in DOMAIN replies[P]
  PROVE  /\ replies[P][n] \in Reply_ /\ replies[P][n].pass \in Passes /\ replies[P][n].key \in Keys
         /\ Running(replies[P][n].pass) /\ cur[replies[P][n].pass] # None /\ proc[replies[P][n].pass] = P
         /\ pc[replies[P][n].pass] = At("await", replies[P][n].key) /\ replies[P][n].key \notin token[replies[P][n].pass]
  <1>1. replies[P] \in Seq(Reply_)
    BY TypeParts DEF Inv, WireOK
  <1>2. PICK r \in Reply_ : r = replies[P][n]
    BY <1>1
  <1>3. r.pass \in Passes /\ r.key \in Keys
    BY DEF Reply_
  <1>4. proc[r.pass] = P /\ pc[r.pass] = At("await", r.key)
    BY <1>2 DEF Inv, Wired
  <1>5. Running(r.pass) /\ Stage(r.pass) = "await" /\ pc[r.pass].key = r.key
    BY <1>4, PlaceEq DEF Running, Stage
  <1>6. cur[r.pass] # None /\ r.key \notin token[r.pass]
    BY <1>3, <1>5 DEF Inv, Local, PlacedAt, Room
  <1> QED
    BY <1>2, <1>3, <1>4, <1>5, <1>6
-----------------------------------------------------------------------------
(* What a step leaves alone                                                *)

\* The step leaves all that pass q is doing alone.
SameView(q) ==
  /\ pc'[q] = pc[q] /\ proc'[q] = proc[q] /\ cur'[q] = cur[q] /\ token'[q] = token[q] /\ beat'[q] = beat[q]
  /\ since'[q] = since[q] /\ lost'[q] = lost[q] /\ late'[q] = late[q] /\ lapsed'[q] = lapsed[q] /\ fails'[q] = fails[q]

\* Then it stays where it may be.
LEMMA SameLocal ==
  ASSUME Inv, NEW q \in Passes, SameView(q), UNCHANGED kind
  PROVE  PlacedAt(q)' /\ BeatingAt(q)'
  <1>1. PlacedAt(q) /\ BeatingAt(q)
    BY DEF Inv, Local
  <1>2. PlacedAt(q)'
    BY <1>1 DEF SameView, PlacedAt, Route, Room, Running, Stage, FirstKey
  <1>3. BeatingAt(q)'
    BY <1>1 DEF SameView, BeatingAt, RenewedBy, Inside, Claimed, Stage
  <1> QED
    BY <1>2, <1>3

-----------------------------------------------------------------------------
(* The body of a pass                                                      *)

\* A pass goes on to another place, where it may be, with the heartbeats B: it stops one when it comes to a release, and
\* starts one for a lock it was granted and has not lost.
GoesOn(p, next, B) ==
  /\ pc[p].stage \notin {"queued", "await", "claim", "release", "done"} /\ next.stage \notin {"queued", "await", "claim", "done"}
  /\ next \in Route(p) /\ {FirstKey(p), pc[p].key} \subseteq {FirstKey(p), next.key}
  /\ beat' = [beat EXCEPT ![p] = B] /\ B \subseteq token[p] \cap RenewedBy(p)
  /\ \A k \in beat[p] \ B : next = At("release", k)
  /\ \A k \in B : next # At("release", k) /\ k \notin lost[p] \ beat[p]
  /\ "ai" \in token[p] => "ai" \in B \cup lost[p] \/ next = At("release", "ai")
  /\ next.stage # "refresh"

\* Then the invariant is preserved.
LEMMA BodyInv ==
  ASSUME Inv, NEW p \in Passes, NEW next \in [stage : Stages, key : Keys], NEW B \in SUBSET Keys, UNCHANGED kind,
         Body(p, next), GoesOn(p, next, B), SetsOK', FaultsOK'
  PROVE  Inv'
  <1>1. UNCHANGED <<redis, proc, cur, token, since, replies, lost, late, lapsed, fails, host, stolen>>
    BY DEF Body
  <1>2. UNCHANGED <<store, left, held, bulk, life>>
    BY <1>1 DEF redis, host
  <1>3. PassesOK /\ BeatsOK
    BY TypeParts DEF Inv
  <1>4. pc'[p] = next /\ (\A q \in Passes : q # p => pc'[q] = pc[q]) /\ pc' \in [Passes -> [stage : Stages, key : Keys]]
    BY <1>3 DEF Body, PassesOK
  <1>5. beat'[p] = B /\ (\A q \in Passes : q # p => beat'[q] = beat[q]) /\ beat' \in [Passes -> SUBSET Keys]
    BY <1>3 DEF GoesOn, BeatsOK
  <1>6. \A q \in Passes : q # p => SameView(q)
    BY <1>1, <1>4, <1>5 DEF SameView
  <1>7. Running(p) /\ Running(p)' /\ pc[p] \in [stage : Stages, key : Keys]
    BY <1>3, <1>4 DEF GoesOn, Running, Stage, PassesOK
  <1>8. \A q \in Passes : Running(q)' <=> Running(q)
    BY <1>4, <1>7 DEF Running, Stage
  <1>9. \A k : pc[p] # At("release", k) /\ pc[p] # At("await", k)
    BY PlaceEq DEF GoesOn
  <1>10. PlacedAt(p)'
    <2>1. PlacedAt(p)
      BY DEF Inv, Local
    <2>2. next \in Route(p)' /\ FirstKey(p)' = FirstKey(p)
      BY DEF GoesOn, Route, FirstKey
    <2>3. token[p] \subseteq {FirstKey(p), pc[p].key}
      BY <1>7, <2>1 DEF PlacedAt, Room, GoesOn, Stage
    <2>4. Room(p)' = {FirstKey(p), next.key}
      BY <1>4, <1>7, <2>2 DEF Room, Stage, GoesOn
    <2>5. token'[p] \subseteq Room(p)'
      BY <1>1, <2>3, <2>4 DEF GoesOn
    <2> QED
      BY <1>1, <1>4, <1>7, <2>1, <2>2, <2>5 DEF PlacedAt
  <1>11. BeatingAt(p)'
    <2>1. BeatingAt(p)
      BY DEF Inv, Local
    <2>2. RenewedBy(p)' = RenewedBy(p)
      BY DEF RenewedBy
    <2>3. B \subseteq token'[p] \cap RenewedBy(p)' /\ lost'[p] \subseteq token'[p] /\ \A k \in B : pc'[p] # At("release", k)
      BY <1>1, <1>4, <2>1, <2>2 DEF GoesOn, BeatingAt
    <2>4. Inside(p, "ai")' => "ai" \in B \cup lost'[p]
      BY <1>1, <1>4 DEF Inside, GoesOn
    <2>5. \A k \in late'[p] \cup lapsed'[p] : Claimed(p, k)'
      BY <1>1, <1>9, <2>1 DEF BeatingAt, Claimed
    <2>6. \A k \in Keys : k \in B \cup lost'[p] \/ pc'[p] = At("release", k) \/ (since'[p][k] = 0 /\ fails'[p][k] = 0)
      BY <1>1, <1>4, <1>9, <2>1 DEF BeatingAt, GoesOn
    <2>7. \A k \in RenewedBy(p)' \ (B \cup lost'[p]) : k \in lapsed'[p] /\ pc'[p] # At("release", k) => k \in late'[p]
      BY <1>1, <1>4, <1>9, <2>1, <2>2 DEF BeatingAt, GoesOn
    <2>8. Stage(p)' # "refresh"
      BY <1>4 DEF Stage, GoesOn
    <2> QED
      BY <1>5, <2>3, <2>4, <2>5, <2>6, <2>7, <2>8 DEF BeatingAt
  <1>12. Local'
    BY <1>6, <1>10, <1>11, SameLocal DEF Local
  <1>13. TypeOK'
    <2>1. RedisOK' /\ WireOK' /\ HostsOK' /\ kind' \in Kinds
      BY <1>1, <1>2, TypeParts DEF Inv, RedisOK, WireOK, HostsOK
    <2>2. PassesOK' /\ BeatsOK' /\ RunsOK'
      BY <1>1, <1>3, <1>4, <1>5, <1>8, TypeParts DEF Inv, PassesOK, BeatsOK, RunsOK
    <2> QED
      BY <2>1, <2>2, TypeParts
  <1>14. Distinct' /\ RegistryExact' /\ Overtaken'
    BY <1>1, <1>2 DEF Inv, Distinct, RegistryExact, Overtaken
  <1>15. Wired'
    <2>1. \A P \in Procs : \A n \in DOMAIN replies[P] : replies[P][n].pass # p /\ replies[P][n].pass \in Passes
      BY <1>9, RepliedRuns
    <2> QED
      BY <1>1, <1>4, <2>1 DEF Inv, Wired
  <1>16. Hosted'
    BY <1>1, <1>2, <1>8 DEF Inv, Hosted
  <1>17. GrantedOwned'
    BY <1>1, <1>2 DEF Inv, GrantedOwned, Granted, RenewedBy
  <1>18. ASSUME NEW k \in Keys
         PROVE  TimelyAt(p, k)' /\ (Protected(p, k)' => store'[k] = cur'[p])
    <2>1. BeatingAt(p) /\ TimelyAt(p, k) /\ (Protected(p, k) => store[k] = cur[p])
      BY DEF Inv, Local, Timely, Owned
    <2>2. Inside(p, k)' => Inside(p, k)
      BY <1>1, <1>9 DEF Inside
    <2>3. Inside(p, k)' /\ k \notin B => k \notin beat[p]
      BY <1>4 DEF Inside, GoesOn
    <2>4. k \in B /\ k \notin beat[p] => /\ k \notin lost[p] /\ k \in RenewedBy(p) /\ since[p][k] = 0 /\ fails[p][k] = 0 /\ Inside(p, k)
                                         /\ (k \notin late[p] => k \notin lapsed[p])
      BY <1>9, <2>1 DEF GoesOn, BeatingAt, Inside
    <2>5. Protected(p, k)' => Protected(p, k)
      BY <1>1, <1>2, <1>5, <2>2, <2>3, <2>4 DEF Protected
    <2>6. TimelyAt(p, k)'
      <3> SUFFICES ASSUME store[k] # None
                   PROVE  /\ k \in B \ late[p] /\ fails[p][k] < 2 => left[k] + since[p][k] + fails[p][k] * Interval >= Ttl
                          /\ k \in RenewedBy(p) \ (B \cup late[p] \cup lost[p]) /\ Inside(p, k)' => left[k] = Ttl
        BY <1>1, <1>2, <1>5 DEF TimelyAt, RenewedBy
      <3>1. CASE k \in beat[p] \/ k \notin B
        BY <2>1, <2>2, <2>3, <3>1 DEF TimelyAt
      <3>2. CASE k \in B /\ k \notin beat[p]
        BY <2>1, <2>4, <3>2, Times DEF TimelyAt
      <3> QED
        BY <3>1, <3>2
    <2> QED
      BY <1>1, <1>2, <2>1, <2>5, <2>6
  <1>19. ASSUME NEW q \in Passes, q # p, NEW k \in Keys
         PROVE  TimelyAt(q, k)' /\ (Protected(q, k)' => store'[k] = cur'[q])
    <2>1. TimelyAt(q, k) /\ (Protected(q, k) => store[k] = cur[q]) /\ SameView(q)
      BY <1>6, <1>19 DEF Inv, Timely, Owned
    <2>2. Inside(q, k)' = Inside(q, k)
      BY <2>1 DEF SameView, Inside
    <2> QED
      BY <1>1, <1>2, <2>1, <2>2 DEF SameView, TimelyAt, Protected, RenewedBy
  <1>20. Timely' /\ Owned'
    BY <1>18, <1>19 DEF Timely, Owned
  <1> QED
    BY <1>12, <1>13, <1>14, <1>15, <1>16, <1>17, <1>20 DEF Inv

\* A stage tells the key and the path.
LEMMA Whereabouts ==
  ASSUME Inv, NEW p \in Passes
  PROVE  /\ Stage(p) = "refresh" => pc[p] = At("refresh", "pr") /\ kind[p].path = "sweep"
         /\ \A s \in {"publish", "check"} : Stage(p) = s => pc[p] = At(s, "pr") /\ kind[p].path # "capclose"
         /\ \A s \in {"review", "persist"} : Stage(p) = s => pc[p] = At(s, "ai") /\ kind[p].path # "capclose"
         /\ Stage(p) = "claim" => pc[p] = At("claim", "pr") /\ kind[p].path = "capclose"
         /\ \A s \in {"mutate", "release", "await"} : Stage(p) = s =>
              /\ pc[p].key \in Keys /\ pc[p] = At(s, pc[p].key)
              /\ kind[p].path = "capclose" => pc[p].key # "ai"
              /\ s = "mutate" /\ kind[p].path = "capclose" => pc[p].key = "pr"
              /\ s = "mutate" /\ kind[p].path # "capclose" => pc[p].key # "ai"
         /\ pc[p] \in [stage : Stages, key : Keys]
  <1>1. pc[p] \in [stage : Stages, key : Keys] /\ (Running(p) => pc[p] \in Route(p))
    BY TypeParts DEF Inv, PassesOK, Local, PlacedAt
  <1>2. \A s \in {"refresh", "publish", "check", "review", "persist", "claim", "mutate", "release", "await"} :
          Stage(p) = s => pc[p] \in Route(p)
    BY <1>1 DEF Running
  <1> QED
    BY <1>1, <1>2, PlaceEq DEF Route, Stage

\* Every step of the body of a pass.
LEMMA PassBodyInv ==
  ASSUME Inv, NEW p \in Passes, UNCHANGED kind,
         \/ StartHeartbeat(p) \/ SkipReview(p) \/ Persist(p) \/ EndReview(p) \/ AbortLost(p)
         \/ MaintainNothing(p) \/ Mutate(p) \/ EndMutation(p)
  PROVE  Inv'
  <1>1. PlacedAt(p) /\ BeatingAt(p) /\ beat \in [Passes -> SUBSET Keys] /\ token[p] \subseteq Keys /\ "pr" \in Keys /\ "ai" \in Keys
    BY TypeParts DEF Inv, Local, BeatsOK, PassesOK, Keys
  <1>2. SetsOK' /\ FaultsOK'
    <2>1. aborting' = aborting \/ aborting' = aborting \cup {p}
      BY DEF StartHeartbeat, SkipReview, Persist, EndReview, AbortLost, MaintainNothing, Mutate, EndMutation
    <2>2. faults' = faults \/ (faults < MaxFaults /\ faults' = faults + 1)
      BY DEF StartHeartbeat, SkipReview, Persist, EndReview, AbortLost, MaintainNothing, Mutate, EndMutation
    <2>3. UNCHANGED stolen
      BY DEF StartHeartbeat, SkipReview, Persist, EndReview, AbortLost, MaintainNothing, Mutate, EndMutation, Body
    <2>4. SetsOK /\ FaultsOK
      BY TypeParts DEF Inv
    <2> QED
      BY <2>1, <2>2, <2>3, <2>4, LocksAssumption DEF SetsOK, FaultsOK
  <1>3. CASE StartHeartbeat(p)
    <2> DEFINE B == IF "pr" \in token[p] THEN beat[p] \cup {"pr"} ELSE beat[p]  next == At("publish", "pr")
    <2>1. pc[p] = At("refresh", "pr") /\ kind[p].path = "sweep" /\ Stage(p) = "refresh"
      BY <1>3, Whereabouts DEF StartHeartbeat
    <2>2. beat' = [beat EXCEPT ![p] = B] /\ Body(p, next)
      BY <1>3 DEF StartHeartbeat
    <2>3. B \in SUBSET Keys /\ next \in [stage : Stages, key : Keys] /\ next \in Route(p) /\ FirstKey(p) = "pr"
      BY <1>1, <2>1, PlaceEq DEF Route, Stages, FirstKey
    <2>4. "pr" \notin beat[p] \cup lost[p] /\ B \subseteq token[p] \cap RenewedBy(p)
      BY <1>1, <2>1 DEF BeatingAt, RenewedBy
    <2>5. "ai" \notin token[p]
      BY <1>1, <2>1, <2>3, PlaceEq DEF PlacedAt, Room, Stage, Running
    <2>6. GoesOn(p, next, B)
      BY <1>1, <2>1, <2>2, <2>3, <2>4, <2>5, PlaceEq DEF GoesOn
    <2> HIDE DEF B, next
    <2> QED
      BY <1>2, <2>2, <2>3, <2>6, BodyInv
  <1>4. ASSUME NEW s \in {"publish", "review", "check"}, Stage(p) = s, NEW next, UNCHANGED beat, Body(p, next),
               \/ s = "publish" /\ next = At("check", "pr")
               \/ s = "review" /\ next = At("persist", "ai")
               \/ s = "check" /\ next = At("mutate", "pr")
        PROVE  Inv'
    <2>1. pc[p] = At(s, IF s = "review" THEN "ai" ELSE "pr") /\ kind[p].path # "capclose"
      BY <1>4, Whereabouts
    <2>2. next \in [stage : Stages, key : Keys] /\ next \in Route(p) /\ FirstKey(p) = "pr"
      BY <1>1, <1>4, <2>1, PlaceEq DEF Route, Stages, FirstKey
    <2>3. "ai" \in token[p] => "ai" \in beat[p] \cup lost[p]
      BY <1>1, <2>1, PlaceEq DEF BeatingAt, Inside
    <2>4. beat' = [beat EXCEPT ![p] = beat[p]] /\ beat[p] \in SUBSET Keys
      BY <1>1, <1>4
    <2>5. next.stage \notin {"queued", "await", "claim", "done", "release", "refresh"} /\ next.key = pc[p].key
      BY <1>4, <2>1, PlaceEq
    <2>6. \A k : next # At("release", k)
      BY <2>5, PlaceEq
    <2>7. GoesOn(p, next, beat[p])
      <3>1. pc[p].stage = s /\ pc[p].stage \notin {"queued", "await", "claim", "release", "done"}
        BY <1>4 DEF Stage
      <3>2. beat[p] \subseteq token[p] \cap RenewedBy(p)
        BY <1>1 DEF BeatingAt
      <3> QED
        BY <2>2, <2>3, <2>4, <2>5, <2>6, <3>1, <3>2 DEF GoesOn
    <2> QED
      BY <1>2, <1>4, <2>2, <2>4, <2>7, BodyInv
  <1>5. ASSUME NEW s \in {"review", "persist", "check", "mutate"}, Stage(p) = s, NEW k \in Keys, StopHeartbeat(p, k),
               Body(p, At("release", k)),
               \/ s \in {"review", "persist"} /\ k = "ai"
               \/ s = "check" /\ k = "pr"
               \/ s = "mutate" /\ k = pc[p].key
        PROVE  Inv'
    <2> DEFINE B == beat[p] \ {k}  next == At("release", k)
    <2>1. pc[p] = At(s, k) /\ Running(p)
      BY <1>5, Whereabouts DEF Running
    <2>2. kind[p].path = "capclose" => k = "pr"
      BY <1>5, <2>1, Whereabouts
    <2>3. next \in [stage : Stages, key : Keys] /\ next \in Route(p)
      BY <1>5, <2>2, PlaceEq DEF Route, Stages, Keys
    <2>4. "ai" \in token[p] => "ai" \in beat[p] \cup lost[p]
      BY <1>1, <1>5, <2>1, PlaceEq DEF BeatingAt, Inside
    <2>5. beat' = [beat EXCEPT ![p] = B] /\ B \in SUBSET Keys
      BY <1>1, <1>5 DEF StopHeartbeat
    <2>6. next.stage = "release" /\ next.key = k /\ pc[p].stage = s /\ pc[p].key = k /\ \A j : next = At("release", j) <=> j = k
      BY <2>1, PlaceEq
    <2>7. /\ B \subseteq token[p] \cap RenewedBy(p) /\ (\A j \in beat[p] \ B : next = At("release", j))
          /\ \A j \in B : next # At("release", j) /\ j \notin lost[p] \ beat[p]
      BY <1>1, <2>6 DEF BeatingAt
    <2>8. GoesOn(p, next, B)
      BY <1>5, <2>3, <2>4, <2>5, <2>6, <2>7 DEF GoesOn
    <2> HIDE DEF B, next
    <2>9. Body(p, next)
      BY <1>5 DEF next
    <2> QED
      BY <1>2, <2>3, <2>5, <2>8, <2>9, BodyInv
  <1>6. CASE SkipReview(p) \/ Persist(p) \/ Mutate(p)
    BY <1>4, <1>6 DEF SkipReview, Persist, Mutate, MayMaintain
  <1>7. CASE EndReview(p) \/ AbortLost(p) \/ MaintainNothing(p)
    BY <1>1, <1>5, <1>7 DEF EndReview, AbortLost, MaintainNothing, MayMaintain
  <1>8. CASE EndMutation(p)
    <2>1. pc[p].key \in Keys
      BY Whereabouts
    <2> QED
      BY <1>5, <1>8, <2>1 DEF EndMutation
  <1> QED
    BY <1>3, <1>6, <1>7, <1>8

-----------------------------------------------------------------------------
(* Claiming                                                                *)

\* A pass that may claim k: it is not granted the key, and it has its token, or takes one that is known to nobody.
MayClaim(p, k, t, P) ==
  /\ k \in Keys \ token[p] /\ t \in Tokens /\ P \in Procs /\ life[P] # "down"
  /\ Stage(p) \in {"queued", "publish", "check", "claim"}
  /\ At("await", k) \in Route(p) /\ token[p] \subseteq {FirstKey(p)}
  /\ proc' = [proc EXCEPT ![p] = P] /\ cur' = [cur EXCEPT ![p] = t]
  /\ \/ Running(p) /\ proc[p] = P /\ cur[p] = t
     \/ ~Running(p) /\ t \in Fresh

\* What the command does: a write takes a free key, or a review from passes that are marked as robbed.
Sent(p, k, t, P, a) ==
  /\ a \in {"ok", "denied", "open"}
  /\ \A j \in Keys \ {k} : store'[j] = store[j] /\ left'[j] = left[j]
  /\ \/ store'[k] = store[k] /\ left'[k] = left[k] /\ a # "ok"
     \/ /\ store'[k] = t /\ left'[k] = Ttl
        /\ store[k] # None => k = "ai" /\ \A q \in Passes \ {p} : cur[q] = store[k] => q \in stolen'
  /\ stolen \ {p} \subseteq stolen' /\ (k # "ai" /\ p \in stolen => p \in stolen')
  /\ replies' = [replies EXCEPT ![P] = Append(@, [pass |-> p, key |-> k, answer |-> a])]

\* The parts of what the caller of a claim is told, and whether it writes.
LEMMA AnswerParts ==
  ASSUME NEW c, c = <<"ok", TRUE>> \/ c = <<"denied", FALSE>>,
         NEW answer \in {c, <<"open", c[2]>>, <<"open", FALSE>>}
  PROVE  /\ answer[1] \in {"ok", "denied", "open"} /\ (answer[1] = "ok" => answer[2])
         /\ answer[2] => c = <<"ok", TRUE>>
  <1>1. \A x, y : <<x, y>>[1] = x /\ <<x, y>>[2] = y
    OBVIOUS
  <1>2. \/ c = <<"ok", TRUE>> /\ c[1] = "ok" /\ c[2] = TRUE
        \/ c[1] = "denied" /\ c[2] = FALSE
    <2>1. CASE c = <<"ok", TRUE>>
      BY <1>1, <2>1, Zenon
    <2>2. CASE c = <<"denied", FALSE>>
      BY <1>1, <2>2, Zenon
    <2> QED
      BY <2>1, <2>2
  <1>3. \/ answer[1] = c[1] /\ answer[2] = c[2]
        \/ answer[1] = "open" /\ answer[2] = c[2]
        \/ answer[1] = "open" /\ answer[2] = FALSE
    <2>1. CASE answer = c
      BY <2>1
    <2>2. CASE answer = <<"open", c[2]>>
      BY <1>1, <2>2, Zenon
    <2>3. CASE answer = <<"open", FALSE>>
      BY <1>1, <2>3, Zenon
    <2> QED
      BY <2>1, <2>2, <2>3, Zenon
  <1> QED
    BY <1>2, <1>3, Zenon

\* What sending a claim comes to.
LEMMA SendEffect ==
  ASSUME Inv, NEW p \in Passes, NEW k, NEW t, NEW P, MayClaim(p, k, t, P), SendClaim(p, k, t, P)
  PROVE  /\ \E a : Sent(p, k, t, P, a)
         /\ RedisOK' /\ SetsOK' /\ FaultsOK'
  <1>1. PICK answer \in {ClaimAnswer(p, k), <<"open", ClaimAnswer(p, k)[2]>>, <<"open", FALSE>>} :
          /\ faults' = IF answer[1] = "open" THEN faults + 1 ELSE faults
          /\ faults' <= MaxFaults
          /\ IF answer[2] THEN Write(k, t) ELSE UNCHANGED redis
          /\ stolen' = (IF k = "ai" THEN stolen \ {p} ELSE stolen)
                       \cup {q \in Passes \ {p} : answer[2] /\ store[k] # None /\ cur[q] = store[k]}
          /\ replies' = [replies EXCEPT ![P] = Append(@, [pass |-> p, key |-> k, answer |-> answer[1]])]
    BY DEF SendClaim
  <1>2. PICK a, w : a = answer[1] /\ w = answer[2]
    OBVIOUS
  <1>3. /\ a \in {"ok", "denied", "open"} /\ (a = "ok" => w)
        /\ w => store[k] = None \/ k = "ai"
    <2>1. ClaimAnswer(p, k) = <<"ok", TRUE>> \/ ClaimAnswer(p, k) = <<"denied", FALSE>>
      BY DEF ClaimAnswer
    <2>2. ClaimAnswer(p, k) = <<"ok", TRUE>> => store[k] = None \/ k = "ai"
      BY DEF ClaimAnswer
    <2> QED
      BY <1>1, <1>2, <2>1, <2>2, AnswerParts, Zenon
  <1>4. RedisOK /\ SetsOK /\ FaultsOK
    BY TypeParts DEF Inv
  <1>5. k \in Keys /\ t \in Tokens /\ t # None
    BY LocksAssumption DEF MayClaim
  <1>8. SetsOK'
    <2>1. aborting' = aborting
      BY DEF SendClaim
    <2>2. stolen' \subseteq Passes
      BY <1>1, <1>4 DEF SetsOK
    <2> QED
      BY <1>4, <2>1, <2>2 DEF SetsOK
  <1>9. FaultsOK'
    <2>1. faults' = faults \/ faults' = faults + 1
      BY <1>1
    <2> QED
      BY <1>1, <1>4, <2>1, LocksAssumption DEF FaultsOK
  <1>10. /\ stolen \ {p} \subseteq stolen' /\ (k # "ai" /\ p \in stolen => p \in stolen')
         /\ replies' = [replies EXCEPT ![P] = Append(@, [pass |-> p, key |-> k, answer |-> a])]
    BY <1>1, <1>2
  <1>6. CASE w
    <2>1. store' = [store EXCEPT ![k] = t] /\ left' = [left EXCEPT ![k] = Ttl]
      BY <1>1, <1>2, <1>6 DEF Write
    <2>2. RedisOK'
      BY <1>4, <1>5, <2>1, Times DEF RedisOK, Entries
    <2>3. store'[k] = t /\ left'[k] = Ttl /\ \A j \in Keys \ {k} : store'[j] = store[j] /\ left'[j] = left[j]
      BY <1>4, <1>5, <2>1 DEF RedisOK, Entries
    <2>4. store[k] # None => k = "ai" /\ \A q \in Passes \ {p} : cur[q] = store[k] => q \in stolen'
      BY <1>1, <1>2, <1>3, <1>6
    <2> QED
      BY <1>3, <1>8, <1>9, <1>10, <2>2, <2>3, <2>4 DEF Sent
  <1>7. CASE ~w
    <2>1. UNCHANGED <<store, left>>
      BY <1>1, <1>2, <1>7 DEF redis
    <2> QED
      BY <1>3, <1>4, <1>7, <1>8, <1>9, <1>10, <2>1 DEF Sent, RedisOK
  <1> QED
    BY <1>3, <1>6, <1>7

\* A claim is sent.
LEMMA SendClaimInv ==
  ASSUME Inv, NEW p \in Passes, NEW k, NEW t, NEW P, MayClaim(p, k, t, P), SendClaim(p, k, t, P), UNCHANGED kind
  PROVE  Inv'
  <1>1. PICK a : Sent(p, k, t, P, a)
    BY SendEffect
  <1>2. RedisOK' /\ SetsOK' /\ FaultsOK'
    BY SendEffect
  <1>3. pc' = [pc EXCEPT ![p] = At("await", k)] /\ UNCHANGED <<token, aborting, beats, host, kind>>
    BY DEF SendClaim
  <1>4. UNCHANGED <<token, aborting, kind, beat, since, lost, late, lapsed, fails, held, bulk, life>>
    BY <1>3 DEF beats, host
  <1>5. PassesOK /\ BeatsOK /\ WireOK /\ HostsOK /\ RunsOK /\ kind \in Kinds
    BY TypeParts DEF Inv
  <1>6. k \in Keys /\ k \notin token[p] /\ t \in Tokens /\ t # None /\ P \in Procs
    BY LocksAssumption DEF MayClaim
  <1>7. /\ pc'[p] = At("await", k) /\ proc'[p] = P /\ cur'[p] = t
        /\ \A q \in Passes : q # p => pc'[q] = pc[q] /\ proc'[q] = proc[q] /\ cur'[q] = cur[q]
        /\ PassesOK'
    <2>1. At("await", k) \in [stage : Stages, key : Keys]
      BY <1>6, PlaceEq DEF Stages
    <2> QED
      BY <1>3, <1>4, <1>5, <1>6, <2>1 DEF PassesOK, MayClaim
  <1>8. \A q \in Passes : q # p => SameView(q)
    BY <1>4, <1>7 DEF SameView
  <1>9. Running(p)' /\ (\A q \in Passes : q # p => (Running(q)' <=> Running(q))) /\ Stage(p)' = "await" /\ pc'[p].key = k
    BY <1>7, PlaceEq DEF Running, Stage
  <1>10. \A j : pc[p] # At("release", j) /\ pc[p] # At("await", j)
    BY PlaceEq DEF MayClaim, Stage
  <1>11. PlacedAt(p) /\ BeatingAt(p) /\ (~Running(p) => token[p] = {} /\ cur[p] = None)
    BY DEF Inv, Local, PlacedAt, Room
  <1>12. \A q \in Passes : q # p => cur[q] # t
    BY <1>6, <1>11 DEF MayClaim, Inv, Distinct, Fresh
  <1>13. PlacedAt(p)'
    <2>1. Route(p)' = Route(p) /\ FirstKey(p)' = FirstKey(p)
      BY <1>4 DEF Route, FirstKey
    <2>2. token[p] \subseteq {FirstKey(p)} \ {k} /\ At("await", k) \in Route(p)
      BY <1>6 DEF MayClaim
    <2>3. P # None
      BY <1>6, LocksAssumption
    <2> QED
      BY <1>4, <1>6, <1>7, <1>9, <2>1, <2>2, <2>3 DEF PlacedAt, Room
  <1>14. BeatingAt(p)'
    <2>1. RenewedBy(p)' = RenewedBy(p)
      BY <1>4 DEF RenewedBy
    <2>2. \A j : pc'[p] # At("release", j)
      BY <1>7, PlaceEq
    <2>3. Inside(p, "ai")' => Inside(p, "ai")
      BY <1>4, <1>10 DEF Inside
    <2>4. \A j \in late[p] \cup lapsed[p] : Claimed(p, j)'
      BY <1>4, <1>10, <1>11 DEF BeatingAt, Claimed
    <2>5. \A j \in Keys : j \in beat[p] \cup lost[p] \/ (since[p][j] = 0 /\ fails[p][j] = 0)
      BY <1>10, <1>11 DEF BeatingAt
    <2>6. \A j \in RenewedBy(p) \ (beat[p] \cup lost[p]) : j \in lapsed[p] => j \in late[p]
      BY <1>10, <1>11 DEF BeatingAt
    <2> QED
      BY <1>4, <1>9, <1>11, <2>1, <2>2, <2>3, <2>4, <2>5, <2>6 DEF BeatingAt
  <1>15. Local'
    BY <1>8, <1>13, <1>14, <1>4, SameLocal DEF Local
  <1>16. PICK r \in Reply_ : r = [pass |-> p, key |-> k, answer |-> a] /\ r.pass = p /\ r.key = k /\ r.answer = a
    BY <1>1, <1>6 DEF Reply_, Sent
  <1>17. /\ replies[P] \in Seq(Reply_) /\ replies'[P] = Append(replies[P], r) /\ \A Q \in Procs : Q # P => replies'[Q] = replies[Q]
         /\ replies' \in [Procs -> Seq(Reply_)]
    BY <1>1, <1>5, <1>6, <1>16 DEF Sent, WireOK
  <1>18. /\ DOMAIN replies'[P] = DOMAIN replies[P] \cup {Len(replies[P]) + 1} /\ replies'[P][Len(replies[P]) + 1] = r
         /\ \A n \in DOMAIN replies[P] : replies'[P][n] = replies[P][n] /\ n < Len(replies[P]) + 1 /\ n \in Int
    BY <1>17
  <1>19. TypeOK'
    <2>1. RunsOK'
      BY <1>5, <1>6, <1>7, <1>9, LocksAssumption DEF RunsOK
    <2>2. BeatsOK' /\ HostsOK' /\ WireOK'
      BY <1>4, <1>5, <1>17 DEF BeatsOK, HostsOK, WireOK
    <2> QED
      BY <1>2, <1>4, <1>5, <1>7, <2>1, <2>2, TypeParts
  <1>20. \A Q \in Procs : \A n \in DOMAIN replies[Q] : /\ replies[Q][n].pass \in Passes /\ replies[Q][n].pass # p /\ replies[Q][n].key \in Keys
                                                     /\ cur[replies[Q][n].pass] # None
    BY <1>10, RepliedRuns
  <1>21. Distinct'
    BY <1>6, <1>7, <1>12 DEF Inv, Distinct
  <1>22. Wired'
    <2> SUFFICES ASSUME NEW Q \in Procs, NEW n \in DOMAIN replies'[Q]
                 PROVE  /\ proc'[replies'[Q][n].pass] = Q /\ pc'[replies'[Q][n].pass] = At("await", replies'[Q][n].key)
                        /\ \A m \in DOMAIN replies'[Q] : m # n => replies'[Q][m].pass # replies'[Q][n].pass
      BY DEF Wired
    <2>1. Wired
      BY DEF Inv
    <2>2. CASE Q # P
      <3>1. replies'[Q] = replies[Q] /\ n \in DOMAIN replies[Q]
        BY <1>17, <2>2
      <3>2. PICK g : g = replies[Q][n] /\ g.pass \in Passes /\ g.pass # p
        BY <1>20, <3>1
      <3>3. proc'[g.pass] = Q /\ pc'[g.pass] = At("await", g.key)
        BY <1>7, <2>1, <3>1, <3>2 DEF Wired
      <3> QED
        BY <2>1, <3>1, <3>2, <3>3 DEF Wired
    <2>3. CASE Q = P /\ n \in DOMAIN replies[P]
      BY <1>7, <1>16, <1>18, <1>20, <2>1, <2>3 DEF Wired
    <2>4. CASE Q = P /\ n = Len(replies[P]) + 1
      BY <1>7, <1>16, <1>18, <1>20, <2>4
    <2> QED
      BY <1>18, <2>2, <2>3, <2>4
  <1>23. Hosted'
    <2>1. \A Q \in Procs : \A j \in Keys : bulk[Q][j] = t => proc[p] = Q /\ proc[p] = P
      BY <1>6 DEF MayClaim, Inv, Hosted, Fresh
    <2>2. \A Q \in Procs : \A j \in Keys : bulk[Q][j] # None => life[Q] = "releasing" /\ \A q \in Passes : cur[q] = bulk[Q][j] => proc[q] = Q
      BY DEF Inv, Hosted
    <2>3. \A q \in Passes : Running(q) => life[proc[q]] # "down"
      BY DEF Inv, Hosted
    <2>4. life[P] # "down"
      BY DEF MayClaim
    <2> QED
      BY <1>4, <1>7, <1>9, <2>1, <2>2, <2>3, <2>4 DEF Hosted
  <1>24. RegistryExact'
    <2>1. ASSUME NEW Q \in Procs, NEW j \in Keys, NEW q \in Passes, j \in token[q], proc'[q] = Q, store'[j] = cur'[q],
                 life[Q] \in {"up", "draining"}
          PROVE  held[Q][j] = cur'[q]
      <3>1. proc[q] = proc'[q] /\ cur'[q] = cur[q]
        BY <1>7, <1>11, <2>1 DEF MayClaim
      <3>2. store[j] = cur[q]
        BY <1>1, <1>6, <1>12, <2>1, <3>1 DEF Sent
      <3> QED
        BY <2>1, <3>1, <3>2 DEF Inv, RegistryExact
    <2>2. ASSUME NEW Q \in Procs, NEW j \in Keys, held[Q][j] # None
          PROVE  \E q \in Passes : proc'[q] = Q /\ j \in token[q] /\ cur'[q] = held[Q][j]
      <3>1. PICK q \in Passes : proc[q] = Q /\ j \in token[q] /\ cur[q] = held[Q][j]
        BY <2>2 DEF Inv, RegistryExact
      <3>2. proc'[q] = Q /\ cur'[q] = cur[q]
        BY <1>7, <1>11, <3>1 DEF MayClaim
      <3> QED
        BY <3>1, <3>2
    <2> QED
      BY <1>4, <2>1, <2>2 DEF RegistryExact
  <1>25. Overtaken'
    <2> SUFFICES ASSUME NEW Q \in Procs, NEW n \in DOMAIN replies'[Q], replies'[Q][n].answer = "ok"
                 PROVE  /\ \A q \in Passes : proc'[q] = Q /\ replies'[Q][n].key \in token[q] => store'[replies'[Q][n].key] # cur'[q]
                        /\ \A m \in DOMAIN replies'[Q] :
                             m < n /\ replies'[Q][m].key = replies'[Q][n].key /\ replies'[Q][m].answer = "ok" =>
                               store'[replies'[Q][n].key] # cur'[replies'[Q][m].pass]
      BY <1>4 DEF Overtaken
    <2>1. ASSUME NEW n0 \in DOMAIN replies[Q], replies[Q][n0].answer = "ok"
          PROVE  /\ \A q \in Passes : proc'[q] = Q /\ replies[Q][n0].key \in token[q] => store'[replies[Q][n0].key] # cur'[q]
                 /\ \A m \in DOMAIN replies[Q] :
                      m < n0 /\ replies[Q][m].key = replies[Q][n0].key /\ replies[Q][m].answer = "ok" =>
                        store'[replies[Q][n0].key] # cur'[replies[Q][m].pass]
      <3>1. PICK j \in Keys : j = replies[Q][n0].key
        BY <1>20
      <3>2. store'[j] = store[j] \/ (j = k /\ store'[j] = t)
        BY <1>1 DEF Sent
      <3>3. ASSUME NEW q \in Passes, proc'[q] = Q, j \in token[q]
            PROVE  store'[j] # cur'[q]
        <4>1. proc[q] = Q /\ cur'[q] = cur[q]
          BY <1>7, <1>11, <3>3 DEF MayClaim
        <4>2. store[j] # cur[q]
          BY <2>1, <3>1, <3>3, <4>1 DEF Inv, Overtaken
        <4> QED
          BY <1>6, <1>12, <3>2, <3>3, <4>1, <4>2
      <3>4. ASSUME NEW m \in DOMAIN replies[Q], m < n0, replies[Q][m].key = j, replies[Q][m].answer = "ok"
            PROVE  store'[j] # cur'[replies[Q][m].pass]
        <4>1. PICK q \in Passes : q = replies[Q][m].pass /\ q # p
          BY <1>20
        <4>2. store[j] # cur[q]
          BY <2>1, <3>1, <3>4, <4>1 DEF Inv, Overtaken
        <4> QED
          BY <1>7, <1>12, <3>2, <4>1, <4>2
      <3> QED
        BY <3>1, <3>3, <3>4
    <2>2. CASE Q # P
      <3>1. replies'[Q] = replies[Q] /\ n \in DOMAIN replies[Q]
        BY <1>17, <2>2
      <3> QED
        BY <2>1, <3>1
    <2>3. CASE Q = P /\ n \in DOMAIN replies[P]
      <3>1. replies'[P][n] = replies[P][n] /\ n < Len(replies[P]) + 1 /\ n \in Int
        BY <1>18, <2>3
      <3>2. \A m \in DOMAIN replies'[P] : m < n => m \in DOMAIN replies[P] /\ replies'[P][m] = replies[P][m]
        BY <1>17, <1>18, <3>1
      <3> QED
        BY <2>1, <2>3, <3>1, <3>2
    <2>4. CASE Q = P /\ n = Len(replies[P]) + 1
      <3>1. replies'[P][n] = r /\ store'[k] = t
        BY <1>1, <1>16, <1>18, <2>4 DEF Sent
      <3>2. \A m \in DOMAIN replies'[P] : m < n => m \in DOMAIN replies[P] /\ replies'[P][m] = replies[P][m]
        BY <1>17, <1>18, <2>4
      <3> QED
        BY <1>6, <1>7, <1>12, <1>16, <1>20, <2>4, <3>1, <3>2
    <2> QED
      BY <1>18, <2>2, <2>3, <2>4
  <1>26. ASSUME NEW q \in Passes, NEW j \in Keys
         PROVE  TimelyAt(q, j)' /\ (Protected(q, j)' => store'[j] = cur'[q])
    <2>1. TimelyAt(q, j) /\ (Protected(q, j) => store[j] = cur[q])
      BY DEF Inv, Timely, Owned
    <2>2. Inside(q, j)' => Inside(q, j) /\ j \in token[q]
      BY <1>4, <1>7, <1>10 DEF Inside
    <2>3. TimelyAt(q, j)'
      <3>1. CASE store'[j] = store[j] /\ left'[j] = left[j]
        BY <1>4, <2>1, <2>2, <3>1 DEF TimelyAt, RenewedBy
      <3>2. CASE left'[j] = Ttl
        <4>1. since[q][j] \in Nat /\ fails[q][j] \in 0 .. 2
          BY <1>5, Times DEF BeatsOK, Clock
        <4>2. fails[q][j] * Interval >= 0 /\ fails[q][j] * Interval \in Int
          <5>1. fails[q][j] = 0 \/ fails[q][j] = 1 \/ fails[q][j] = 2
            BY <4>1
          <5> QED
            BY <5>1, Times
        <4>3. left'[j] + since[q][j] + fails[q][j] * Interval >= Ttl
          BY <3>2, <4>1, <4>2, Times
        <4> QED
          BY <1>4, <3>2, <4>3 DEF TimelyAt
      <3> QED
        BY <1>1, <3>1, <3>2 DEF Sent
    <2>4. ASSUME Protected(q, j)'
          PROVE  store'[j] = cur'[q]
      <3>1. Inside(q, j) /\ j \in token[q] /\ cur'[q] = cur[q] /\ proc'[q] = proc[q]
        BY <1>7, <1>11, <2>2, <2>4 DEF Protected, MayClaim
      <3>2. Protected(q, j)
        <4>1. j = "ai" => q \notin stolen
          BY <1>1, <1>6, <2>4, <3>1 DEF Protected, Sent
        <4> QED
          BY <1>4, <2>4, <3>1, <4>1 DEF Protected
      <3>3. store[j] = cur[q] /\ cur[q] # None
        BY <2>1, <3>1, <3>2, GrantedRuns
      <3>4. ~(store[j] # None /\ j = "ai" /\ q # p /\ cur[q] = store[j] /\ q \in stolen')
        BY <2>4 DEF Protected
      <3> QED
        BY <1>1, <1>6, <3>1, <3>3, <3>4 DEF Sent
    <2> QED
      BY <2>3, <2>4
  <1>27. GrantedOwned'
    <2>1. ASSUME NEW Q \in Procs, NEW n \in DOMAIN replies[Q], NEW g, g = replies[Q][n]
          PROVE  Granted(g, Q)'
      <3>1. g \in Reply_ /\ g.pass \in Passes /\ g.pass # p /\ g.key \in Keys /\ cur[g.pass] # None
        BY <1>20, <2>1, RepliedRuns
      <3>2. Granted(g, Q)
        BY <2>1 DEF Inv, GrantedOwned
      <3>3. CASE store'[g.key] = store[g.key] /\ left'[g.key] = left[g.key]
        <4>1. cur'[g.pass] = cur[g.pass] /\ (g.pass \in stolen => g.pass \in stolen')
          BY <1>1, <1>7, <3>1 DEF Sent
        <4> QED
          BY <1>4, <3>2, <3>3, <4>1 DEF Granted, RenewedBy
      <3>4. CASE /\ g.key = k /\ store'[k] = t /\ left'[k] = Ttl
                 /\ store[k] # None => k = "ai" /\ \A q \in Passes \ {p} : cur[q] = store[k] => q \in stolen'
        <4>1. cur'[g.pass] = cur[g.pass] /\ (g.pass \in stolen => g.pass \in stolen')
          BY <1>1, <1>7, <3>1 DEF Sent
        <4>2. cur[g.pass] = store[k] => g.key = "ai" /\ g.pass \in stolen'
          BY <3>1, <3>4
        <4> QED
          BY <1>4, <3>2, <3>4, <4>1, <4>2 DEF Granted, RenewedBy
      <3> QED
        BY <1>1, <3>1, <3>3, <3>4 DEF Sent
    <2>2. Granted(r, P)'
      <3>1. a = "ok" => store'[k] = t /\ left'[k] = Ttl
        BY <1>1 DEF Sent
      <3> QED
        BY <1>7, <1>16, <3>1 DEF Granted
    <2>3. ASSUME NEW Q \in Procs, NEW n \in DOMAIN replies'[Q], NEW g, g = replies'[Q][n]
          PROVE  Granted(g, Q)'
      <3>1. CASE Q # P \/ n \in DOMAIN replies[P]
        BY <1>17, <1>18, <2>1, <2>3, <3>1
      <3>2. CASE Q = P /\ n = Len(replies[P]) + 1
        BY <1>18, <2>2, <2>3, <3>2
      <3> QED
        BY <1>18, <2>3, <3>1, <3>2
    <2> QED
      BY <2>3 DEF GrantedOwned
  <1>28. Timely' /\ Owned'
    BY <1>26 DEF Timely, Owned
  <1> QED
    BY <1>15, <1>19, <1>21, <1>22, <1>23, <1>24, <1>25, <1>27, <1>28 DEF Inv

\* Every claim of a pass.
LEMMA ClaimInv ==
  ASSUME Inv, NEW p \in Passes, UNCHANGED kind,
         (\E P \in Procs : Begin(p, P)) \/ ClaimReview(p) \/ ClaimNested(p) \/ ClaimCap(p)
  PROVE  Inv'
  <1>1. PlacedAt(p) /\ PassesOK /\ token[p] \subseteq Room(p) /\ kind[p].path \in {"sweep", "webhook", "capclose"}
    BY TypeParts, KindType DEF Inv, Local, PlacedAt
  <1>2. ASSUME NEW P \in Procs, Begin(p, P)
        PROVE  Inv'
    <2>1. PICK t \in Fresh : cur' = [cur EXCEPT ![p] = t] /\ SendClaim(p, FirstKey(p), t, P)
      BY <1>2 DEF Begin
    <2>2. ~Running(p) /\ token[p] = {} /\ Stage(p) = "queued" /\ life[P] # "down" /\ proc' = [proc EXCEPT ![p] = P]
      BY <1>1, <1>2 DEF Begin, Running, Room
    <2>3. FirstKey(p) \in Keys /\ At("await", FirstKey(p)) \in Route(p)
      BY KindType DEF FirstKey, Route
    <2>4. MayClaim(p, FirstKey(p), t, P)
      BY <2>1, <2>2, <2>3 DEF MayClaim, Fresh
    <2> QED
      BY <2>1, <2>4, SendClaimInv
  <1>3. ASSUME NEW k \in Keys, SendClaim(p, k, cur[p], proc[p]), UNCHANGED <<proc, cur>>,
               \/ Stage(p) = "publish" /\ k = "ai"
               \/ Stage(p) = "claim" /\ k = "pr"
               \/ Stage(p) = "check" /\ k = "cap"
        PROVE  Inv'
    <2>1. Running(p)
      BY <1>3 DEF Running
    <2>2. cur[p] \in Tokens /\ proc[p] \in Procs /\ life[proc[p]] # "down"
      BY <1>1, <2>1 DEF PlacedAt, PassesOK, Inv, Hosted
    <2>3. proc' = [proc EXCEPT ![p] = proc[p]] /\ cur' = [cur EXCEPT ![p] = cur[p]]
      BY <1>1, <1>3 DEF PassesOK
    <2>4. /\ Stage(p) # "claim" => pc[p].key = "pr" /\ kind[p].path # "capclose"
          /\ Stage(p) = "claim" => pc[p].key = "pr" /\ kind[p].path = "capclose"
      BY <1>3, Whereabouts, PlaceEq
    <2>5. At("await", k) \in Route(p) /\ token[p] \subseteq {FirstKey(p)} /\ k \notin token[p]
      BY <1>1, <1>3, <2>1, <2>4 DEF Route, Room, FirstKey
    <2>6. MayClaim(p, k, cur[p], proc[p])
      BY <1>3, <2>1, <2>2, <2>3, <2>5 DEF MayClaim
    <2> QED
      BY <1>3, <2>6, SendClaimInv
  <1> QED
    BY <1>2, <1>3 DEF ClaimReview, ClaimNested, ClaimCap, MayMaintain, Keys

-----------------------------------------------------------------------------
(* Replies                                                                 *)

\* Where a pass goes when it was told that k is its own, or could not be told.
LEMMA GrantPlace ==
  ASSUME Inv, NEW p \in Passes, NEW k \in Keys, pc[p] = At("await", k), NEW next, next = AfterGrant(p, k)
  PROVE  /\ next \in [stage : Stages, key : Keys] /\ next \in Route(p)
         /\ next.stage \notin {"queued", "done", "await", "release"} /\ (next.stage = "refresh" => k = "pr")
         /\ Room(p) \cup {k} \subseteq IF next.stage = "claim" THEN {FirstKey(p)} \ {next.key} ELSE {FirstKey(p), next.key}
  <1>1. Stage(p) = "await" /\ pc[p].key = k /\ kind[p].path \in {"sweep", "webhook", "capclose"} /\ Running(p)
    BY PlaceEq, KindType DEF Stage, Running
  <1>2. pc[p] \in Route(p) /\ (kind[p].path = "capclose" => k # "ai")
    BY <1>1, Whereabouts DEF Inv, Local, PlacedAt
  <1>3. Room(p) \subseteq {FirstKey(p)}
    BY <1>1 DEF Room
  <1>4. CASE k = "ai"
    <2>1. next = At("review", "ai") /\ kind[p].path # "capclose"
      BY <1>2, <1>4 DEF AfterGrant
    <2> QED
      BY <1>1, <1>3, <1>4, <2>1, PlaceEq DEF Route, Stages, FirstKey
  <1>5. CASE k = "cap" /\ kind[p].path = "capclose"
    <2>1. next = At("claim", "pr")
      BY <1>5 DEF AfterGrant
    <2> QED
      BY <1>1, <1>3, <1>5, <2>1, PlaceEq DEF Route, Stages, FirstKey, Keys
  <1>6. CASE k = "cap" /\ kind[p].path # "capclose"
    <2>1. next = At("mutate", "cap")
      BY <1>6 DEF AfterGrant
    <2> QED
      BY <1>1, <1>3, <1>6, <2>1, PlaceEq DEF Route, Stages, FirstKey
  <1>7. CASE k = "pr" /\ kind[p].path = "capclose"
    <2>1. next = At("mutate", "pr")
      BY <1>7 DEF AfterGrant
    <2> QED
      BY <1>1, <1>3, <1>7, <2>1, PlaceEq DEF Route, Stages, FirstKey
  <1>8. CASE k = "pr" /\ kind[p].path # "capclose"
    <2>1. (next = At("refresh", "pr") /\ kind[p].path = "sweep") \/ next = At("publish", "pr")
      BY <1>1, <1>8 DEF AfterGrant
    <2> QED
      BY <1>1, <1>3, <1>8, <2>1, PlaceEq DEF Route, Stages, FirstKey
  <1> QED
    BY <1>4, <1>5, <1>6, <1>7, <1>8 DEF Keys

\* Where it goes when the key is another's: it ends only where it has no other lock.
LEMMA DenialPlace ==
  ASSUME Inv, NEW p \in Passes, NEW k \in Keys, pc[p] = At("await", k), NEW next, next = AfterDenial(p, k)
  PROVE  /\ next \in [stage : Stages, key : Keys]
         /\ \/ next.stage \in {"queued", "done"} /\ Room(p) = {}
            \/ /\ next \in Route(p) /\ next.stage \in {"check", "release"} /\ Room(p) \subseteq {FirstKey(p), next.key}
               /\ next.stage = "release" => next.key \in {"pr", "cap"}
  <1>1. Stage(p) = "await" /\ pc[p].key = k /\ kind[p].path \in {"sweep", "webhook", "capclose"} /\ Running(p)
    BY PlaceEq, KindType DEF Stage, Running
  <1>2. pc[p] \in Route(p) /\ (kind[p].path = "capclose" => k # "ai")
    BY <1>1, Whereabouts DEF Inv, Local, PlacedAt
  <1>3. Room(p) = {FirstKey(p)} \ {k}
    BY <1>1 DEF Room
  <1>4. CASE k = "ai"
    <2>1. next = At("check", "pr") /\ kind[p].path # "capclose"
      BY <1>2, <1>4 DEF AfterDenial
    <2> QED
      BY <1>1, <1>3, <1>4, <2>1, PlaceEq DEF Route, Stages, FirstKey, Keys
  <1>5. CASE k = "cap" /\ kind[p].path = "capclose"
    <2>1. next = At("done", "cap")
      BY <1>5 DEF AfterDenial
    <2> QED
      BY <1>1, <1>3, <1>5, <2>1, PlaceEq DEF Stages, FirstKey
  <1>6. CASE k = "cap" /\ kind[p].path # "capclose"
    <2>1. next = At("release", "pr")
      BY <1>6 DEF AfterDenial
    <2> QED
      BY <1>1, <1>3, <1>6, <2>1, PlaceEq DEF Route, Stages, FirstKey, Keys
  <1>7. CASE k = "pr" /\ kind[p].path = "capclose"
    <2>1. next = At("release", "cap")
      BY <1>7 DEF AfterDenial
    <2> QED
      BY <1>1, <1>3, <1>7, <2>1, PlaceEq DEF Route, Stages, FirstKey, Keys
  <1>8. CASE k = "pr" /\ kind[p].path # "capclose"
    <2>1. next = At("queued", "pr")
      BY <1>1, <1>8 DEF AfterDenial
    <2> QED
      BY <1>1, <1>3, <1>8, <2>1, PlaceEq DEF Stages, FirstKey
  <1> QED
    BY <1>4, <1>5, <1>6, <1>7, <1>8 DEF Keys

\* A reply tells pass p the answer a to its claim of k, and p goes on.
Answered(p, k, a, P, next) ==
  /\ pc'[p] = next
  /\ proc'[p] = (IF next.stage \in {"queued", "done"} THEN None ELSE proc[p])
  /\ cur'[p] = (IF next.stage \in {"queued", "done"} THEN None ELSE cur[p])
  /\ token'[p] = (IF a = "ok" THEN token[p] \cup {k} ELSE token[p])
  /\ beat'[p] = (IF a = "ok" /\ k = "ai" THEN beat[p] \cup {k}
                 ELSE IF next = At("release", "pr") THEN beat[p] \ {"pr"} ELSE beat[p])
  /\ late'[p] = (IF a = "ok" THEN late[p] ELSE late[p] \ {k})
  /\ lapsed'[p] = (IF a = "ok" THEN lapsed[p] ELSE lapsed[p] \ {k})

\* The registry after the reply.
Entered(p, k, a, P) ==
  \A Q \in Procs : \A j \in Keys : held'[Q][j] = IF a = "ok" /\ Q = P /\ j = k THEN cur[p] ELSE held[Q][j]

\* What handling a reply comes to.
LEMMA ReplyEffect ==
  ASSUME Inv, NEW P \in Procs, Reply(P)
  PROVE  \E r \in Reply_ : LET next == IF r.answer = "denied" THEN AfterDenial(r.pass, r.key) ELSE AfterGrant(r.pass, r.key) IN
         /\ 1 \in DOMAIN replies[P] /\ replies[P][1] = r
         /\ Answered(r.pass, r.key, r.answer, P, next) /\ Entered(r.pass, r.key, r.answer, P)
         /\ \A q \in Passes : q # r.pass => SameView(q)
         /\ PassesOK' /\ BeatsOK' /\ HostsOK'
  <1>1. /\ replies[P] \in Seq(Reply_) /\ replies[P] # <<>> /\ PassesOK /\ BeatsOK /\ HostsOK
    BY TypeParts DEF Inv, WireOK, Reply
  <1>2. 1 \in DOMAIN replies[P] /\ Head(replies[P]) = replies[P][1]
    BY <1>1
  <1>3. PICK r \in Reply_ : r = Head(replies[P]) /\ r = replies[P][1]
    BY <1>1, <1>2
  <1>4. PICK p \in Passes, k \in Keys, a \in {"ok", "denied", "open"} : p = r.pass /\ k = r.key /\ a = r.answer
    BY DEF Reply_
  <1>5. PICK next : next = IF a = "denied" THEN AfterDenial(p, k) ELSE AfterGrant(p, k)
    OBVIOUS
  <1>6. /\ pc' = [pc EXCEPT ![p] = next]
        /\ proc' = [proc EXCEPT ![p] = IF next.stage \in {"queued", "done"} THEN None ELSE @]
        /\ cur' = [cur EXCEPT ![p] = IF next.stage \in {"queued", "done"} THEN None ELSE @]
        /\ token' = [token EXCEPT ![p] = IF a = "ok" THEN @ \cup {k} ELSE @]
        /\ held' = IF a = "ok" THEN [held EXCEPT ![P][k] = cur[p]] ELSE held
        /\ beat' = [beat EXCEPT ![p] = IF a = "ok" /\ k = "ai" THEN @ \cup {k}
                                       ELSE IF next = At("release", "pr") THEN @ \ {"pr"} ELSE @]
        /\ late' = [late EXCEPT ![p] = IF a = "ok" THEN @ ELSE @ \ {k}]
        /\ lapsed' = [lapsed EXCEPT ![p] = IF a = "ok" THEN @ ELSE @ \ {k}]
        /\ UNCHANGED <<since, lost, fails, bulk, life>>
    BY <1>3, <1>4, <1>5 DEF Reply
  <1>7. pc[p] = At("await", k)
    BY <1>2, <1>3, <1>4, RepliedRuns
  <1>8. next \in [stage : Stages, key : Keys]
    BY <1>5, <1>7, GrantPlace, DenialPlace
  <1>9. Answered(p, k, a, P, next)
    BY <1>1, <1>6 DEF Answered, PassesOK, BeatsOK
  <1>10. \A q \in Passes : q # p => SameView(q)
    BY <1>1, <1>6 DEF SameView, PassesOK, BeatsOK
  <1>11. cur[p] \in Tokens \cup {None} /\ None \in Procs \cup {None} /\ None \in Tokens \cup {None}
    BY <1>1 DEF PassesOK
  <1>12. Entered(p, k, a, P)
    BY <1>1, <1>6 DEF Entered, HostsOK, Entries
  <1>13. HostsOK'
    <2>1. CASE a = "ok"
      BY <1>1, <1>6, <1>11, <2>1 DEF HostsOK, Entries
    <2>2. CASE a # "ok"
      BY <1>1, <1>6, <2>2 DEF HostsOK
    <2> QED
      BY <2>1, <2>2
  <1>14. PassesOK'
    BY <1>1, <1>6, <1>8, <1>11 DEF PassesOK
  <1>15. BeatsOK'
    BY <1>1, <1>6 DEF BeatsOK
  <1> QED
    BY <1>2, <1>3, <1>4, <1>5, <1>9, <1>10, <1>12, <1>13, <1>14, <1>15

\* A reply is handled.
LEMMA ReplyInv ==
  ASSUME Inv, NEW P \in Procs, Reply(P)
  PROVE  Inv'
  <1>1. PICK r \in Reply_ :
          LET next == IF r.answer = "denied" THEN AfterDenial(r.pass, r.key) ELSE AfterGrant(r.pass, r.key) IN
          /\ 1 \in DOMAIN replies[P] /\ replies[P][1] = r
          /\ Answered(r.pass, r.key, r.answer, P, next) /\ Entered(r.pass, r.key, r.answer, P)
          /\ \A q \in Passes : q # r.pass => SameView(q)
          /\ PassesOK' /\ BeatsOK' /\ HostsOK'
    BY ReplyEffect
  <1>2. PICK p \in Passes, k \in Keys, a \in {"ok", "denied", "open"} : p = r.pass /\ k = r.key /\ a = r.answer
    BY DEF Reply_
  <1>3. PICK next : next = IF a = "denied" THEN AfterDenial(p, k) ELSE AfterGrant(p, k)
    OBVIOUS
  <1>4. /\ Answered(p, k, a, P, next) /\ Entered(p, k, a, P) /\ \A q \in Passes : q # p => SameView(q)
        /\ PassesOK' /\ BeatsOK' /\ HostsOK'
    BY <1>1, <1>2, <1>3
  <1>5. UNCHANGED <<kind, store, left, aborting, since, lost, fails, bulk, life, stolen, faults>>
    BY DEF Reply, redis
  <1>6. /\ pc[p] = At("await", k) /\ Running(p) /\ cur[p] # None /\ proc[p] = P /\ k \notin token[p] /\ Stage(p) = "await" /\ pc[p].key = k
        /\ \A j : pc[p] # At("release", j)
    BY <1>1, <1>2, RepliedRuns, PlaceEq DEF Stage
  <1>7. PlacedAt(p) /\ BeatingAt(p)
    BY DEF Inv, Local
  <1> DEFINE ends == next.stage \in {"queued", "done"}
  <1>8. /\ next \in [stage : Stages, key : Keys]
        /\ ends => a = "denied" /\ token[p] = {}
        /\ ~ends => /\ next \in Route(p) /\ next.stage # "await"
                    /\ token'[p] \subseteq IF next.stage = "claim" THEN {FirstKey(p)} \ {next.key} ELSE {FirstKey(p), next.key}
        /\ next.stage = "refresh" => k = "pr"
        /\ next.stage = "release" => a = "denied" /\ next.key \in {"pr", "cap"}
    <2>1. token[p] \subseteq Room(p)
      BY <1>7 DEF PlacedAt
    <2>2. token'[p] = IF a = "ok" THEN token[p] \cup {k} ELSE token[p]
      BY <1>4 DEF Answered
    <2>3. CASE a = "denied"
      <3>1. token'[p] = token[p] /\ next = AfterDenial(p, k)
        BY <1>3, <2>2, <2>3
      <3> QED
        BY <1>6, <2>1, <2>3, <3>1, DenialPlace
    <2>4. CASE a # "denied"
      <3>1. token'[p] \subseteq token[p] \cup {k} /\ next = AfterGrant(p, k)
        BY <1>3, <2>2, <2>4
      <3> QED
        BY <1>6, <2>1, <2>4, <3>1, GrantPlace
    <2> QED
      BY <2>3, <2>4
  <1>9. /\ pc'[p] = next /\ Stage(p)' = next.stage /\ (Running(p)' <=> ~ends)
        /\ proc'[p] = (IF ends THEN None ELSE P) /\ cur'[p] = (IF ends THEN None ELSE cur[p])
        /\ token'[p] = IF a = "ok" THEN token[p] \cup {k} ELSE token[p]
    BY <1>4, <1>6 DEF Answered, Stage, Running
  <1>10. /\ ends => token'[p] = {}
         /\ a = "ok" => ~ends
    BY <1>8, <1>9
  <1>11. \A q \in Passes : q # p => pc'[q] = pc[q] /\ proc'[q] = proc[q] /\ cur'[q] = cur[q] /\ token'[q] = token[q] /\ (Running(q)' <=> Running(q))
    BY <1>4 DEF SameView, Running, Stage
  <1>12. P # None
    BY LocksAssumption
  <1> HIDE DEF ends
  <1>13. PlacedAt(p)'
    <2>1. Route(p)' = Route(p) /\ FirstKey(p)' = FirstKey(p)
      BY <1>5 DEF Route, FirstKey
    <2>2. token'[p] \subseteq Room(p)'
      <3>1. CASE ends
        BY <1>10, <3>1
      <3>2. CASE ~ends
        BY <1>8, <1>9, <2>1, <3>2 DEF Room
      <3> QED
        BY <3>1, <3>2
    <2> QED
      BY <1>6, <1>8, <1>9, <1>12, <2>1, <2>2 DEF PlacedAt
  <1>14. /\ beat'[p] = (IF a = "ok" /\ k = "ai" THEN beat[p] \cup {k}
                        ELSE IF next = At("release", "pr") THEN beat[p] \ {"pr"} ELSE beat[p])
         /\ late'[p] = (IF a = "ok" THEN late[p] ELSE late[p] \ {k})
         /\ lapsed'[p] = (IF a = "ok" THEN lapsed[p] ELSE lapsed[p] \ {k})
    BY <1>4 DEF Answered
  <1>15. /\ k \notin beat[p] /\ k \notin lost[p] /\ lost[p] \subseteq token[p] /\ beat[p] \subseteq token[p]
         /\ since[p][k] = 0 /\ fails[p][k] = 0
    BY <1>6, <1>7 DEF BeatingAt
  \* what the reply does to the other keys of the pass: nothing, but that a denied merge stops the actuation heartbeat
  <1>16. \A j : j # k => /\ j \in token'[p] <=> j \in token[p]
                         /\ j \in late'[p] <=> j \in late[p]
                         /\ j \in lapsed'[p] <=> j \in lapsed[p]
                         /\ j \in beat'[p] <=> j \in beat[p] /\ ~(j = "pr" /\ pc'[p] = At("release", "pr"))
    <2>1. a = "ok" => pc'[p] # At("release", "pr")
      BY <1>8, <1>9, PlaceEq
    <2> QED
      BY <1>9, <1>14, <2>1
  <1>17. /\ k \in token'[p] <=> a = "ok"
         /\ k \in beat'[p] <=> a = "ok" /\ k = "ai"
         /\ a # "ok" => k \notin late'[p] /\ k \notin lapsed'[p]
         /\ a = "ok" => late'[p] = late[p] /\ lapsed'[p] = lapsed[p] /\ \A j : pc'[p] # At("release", j)
    <2>1. a = "ok" => \A j : pc'[p] # At("release", j)
      BY <1>8, <1>9, PlaceEq
    <2> QED
      BY <1>6, <1>9, <1>14, <1>15, <2>1
  <1>18. BeatingAt(p)'
    <2>1. RenewedBy(p)' = RenewedBy(p) /\ "ai" \in RenewedBy(p) /\ "cap" \notin RenewedBy(p)
      BY <1>5, KindType DEF RenewedBy
    <2>2. /\ beat'[p] \subseteq token'[p] \cap RenewedBy(p)' /\ lost'[p] \subseteq token'[p]
          /\ \A j \in beat'[p] : pc'[p] # At("release", j)
      <3>1. beat'[p] \subseteq token'[p] \cap RenewedBy(p)
        BY <1>7, <1>15, <1>16, <1>17, <2>1 DEF BeatingAt
      <3>2. lost[p] \subseteq token'[p]
        BY <1>15, <1>16
      <3>3. \A j : pc'[p] = At("release", j) => j \in {"pr", "cap"} /\ a = "denied"
        BY <1>8, <1>9, PlaceEq
      <3>4. \A j \in beat'[p] : pc'[p] # At("release", j)
        BY <1>16, <1>17, <2>1, <3>1, <3>3
      <3> QED
        BY <1>5, <2>1, <3>1, <3>2, <3>4
    <2>3. Stage(p)' = "refresh" => "pr" \notin beat'[p] \cup lost'[p]
      BY <1>5, <1>8, <1>9, <1>15, <1>17
    <2>4. Inside(p, "ai")' => "ai" \in beat'[p] \cup lost'[p]
      <3>1. CASE k = "ai"
        BY <1>17, <3>1 DEF Inside
      <3>2. CASE k # "ai"
        BY <1>5, <1>6, <1>7, <1>16, <3>2 DEF Inside, BeatingAt
      <3> QED
        BY <3>1, <3>2
    <2>5. \A j \in late'[p] \cup lapsed'[p] : Claimed(p, j)'
      <3>1. \A j : Claimed(p, j) => j = k \/ j \in token[p]
        BY <1>6, PlaceEq DEF Claimed
      <3>2. \A j \in late[p] \cup lapsed[p] : j = k \/ j \in token[p]
        BY <1>7, <3>1 DEF BeatingAt
      <3>3. \A j \in late'[p] \cup lapsed'[p] : j \in token'[p]
        BY <1>16, <1>17, <3>2
      <3> QED
        BY <3>3 DEF Claimed
    <2>6. \A j \in Keys : j \in beat'[p] \cup lost'[p] \/ pc'[p] = At("release", j) \/ (since'[p][j] = 0 /\ fails'[p][j] = 0)
      BY <1>5, <1>6, <1>7, <1>15, <1>16 DEF BeatingAt
    <2>7. \A j \in RenewedBy(p) \ (beat'[p] \cup lost'[p]) : j \in lapsed'[p] /\ pc'[p] # At("release", j) => j \in late'[p]
      <3>1. \A j \in RenewedBy(p) \ (beat[p] \cup lost[p]) : j \in lapsed[p] => j \in late[p]
        BY <1>6, <1>7 DEF BeatingAt
      <3> QED
        BY <1>5, <1>15, <1>16, <1>17, <3>1
    <2> QED
      BY <2>1, <2>2, <2>3, <2>4, <2>5, <2>6, <2>7 DEF BeatingAt
  <1>19. Local'
    BY <1>4, <1>5, <1>13, <1>18, SameLocal DEF Local
  <1>20. /\ replies[P] \in Seq(Reply_) /\ replies'[P] = Tail(replies[P]) /\ (\A Q \in Procs : Q # P => replies'[Q] = replies[Q])
         /\ WireOK'
    <2>1. replies \in [Procs -> Seq(Reply_)] /\ replies[P] # <<>>
      BY TypeParts DEF Inv, WireOK, Reply
    <2>2. replies' = [replies EXCEPT ![P] = Tail(@)] /\ Tail(replies[P]) \in Seq(Reply_)
      BY <2>1 DEF Reply
    <2> QED
      BY <2>1, <2>2 DEF WireOK
  <1>21. \A n \in DOMAIN replies'[P] : /\ n + 1 \in DOMAIN replies[P] /\ replies'[P][n] = replies[P][n + 1] /\ n \in Int /\ n >= 1
    <2>1. replies[P] # <<>>
      BY DEF Reply
    <2> QED
      BY <1>20, <2>1
  <1>22. TypeOK'
    <2>1. RunsOK'
      BY <1>6, <1>9, <1>11, <1>12, TypeParts DEF Inv, RunsOK
    <2>2. RedisOK' /\ SetsOK' /\ FaultsOK' /\ kind' \in Kinds
      BY <1>5, TypeParts DEF Inv, RedisOK, SetsOK, FaultsOK
    <2> QED
      BY <1>4, <1>20, <2>1, <2>2, TypeParts
  <1>23. Distinct'
    BY <1>9, <1>11 DEF Inv, Distinct
  \* a reply left on a connection is one that was there before, further back, and for another pass
  <1>24. ASSUME NEW Q \in Procs, NEW n \in DOMAIN replies'[Q]
         PROVE  \E m \in DOMAIN replies[Q] : /\ m = (IF Q = P THEN n + 1 ELSE n) /\ replies'[Q][n] = replies[Q][m]
                                             /\ replies[Q][m].pass \in Passes \ {p} /\ replies[Q][m].key \in Keys
    <2>1. PICK m \in DOMAIN replies[Q] : m = (IF Q = P THEN n + 1 ELSE n) /\ replies'[Q][n] = replies[Q][m] /\ (Q = P => m # 1)
      <3>1. CASE Q = P
        <4>1. n + 1 \in DOMAIN replies[Q] /\ replies'[Q][n] = replies[Q][n + 1] /\ n + 1 # 1
          BY <1>21, <3>1
        <4> QED
          BY <3>1, <4>1
      <3>2. CASE Q # P
        BY <1>20, <3>2
      <3> QED
        BY <3>1, <3>2
    <2>2. replies[Q][m].pass \in Passes /\ replies[Q][m].key \in Keys /\ proc[replies[Q][m].pass] = Q
      BY RepliedRuns
    <2>3. replies[Q][m].pass # p
      <3>1. CASE Q = P
        BY <1>1, <1>2, <2>1, <3>1 DEF Inv, Wired
      <3>2. CASE Q # P
        BY <1>6, <2>2, <3>2
      <3> QED
        BY <3>1, <3>2
    <2> QED
      BY <2>1, <2>2, <2>3
  <1>25. Wired'
    <2> SUFFICES ASSUME NEW Q \in Procs, NEW n \in DOMAIN replies'[Q]
                 PROVE  /\ proc'[replies'[Q][n].pass] = Q /\ pc'[replies'[Q][n].pass] = At("await", replies'[Q][n].key)
                        /\ \A m \in DOMAIN replies'[Q] : m # n => replies'[Q][m].pass # replies'[Q][n].pass
      BY DEF Wired
    <2>1. PICK n0 \in DOMAIN replies[Q] : /\ n0 = (IF Q = P THEN n + 1 ELSE n) /\ replies'[Q][n] = replies[Q][n0]
                                          /\ replies[Q][n0].pass \in Passes \ {p}
      BY <1>24
    <2>2. Wired
      BY DEF Inv
    <2>3. proc[replies[Q][n0].pass] = Q /\ pc[replies[Q][n0].pass] = At("await", replies[Q][n0].key)
      BY <2>2 DEF Wired
    <2>4. ASSUME NEW m \in DOMAIN replies'[Q], m # n
          PROVE  replies'[Q][m].pass # replies'[Q][n].pass
      <3>1. PICK m0 \in DOMAIN replies[Q] : m0 = (IF Q = P THEN m + 1 ELSE m) /\ replies'[Q][m] = replies[Q][m0]
        BY <1>24
      <3>2. m0 # n0
        BY <1>21, <2>1, <2>4, <3>1
      <3> QED
        BY <2>1, <2>2, <3>1, <3>2 DEF Wired
    <2> QED
      BY <1>11, <2>1, <2>3, <2>4
  <1>26. Hosted'
    <2>1. \A q \in Passes : Running(q)' => Running(q) /\ proc'[q] = proc[q]
      BY <1>6, <1>9, <1>11
    <2>2. \A q \in Passes : cur'[q] # None => cur'[q] = cur[q] /\ proc'[q] = proc[q]
      BY <1>6, <1>9, <1>11
    <2> QED
      BY <1>5, <2>1, <2>2 DEF Inv, Hosted
  <1>27. RegistryExact'
    <2>0. RegistryExact
      BY DEF Inv
    <2>1. ASSUME NEW Q \in Procs, NEW j \in Keys, NEW q \in Passes, j \in token'[q], proc'[q] = Q, store[j] = cur'[q],
                 life[Q] \in {"up", "draining"}
          PROVE  held'[Q][j] = cur'[q]
      <3>1. CASE a = "ok" /\ Q = P /\ j = k
        <4>1. ASSUME NEW u \in Passes, proc[u] = P, k \in token[u]
              PROVE  store[k] # cur[u]
          BY <1>1, <1>2, <3>1, <4>1 DEF Inv, Overtaken
        <4>2. q = p
          BY <1>11, <2>1, <3>1, <4>1
        <4> QED
          BY <1>4, <1>9, <1>10, <3>1, <4>2 DEF Entered
      <3>2. CASE ~(a = "ok" /\ Q = P /\ j = k)
        <4>1. held'[Q][j] = held[Q][j]
          BY <1>4, <3>2 DEF Entered
        <4>2. j \in token[q] /\ proc[q] = Q /\ cur'[q] = cur[q]
          BY <1>6, <1>9, <1>10, <1>11, <2>1, <3>2
        <4> QED
          BY <2>0, <2>1, <4>1, <4>2 DEF RegistryExact
      <3> QED
        BY <3>1, <3>2
    <2>2. ASSUME NEW Q \in Procs, NEW j \in Keys, held'[Q][j] # None
          PROVE  \E q \in Passes : proc'[q] = Q /\ j \in token'[q] /\ cur'[q] = held'[Q][j]
      <3>1. CASE a = "ok" /\ Q = P /\ j = k
        BY <1>4, <1>9, <1>10, <3>1 DEF Entered
      <3>2. CASE ~(a = "ok" /\ Q = P /\ j = k)
        <4>1. held'[Q][j] = held[Q][j]
          BY <1>4, <3>2 DEF Entered
        <4>2. PICK q \in Passes : proc[q] = Q /\ j \in token[q] /\ cur[q] = held[Q][j]
          BY <2>0, <2>2, <4>1 DEF RegistryExact
        <4>3. proc'[q] = Q /\ j \in token'[q] /\ cur'[q] = cur[q]
          BY <1>6, <1>8, <1>9, <1>11, <4>2
        <4> QED
          BY <4>1, <4>2, <4>3
      <3> QED
        BY <3>1, <3>2
    <2> QED
      BY <1>5, <2>1, <2>2 DEF RegistryExact
  <1>28. Overtaken'
    <2> SUFFICES ASSUME NEW Q \in Procs, NEW n \in DOMAIN replies'[Q], replies'[Q][n].answer = "ok"
                 PROVE  /\ \A q \in Passes : proc'[q] = Q /\ replies'[Q][n].key \in token'[q] => store[replies'[Q][n].key] # cur'[q]
                        /\ \A m \in DOMAIN replies'[Q] :
                             m < n /\ replies'[Q][m].key = replies'[Q][n].key /\ replies'[Q][m].answer = "ok" =>
                               store[replies'[Q][n].key] # cur'[replies'[Q][m].pass]
      BY <1>5 DEF Overtaken
    <2>1. PICK n0 \in DOMAIN replies[Q] : /\ n0 = (IF Q = P THEN n + 1 ELSE n) /\ replies'[Q][n] = replies[Q][n0]
                                          /\ replies[Q][n0].pass \in Passes \ {p} /\ replies[Q][n0].key \in Keys
      BY <1>24
    <2>2. PICK j \in Keys : j = replies[Q][n0].key /\ replies[Q][n0].answer = "ok"
      BY <2>1
    <2>3. /\ \A q \in Passes : proc[q] = Q /\ j \in token[q] => store[j] # cur[q]
          /\ \A m \in DOMAIN replies[Q] : m < n0 /\ replies[Q][m].key = j /\ replies[Q][m].answer = "ok" => store[j] # cur[replies[Q][m].pass]
      BY <2>2 DEF Inv, Overtaken
    <2>4. ASSUME NEW q \in Passes, proc'[q] = Q, j \in token'[q]
          PROVE  store[j] # cur'[q]
      <3>1. CASE q # p
        BY <1>11, <2>3, <2>4, <3>1
      <3>2. CASE q = p
        <4>1. proc[q] = P /\ Q = P /\ cur'[q] = cur[q]
          BY <1>6, <1>9, <1>10, <1>12, <2>4, <3>2
        <4>2. CASE j \in token[p]
          BY <2>3, <3>2, <4>1, <4>2
        <4>3. CASE j = k /\ a = "ok"
          <5>1. 1 < n0
            BY <1>21, <2>1, <4>1
          <5> QED
            BY <1>1, <1>2, <2>3, <3>2, <4>1, <4>3, <5>1
        <4> QED
          BY <1>9, <2>4, <3>2, <4>2, <4>3
      <3> QED
        BY <3>1, <3>2
    <2>5. ASSUME NEW m \in DOMAIN replies'[Q], m < n, replies'[Q][m].key = j, replies'[Q][m].answer = "ok"
          PROVE  store[j] # cur'[replies'[Q][m].pass]
      <3>1. PICK m0 \in DOMAIN replies[Q] : /\ m0 = (IF Q = P THEN m + 1 ELSE m) /\ replies'[Q][m] = replies[Q][m0]
                                            /\ replies[Q][m0].pass \in Passes \ {p}
        BY <1>24
      <3>2. m0 < n0
        BY <1>21, <2>1, <2>5, <3>1
      <3>3. PICK q \in Passes \ {p} : q = replies[Q][m0].pass
        BY <3>1
      <3>4. store[j] # cur[q]
        BY <2>3, <2>5, <3>1, <3>2, <3>3
      <3> QED
        BY <1>11, <3>1, <3>3, <3>4
    <2> QED
      BY <2>1, <2>2, <2>4, <2>5
  <1>29. ASSUME NEW q \in Passes, q # p, NEW j \in Keys
         PROVE  TimelyAt(q, j)' /\ (Protected(q, j)' => store'[j] = cur'[q])
    <2>1. TimelyAt(q, j) /\ (Protected(q, j) => store[j] = cur[q]) /\ SameView(q)
      BY <1>4, <1>29 DEF Inv, Timely, Owned
    <2>2. Inside(q, j)' = Inside(q, j)
      BY <2>1 DEF SameView, Inside
    <2> QED
      BY <1>5, <2>1, <2>2 DEF SameView, TimelyAt, Protected, RenewedBy
  <1>30. ASSUME NEW j \in Keys, j # k
         PROVE  TimelyAt(p, j)' /\ (Protected(p, j)' => store'[j] = cur'[p])
    <2>1. TimelyAt(p, j) /\ (Protected(p, j) => store[j] = cur[p])
      BY DEF Inv, Timely, Owned
    <2>2. Inside(p, j)' => Inside(p, j) /\ (j \in beat'[p] <=> j \in beat[p]) /\ ~ends
      BY <1>6, <1>10, <1>16, <1>30 DEF Inside
    <2>3. Inside(p, j)' => proc'[p] = proc[p] /\ cur'[p] = cur[p]
      BY <1>6, <1>9, <2>2
    <2>4. RenewedBy(p)' = RenewedBy(p)
      BY <1>5 DEF RenewedBy
    <2>5. TimelyAt(p, j)'
      BY <1>5, <1>16, <1>30, <2>1, <2>2, <2>4 DEF TimelyAt
    <2>6. Protected(p, j)' => Protected(p, j) /\ cur'[p] = cur[p]
      BY <1>5, <1>16, <1>30, <2>2, <2>3 DEF Protected
    <2> QED
      BY <1>5, <2>1, <2>5, <2>6
  <1>31. Granted(r, P)
    BY <1>1 DEF Inv, GrantedOwned
  <1>32. TimelyAt(p, k)'
    <2>1. RenewedBy(p)' = RenewedBy(p) /\ "ai" \in RenewedBy(p)
      BY <1>5, KindType DEF RenewedBy
    <2>2. a = "ok" /\ k \in RenewedBy(p) \ late[p] /\ store[k] # None => left[k] = Ttl
      BY <1>2, <1>31 DEF Granted
    <2>3. store[k] # None /\ k \in beat'[p] \ late'[p] => left[k] + since[p][k] + fails[p][k] * Interval >= Ttl
      BY <1>15, <1>17, <2>1, <2>2, Times
    <2>4. store[k] # None /\ k \in RenewedBy(p) \ late'[p] /\ Inside(p, k)' => left[k] = Ttl
      BY <1>17, <2>2 DEF Inside
    <2> QED
      BY <1>5, <2>1, <2>3, <2>4 DEF TimelyAt
  <1>33. Protected(p, k)' => store'[k] = cur'[p]
    <2> SUFFICES ASSUME Protected(p, k)'
                 PROVE  store'[k] = cur'[p]
      OBVIOUS
    <2>1. a = "ok"
      BY <1>17 DEF Protected, Inside
    <2>2. proc'[p] = P /\ cur'[p] = cur[p] /\ late'[p] = late[p] /\ lapsed'[p] = lapsed[p] /\ (k \in beat'[p] <=> k = "ai")
      BY <1>9, <1>10, <1>17, <2>1
    <2>3. life[P] # "releasing" /\ IF k = "ai" THEN p \notin stolen /\ k \notin late[p] ELSE k \notin lapsed[p]
      BY <1>5, <2>2 DEF Protected
    <2>4. store[k] = cur[p]
      BY <1>2, <1>31, <2>1, <2>3 DEF Granted
    <2> QED
      BY <1>5, <2>2, <2>4
  <1>34. Timely' /\ Owned'
    <2>1. \A q \in Passes : \A j \in Keys : TimelyAt(q, j)' /\ (Protected(q, j)' => store'[j] = cur'[q])
      BY <1>29, <1>30, <1>32, <1>33
    <2> QED
      BY <2>1 DEF Timely, Owned
  <1>35. GrantedOwned'
    <2>1. ASSUME NEW Q \in Procs, NEW n \in DOMAIN replies'[Q], NEW g, g = replies'[Q][n]
          PROVE  Granted(g, Q)'
      <3>1. Granted(g, Q) /\ g.pass \in Passes /\ g.pass # p
        BY <1>24, <2>1 DEF Inv, GrantedOwned
      <3>2. late'[g.pass] = late[g.pass] /\ lapsed'[g.pass] = lapsed[g.pass] /\ cur'[g.pass] = cur[g.pass]
        BY <1>4, <3>1 DEF SameView
      <3> QED
        BY <1>5, <3>1, <3>2 DEF Granted, RenewedBy
    <2> QED
      BY <2>1 DEF GrantedOwned
  <1> QED
    BY <1>19, <1>22, <1>23, <1>25, <1>26, <1>27, <1>28, <1>34, <1>35 DEF Inv

-----------------------------------------------------------------------------
(* Releasing                                                               *)

\* A compare-and-delete of token t takes that token out of the key, or does nothing.
Deleted(t, k) ==
  \A j \in Keys : \/ store'[j] = store[j] /\ left'[j] = left[j]
                  \/ j = k /\ store[j] = t /\ store'[j] = None /\ left'[j] = 0

\* A command that deletes, fails or is not sent leaves Redis well-formed.
LEMMA DeleteEffect ==
  ASSUME RedisOK, NEW k \in Keys, NEW t, releaseIfValue(t, k) \/ UNCHANGED redis
  PROVE  RedisOK' /\ Deleted(t, k)
  <1>1. CASE UNCHANGED redis
    BY <1>1 DEF redis, RedisOK, Deleted
  <1>2. CASE store[k] = t /\ store' = [store EXCEPT ![k] = None] /\ left' = [left EXCEPT ![k] = 0]
    BY <1>2, Times DEF RedisOK, Entries, Deleted
  <1> QED
    BY <1>1, <1>2 DEF releaseIfValue

\* Where a pass goes from the release of k: it ends only where that was its last lock.
LEMMA ReleasePlace ==
  ASSUME Inv, NEW p \in Passes, Stage(p) = "release", NEW k, k = pc[p].key, NEW next, next = AfterRelease(p, k)
  PROVE  /\ k \in Keys /\ pc[p] = At("release", k) /\ next \in [stage : Stages, key : Keys] /\ token[p] \ {k} \subseteq {FirstKey(p)}
         /\ "ai" \notin token[p] \ {k}
         /\ \/ next.stage \in {"queued", "done"} /\ token[p] \ {k} = {}
            \/ next \in Route(p) /\ next.stage \in {"check", "release"} /\ (next.stage = "release" => next.key \in {"pr", "cap"})
  <1>1. /\ kind[p].path \in {"sweep", "webhook", "capclose"} /\ Running(p) /\ k \in Keys /\ pc[p] = At("release", k)
        /\ kind[p].path = "capclose" => k # "ai"
    BY KindType, Whereabouts DEF Running
  <1>2. token[p] \ {k} \subseteq {FirstKey(p)} /\ "ai" \notin token[p] \ {k}
    BY <1>1 DEF Inv, Local, PlacedAt, Room, FirstKey
  <1>3. CASE k = "ai"
    <2>1. next = At("release", "pr") \/ next = At("check", "pr")
      BY <1>3 DEF AfterRelease
    <2> QED
      BY <1>1, <1>2, <1>3, <2>1, PlaceEq DEF Route, Stages, Keys
  <1>4. CASE k = "cap" /\ kind[p].path = "capclose"
    <2>1. next = At("done", "cap") /\ FirstKey(p) = "cap"
      BY <1>4 DEF AfterRelease, FirstKey
    <2> QED
      BY <1>1, <1>2, <1>4, <2>1, PlaceEq DEF Stages
  <1>5. CASE k = "cap" /\ kind[p].path # "capclose"
    <2>1. next = At("release", "pr")
      BY <1>5 DEF AfterRelease
    <2> QED
      BY <1>1, <1>2, <1>5, <2>1, PlaceEq DEF Route, Stages, Keys
  <1>6. CASE k = "pr" /\ kind[p].path = "capclose"
    <2>1. next = At("release", "cap")
      BY <1>6 DEF AfterRelease
    <2> QED
      BY <1>1, <1>2, <1>6, <2>1, PlaceEq DEF Route, Stages, Keys
  <1>7. CASE k = "pr" /\ kind[p].path # "capclose"
    <2>1. (next = At("queued", "pr") \/ next = At("done", "pr")) /\ FirstKey(p) = "pr"
      BY <1>7 DEF AfterRelease, FirstKey
    <2> QED
      BY <1>1, <1>2, <1>7, <2>1, PlaceEq DEF Stages
  <1> QED
    BY <1>1, <1>2, <1>3, <1>4, <1>5, <1>6, <1>7 DEF Keys

\* What a release comes to for its pass.
Departed(p, k, next) ==
  /\ pc'[p] = next
  /\ proc'[p] = (IF next.stage \in {"queued", "done"} THEN None ELSE proc[p])
  /\ cur'[p] = (IF next.stage \in {"queued", "done"} THEN None ELSE cur[p])
  /\ token'[p] = token[p] \ {k} /\ lost'[p] = lost[p] \ {k} /\ late'[p] = late[p] \ {k} /\ lapsed'[p] = lapsed[p] \ {k}
  /\ beat'[p] = (IF next = At("release", "pr") THEN beat[p] \ {"pr"} ELSE beat[p])
  /\ \A j \in Keys : /\ since'[p][j] = IF j = k THEN 0 ELSE since[p][j]
                     /\ fails'[p][j] = IF j = k THEN 0 ELSE fails[p][j]

\* The whole effect of a release.
LEMMA ReleaseEffect ==
  ASSUME Inv, NEW p \in Passes, Release(p), NEW k, k = pc[p].key, NEW next, next = AfterRelease(p, k)
  PROVE  /\ Departed(p, k, next) /\ (\A q \in Passes : q # p => SameView(q)) /\ Deleted(cur[p], k)
         /\ \A Q \in Procs : \A j \in Keys :
              held'[Q][j] = IF Q = proc[p] /\ j = k /\ k \in token[p] /\ held[Q][j] = cur[p] THEN None ELSE held[Q][j]
         /\ UNCHANGED <<replies, bulk, life>> /\ stolen' \subseteq stolen /\ stolen \ {p} \subseteq stolen' /\ (k # "ai" => stolen' = stolen)
         /\ RedisOK' /\ PassesOK' /\ BeatsOK' /\ SetsOK' /\ HostsOK' /\ FaultsOK'
  <1>1. RedisOK /\ PassesOK /\ BeatsOK /\ SetsOK /\ HostsOK /\ FaultsOK
    BY TypeParts DEF Inv
  <1>2. Stage(p) = "release" /\ k \in Keys /\ next \in [stage : Stages, key : Keys] /\ proc[p] \in Procs /\ cur[p] \in Tokens \cup {None}
    <2>1. Stage(p) = "release"
      BY DEF Release
    <2>2. proc[p] \in Procs
      BY <1>1, <2>1 DEF PassesOK, Inv, Local, PlacedAt, Running
    <2> QED
      BY <1>1, <2>1, <2>2, ReleasePlace DEF PassesOK
  <1>3. token' = [token EXCEPT ![p] = @ \ {k}] /\ Depart(p, k)
    BY DEF Release
  <1>4. /\ pc' = [pc EXCEPT ![p] = next]
        /\ proc' = [proc EXCEPT ![p] = IF next.stage \in {"queued", "done"} THEN None ELSE @]
        /\ cur' = [cur EXCEPT ![p] = IF next.stage \in {"queued", "done"} THEN None ELSE @]
        /\ aborting' = IF next.stage \in {"queued", "done"} THEN aborting \ {p} ELSE aborting
        /\ beat' = [beat EXCEPT ![p] = IF next = At("release", "pr") THEN @ \ {"pr"} ELSE @]
        /\ lost' = [lost EXCEPT ![p] = @ \ {k}]
        /\ since' = [since EXCEPT ![p][k] = 0]
        /\ late' = [late EXCEPT ![p] = @ \ {k}] /\ lapsed' = [lapsed EXCEPT ![p] = @ \ {k}]
        /\ fails' = [fails EXCEPT ![p][k] = 0]
        /\ stolen' = IF k = "ai" THEN stolen \ {p} ELSE stolen
        /\ UNCHANGED <<replies, bulk, life>>
    BY <1>3 DEF Depart
  <1>5. since'[p] = [since[p] EXCEPT ![k] = 0] /\ fails'[p] = [fails[p] EXCEPT ![k] = 0]
    BY <1>1, <1>4 DEF BeatsOK, Clock
  <1>6. Departed(p, k, next)
    BY <1>1, <1>2, <1>3, <1>4, <1>5 DEF Departed, PassesOK, BeatsOK, Clock
  <1>7. \A q \in Passes : q # p => SameView(q)
    BY <1>1, <1>3, <1>4 DEF SameView, PassesOK, BeatsOK, Clock
  <1>8. RedisOK' /\ Deleted(cur[p], k)
    <2>1. releaseIfValue(cur[p], k) \/ UNCHANGED redis
      BY DEF Release
    <2> QED
      BY <1>1, <1>2, <2>1, DeleteEffect
  <1>9. /\ \A Q \in Procs : \A j \in Keys :
             held'[Q][j] = IF Q = proc[p] /\ j = k /\ k \in token[p] /\ held[Q][j] = cur[p] THEN None ELSE held[Q][j]
        /\ held' \in [Procs -> Entries]
    <2>1. held \in [Procs -> [Keys -> Tokens \cup {None}]]
      BY <1>1 DEF HostsOK, Entries
    <2>2. CASE k \in token[p]
      <3>1. held' = [held EXCEPT ![proc[p]][k] = IF @ = cur[p] THEN None ELSE @]
        BY <2>2 DEF Release, unregisterHeldLock
      <3> QED
        BY <1>2, <2>1, <2>2, <3>1 DEF Entries
    <2>3. CASE k \notin token[p]
      BY <2>1, <2>3 DEF Release, Entries
    <2> QED
      BY <2>2, <2>3
  <1>10. HostsOK'
    BY <1>1, <1>4, <1>9 DEF HostsOK
  <1>11. PassesOK'
    BY <1>1, <1>2, <1>3, <1>4 DEF PassesOK
  <1>12. BeatsOK'
    <2>1. 0 \in 0 .. Interval /\ 0 \in 0 .. 2
      BY Times
    <2> QED
      BY <1>1, <1>2, <1>4, <2>1 DEF BeatsOK, Clock
  <1>13. SetsOK' /\ stolen' \subseteq stolen /\ stolen \ {p} \subseteq stolen' /\ (k # "ai" => stolen' = stolen)
    BY <1>1, <1>4 DEF SetsOK
  <1>14. FaultsOK'
    <2>1. faults' = faults \/ (faults < MaxFaults /\ faults' = faults + 1)
      BY DEF Release
    <2> QED
      BY <1>1, <2>1, LocksAssumption DEF FaultsOK
  <1> QED
    BY <1>4, <1>6, <1>7, <1>8, <1>9, <1>10, <1>11, <1>12, <1>13, <1>14

\* A pass releases a lock.
LEMMA ReleaseInv ==
  ASSUME Inv, NEW p \in Passes, UNCHANGED kind, Release(p)
  PROVE  Inv'
  <1>1. PICK k, next : k = pc[p].key /\ next = AfterRelease(p, k)
    OBVIOUS
  <1>2. Stage(p) = "release"
    BY DEF Release
  <1>3. /\ k \in Keys /\ pc[p] = At("release", k) /\ next \in [stage : Stages, key : Keys] /\ token[p] \ {k} \subseteq {FirstKey(p)}
        /\ "ai" \notin token[p] \ {k}
        /\ \/ next.stage \in {"queued", "done"} /\ token[p] \ {k} = {}
           \/ next \in Route(p) /\ next.stage \in {"check", "release"} /\ (next.stage = "release" => next.key \in {"pr", "cap"})
    BY <1>1, <1>2, ReleasePlace
  <1>4. /\ Departed(p, k, next) /\ (\A q \in Passes : q # p => SameView(q)) /\ Deleted(cur[p], k)
        /\ \A Q \in Procs : \A j \in Keys :
             held'[Q][j] = IF Q = proc[p] /\ j = k /\ k \in token[p] /\ held[Q][j] = cur[p] THEN None ELSE held[Q][j]
        /\ UNCHANGED <<replies, bulk, life>> /\ stolen' \subseteq stolen /\ stolen \ {p} \subseteq stolen' /\ (k # "ai" => stolen' = stolen)
        /\ RedisOK' /\ PassesOK' /\ BeatsOK' /\ SetsOK' /\ HostsOK' /\ FaultsOK'
    BY <1>1, ReleaseEffect
  <1>5. PlacedAt(p) /\ BeatingAt(p) /\ Running(p) /\ cur[p] # None /\ proc[p] # None
    BY <1>2 DEF Inv, Local, PlacedAt, Running
  <1> DEFINE ends == next.stage \in {"queued", "done"}
  <1>6. /\ pc'[p] = next /\ Stage(p)' = next.stage /\ (Running(p)' <=> ~ends)
        /\ proc'[p] = (IF ends THEN None ELSE proc[p]) /\ cur'[p] = (IF ends THEN None ELSE cur[p])
        /\ token'[p] = token[p] \ {k} /\ (ends => token'[p] = {})
    BY <1>3, <1>4 DEF Departed, Stage, Running
  <1> HIDE DEF ends
  <1>7. \A q \in Passes : q # p => /\ pc'[q] = pc[q] /\ proc'[q] = proc[q] /\ cur'[q] = cur[q] /\ token'[q] = token[q]
                                   /\ Running(q)' <=> Running(q)
    BY <1>4 DEF SameView, Running, Stage
  \* a pass that still has a lock is where it was
  <1>8. \A q \in Passes : /\ token'[q] # {} => proc'[q] = proc[q] /\ cur'[q] = cur[q] /\ cur[q] # None
                          /\ token'[q] \subseteq token[q]
    BY <1>5, <1>6, <1>7, GrantedRuns
  <1>9. \A q \in Passes : cur'[q] # None => cur'[q] = cur[q] /\ proc'[q] = proc[q]
    BY <1>6, <1>7
  <1>10. /\ lost'[p] = lost[p] \ {k} /\ late'[p] = late[p] \ {k} /\ lapsed'[p] = lapsed[p] \ {k} /\ k \notin beat[p]
         /\ beat'[p] = IF next = At("release", "pr") THEN beat[p] \ {"pr"} ELSE beat[p]
         /\ \A j \in Keys : /\ since'[p][j] = IF j = k THEN 0 ELSE since[p][j]
                            /\ fails'[p][j] = IF j = k THEN 0 ELSE fails[p][j]
         /\ \A j : j # k => pc[p] # At("release", j)
         /\ \A j : pc[p] # At("await", j)
    BY <1>3, <1>4, <1>5, PlaceEq DEF Departed, BeatingAt
  <1>11. PlacedAt(p)'
    <2>1. Route(p)' = Route(p) /\ FirstKey(p)' = FirstKey(p)
      BY DEF Route, FirstKey
    <2>2. token'[p] \subseteq Room(p)'
      BY <1>3, <1>6, <2>1 DEF Room, ends
    <2> QED
      BY <1>3, <1>5, <1>6, <2>1, <2>2 DEF PlacedAt, ends
  <1>12. BeatingAt(p)'
    <2>1. RenewedBy(p)' = RenewedBy(p) /\ "cap" \notin RenewedBy(p)
      BY KindType DEF RenewedBy
    <2>2. beat'[p] \subseteq beat[p] /\ beat'[p] \subseteq token'[p] \cap RenewedBy(p) /\ lost'[p] \subseteq token'[p]
      BY <1>5, <1>6, <1>10 DEF BeatingAt
    <2>3. \A j : pc'[p] = At("release", j) => j \in {"pr", "cap"} /\ (j = "pr" => next = At("release", "pr"))
      BY <1>3, <1>6, PlaceEq
    <2>4. \A j \in beat'[p] : pc'[p] # At("release", j)
      BY <1>10, <2>1, <2>2, <2>3
    <2>5. Stage(p)' # "refresh" /\ ~Inside(p, "ai")'
      BY <1>3, <1>6 DEF Inside
    <2>6. \A j \in late'[p] \cup lapsed'[p] : Claimed(p, j)'
      <3>1. \A j \in late[p] \cup lapsed[p] : j \in token[p]
        BY <1>5, <1>10 DEF BeatingAt, Claimed
      <3> QED
        BY <1>6, <1>10, <3>1 DEF Claimed
    <2>7. \A j \in Keys : j \in beat'[p] \cup lost'[p] \/ pc'[p] = At("release", j) \/ (since'[p][j] = 0 /\ fails'[p][j] = 0)
      <3>1. \A j \in Keys : j # k => j \in beat[p] \cup lost[p] \/ (since[p][j] = 0 /\ fails[p][j] = 0)
        BY <1>5, <1>10 DEF BeatingAt
      <3> QED
        BY <1>6, <1>10, <3>1
    <2>8. \A j \in RenewedBy(p) \ (beat'[p] \cup lost'[p]) : j \in lapsed'[p] /\ pc'[p] # At("release", j) => j \in late'[p]
      <3>1. \A j \in RenewedBy(p) \ (beat[p] \cup lost[p]) : j # k /\ j \in lapsed[p] => j \in late[p]
        BY <1>5, <1>10 DEF BeatingAt
      <3> QED
        BY <1>6, <1>10, <3>1
    <2> QED
      BY <2>1, <2>2, <2>4, <2>5, <2>6, <2>7, <2>8 DEF BeatingAt
  <1>13. Local'
    BY <1>4, <1>11, <1>12, SameLocal DEF Local
  <1>14. TypeOK'
    <2>1. RunsOK'
      BY <1>5, <1>6, <1>7, TypeParts DEF Inv, RunsOK
    <2>2. WireOK' /\ kind' \in Kinds
      BY <1>4, TypeParts DEF Inv, WireOK
    <2> QED
      BY <1>4, <2>1, <2>2, TypeParts
  <1>15. Distinct'
    BY <1>9 DEF Inv, Distinct
  <1>16. \A Q \in Procs : \A n \in DOMAIN replies[Q] : replies[Q][n].pass \in Passes \ {p} /\ replies[Q][n].key \in Keys /\ cur[replies[Q][n].pass] # None
    BY <1>10, RepliedRuns
  <1>17. Wired'
    BY <1>4, <1>7, <1>16 DEF Inv, Wired
  <1>18. Hosted'
    <2>1. \A q \in Passes : Running(q)' => Running(q) /\ proc'[q] = proc[q]
      BY <1>5, <1>6, <1>7
    <2> QED
      BY <1>4, <1>9, <2>1 DEF Inv, Hosted
  <1>19. \A q \in Passes : q # p => cur[q] # cur[p]
    BY <1>5 DEF Inv, Distinct
  <1>20. \A j \in Keys : /\ ((store'[j] = store[j] /\ left'[j] = left[j]) \/ store'[j] = None)
                         /\ \A q \in Passes : q # p \/ j # k => store[j] # cur[q] \/ store'[j] = store[j]
    BY <1>4, <1>19 DEF Deleted
  <1>21. RegistryExact'
    <2>0. RegistryExact
      BY DEF Inv
    <2>1. ASSUME NEW Q \in Procs, NEW j \in Keys, NEW q \in Passes, j \in token'[q], proc'[q] = Q, store'[j] = cur'[q],
                 life[Q] \in {"up", "draining"}
          PROVE  held'[Q][j] = cur'[q]
      <3>1. j \in token[q] /\ proc[q] = Q /\ cur'[q] = cur[q] /\ cur[q] # None
        BY <1>8, <2>1
      <3>2. store[j] = cur[q]
        BY <1>20, <2>1, <3>1
      <3>3. held[Q][j] = cur[q]
        BY <2>0, <2>1, <3>1, <3>2 DEF RegistryExact
      <3>4. ~(Q = proc[p] /\ j = k /\ k \in token[p] /\ held[Q][j] = cur[p])
        BY <1>6, <1>19, <2>1, <3>3
      <3> QED
        BY <1>4, <3>1, <3>3, <3>4
    <2>2. ASSUME NEW Q \in Procs, NEW j \in Keys, held'[Q][j] # None
          PROVE  \E q \in Passes : proc'[q] = Q /\ j \in token'[q] /\ cur'[q] = held'[Q][j]
      <3>1. held'[Q][j] = held[Q][j] /\ ~(Q = proc[p] /\ j = k /\ k \in token[p] /\ held[Q][j] = cur[p])
        BY <1>4, <2>2
      <3>2. PICK q \in Passes : proc[q] = Q /\ j \in token[q] /\ cur[q] = held[Q][j]
        BY <2>0, <2>2, <3>1 DEF RegistryExact
      <3>3. j \in token'[q]
        BY <1>6, <1>7, <3>1, <3>2
      <3> QED
        BY <1>8, <3>1, <3>2, <3>3
    <2> QED
      BY <1>4, <2>1, <2>2 DEF RegistryExact
  <1>22. Overtaken'
    <2> SUFFICES ASSUME NEW Q \in Procs, NEW n \in DOMAIN replies[Q], replies[Q][n].answer = "ok"
                 PROVE  /\ \A q \in Passes : proc'[q] = Q /\ replies[Q][n].key \in token'[q] => store'[replies[Q][n].key] # cur'[q]
                        /\ \A m \in DOMAIN replies[Q] :
                             m < n /\ replies[Q][m].key = replies[Q][n].key /\ replies[Q][m].answer = "ok" =>
                               store'[replies[Q][n].key] # cur'[replies[Q][m].pass]
      BY <1>4 DEF Overtaken
    <2>1. PICK j \in Keys : j = replies[Q][n].key
      BY <1>16
    <2>2. /\ \A q \in Passes : proc[q] = Q /\ j \in token[q] => store[j] # cur[q]
          /\ \A m \in DOMAIN replies[Q] : m < n /\ replies[Q][m].key = j /\ replies[Q][m].answer = "ok" => store[j] # cur[replies[Q][m].pass]
      BY <2>1 DEF Inv, Overtaken
    <2>3. ASSUME NEW q \in Passes, proc'[q] = Q, j \in token'[q]
          PROVE  store'[j] # cur'[q]
      <3>1. j \in token[q] /\ proc[q] = Q /\ cur'[q] = cur[q] /\ cur[q] # None
        BY <1>8, <2>3
      <3> QED
        BY <1>20, <2>2, <3>1
    <2>4. ASSUME NEW m \in DOMAIN replies[Q], m < n, replies[Q][m].key = j, replies[Q][m].answer = "ok"
          PROVE  store'[j] # cur'[replies[Q][m].pass]
      <3>1. PICK q \in Passes \ {p} : q = replies[Q][m].pass /\ cur[q] # None
        BY <1>16
      <3>2. store[j] # cur[q]
        BY <2>2, <2>4, <3>1
      <3> QED
        BY <1>7, <1>20, <3>1, <3>2
    <2> QED
      BY <2>1, <2>3, <2>4
  <1>23. ASSUME NEW q \in Passes, q # p, NEW j \in Keys
         PROVE  TimelyAt(q, j)' /\ (Protected(q, j)' => store'[j] = cur'[q])
    <2>1. TimelyAt(q, j) /\ (Protected(q, j) => store[j] = cur[q]) /\ SameView(q)
      BY <1>4, <1>23 DEF Inv, Timely, Owned
    <2>2. Inside(q, j)' = Inside(q, j) /\ RenewedBy(q)' = RenewedBy(q)
      BY <2>1 DEF SameView, Inside, RenewedBy
    <2>3. TimelyAt(q, j)'
      BY <1>20, <2>1, <2>2 DEF SameView, TimelyAt
    <2>4. Protected(q, j)' => Protected(q, j)
      BY <1>4, <1>23, <2>1, <2>2 DEF SameView, Protected
    <2> QED
      BY <1>20, <1>23, <2>1, <2>3, <2>4 DEF SameView
  <1>24. ASSUME NEW j \in Keys
         PROVE  TimelyAt(p, j)' /\ (Protected(p, j)' => store'[j] = cur'[p])
    <2>1. TimelyAt(p, j) /\ (Protected(p, j) => store[j] = cur[p])
      BY DEF Inv, Timely, Owned
    <2>2. CASE j = k
      <3>1. k \notin beat'[p] /\ k \notin token'[p]
        BY <1>6, <1>10
      <3> QED
        BY <2>2, <3>1 DEF TimelyAt, Protected, Inside
    <2>3. CASE j # k
      <3>1. /\ (j \in token'[p] <=> j \in token[p]) /\ (j \in lost'[p] <=> j \in lost[p]) /\ (j \in late'[p] <=> j \in late[p])
            /\ (j \in lapsed'[p] <=> j \in lapsed[p]) /\ since'[p][j] = since[p][j] /\ fails'[p][j] = fails[p][j]
            /\ j \in beat'[p] => j \in beat[p]
        BY <1>6, <1>10, <2>3
      <3>2. Inside(p, j)' => Inside(p, j) /\ (j \in beat'[p] <=> j \in beat[p]) /\ j # "ai" /\ proc'[p] = proc[p] /\ cur'[p] = cur[p]
        BY <1>3, <1>6, <1>8, <1>10, <2>3, <3>1 DEF Inside
      <3>3. RenewedBy(p)' = RenewedBy(p)
        BY DEF RenewedBy
      <3>4. TimelyAt(p, j)'
        BY <1>20, <2>1, <3>1, <3>2, <3>3 DEF TimelyAt
      <3>5. Protected(p, j)' => Protected(p, j) /\ cur'[p] = cur[p]
        BY <1>4, <3>1, <3>2 DEF Protected
      <3> QED
        BY <1>20, <2>1, <2>3, <3>4, <3>5
    <2> QED
      BY <2>2, <2>3
  <1>25. Timely' /\ Owned'
    <2>1. \A q \in Passes : \A j \in Keys : TimelyAt(q, j)' /\ (Protected(q, j)' => store'[j] = cur'[q])
      BY <1>23, <1>24
    <2> QED
      BY <2>1 DEF Timely, Owned
  <1>26. GrantedOwned'
    <2>1. ASSUME NEW Q \in Procs, NEW n \in DOMAIN replies[Q], NEW g, g = replies[Q][n]
          PROVE  Granted(g, Q)'
      <3>1. Granted(g, Q) /\ g.pass \in Passes /\ g.pass # p /\ g.key \in Keys
        BY <1>16, <2>1 DEF Inv, GrantedOwned
      <3>2. /\ late'[g.pass] = late[g.pass] /\ lapsed'[g.pass] = lapsed[g.pass] /\ cur'[g.pass] = cur[g.pass]
            /\ g.pass \in stolen' <=> g.pass \in stolen
        BY <1>4, <3>1 DEF SameView
      <3>3. store[g.key] = cur[g.pass] => store'[g.key] = cur[g.pass]
        BY <1>20, <3>1
      <3>4. store'[g.key] = None \/ (store'[g.key] = store[g.key] /\ left'[g.key] = left[g.key])
        BY <1>20, <3>1
      <3> QED
        BY <1>4, <3>1, <3>2, <3>3, <3>4 DEF Granted, RenewedBy
    <2> QED
      BY <1>4, <2>1 DEF GrantedOwned
  <1> QED
    BY <1>13, <1>14, <1>15, <1>17, <1>18, <1>21, <1>22, <1>25, <1>26 DEF Inv

-----------------------------------------------------------------------------
(* The heartbeat                                                           *)

\* A key with its whole TTL is in time for everyone.
LEMMA FullTimely ==
  ASSUME BeatsOK', NEW q \in Passes, NEW j \in Keys, left'[j] = Ttl
  PROVE  TimelyAt(q, j)'
  <1>1. since'[q][j] \in Nat /\ fails'[q][j] \in {0, 1, 2}
    BY Times DEF BeatsOK, Clock
  <1>2. fails'[q][j] * Interval >= 0 /\ fails'[q][j] * Interval \in Int
    BY <1>1, Times
  <1>3. left'[j] + since'[q][j] + fails'[q][j] * Interval >= Ttl
    BY <1>1, <1>2, Times
  <1> QED
    BY <1>3 DEF TimelyAt

\* The three answers to a renewal, for its pass and key.
Renewal(p, k) ==
  \/ /\ store[k] = cur[p] /\ left'[k] = Ttl /\ k \notin late'[p] /\ fails'[p][k] = 0
     /\ beat'[p] = beat[p] /\ lost'[p] = lost[p]
  \/ /\ k \in lost'[p] /\ beat'[p] = beat[p] \ {k} /\ lost'[p] = lost[p] \cup {k}
     /\ left'[k] = left[k] /\ late'[p] = late[p]
  \/ /\ (fails[p][k] = 0 /\ fails'[p][k] = 1) \/ fails'[p][k] = 2
     /\ left'[k] = left[k] /\ late'[p] = late[p] /\ beat'[p] = beat[p] /\ lost'[p] = lost[p]

\* What a renewal comes to.
LEMMA RenewEffect ==
  ASSUME Inv, NEW p \in Passes, NEW k \in Keys, Renew(p, k)
  PROVE  /\ Renewal(p, k) /\ (\A q \in Passes : q # p => SameView(q)) /\ RedisOK' /\ BeatsOK' /\ FaultsOK'
         /\ \A j \in Keys : j # k => /\ left'[j] = left[j] /\ since'[p][j] = since[p][j] /\ fails'[p][j] = fails[p][j]
                                     /\ j \in late'[p] <=> j \in late[p]
         /\ since'[p][k] = 0 /\ late'[p] \subseteq late[p]
         /\ UNCHANGED <<kind, store, pc, proc, cur, token, aborting, lapsed, replies, held, bulk, life, stolen>>
  <1>1. RedisOK /\ PassesOK /\ BeatsOK /\ FaultsOK
    BY TypeParts DEF Inv
  <1>2. UNCHANGED <<kind, store, pc, proc, cur, token, aborting, lapsed, replies, held, bulk, life, stolen>>
    BY DEF Renew, own, host
  <1>3. since' = [since EXCEPT ![p][k] = 0] /\ k \in beat[p]
    BY DEF Renew
  <1>4. /\ since'[p][k] = 0 /\ (\A j \in Keys : j # k => since'[p][j] = since[p][j]) /\ (\A q \in Passes : q # p => since'[q] = since[q])
        /\ since' \in Clock(Interval)
    BY <1>1, <1>3, Times DEF BeatsOK, Clock
  <1>5. CASE Renewed(p, k)
    <2>1. /\ store[k] = cur[p] /\ left' = [left EXCEPT ![k] = Ttl] /\ late' = [late EXCEPT ![p] = @ \ {k}]
          /\ fails' = [fails EXCEPT ![p][k] = 0] /\ UNCHANGED <<beat, lost, faults>>
      BY <1>5 DEF Renewed, StillOurs
    <2>2. cur[p] # None
      BY <1>3, GrantedRuns DEF Inv, Local, BeatingAt
    <2>3. RedisOK'
      BY <1>1, <1>2, <2>1, <2>2, Times DEF RedisOK
    <2>4. /\ fails'[p][k] = 0 /\ (\A j \in Keys : j # k => fails'[p][j] = fails[p][j]) /\ (\A q \in Passes : q # p => fails'[q] = fails[q])
          /\ fails' \in Clock(2)
      BY <1>1, <2>1 DEF BeatsOK, Clock
    <2>5. BeatsOK' /\ late'[p] = late[p] \ {k} /\ (\A q \in Passes : q # p => late'[q] = late[q])
      BY <1>1, <1>2, <1>4, <2>1, <2>4 DEF BeatsOK
    <2>6. left'[k] = Ttl /\ \A j \in Keys : j # k => left'[j] = left[j]
      BY <1>1, <2>1 DEF RedisOK
    <2>7. \A q \in Passes : q # p => SameView(q)
      BY <1>2, <1>4, <2>1, <2>4, <2>5 DEF SameView
    <2>8. Renewal(p, k)
      BY <2>1, <2>4, <2>5, <2>6 DEF Renewal
    <2> QED
      BY <1>1, <1>2, <1>4, <2>1, <2>3, <2>4, <2>5, <2>6, <2>7, <2>8 DEF FaultsOK
  <1>6. CASE LearnedLost(p, k)
    <2>1. beat' = [beat EXCEPT ![p] = @ \ {k}] /\ lost' = [lost EXCEPT ![p] = @ \cup {k}] /\ UNCHANGED <<left, late, fails, faults>>
      BY <1>6 DEF LearnedLost, StopHeartbeat
    <2>2. /\ beat'[p] = beat[p] \ {k} /\ lost'[p] = lost[p] \cup {k}
          /\ \A q \in Passes : q # p => beat'[q] = beat[q] /\ lost'[q] = lost[q]
      BY <1>1, <2>1 DEF BeatsOK
    <2>3. BeatsOK' /\ RedisOK' /\ FaultsOK'
      BY <1>1, <1>2, <1>4, <2>1 DEF BeatsOK, RedisOK, FaultsOK
    <2>4. \A q \in Passes : q # p => SameView(q)
      BY <1>2, <1>4, <2>1, <2>2 DEF SameView
    <2> QED
      BY <1>2, <1>4, <2>1, <2>2, <2>3, <2>4 DEF Renewal
  <1>7. CASE RenewalThrew(p, k)
    <2>1. /\ faults < MaxFaults /\ faults' = faults + 1 /\ fails' = [fails EXCEPT ![p][k] = Min2(2, @ + 1)]
          /\ UNCHANGED <<left, beat, lost, late>>
      BY <1>7 DEF RenewalThrew
    <2>2. fails[p][k] \in {0, 1, 2} /\ fails \in [Passes -> [Keys -> 0 .. 2]]
      BY <1>1 DEF BeatsOK, Clock
    <2>3. PICK f \in {1, 2} : f = Min2(2, fails[p][k] + 1) /\ (fails[p][k] = 0 \/ f = 2)
      BY <2>2 DEF Min2
    <2>4. fails' = [fails EXCEPT ![p][k] = f]
      BY <2>1, <2>2, <2>3
    <2>5. /\ fails'[p][k] = f /\ (\A j \in Keys : j # k => fails'[p][j] = fails[p][j]) /\ (\A q \in Passes : q # p => fails'[q] = fails[q])
          /\ fails' \in Clock(2)
      BY <2>2, <2>3, <2>4 DEF Clock
    <2>6. BeatsOK' /\ RedisOK' /\ FaultsOK'
      BY <1>1, <1>2, <1>4, <2>1, <2>5, LocksAssumption DEF BeatsOK, RedisOK, FaultsOK
    <2>7. \A q \in Passes : q # p => SameView(q)
      BY <1>2, <1>4, <2>1, <2>5 DEF SameView
    <2>8. Renewal(p, k)
      BY <2>1, <2>3, <2>5 DEF Renewal
    <2> QED
      BY <1>2, <1>4, <2>1, <2>5, <2>6, <2>7, <2>8
  <1> QED
    BY <1>5, <1>6, <1>7 DEF Renew

\* A heartbeat fires.
LEMMA RenewInv ==
  ASSUME Inv, NEW p \in Passes, NEW k \in Keys, Renew(p, k)
  PROVE  Inv'
  <1>1. /\ Renewal(p, k) /\ (\A q \in Passes : q # p => SameView(q)) /\ RedisOK' /\ BeatsOK' /\ FaultsOK'
        /\ \A j \in Keys : j # k => /\ left'[j] = left[j] /\ since'[p][j] = since[p][j] /\ fails'[p][j] = fails[p][j]
                                    /\ j \in late'[p] <=> j \in late[p]
        /\ since'[p][k] = 0 /\ late'[p] \subseteq late[p]
    BY RenewEffect
  <1>2. UNCHANGED <<kind, store, pc, proc, cur, token, aborting, lapsed, replies, held, bulk, life, stolen>>
    BY RenewEffect
  <1>3. k \in beat[p] /\ since[p][k] = Interval
    BY DEF Renew
  <1>4. BeatingAt(p) /\ PlacedAt(p) /\ k \in token[p]
    BY <1>3 DEF Inv, Local, BeatingAt
  <1>5. /\ beat'[p] \cup lost'[p] = beat[p] \cup lost[p] /\ beat'[p] \subseteq beat[p] /\ lost'[p] \subseteq lost[p] \cup {k}
        /\ \A j : j # k => (j \in beat'[p] <=> j \in beat[p]) /\ (j \in lost'[p] <=> j \in lost[p])
    BY <1>1, <1>3 DEF Renewal
  <1>6. BeatingAt(p)'
    <2>1. /\ RenewedBy(p)' = RenewedBy(p) /\ Stage(p)' = Stage(p) /\ Inside(p, "ai")' = Inside(p, "ai")
          /\ \A j : Claimed(p, j)' = Claimed(p, j)
      BY <1>2 DEF RenewedBy, Stage, Inside, Claimed
    <2>2. beat'[p] \subseteq token[p] \cap RenewedBy(p) /\ lost'[p] \subseteq token[p] /\ \A j \in beat'[p] : pc[p] # At("release", j)
      BY <1>4, <1>5 DEF BeatingAt
    <2>3. \A j \in late'[p] \cup lapsed'[p] : Claimed(p, j)
      BY <1>1, <1>2, <1>4 DEF BeatingAt
    <2>4. \A j \in Keys : j \in beat'[p] \cup lost'[p] \/ pc[p] = At("release", j) \/ (since'[p][j] = 0 /\ fails'[p][j] = 0)
      BY <1>1, <1>3, <1>4, <1>5 DEF BeatingAt
    <2>5. \A j \in RenewedBy(p) \ (beat'[p] \cup lost'[p]) : j \in lapsed'[p] /\ pc[p] # At("release", j) => j \in late'[p]
      <3>1. RenewedBy(p) \subseteq Keys
        BY KindType
      <3> QED
        BY <1>1, <1>2, <1>3, <1>4, <1>5, <3>1 DEF BeatingAt
    <2> QED
      BY <1>2, <1>4, <1>5, <2>1, <2>2, <2>3, <2>4, <2>5 DEF BeatingAt
  <1>7. PlacedAt(p)'
    BY <1>2, <1>4 DEF PlacedAt, Route, Room, Running, Stage, FirstKey
  <1>8. Local'
    BY <1>1, <1>2, <1>6, <1>7, SameLocal DEF Local
  <1>9. TypeOK'
    <2>1. PassesOK' /\ RunsOK' /\ SetsOK' /\ WireOK' /\ HostsOK' /\ kind' \in Kinds
      BY <1>2, TypeParts DEF Inv, PassesOK, RunsOK, SetsOK, WireOK, HostsOK, Running, Stage
    <2> QED
      BY <1>1, <2>1, TypeParts
  <1>10. Distinct' /\ Wired' /\ Hosted' /\ RegistryExact' /\ Overtaken'
    BY <1>2 DEF Inv, Distinct, Wired, Hosted, RegistryExact, Overtaken, Running, Stage
  <1>11. ASSUME NEW q \in Passes, q # p, NEW j \in Keys
         PROVE  TimelyAt(q, j)' /\ (Protected(q, j)' => store'[j] = cur'[q])
    <2>1. TimelyAt(q, j) /\ (Protected(q, j) => store[j] = cur[q]) /\ SameView(q)
      BY <1>1, <1>11 DEF Inv, Timely, Owned
    <2>2. Inside(q, j)' = Inside(q, j) /\ RenewedBy(q)' = RenewedBy(q)
      BY <1>2, <2>1 DEF SameView, Inside, RenewedBy
    <2>3. Protected(q, j)' => store'[j] = cur'[q]
      BY <1>2, <2>1, <2>2 DEF SameView, Protected
    <2>4. left'[j] = left[j] \/ left'[j] = Ttl
      BY <1>1 DEF Renewal
    <2>5. CASE left'[j] = left[j]
      BY <1>2, <2>1, <2>2, <2>3, <2>5 DEF SameView, TimelyAt
    <2>6. CASE left'[j] = Ttl
      BY <1>1, <2>3, <2>6, FullTimely
    <2> QED
      BY <2>4, <2>5, <2>6
  <1>12. ASSUME NEW j \in Keys, j # k
         PROVE  TimelyAt(p, j)' /\ (Protected(p, j)' => store'[j] = cur'[p])
    <2>1. TimelyAt(p, j) /\ (Protected(p, j) => store[j] = cur[p])
      BY DEF Inv, Timely, Owned
    <2>2. Inside(p, j)' = Inside(p, j) /\ RenewedBy(p)' = RenewedBy(p)
      BY <1>2 DEF Inside, RenewedBy
    <2>3. TimelyAt(p, j)'
      BY <1>1, <1>2, <1>5, <1>12, <2>1, <2>2 DEF TimelyAt
    <2>4. Protected(p, j)' => Protected(p, j)
      BY <1>1, <1>2, <1>5, <1>12, <2>2 DEF Protected
    <2> QED
      BY <1>2, <2>1, <2>3, <2>4
  <1>13. TimelyAt(p, k)' /\ (Protected(p, k)' => store'[k] = cur'[p])
    <2>1. TimelyAt(p, k) /\ (Protected(p, k) => store[k] = cur[p])
      BY DEF Inv, Timely, Owned
    <2>2. CASE left'[k] = Ttl /\ store[k] = cur[p]
      BY <1>1, <1>2, <2>2, FullTimely
    <2>3. CASE k \in lost'[p] /\ beat'[p] = beat[p] \ {k}
      BY <2>3 DEF TimelyAt, Protected
    <2>4. CASE /\ (fails[p][k] = 0 /\ fails'[p][k] = 1) \/ fails'[p][k] = 2
               /\ left'[k] = left[k] /\ late'[p] = late[p] /\ beat'[p] = beat[p] /\ lost'[p] = lost[p]
      <3>1. TimelyAt(p, k)'
        <4>1. CASE fails[p][k] = 0 /\ fails'[p][k] = 1
          <5>1. ASSUME store[k] # None, k \in beat[p] \ late[p]
                PROVE  left[k] + 0 + 1 * Interval >= Ttl
            <6>1. left[k] + Interval + 0 * Interval >= Ttl
              BY <1>3, <2>1, <4>1, <5>1 DEF TimelyAt
            <6>2. left[k] \in Int
              BY TypeParts DEF Inv, RedisOK
            <6> QED
              BY <6>1, <6>2, Times
          <5> QED
            BY <1>1, <1>2, <1>3, <2>4, <4>1, <5>1 DEF TimelyAt
        <4>2. CASE fails'[p][k] = 2
          BY <1>3, <2>4, <4>2 DEF TimelyAt
        <4> QED
          BY <2>4, <4>1, <4>2
      <3>2. Protected(p, k)' => Protected(p, k)
        BY <1>2, <2>4 DEF Protected, Inside
      <3> QED
        BY <1>2, <2>1, <3>1, <3>2
    <2> QED
      BY <1>1, <2>2, <2>3, <2>4 DEF Renewal
  <1>14. Timely' /\ Owned'
    <2>1. \A q \in Passes : \A j \in Keys : TimelyAt(q, j)' /\ (Protected(q, j)' => store'[j] = cur'[q])
      BY <1>11, <1>12, <1>13
    <2> QED
      BY <2>1 DEF Timely, Owned
  <1>15. GrantedOwned'
    <2>1. ASSUME NEW Q \in Procs, NEW n \in DOMAIN replies[Q], NEW g, g = replies[Q][n]
          PROVE  Granted(g, Q)'
      <3>1. Granted(g, Q) /\ g.pass \in Passes /\ g.key \in Keys /\ g.key \notin token[g.pass]
        BY <2>1, RepliedRuns DEF Inv, GrantedOwned
      <3>2. g.key \in late'[g.pass] <=> g.key \in late[g.pass]
        <4>1. CASE g.pass = p
          BY <1>1, <1>4, <3>1, <4>1
        <4>2. CASE g.pass # p
          BY <1>1, <3>1, <4>2 DEF SameView
        <4> QED
          BY <4>1, <4>2
      <3>3. left'[g.key] = left[g.key] \/ left'[g.key] = Ttl
        BY <1>1, <3>1 DEF Renewal
      <3>4. RenewedBy(g.pass)' = RenewedBy(g.pass)
        BY <1>2 DEF RenewedBy
      <3> QED
        BY <1>2, <3>1, <3>2, <3>3, <3>4 DEF Granted
    <2> QED
      BY <1>2, <2>1 DEF GrantedOwned
  <1> QED
    BY <1>8, <1>9, <1>10, <1>14, <1>15 DEF Inv

-----------------------------------------------------------------------------
(* Shutdown, kill and boot                                                 *)

\* The signal, and the start of the shutdown release: the process gives up what its registry lists.
LEMMA DrainInv ==
  ASSUME Inv, NEW P \in Procs, Shutdown(P) \/ BulkRelease(P)
  PROVE  Inv'
  <1>1. UNCHANGED <<kind, store, left, pc, proc, cur, token, aborting, beat, since, lost, late, lapsed, fails, replies, stolen>>
    BY DEF Shutdown, BulkRelease, redis, own, beats
  <1>2. RedisOK /\ PassesOK /\ BeatsOK /\ HostsOK /\ FaultsOK /\ Hosted /\ RegistryExact
    BY TypeParts DEF Inv
  <1>3. /\ \A Q \in Procs : Q # P => held'[Q] = held[Q] /\ bulk'[Q] = bulk[Q] /\ life'[Q] = life[Q]
        /\ \/ life[P] = "up" /\ life'[P] = "draining" /\ held'[P] = held[P] /\ bulk'[P] = bulk[P]
           \/ life[P] = "draining" /\ life'[P] = "releasing" /\ held'[P] = NoEntry /\ bulk'[P] = held[P]
        /\ HostsOK'
    <2>1. NoEntry \in Entries
      BY DEF NoEntry, Entries
    <2> QED
      BY <1>2, <2>1 DEF Shutdown, BulkRelease, HostsOK
  <1>4. FaultsOK'
    BY <1>2, LocksAssumption DEF Shutdown, BulkRelease, FaultsOK
  <1>5. TypeOK'
    <2>1. RedisOK' /\ PassesOK' /\ RunsOK' /\ BeatsOK' /\ SetsOK' /\ WireOK' /\ kind' \in Kinds
      BY <1>1, TypeParts DEF Inv, RedisOK, PassesOK, RunsOK, BeatsOK, SetsOK, WireOK, Running, Stage
    <2> QED
      BY <1>3, <1>4, <2>1, TypeParts
  <1>6. Local'
    BY <1>1, SameLocal DEF Local, SameView
  <1>7. Distinct' /\ Wired' /\ Overtaken' /\ Timely'
    BY <1>1 DEF Inv, Distinct, Wired, Overtaken, Timely, TimelyAt, Inside, RenewedBy
  <1>8. Hosted'
    <2>1. \A q \in Passes : Running(q)' => life'[proc'[q]] # "down"
      <3>1. \A q \in Passes : Running(q) => proc[q] \in Procs /\ life[proc[q]] # "down"
        BY <1>2 DEF Inv, Local, PlacedAt, PassesOK, Hosted
      <3>2. \A Q \in Procs : life[Q] # "down" => life'[Q] # "down"
        BY <1>3
      <3> QED
        BY <1>1, <3>1, <3>2 DEF Running, Stage
    <2>2. ASSUME NEW Q \in Procs, NEW j \in Keys, bulk'[Q][j] # None
          PROVE  life'[Q] = "releasing" /\ \A q \in Passes : cur[q] = bulk'[Q][j] => proc[q] = Q
      <3>1. CASE Q # P
        BY <1>2, <1>3, <2>2, <3>1 DEF Hosted
      <3>2. CASE Q = P /\ bulk'[P] = bulk[P] /\ life[P] = "up"
        BY <1>2, <2>2, <3>2 DEF Hosted
      <3>3. CASE Q = P /\ bulk'[P] = held[P] /\ life'[P] = "releasing"
        <4>1. PICK u \in Passes : proc[u] = P /\ cur[u] = held[P][j]
          BY <1>2, <2>2, <3>3 DEF RegistryExact
        <4> QED
          BY <2>2, <3>3, <4>1 DEF Inv, Distinct
      <3> QED
        BY <1>3, <3>1, <3>2, <3>3
    <2> QED
      BY <1>1, <2>1, <2>2 DEF Hosted
  <1>9. RegistryExact'
    <2>1. \A Q \in Procs : /\ life'[Q] \in {"up", "draining"} => life[Q] \in {"up", "draining"} /\ held'[Q] = held[Q]
                           /\ \A j \in Keys : held'[Q][j] # None => held'[Q][j] = held[Q][j]
      BY <1>3 DEF NoEntry
    <2> QED
      BY <1>1, <1>2, <2>1 DEF RegistryExact
  <1>10. \A Q \in Procs : life'[Q] # "releasing" => life[Q] # "releasing"
    BY <1>3
  <1>11. Owned'
    <2>1. \A q \in Passes : token[q] # {} => proc[q] \in Procs
      BY GrantedRuns
    <2>2. \A q \in Passes : \A j \in Keys : Protected(q, j)' => Protected(q, j)
      BY <1>1, <1>10, <2>1 DEF Protected, Inside
    <2> QED
      BY <1>1, <2>2 DEF Inv, Owned
  <1>12. GrantedOwned'
    BY <1>1, <1>10 DEF Inv, GrantedOwned, Granted, RenewedBy
  <1> QED
    BY <1>5, <1>6, <1>7, <1>8, <1>9, <1>11, <1>12 DEF Inv

\* One of these locks is released.
LEMMA BulkReleaseOneInv ==
  ASSUME Inv, NEW P \in Procs, NEW k \in Keys, BulkReleaseOne(P, k)
  PROVE  Inv'
  <1>1. UNCHANGED <<kind, pc, proc, cur, token, aborting, beat, since, lost, late, lapsed, fails, replies, held, life, stolen, faults>>
    BY DEF BulkReleaseOne, own, beats
  <1>2. RedisOK /\ HostsOK /\ Hosted
    BY TypeParts DEF Inv
  <1>3. PICK t : t = bulk[P][k] /\ t # None /\ releaseIfValue(t, k) /\ bulk' = [bulk EXCEPT ![P][k] = None]
    BY DEF BulkReleaseOne
  <1>4. RedisOK' /\ Deleted(t, k)
    BY <1>2, <1>3, DeleteEffect
  <1>5. life[P] = "releasing" /\ \A q \in Passes : cur[q] = t => proc[q] = P
    BY <1>2, <1>3 DEF Hosted
  <1>6. HostsOK' /\ \A Q \in Procs : \A j \in Keys : bulk'[Q][j] # None => bulk'[Q][j] = bulk[Q][j]
    BY <1>1, <1>2, <1>3 DEF HostsOK, Entries
  <1>7. TypeOK'
    <2>1. PassesOK' /\ RunsOK' /\ BeatsOK' /\ SetsOK' /\ WireOK' /\ FaultsOK' /\ kind' \in Kinds
      BY <1>1, TypeParts DEF Inv, PassesOK, RunsOK, BeatsOK, SetsOK, WireOK, FaultsOK, Running, Stage
    <2> QED
      BY <1>4, <1>6, <2>1, TypeParts
  <1>8. Local'
    BY <1>1, SameLocal DEF Local, SameView
  <1>9. Distinct' /\ Wired'
    BY <1>1 DEF Inv, Distinct, Wired
  <1>10. Hosted'
    BY <1>1, <1>2, <1>6 DEF Hosted, Running, Stage
  \* a token in a key was there before, and one that is taken out is a pass's of this process
  <1>11. \A j \in Keys : /\ ((store'[j] = store[j] /\ left'[j] = left[j]) \/ store'[j] = None)
                         /\ \A q \in Passes : store[j] = cur[q] /\ proc[q] # P => store'[j] = cur[q]
    BY <1>4, <1>5 DEF Deleted
  <1>12. \A q \in Passes : token[q] # {} => cur[q] # None
    BY GrantedRuns
  <1>13. RegistryExact'
    <2>1. \A j \in Keys : \A q \in Passes : j \in token[q] /\ store'[j] = cur[q] => store[j] = cur[q]
      BY <1>11, <1>12
    <2> QED
      BY <1>1, <2>1 DEF Inv, RegistryExact
  <1>14. Overtaken'
    <2>1. \A j \in Keys : \A q \in Passes : cur[q] # None /\ store[j] # cur[q] => store'[j] # cur[q]
      BY <1>11
    <2>2. \A Q \in Procs : \A n \in DOMAIN replies[Q] : replies[Q][n].key \in Keys /\ replies[Q][n].pass \in Passes /\ cur[replies[Q][n].pass] # None
      BY RepliedRuns
    <2> QED
      BY <1>1, <1>12, <2>1, <2>2 DEF Inv, Overtaken
  <1>15. ASSUME NEW q \in Passes, NEW j \in Keys
         PROVE  TimelyAt(q, j)' /\ (Protected(q, j)' => store'[j] = cur'[q])
    <2>1. TimelyAt(q, j) /\ (Protected(q, j) => store[j] = cur[q])
      BY DEF Inv, Timely, Owned
    <2>2. Inside(q, j)' = Inside(q, j) /\ RenewedBy(q)' = RenewedBy(q) /\ Protected(q, j)' = Protected(q, j)
      BY <1>1 DEF Inside, RenewedBy, Protected
    <2>3. TimelyAt(q, j)'
      BY <1>1, <1>11, <2>1, <2>2 DEF TimelyAt
    <2>4. Protected(q, j) => proc[q] # P
      BY <1>5 DEF Protected
    <2> QED
      BY <1>1, <1>11, <2>1, <2>2, <2>3, <2>4
  <1>16. Timely' /\ Owned'
    BY <1>15 DEF Timely, Owned
  <1>17. GrantedOwned'
    <2>1. ASSUME NEW Q \in Procs, NEW n \in DOMAIN replies[Q], NEW g, g = replies[Q][n]
          PROVE  Granted(g, Q)'
      <3>1. Granted(g, Q) /\ g.pass \in Passes /\ g.key \in Keys /\ proc[g.pass] = Q
        BY <2>1, RepliedRuns DEF Inv, GrantedOwned
      <3>2. life[Q] # "releasing" /\ store[g.key] = cur[g.pass] => store'[g.key] = cur[g.pass]
        BY <1>5, <1>11, <3>1
      <3>3. store'[g.key] = None \/ (store'[g.key] = store[g.key] /\ left'[g.key] = left[g.key])
        BY <1>11, <3>1
      <3> QED
        BY <1>1, <3>1, <3>2, <3>3 DEF Granted, RenewedBy
    <2> QED
      BY <1>1, <2>1 DEF GrantedOwned
  <1> QED
    BY <1>7, <1>8, <1>9, <1>10, <1>13, <1>14, <1>16, <1>17 DEF Inv

\* A process is gone: its passes are queued again, and all the others are as before.
LEMMA GoneInv ==
  ASSUME Inv, NEW P \in Procs, Gone(P), FaultsOK'
  PROVE  Inv'
  <1>1. UNCHANGED <<kind, store, left>>
    BY DEF Gone, redis
  <1>2. RedisOK /\ PassesOK /\ BeatsOK /\ HostsOK /\ SetsOK /\ WireOK /\ Hosted /\ RegistryExact
    BY TypeParts DEF Inv
  <1> DEFINE dead == RunningIn(P)
  <1>3. /\ pc' = [p \in Passes |-> IF p \in dead THEN At("queued", "pr") ELSE pc[p]]
        /\ proc' = [p \in Passes |-> IF p \in dead THEN None ELSE proc[p]]
        /\ cur' = [p \in Passes |-> IF p \in dead THEN None ELSE cur[p]]
        /\ token' = [p \in Passes |-> IF p \in dead THEN {} ELSE token[p]]
        /\ beat' = [p \in Passes |-> IF p \in dead THEN {} ELSE beat[p]]
        /\ lost' = [p \in Passes |-> IF p \in dead THEN {} ELSE lost[p]]
        /\ since' = [p \in Passes |-> IF p \in dead THEN Zero ELSE since[p]]
        /\ late' = [p \in Passes |-> IF p \in dead THEN {} ELSE late[p]]
        /\ lapsed' = [p \in Passes |-> IF p \in dead THEN {} ELSE lapsed[p]]
        /\ fails' = [p \in Passes |-> IF p \in dead THEN Zero ELSE fails[p]]
        /\ aborting' = aborting \ dead /\ stolen' = stolen \ dead
    BY DEF Gone
  <1>4. dead = {p \in Passes : Running(p) /\ proc[p] = P} /\ dead \subseteq Passes
    BY DEF RunningIn
  <1> HIDE DEF dead
  <1>5. /\ held' = [held EXCEPT ![P] = NoEntry] /\ bulk' = [bulk EXCEPT ![P] = NoEntry] /\ life' = [life EXCEPT ![P] = "down"]
        /\ replies' = [replies EXCEPT ![P] = <<>>]
    BY DEF Gone
  <1>6. \A q \in Passes : q \notin dead => SameView(q)
    BY <1>3 DEF SameView
  <1>7. \A q \in dead : /\ pc'[q] = At("queued", "pr") /\ proc'[q] = None /\ cur'[q] = None /\ token'[q] = {} /\ beat'[q] = {} /\ lost'[q] = {}
                        /\ since'[q] = Zero /\ late'[q] = {} /\ lapsed'[q] = {} /\ fails'[q] = Zero /\ ~Running(q)' /\ Stage(q)' = "queued"
    <2>1. \A q \in dead : /\ pc'[q] = At("queued", "pr") /\ proc'[q] = None /\ cur'[q] = None /\ token'[q] = {} /\ beat'[q] = {} /\ lost'[q] = {}
                          /\ since'[q] = Zero /\ late'[q] = {} /\ lapsed'[q] = {} /\ fails'[q] = Zero
      BY <1>3, <1>4
    <2> QED
      BY <2>1, PlaceEq DEF Running, Stage
  <1>8. /\ PassesOK' /\ BeatsOK' /\ SetsOK' /\ HostsOK' /\ WireOK'
    <2>1. /\ At("queued", "pr") \in [stage : Stages, key : Keys] /\ Zero \in [Keys -> 0 .. Interval] /\ Zero \in [Keys -> 0 .. 2]
          /\ NoEntry \in Entries /\ <<>> \in Seq(Reply_)
      BY PlaceEq, Times DEF Zero, NoEntry, Entries, Keys, Stages
    <2>2. PassesOK'
      BY <1>2, <1>3, <2>1 DEF PassesOK
    <2>3. BeatsOK'
      BY <1>2, <1>3, <2>1 DEF BeatsOK, Clock
    <2>4. SetsOK' /\ HostsOK' /\ WireOK'
      BY <1>2, <1>3, <1>5, <2>1 DEF SetsOK, HostsOK, WireOK
    <2> QED
      BY <2>2, <2>3, <2>4
  <1>9. /\ held'[P] = NoEntry /\ bulk'[P] = NoEntry /\ life'[P] = "down" /\ replies'[P] = <<>>
        /\ \A Q \in Procs : Q # P => held'[Q] = held[Q] /\ bulk'[Q] = bulk[Q] /\ life'[Q] = life[Q] /\ replies'[Q] = replies[Q]
    BY <1>2, <1>5 DEF HostsOK, WireOK
  <1>10. Local'
    <2>1. ASSUME NEW q \in dead
          PROVE  PlacedAt(q)' /\ BeatingAt(q)'
      <3>1. PlacedAt(q)'
        BY <1>7 DEF PlacedAt
      <3>2. BeatingAt(q)'
        BY <1>7 DEF BeatingAt, Inside, Zero
      <3> QED
        BY <3>1, <3>2
    <2> QED
      BY <1>1, <1>6, <2>1, SameLocal DEF Local
  <1>11. TypeOK'
    <2>1. RunsOK'
      BY <1>10 DEF Local, PlacedAt, RunsOK
    <2>2. RedisOK' /\ kind' \in Kinds
      BY <1>1, TypeParts DEF Inv, RedisOK
    <2> QED
      BY <1>8, <2>1, <2>2, TypeParts
  \* who still has a token or runs is as before, in another process
  <1>12. \A q \in Passes : /\ cur'[q] # None => q \notin dead /\ cur'[q] = cur[q] /\ proc'[q] = proc[q]
                           /\ Running(q)' => q \notin dead /\ Running(q) /\ proc'[q] = proc[q] /\ proc[q] # P
                           /\ token'[q] # {} => q \notin dead /\ Running(q) /\ proc[q] \in Procs /\ proc[q] # P
    <2>1. \A q \in Passes : Running(q)' => q \notin dead /\ Running(q) /\ proc'[q] = proc[q] /\ proc[q] # P
      BY <1>4, <1>6, <1>7 DEF SameView, Running, Stage
    <2>2. \A q \in Passes : cur'[q] # None => q \notin dead /\ cur'[q] = cur[q] /\ proc'[q] = proc[q]
      BY <1>6, <1>7 DEF SameView
    <2>3. \A q \in Passes : token'[q] # {} => q \notin dead /\ Running(q) /\ proc[q] \in Procs /\ proc[q] # P
      BY <1>4, <1>6, <1>7, GrantedRuns DEF SameView
    <2> QED
      BY <2>1, <2>2, <2>3
  <1>13. Distinct'
    BY <1>12 DEF Inv, Distinct
  <1>14. ASSUME NEW Q \in Procs, NEW n \in DOMAIN replies'[Q]
         PROVE  /\ Q # P /\ replies'[Q] = replies[Q] /\ n \in DOMAIN replies[Q] /\ replies[Q][n].pass \in Passes \ dead
                /\ SameView(replies[Q][n].pass)
    <2>1. Q # P /\ replies'[Q] = replies[Q] /\ n \in DOMAIN replies[Q]
      BY <1>9, <1>14
    <2>2. replies[Q][n].pass \in Passes /\ proc[replies[Q][n].pass] = Q
      BY <2>1, RepliedRuns
    <2> QED
      BY <1>4, <1>6, <2>1, <2>2
  <1>15. Wired'
    BY <1>14 DEF Inv, Wired, SameView
  <1>16. Hosted'
    <2>1. \A q \in Passes : Running(q) => proc[q] \in Procs
      BY <1>2 DEF Inv, Local, PlacedAt, PassesOK
    <2>2. \A q \in Passes : Running(q)' => life'[proc'[q]] # "down"
      BY <1>2, <1>9, <1>12, <2>1 DEF Hosted
    <2>3. ASSUME NEW Q \in Procs, NEW j \in Keys, bulk'[Q][j] # None
          PROVE  life'[Q] = "releasing" /\ \A q \in Passes : cur'[q] = bulk'[Q][j] => proc'[q] = Q
      <3>1. Q # P /\ bulk'[Q] = bulk[Q] /\ life'[Q] = life[Q]
        BY <1>9, <2>3 DEF NoEntry
      <3> QED
        BY <1>2, <1>12, <2>3, <3>1 DEF Hosted
    <2> QED
      BY <2>2, <2>3 DEF Hosted
  <1>17. RegistryExact'
    <2>1. ASSUME NEW Q \in Procs, NEW j \in Keys, NEW q \in Passes, j \in token'[q], proc'[q] = Q, store[j] = cur'[q],
                 life'[Q] \in {"up", "draining"}
          PROVE  held'[Q][j] = cur'[q]
      <3>1. q \notin dead /\ Q # P
        BY <1>9, <1>12, <2>1
      <3> QED
        BY <1>2, <1>6, <1>9, <2>1, <3>1 DEF RegistryExact, SameView
    <2>2. ASSUME NEW Q \in Procs, NEW j \in Keys, held'[Q][j] # None
          PROVE  \E q \in Passes : proc'[q] = Q /\ j \in token'[q] /\ cur'[q] = held'[Q][j]
      <3>1. Q # P /\ held'[Q] = held[Q]
        BY <1>9, <2>2 DEF NoEntry
      <3>2. PICK q \in Passes : proc[q] = Q /\ j \in token[q] /\ cur[q] = held[Q][j]
        BY <1>2, <2>2, <3>1 DEF RegistryExact
      <3> QED
        BY <1>4, <1>6, <3>1, <3>2 DEF SameView
    <2> QED
      BY <1>1, <2>1, <2>2 DEF RegistryExact
  <1>18. Overtaken'
    <2> SUFFICES ASSUME NEW Q \in Procs, NEW n \in DOMAIN replies'[Q], replies'[Q][n].answer = "ok"
                 PROVE  /\ \A q \in Passes : proc'[q] = Q /\ replies'[Q][n].key \in token'[q] => store[replies'[Q][n].key] # cur'[q]
                        /\ \A m \in DOMAIN replies'[Q] :
                             m < n /\ replies'[Q][m].key = replies'[Q][n].key /\ replies'[Q][m].answer = "ok" =>
                               store[replies'[Q][n].key] # cur'[replies'[Q][m].pass]
      BY <1>1 DEF Overtaken
    <2>1. replies'[Q] = replies[Q] /\ n \in DOMAIN replies[Q]
      BY <1>14
    <2>2. \A m \in DOMAIN replies[Q] : replies[Q][m].pass \in Passes /\ cur'[replies[Q][m].pass] = cur[replies[Q][m].pass]
      BY <1>14, <2>1 DEF SameView
    <2>3. \A q \in Passes : token'[q] # {} => proc'[q] = proc[q] /\ cur'[q] = cur[q] /\ token'[q] = token[q]
      BY <1>6, <1>12 DEF SameView
    <2> QED
      BY <2>1, <2>2, <2>3 DEF Inv, Overtaken
  <1>19. ASSUME NEW q \in Passes, NEW j \in Keys
         PROVE  TimelyAt(q, j)' /\ (Protected(q, j)' => store'[j] = cur'[q])
    <2>1. TimelyAt(q, j) /\ (Protected(q, j) => store[j] = cur[q])
      BY DEF Inv, Timely, Owned
    <2>2. CASE q \in dead
      BY <1>7, <2>2 DEF TimelyAt, Protected, Inside
    <2>3. CASE q \notin dead
      <3>1. SameView(q)
        BY <1>6, <2>3
      <3>2. Inside(q, j)' = Inside(q, j) /\ RenewedBy(q)' = RenewedBy(q)
        BY <1>1, <3>1 DEF Inside, RenewedBy, SameView
      <3>3. TimelyAt(q, j)'
        BY <1>1, <2>1, <3>1, <3>2 DEF TimelyAt, SameView
      <3>4. Inside(q, j) => life'[proc[q]] = life[proc[q]]
        BY <1>9, <1>12, <3>1 DEF Inside, SameView
      <3>5. Protected(q, j)' => Protected(q, j)
        BY <1>3, <2>3, <3>1, <3>2, <3>4 DEF Protected, SameView
      <3> QED
        BY <1>1, <2>1, <3>1, <3>3, <3>5 DEF SameView
    <2> QED
      BY <2>2, <2>3
  <1>20. Timely' /\ Owned'
    BY <1>19 DEF Timely, Owned
  <1>21. GrantedOwned'
    <2>1. ASSUME NEW Q \in Procs, NEW n \in DOMAIN replies'[Q], NEW g, g = replies'[Q][n]
          PROVE  Granted(g, Q)'
      <3>1. Q # P /\ n \in DOMAIN replies[Q] /\ g = replies[Q][n] /\ g.pass \in Passes \ dead /\ SameView(g.pass)
        BY <1>14, <2>1
      <3>2. Granted(g, Q)
        BY <3>1 DEF Inv, GrantedOwned
      <3>3. life'[Q] = life[Q] /\ (g.pass \in stolen' <=> g.pass \in stolen)
        BY <1>3, <1>9, <3>1
      <3> QED
        BY <1>1, <3>1, <3>2, <3>3 DEF Granted, RenewedBy, SameView
    <2> QED
      BY <2>1 DEF GrantedOwned
  <1> QED
    BY <1>10, <1>11, <1>13, <1>15, <1>16, <1>17, <1>18, <1>20, <1>21 DEF Inv

\* A process boots: nothing runs in it, so a flush where it is the only one takes no lock from anyone.
LEMMA BootInv ==
  ASSUME Inv, NEW P \in Procs, Boot(P)
  PROVE  Inv'
  <1>1. UNCHANGED <<kind, pc, proc, cur, token, aborting, beat, since, lost, late, lapsed, fails, replies, held, bulk, stolen, faults>>
    BY DEF Boot, own, beats
  <1>2. RedisOK /\ PassesOK /\ HostsOK /\ Hosted /\ RegistryExact
    BY TypeParts DEF Inv
  <1>3. life[P] = "down" /\ life'[P] = "up" /\ (\A Q \in Procs : Q # P => life'[Q] = life[Q]) /\ HostsOK'
    BY <1>1, <1>2 DEF Boot, HostsOK
  <1>4. /\ \A q \in Passes : Running(q) => proc[q] \in Procs /\ proc[q] # P
        /\ \A q \in Passes : token[q] # {} => Running(q)
        /\ \A Q \in Procs : \A n \in DOMAIN replies[Q] : Q # P
    <2>1. \A q \in Passes : Running(q) => proc[q] \in Procs /\ proc[q] # P
      BY <1>2, <1>3 DEF Hosted, PassesOK, Inv, Local, PlacedAt
    <2> QED
      BY <2>1, GrantedRuns, RepliedRuns
  <1>5. \/ UNCHANGED <<store, left>>
        \/ store' = NoEntry /\ left' = Zero /\ \A Q \in Procs : Q = P
    BY SingleInstanceAssumption DEF Boot, redis
  <1>6. \/ UNCHANGED <<store, left>>
        \/ /\ \A j \in Keys : store'[j] = None
           /\ \A q \in Passes : token[q] = {}
           /\ \A Q \in Procs : \A n \in DOMAIN replies[Q] : FALSE
    BY <1>4, <1>5 DEF NoEntry
  <1>7. RedisOK'
    <2>1. CASE UNCHANGED <<store, left>>
      BY <1>2, <2>1 DEF RedisOK
    <2>2. CASE store' = NoEntry /\ left' = Zero
      BY <2>2, Times DEF RedisOK, NoEntry, Zero, Entries
    <2> QED
      BY <1>5, <2>1, <2>2
  <1>8. TypeOK'
    <2>1. PassesOK' /\ RunsOK' /\ BeatsOK' /\ SetsOK' /\ WireOK' /\ FaultsOK' /\ kind' \in Kinds
      BY <1>1, TypeParts DEF Inv, PassesOK, RunsOK, BeatsOK, SetsOK, WireOK, FaultsOK, Running, Stage
    <2> QED
      BY <1>3, <1>7, <2>1, TypeParts
  <1>9. Local'
    BY <1>1, SameLocal DEF Local, SameView
  <1>10. Distinct' /\ Wired'
    BY <1>1 DEF Inv, Distinct, Wired
  <1>11. Hosted'
    <2>1. \A q \in Passes : Running(q)' => life'[proc'[q]] # "down"
      BY <1>1, <1>2, <1>3, <1>4 DEF Hosted, Running, Stage
    <2>2. \A Q \in Procs : \A j \in Keys : bulk'[Q][j] # None => life'[Q] = "releasing" /\ \A q \in Passes : cur'[q] = bulk'[Q][j] => proc'[q] = Q
      BY <1>1, <1>2, <1>3 DEF Hosted
    <2> QED
      BY <2>1, <2>2 DEF Hosted
  <1>12. RegistryExact'
    <2>1. \A j \in Keys : \A q \in Passes : j \in token[q] => store'[j] = store[j] /\ proc[q] # P
      BY <1>4, <1>6
    <2> QED
      BY <1>1, <1>2, <1>3, <2>1 DEF RegistryExact
  <1>13. Overtaken'
    <2>1. CASE UNCHANGED store
      BY <1>1, <2>1 DEF Inv, Overtaken
    <2>2. CASE \A Q \in Procs : \A n \in DOMAIN replies[Q] : FALSE
      BY <1>1, <2>2 DEF Overtaken
    <2> QED
      BY <1>6, <2>1, <2>2
  <1>14. ASSUME NEW q \in Passes, NEW j \in Keys
         PROVE  TimelyAt(q, j)' /\ (Protected(q, j)' => store'[j] = cur'[q])
    <2>1. TimelyAt(q, j) /\ (Protected(q, j) => store[j] = cur[q])
      BY DEF Inv, Timely, Owned
    <2>2. Inside(q, j)' = Inside(q, j) /\ RenewedBy(q)' = RenewedBy(q)
      BY <1>1 DEF Inside, RenewedBy
    <2>3. TimelyAt(q, j)'
      <3>1. CASE UNCHANGED <<store, left>>
        BY <1>1, <2>1, <2>2, <3>1 DEF TimelyAt
      <3>2. CASE store'[j] = None
        BY <3>2 DEF TimelyAt
      <3> QED
        BY <1>6, <3>1, <3>2
    <2>4. Protected(q, j)' => Protected(q, j) /\ j \in token[q]
      BY <1>1, <1>3, <1>4, <2>2 DEF Protected, Inside
    <2> QED
      BY <1>1, <1>6, <2>1, <2>3, <2>4
  <1>15. Timely' /\ Owned'
    BY <1>14 DEF Timely, Owned
  <1>16. GrantedOwned'
    <2>1. CASE UNCHANGED <<store, left>>
      <3>1. \A Q \in Procs : \A n \in DOMAIN replies[Q] : life'[Q] = life[Q]
        BY <1>3, <1>4
      <3> QED
        BY <1>1, <2>1, <3>1 DEF Inv, GrantedOwned, Granted, RenewedBy
    <2>2. CASE \A Q \in Procs : \A n \in DOMAIN replies[Q] : FALSE
      BY <1>1, <2>2 DEF GrantedOwned
    <2> QED
      BY <1>6, <2>1, <2>2
  <1> QED
    BY <1>8, <1>9, <1>10, <1>11, <1>12, <1>13, <1>15, <1>16 DEF Inv

-----------------------------------------------------------------------------
(* Time                                                                    *)

\* A key that has a heartbeat which started in time and did not fail twice has more than one Tick left.
LEMMA BeatsInTime ==
  ASSUME Inv, Tick, NEW q \in Passes, NEW j \in Keys, j \in beat[q] \ late[q], fails[q][j] < 2, store[j] # None
  PROVE  left[j] > 1
  <1>1. since[q][j] < Interval /\ left[j] \in Int /\ since[q][j] \in Int /\ fails[q][j] \in 0 .. 2
    BY TypeParts, Times DEF Inv, Tick, RedisOK, BeatsOK, Clock
  <1>2. left[j] + since[q][j] + fails[q][j] * Interval >= Ttl
    BY DEF Inv, Timely, TimelyAt
  <1>3. fails[q][j] = 0 \/ fails[q][j] = 1
    BY <1>1
  <1>4. CASE fails[q][j] = 0
    BY <1>1, <1>2, <1>4, Times
  <1>5. CASE fails[q][j] = 1
    BY <1>1, <1>2, <1>5, Times
  <1> QED
    BY <1>3, <1>4, <1>5

\* Time goes by.
LEMMA TickInv ==
  ASSUME Inv, Tick
  PROVE  Inv'
  <1>1. UNCHANGED <<kind, pc, proc, cur, token, aborting, beat, lost, fails, replies, held, bulk, life, stolen, faults>>
    BY DEF Tick, own, host
  <1>2. RedisOK /\ PassesOK /\ BeatsOK
    BY TypeParts DEF Inv
  <1>3. \A j \in Keys : /\ left'[j] = (IF left[j] > 0 THEN left[j] - 1 ELSE 0)
                        /\ store'[j] = (IF left[j] <= 1 THEN None ELSE store[j])
                        /\ left[j] \in 0 .. Ttl /\ (store[j] = None <=> left[j] = 0)
    BY <1>2 DEF Tick, RedisOK
  <1>4. \A q \in Passes : \A j \in Keys : since'[q][j] = IF j \in beat[q] THEN since[q][j] + 1 ELSE since[q][j]
    BY DEF Tick
  <1>5. \A q \in Passes : /\ late'[q] = late[q] \cup {k \in RenewedBy(q) \ beat[q] : Claimed(q, k)}
                          /\ lapsed'[q] = lapsed[q] \cup {k \in {"pr", "cap"} \ beat[q] : /\ Claimed(q, k) /\ left[k] = 1
                                                                                          /\ store[k] = cur[q]}
    BY DEF Tick
  <1>6. \A j \in Keys : \/ store'[j] = store[j] /\ left[j] > 1 /\ left'[j] = left[j] - 1
                        \/ store'[j] = None /\ left[j] <= 1
    BY <1>3
  <1>7. RedisOK'
    <2>1. \A j \in Keys : left'[j] \in 0 .. Ttl /\ (store'[j] = None <=> left'[j] = 0) /\ store'[j] \in Tokens \cup {None}
      BY <1>2, <1>3, Times DEF RedisOK, Entries
    <2>2. store' = [j \in Keys |-> store'[j]] /\ left' = [j \in Keys |-> left'[j]]
      BY DEF Tick
    <2> QED
      BY <2>1, <2>2 DEF RedisOK, Entries
  <1>8. BeatsOK'
    <2>1. \A q \in Passes : \A j \in Keys : since'[q][j] \in 0 .. Interval
      BY <1>2, <1>4, Times DEF Tick, BeatsOK, Clock
    <2>2. since' \in Clock(Interval)
      <3>1. since' = [q \in Passes |-> [j \in Keys |-> since'[q][j]]]
        BY DEF Tick
      <3> QED
        BY <2>1, <3>1 DEF Clock
    <2>3. \A q \in Passes : late'[q] \subseteq Keys /\ lapsed'[q] \subseteq Keys
      <3>1. \A q \in Passes : late[q] \subseteq Keys /\ lapsed[q] \subseteq Keys /\ RenewedBy(q) \subseteq Keys /\ {"pr", "cap"} \subseteq Keys
        BY <1>2, KindType DEF BeatsOK, Keys
      <3> QED
        BY <1>5, <3>1
    <2>4. late' \in [Passes -> SUBSET Keys] /\ lapsed' \in [Passes -> SUBSET Keys]
      <3>1. late' = [q \in Passes |-> late'[q]] /\ lapsed' = [q \in Passes |-> lapsed'[q]]
        BY DEF Tick
      <3> QED
        BY <2>3, <3>1
    <2> QED
      BY <1>1, <1>2, <2>2, <2>4 DEF BeatsOK
  <1>9. TypeOK'
    <2>1. PassesOK' /\ RunsOK' /\ SetsOK' /\ WireOK' /\ HostsOK' /\ FaultsOK' /\ kind' \in Kinds
      BY <1>1, TypeParts DEF Inv, PassesOK, RunsOK, SetsOK, WireOK, HostsOK, FaultsOK, Running, Stage
    <2> QED
      BY <1>7, <1>8, <2>1, TypeParts
  <1>10. Local'
    <2> SUFFICES ASSUME NEW q \in Passes
                 PROVE  PlacedAt(q)' /\ BeatingAt(q)'
      BY DEF Local
    <2>1. PlacedAt(q) /\ BeatingAt(q)
      BY DEF Inv, Local
    <2>2. PlacedAt(q)'
      BY <1>1, <2>1 DEF PlacedAt, Route, Room, Running, Stage, FirstKey
    <2>3. /\ RenewedBy(q)' = RenewedBy(q) /\ Stage(q)' = Stage(q) /\ Inside(q, "ai")' = Inside(q, "ai")
          /\ \A j : Claimed(q, j)' = Claimed(q, j)
      BY <1>1 DEF RenewedBy, Stage, Inside, Claimed
    <2>4. \A j \in late'[q] \cup lapsed'[q] : Claimed(q, j)
      BY <1>5, <2>1 DEF BeatingAt
    <2>5. \A j \in Keys : j \in beat[q] \cup lost[q] \/ pc[q] = At("release", j) \/ (since'[q][j] = 0 /\ fails[q][j] = 0)
      BY <1>4, <2>1 DEF BeatingAt
    <2>6. \A j \in RenewedBy(q) \ (beat[q] \cup lost[q]) : j \in lapsed'[q] /\ pc[q] # At("release", j) => j \in late'[q]
      BY <1>5, <2>1, <2>4 DEF BeatingAt
    <2>7. BeatingAt(q)'
      BY <1>1, <2>1, <2>3, <2>4, <2>5, <2>6 DEF BeatingAt
    <2> QED
      BY <2>2, <2>7
  <1>11. Distinct' /\ Wired' /\ Hosted'
    BY <1>1 DEF Inv, Distinct, Wired, Hosted, Running, Stage
  <1>12. \A j \in Keys : \A q \in Passes : cur[q] # None /\ store'[j] = cur[q] => store[j] = cur[q]
    BY <1>6
  <1>13. \A q \in Passes : token[q] # {} => cur[q] # None
    BY GrantedRuns
  <1>14. RegistryExact'
    BY <1>1, <1>12, <1>13 DEF Inv, RegistryExact
  <1>15. Overtaken'
    <2>1. \A Q \in Procs : \A n \in DOMAIN replies[Q] : replies[Q][n].key \in Keys /\ replies[Q][n].pass \in Passes /\ cur[replies[Q][n].pass] # None
      BY RepliedRuns
    <2> QED
      BY <1>1, <1>12, <1>13, <2>1 DEF Inv, Overtaken
  <1>16. ASSUME NEW q \in Passes, NEW j \in Keys
         PROVE  TimelyAt(q, j)' /\ (Protected(q, j)' => store'[j] = cur'[q])
    <2>1. TimelyAt(q, j) /\ (Protected(q, j) => store[j] = cur[q]) /\ BeatingAt(q)
      BY DEF Inv, Timely, Owned, Local
    <2>2. Inside(q, j)' = Inside(q, j) /\ RenewedBy(q)' = RenewedBy(q) /\ (Inside(q, j) => Claimed(q, j) /\ cur[q] # None)
      BY <1>1, <1>13 DEF Inside, RenewedBy, Claimed
    <2>3. TimelyAt(q, j)'
      <3> SUFFICES ASSUME store'[j] # None
                   PROVE  /\ j \in beat[q] \ late'[q] /\ fails[q][j] < 2 => left'[j] + since'[q][j] + fails[q][j] * Interval >= Ttl
                          /\ j \in RenewedBy(q) \ (beat[q] \cup late'[q] \cup lost[q]) /\ Inside(q, j) => left'[j] = Ttl
        BY <1>1, <2>2 DEF TimelyAt
      <3>1. store'[j] = store[j] /\ left'[j] = left[j] - 1 /\ left[j] \in Int
        BY <1>3, <1>6
      <3>2. ASSUME j \in beat[q] \ late'[q], fails[q][j] < 2
            PROVE  left'[j] + since'[q][j] + fails[q][j] * Interval >= Ttl
        <4>1. left[j] + since[q][j] + fails[q][j] * Interval >= Ttl
          BY <1>5, <2>1, <3>1, <3>2 DEF TimelyAt
        <4>2. since'[q][j] = since[q][j] + 1 /\ since[q][j] \in Int /\ fails[q][j] \in {0, 1}
          BY <1>2, <1>4, <3>2, Times DEF BeatsOK, Clock
        <4>3. PICK f \in Int : f = fails[q][j] * Interval
          BY <4>2, Times
        <4> QED
          BY <3>1, <4>1, <4>2, <4>3, Times
      <3> QED
        BY <1>5, <2>2, <3>2
    <2>4. ASSUME Protected(q, j)'
          PROVE  store'[j] = cur'[q]
      <3>1. Protected(q, j) /\ Inside(q, j) /\ (j \notin beat[q] => j \notin lapsed'[q])
        BY <1>1, <1>5, <2>2, <2>4 DEF Protected
      <3>2. store[j] = cur[q] /\ store[j] # None
        BY <2>1, <2>2, <3>1
      <3>3. left[j] > 1
        <4>1. CASE j \in beat[q]
          BY <3>1, <3>2, <4>1, BeatsInTime DEF Protected
        <4>2. CASE j \notin beat[q]
          <5>1. j # "ai"
            BY <2>1, <3>1, <4>2 DEF BeatingAt, Protected
          <5>2. left[j] # 1
            BY <1>5, <2>2, <3>1, <3>2, <4>2, <5>1 DEF Keys
          <5> QED
            BY <1>3, <3>2, <5>2
        <4> QED
          BY <4>1, <4>2
      <3>4. left[j] \in Int
        BY <1>3
      <3>5. store'[j] = store[j]
        BY <1>6, <3>3, <3>4
      <3> QED
        BY <1>1, <3>2, <3>5
    <2> QED
      BY <2>3, <2>4
  <1>17. Timely' /\ Owned'
    BY <1>16 DEF Timely, Owned
  <1>18. GrantedOwned'
    <2>1. ASSUME NEW Q \in Procs, NEW n \in DOMAIN replies[Q], NEW g, g = replies[Q][n]
          PROVE  Granted(g, Q)'
      <3>1. /\ Granted(g, Q) /\ g.pass \in Passes /\ g.key \in Keys /\ g.key \notin token[g.pass] /\ pc[g.pass] = At("await", g.key)
            /\ cur[g.pass] # None
        BY <2>1, RepliedRuns DEF Inv, GrantedOwned
      <3>2. Claimed(g.pass, g.key) /\ g.key \notin beat[g.pass] /\ RenewedBy(g.pass)' = RenewedBy(g.pass) /\ "ai" \in RenewedBy(g.pass)
        BY <1>1, <3>1, KindType DEF Claimed, Inv, Local, BeatingAt, RenewedBy
      <3>3. g.key \in RenewedBy(g.pass) => g.key \in late'[g.pass]
        BY <1>5, <3>1, <3>2
      <3>4. ASSUME g.answer = "ok", life[Q] # "releasing", g.key # "ai", g.key \notin lapsed'[g.pass]
            PROVE  store'[g.key] = cur[g.pass]
        <4>1. store[g.key] = cur[g.pass]
          BY <1>5, <3>1, <3>4 DEF Granted
        <4>2. left[g.key] # 1
          BY <1>5, <3>1, <3>2, <3>4, <4>1 DEF Keys
        <4> QED
          BY <1>3, <1>6, <3>1, <4>1, <4>2
      <3> QED
        <4>1. g.answer = "ok" => (g.key \in RenewedBy(g.pass)' \ late'[g.pass] => FALSE)
          BY <3>2, <3>3
        <4>2. g.key = "ai" => "ai" \in late'[g.pass]
          BY <3>2, <3>3
        <4> QED
          BY <1>1, <3>4, <4>1, <4>2 DEF Granted
    <2> QED
      BY <1>1, <2>1 DEF GrantedOwned
  <1> QED
    BY <1>9, <1>10, <1>11, <1>14, <1>15, <1>17, <1>18 DEF Inv

-----------------------------------------------------------------------------
(* The invariant                                                           *)

\* It holds at first.
LEMMA InitInv ==
  ASSUME Init
  PROVE  Inv
  <1>1. /\ \A p \in Passes : /\ pc[p] = At("queued", "pr") /\ proc[p] = None /\ cur[p] = None /\ token[p] = {} /\ beat[p] = {} /\ lost[p] = {}
                             /\ late[p] = {} /\ lapsed[p] = {} /\ since[p] = Zero /\ fails[p] = Zero
        /\ \A P \in Procs : replies[P] = <<>> /\ held[P] = NoEntry /\ bulk[P] = NoEntry
    BY DEF Init
  <1>2. \A p \in Passes : ~Running(p) /\ Stage(p) = "queued"
    BY <1>1, PlaceEq DEF Running, Stage
  <1>3. TypeOK
    <2>1. RedisOK
      BY Times DEF Init, RedisOK, NoEntry, Zero, Entries
    <2>2. PassesOK
      <3>1. At("queued", "pr") \in [stage : Stages, key : Keys]
        BY PlaceEq DEF Stages, Keys
      <3> QED
        BY <3>1 DEF Init, PassesOK
    <2>3. BeatsOK
      <3>1. Zero \in [Keys -> 0 .. Interval] /\ Zero \in [Keys -> 0 .. 2]
        BY Times DEF Zero
      <3> QED
        BY <3>1 DEF Init, BeatsOK, Clock
    <2>4. RunsOK
      BY <1>1, <1>2 DEF RunsOK
    <2>5. SetsOK /\ WireOK /\ FaultsOK /\ HostsOK /\ kind \in Kinds
      <3>1. NoEntry \in Entries /\ <<>> \in Seq(Reply_)
        BY DEF NoEntry, Entries
      <3> QED
        BY <3>1, LocksAssumption DEF Init, SetsOK, WireOK, FaultsOK, HostsOK
    <2> QED
      BY <2>1, <2>2, <2>3, <2>4, <2>5, TypeParts
  <1>4. Local
    <2> SUFFICES ASSUME NEW p \in Passes
                 PROVE  PlacedAt(p) /\ BeatingAt(p)
      BY DEF Local
    <2>1. PlacedAt(p)
      BY <1>1, <1>2 DEF PlacedAt
    <2>2. BeatingAt(p)
      BY <1>1, <1>2 DEF BeatingAt, Inside, Zero
    <2> QED
      BY <2>1, <2>2
  <1>5. Distinct /\ Wired /\ Overtaken /\ GrantedOwned
    BY <1>1 DEF Distinct, Wired, Overtaken, GrantedOwned
  <1>6. Hosted /\ RegistryExact
    BY <1>1, <1>2 DEF Hosted, RegistryExact, NoEntry
  <1>7. Timely /\ Owned
    BY <1>1 DEF Timely, TimelyAt, Owned, Protected, Inside
  <1> QED
    BY <1>3, <1>4, <1>5, <1>6, <1>7 DEF Inv

\* A step that changes nothing preserves it.
LEMMA StutterInv ==
  ASSUME Inv, UNCHANGED vars
  PROVE  Inv'
  <1>1. UNCHANGED <<kind, store, left, pc, proc, cur, token, aborting, beat, since, lost, late, lapsed, fails, replies, held, bulk, life, stolen, faults>>
    BY DEF vars, redis, own, beats, host
  <1>2. TypeOK'
    BY <1>1 DEF Inv, TypeOK, Running, Stage
  <1>3. Local'
    BY <1>1, SameLocal DEF Local, SameView
  <1>4. Distinct' /\ Wired' /\ Hosted' /\ RegistryExact' /\ Overtaken'
    BY <1>1 DEF Inv, Distinct, Wired, Hosted, RegistryExact, Overtaken, Running, Stage
  <1>5. Timely' /\ Owned' /\ GrantedOwned'
    BY <1>1 DEF Inv, Timely, TimelyAt, Owned, Protected, Inside, GrantedOwned, Granted, RenewedBy
  <1> QED
    BY <1>2, <1>3, <1>4, <1>5 DEF Inv

\* Every step preserves it.
LEMMA Inductive ==
  ASSUME Inv, [Next]_vars
  PROVE  Inv'
  <1>1. ASSUME NEW p \in Passes, PassStep(p)
        PROVE  Inv'
    BY <1>1, ClaimInv, PassBodyInv, ReleaseInv DEF PassStep
  <1>2. ASSUME NEW p \in Passes, NEW k \in Keys, Renew(p, k)
        PROVE  Inv'
    BY <1>2, RenewInv
  <1>3. ASSUME NEW P \in Procs, Reply(P)
        PROVE  Inv'
    BY <1>3, ReplyInv
  <1>4. ASSUME NEW P \in Procs, Shutdown(P) \/ BulkRelease(P)
        PROVE  Inv'
    BY <1>4, DrainInv
  <1>5. ASSUME NEW P \in Procs, Exit(P) \/ Kill(P)
        PROVE  Inv'
    <2>1. FaultsOK
      BY TypeParts DEF Inv
    <2>2. FaultsOK' /\ Gone(P)
      BY <1>5, <2>1, LocksAssumption DEF Exit, Kill, FaultsOK
    <2> QED
      BY <2>2, GoneInv
  <1>6. ASSUME NEW P \in Procs, Boot(P)
        PROVE  Inv'
    BY <1>6, BootInv
  <1>7. ASSUME NEW P \in Procs, NEW k \in Keys, BulkReleaseOne(P, k)
        PROVE  Inv'
    BY <1>7, BulkReleaseOneInv
  <1> QED
    BY <1>1, <1>2, <1>3, <1>4, <1>5, <1>6, <1>7, TickInv, StutterInv DEF Next

\* The invariant holds throughout every behaviour of the locks.
THEOREM Invariance == Spec => []Inv
  <1>1. Init => Inv
    BY InitInv
  <1>2. Inv /\ [Next]_vars => Inv'
    BY Inductive
  <1> QED
    BY <1>1, <1>2, PTL DEF Spec

\* Every variable keeps its type, and a pass has a process and a token exactly while it runs.
THEOREM TypeCorrect == Spec => []TypeOK
  <1>1. Inv => TypeOK
    BY DEF Inv
  <1> QED
    BY <1>1, Invariance, PTL

\* Two passes never work under one lock, however many processes, passes and faults there are: each has its token in the
\* key (Owned), and no two have the same token (Distinct).
THEOREM MutualExclusion == Spec => []Exclusive
  <1>1. Inv => Exclusive
    <2> SUFFICES ASSUME Inv, NEW k \in Keys, NEW p \in Passes, NEW q \in Passes, Protected(p, k), Protected(q, k)
                 PROVE  p = q
      BY DEF Exclusive
    <2>1. store[k] = cur[p] /\ store[k] = cur[q]
      BY DEF Inv, Owned
    <2>2. cur[p] # None
      BY GrantedRuns DEF Protected, Inside
    <2> QED
      BY <2>1, <2>2 DEF Inv, Distinct
  <1> QED
    BY <1>1, Invariance, PTL

\* The registry of a process lists the locks its passes hold, and nothing that outlived its pass.
THEOREM RegistryRight == Spec => []RegistryExact
  <1>1. Inv => RegistryExact
    BY DEF Inv
  <1> QED
    BY <1>1, Invariance, PTL

-----------------------------------------------------------------------------
(* The action properties                                                   *)

\* What a step that takes pass p's token out of key k is.
LossStep(p, k) ==
  \/ left[k] = 1
  \/ k = "ai" /\ \E f \in Passes : kind[f].forced /\ store'[k] = cur[f]
  \/ bulk[proc[p]][k] = cur[p]

\* A claim takes a key from its owner only when a maintainer forced a review.
LEMMA ClaimTakes ==
  ASSUME Inv, NEW f \in Passes, NEW k \in Keys, NEW j \in Keys, NEW t, NEW P, SendClaim(f, j, t, P), store[k] # None, store'[k] # store[k]
  PROVE  k = "ai" /\ j = "ai" /\ kind[f].forced /\ store'[k] = t
  <1>1. PICK answer \in {ClaimAnswer(f, j), <<"open", ClaimAnswer(f, j)[2]>>, <<"open", FALSE>>} :
          IF answer[2] THEN Write(j, t) ELSE UNCHANGED redis
    BY DEF SendClaim
  <1>2. ClaimAnswer(f, j) = <<"ok", TRUE>> \/ ClaimAnswer(f, j) = <<"denied", FALSE>>
    BY DEF ClaimAnswer
  <1>3. answer[2] => ClaimAnswer(f, j) = <<"ok", TRUE>>
    BY <1>1, <1>2, AnswerParts, ZenonT(30)
  <1>4. answer[2]
    <2>1. ~UNCHANGED redis
      BY DEF redis
    <2> QED
      BY <1>1, <2>1
  <1>5. RedisOK /\ store' = [store EXCEPT ![j] = t]
    BY <1>1, <1>4, TypeParts DEF Write, Inv
  <1>6. j = k /\ store'[k] = t
    BY <1>5 DEF RedisOK, Entries
  <1>7. ClaimAnswer(f, j) = <<"ok", TRUE>>
    BY <1>3, <1>4
  <1>8. store[j] = None \/ (j = "ai" /\ kind[f].forced)
    BY <1>7 DEF ClaimAnswer
  <1> QED
    BY <1>6, <1>8

\* A lock is lost only for one of the causes the code provides for.
LEMMA LossStepCause ==
  ASSUME Inv, [Next]_vars, NEW k \in Keys, NEW p \in Passes, store[k] = cur[p], store'[k] # cur[p], Inside(p, k)
  PROVE  LossStep(p, k)
  <1>1. cur[p] # None /\ store[k] # None /\ token[p] # {} /\ store' # store /\ k \in token[p] /\ pc[p] # At("release", k)
    BY GrantedRuns DEF Inside
  <1>2. ASSUME NEW f \in Passes, NEW j \in Keys, SendClaim(f, j, cur[f], proc[f])
        PROVE  LossStep(p, k)
    BY <1>1, <1>2, ClaimTakes DEF LossStep
  <1>3. ASSUME NEW f \in Passes, NEW P \in Procs, Begin(f, P)
        PROVE  FALSE
    <2>1. PICK t : SendClaim(f, FirstKey(f), t, P)
      BY <1>3 DEF Begin
    <2>2. FirstKey(f) \in Keys /\ FirstKey(f) # "ai"
      BY KindType DEF FirstKey
    <2> QED
      BY <1>1, <2>1, <2>2, ClaimTakes
  <1>4. ASSUME NEW f \in Passes, Release(f)
        PROVE  FALSE
    <2>1. PICK j, next : j = pc[f].key /\ next = AfterRelease(f, j)
      OBVIOUS
    <2>2. Deleted(cur[f], j)
      BY <1>4, <2>1, ReleaseEffect
    <2>3. pc[f] = At("release", j)
      BY <1>4, <2>1, ReleasePlace DEF Release
    <2>4. j = k /\ cur[f] = cur[p]
      BY <1>1, <2>2 DEF Deleted
    <2>5. f = p
      BY <1>1, <2>4 DEF Inv, Distinct
    <2> QED
      BY <1>1, <2>3, <2>4, <2>5
  <1>5. ASSUME NEW P \in Procs, NEW j \in Keys, BulkReleaseOne(P, j)
        PROVE  LossStep(p, k)
    <2>1. RedisOK /\ bulk[P][j] # None /\ releaseIfValue(bulk[P][j], j)
      BY <1>5, TypeParts DEF BulkReleaseOne, Inv
    <2>2. PICK t : t = bulk[P][j]
      OBVIOUS
    <2>3. Deleted(t, j)
      BY <2>1, <2>2, DeleteEffect
    <2>4. j = k /\ cur[p] = t
      BY <1>1, <2>3 DEF Deleted
    <2>5. proc[p] = P
      BY <2>1, <2>2, <2>4 DEF Inv, Hosted
    <2> QED
      BY <2>2, <2>4, <2>5 DEF LossStep
  <1>6. ASSUME NEW P \in Procs, Boot(P)
        PROVE  FALSE
    <2>1. life[P] = "down" /\ SingleInstance
      BY <1>1, <1>6 DEF Boot, redis
    <2> QED
      BY <1>1, <2>1, SingleInstanceAssumption, GrantedRuns
  <1>7. ASSUME Tick
        PROVE  LossStep(p, k)
    <2>1. store'[k] = IF left[k] <= 1 THEN None ELSE store[k]
      BY <1>7 DEF Tick
    <2>2. left[k] <= 1 /\ left[k] \in Nat /\ left[k] # 0
      BY <1>1, <2>1, Times, TypeParts DEF Inv, RedisOK
    <2> QED
      BY <2>2 DEF LossStep
  <1>8. ASSUME NEW f \in Passes, PassStep(f)
        PROVE  LossStep(p, k)
    <2>1. CASE ClaimReview(f) \/ ClaimCap(f) \/ ClaimNested(f)
      BY <1>2, <2>1 DEF ClaimReview, ClaimCap, ClaimNested, Keys
    <2>2. CASE \/ StartHeartbeat(f) \/ SkipReview(f) \/ Persist(f) \/ EndReview(f) \/ AbortLost(f)
               \/ MaintainNothing(f) \/ Mutate(f) \/ EndMutation(f)
      BY <1>1, <2>2 DEF StartHeartbeat, SkipReview, Persist, EndReview, AbortLost, MaintainNothing, Mutate, EndMutation, Body, redis
    <2> QED
      BY <1>3, <1>4, <1>8, <2>1, <2>2 DEF PassStep
  <1>9. ASSUME UNCHANGED vars \/ (\E f \in Passes, j \in Keys : Renew(f, j))
               \/ \E P \in Procs : Reply(P) \/ Shutdown(P) \/ BulkRelease(P) \/ Exit(P) \/ Kill(P)
        PROVE  FALSE
    <2>1. UNCHANGED vars => UNCHANGED store
      BY DEF vars, redis
    <2>2. \A f \in Passes, j \in Keys : Renew(f, j) => UNCHANGED store
      BY DEF Renew
    <2>3. \A P \in Procs : Reply(P) \/ Shutdown(P) \/ BulkRelease(P) => UNCHANGED store
      BY DEF Reply, Shutdown, BulkRelease, redis
    <2>4. \A P \in Procs : Exit(P) \/ Kill(P) => UNCHANGED store
      BY DEF Exit, Kill, Gone, redis
    <2> QED
      BY <1>1, <1>9, <2>1, <2>2, <2>3, <2>4
  <1> QED
    BY <1>5, <1>6, <1>7, <1>8, <1>9 DEF Next

\* A pass loses a lock that it has not released only to time, to a forced review or to the shutdown of its own process.
THEOREM LossesCaused == Spec => LossHasCause
  <1>1. Inv /\ [Next]_vars =>
          [\A k \in Keys : \A p \in Passes :
             (store[k] = cur[p] /\ store'[k] # cur[p] /\ Inside(p, k))
               => \/ left[k] = 1
                  \/ k = "ai" /\ \E f \in Passes : kind[f].forced /\ store'[k] = cur[f]
                  \/ bulk[proc[p]][k] = cur[p]]_vars
    BY LossStepCause DEF LossStep
  <1> QED
    BY <1>1, Invariance, PTL DEF Spec, LossHasCause

\* Only Persist writes a verdict.
LEMMA PersistStep ==
  ASSUME Inv, [Next]_vars, NEW p \in Passes, Stage(p) = "review", pc'[p].stage = "persist"
  PROVE  "ai" \notin lost[p]
  <1>1. PassesOK /\ pc'[p] # pc[p] /\ pc'[p] # At("queued", "pr") /\ \A k : pc'[p] # At("await", k)
    BY TypeParts, PlaceEq DEF Inv, Stage
  <1>2. ASSUME NEW f \in Passes, NEW k, NEW t, NEW P, SendClaim(f, k, t, P)
        PROVE  FALSE
    <2>1. pc' = [pc EXCEPT ![f] = At("await", k)]
      BY <1>2 DEF SendClaim
    <2> QED
      BY <1>1, <2>1 DEF PassesOK
  <1>3. ASSUME NEW f \in Passes, NEW next, Body(f, next), next.stage = "persist" => Persists(f)
        PROVE  "ai" \notin lost[p]
    <2>1. pc' = [pc EXCEPT ![f] = next]
      BY <1>3 DEF Body
    <2>2. f = p /\ next.stage = "persist"
      BY <1>1, <2>1 DEF PassesOK
    <2> QED
      BY <1>3, <2>2 DEF Persists
  <1>4. ASSUME NEW f \in Passes, Release(f)
        PROVE  FALSE
    <2>1. Stage(f) = "release" /\ Depart(f, pc[f].key)
      BY <1>4 DEF Release
    <2>2. pc' = [pc EXCEPT ![f] = AfterRelease(f, pc[f].key)] /\ f # p
      BY <2>1 DEF Depart
    <2> QED
      BY <1>1, <2>2 DEF PassesOK
  <1>5. ASSUME NEW P \in Procs, Reply(P)
        PROVE  FALSE
    <2>1. PICK r \in Reply_ : /\ 1 \in DOMAIN replies[P] /\ replies[P][1] = r /\ \A q \in Passes : q # r.pass => SameView(q)
      BY <1>5, ReplyEffect
    <2>2. pc[r.pass] = At("await", r.key)
      BY <2>1, RepliedRuns
    <2>3. r.pass # p
      BY <2>2, PlaceEq DEF Stage
    <2> QED
      BY <1>1, <2>1, <2>3 DEF SameView
  <1>6. ASSUME NEW P \in Procs, Gone(P)
        PROVE  FALSE
    BY <1>1, <1>6 DEF Gone
  <1>7. ASSUME NEW f \in Passes, PassStep(f)
        PROVE  "ai" \notin lost[p]
    <2>1. CASE (\E P \in Procs : Begin(f, P)) \/ ClaimReview(f) \/ ClaimCap(f) \/ ClaimNested(f)
      BY <1>2, <2>1 DEF Begin, ClaimReview, ClaimCap, ClaimNested
    <2>2. CASE Persist(f)
      BY <1>3, <2>2 DEF Persist
    <2>3. CASE StartHeartbeat(f) \/ SkipReview(f) \/ EndReview(f) \/ AbortLost(f) \/ MaintainNothing(f) \/ Mutate(f) \/ EndMutation(f)
      <3>1. PICK s, k : s \in {"publish", "check", "release", "mutate"} /\ Body(f, At(s, k))
        BY <2>3 DEF StartHeartbeat, SkipReview, EndReview, AbortLost, MaintainNothing, Mutate, EndMutation
      <3>2. At(s, k).stage # "persist"
        BY <3>1, PlaceEq
      <3> QED
        BY <1>3, <3>1, <3>2
    <2> QED
      BY <1>4, <1>7, <2>1, <2>2, <2>3 DEF PassStep
  <1>8. ASSUME UNCHANGED vars \/ (\E f \in Passes, j \in Keys : Renew(f, j)) \/ Tick
               \/ \E P \in Procs : Shutdown(P) \/ BulkRelease(P) \/ Boot(P) \/ \E k \in Keys : BulkReleaseOne(P, k)
        PROVE  FALSE
    <2>1. UNCHANGED pc
      BY <1>8 DEF vars, Renew, Tick, Shutdown, BulkRelease, Boot, BulkReleaseOne
    <2> QED
      BY <1>1, <2>1
  <1> QED
    BY <1>5, <1>6, <1>7, <1>8 DEF Next, Exit, Kill

\* A verdict of a pass that lost the review is written only before its next renewal could tell it so: by then the key has
\* as much of its TTL left as that renewal could have given it.
THEOREM VerdictsTimely == Spec => LateVerdict
  <1>1. ASSUME Inv, [Next]_vars, NEW p \in Passes, Stage(p) = "review", pc'[p].stage = "persist",
               "ai" \in token[p], store["ai"] \notin {cur[p], None}, fails[p]["ai"] = 0, "ai" \notin late[p]
        PROVE  Ttl - left["ai"] <= since[p]["ai"]
    <2>1. "ai" \notin lost[p] /\ "ai" \in Keys
      BY <1>1, PersistStep DEF Keys
    <2>2. Inside(p, "ai")
      BY <1>1, PlaceEq DEF Inside, Stage
    <2>3. "ai" \in beat[p]
      BY <1>1, <2>1, <2>2 DEF Inv, Local, BeatingAt
    <2>4. left["ai"] + since[p]["ai"] + 0 * Interval >= Ttl
      BY <1>1, <2>1, <2>3 DEF Inv, Timely, TimelyAt
    <2>5. left["ai"] \in Int /\ since[p]["ai"] \in Int
      BY <1>1, <2>1, Times, TypeParts DEF Inv, RedisOK, BeatsOK, Clock
    <2> QED
      BY <2>4, <2>5, Times
  <1>2. Inv /\ [Next]_vars =>
          [\A p \in Passes :
             (Stage(p) = "review" /\ pc'[p].stage = "persist"
                /\ "ai" \in token[p] /\ store["ai"] \notin {cur[p], None}
                /\ fails[p]["ai"] = 0 /\ "ai" \notin late[p])
               => Ttl - left["ai"] <= since[p]["ai"]]_vars
    BY <1>1
  <1> QED
    BY <1>2, Invariance, PTL DEF Spec, LateVerdict
=============================================================================
