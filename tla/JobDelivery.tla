----------------------------- MODULE JobDelivery -----------------------------
(***************************************************************************)
(* What a producer is promised by the job queue, whatever it coalesces:    *)
(* the contract behind send() of createSqliteQueue.  An accepted send      *)
(* waits, runs as part of one group at a time, and is settled only by a    *)
(* run that had it in its group from the start, or by an operator who      *)
(* discards it as a dead letter.  A process that dies gives back all that  *)
(* it was running, and a settled send never runs again.                    *)
(***************************************************************************)
CONSTANT Sends   \* the sends that may be accepted

VARIABLES
  waiting,       \* the sends that wait for a run
  runs,          \* the groups of sends that are running
  dead,          \* the sends whose retries are used up
  settled        \* the sends that were run to success, or thrown away by an operator

vars == <<waiting, runs, dead, settled>>

Accepted == waiting \cup (UNION runs) \cup dead \cup settled

Init == waiting = {} /\ runs = {} /\ dead = {} /\ settled = {}

\* A producer sends one more message.
Accept ==
  /\ \E n \in Sends \ Accepted : waiting' = waiting \cup {n}
  /\ UNCHANGED <<runs, dead, settled>>

\* A group of waiting sends is run as one job.
Start ==
  /\ \E S \in (SUBSET waiting) \ {{}} : waiting' = waiting \ S /\ runs' = runs \cup {S}
  /\ UNCHANGED <<dead, settled>>

\* A run ends for its whole group: it is done, or is to be tried again, or is given up.
End ==
  \E S \in runs :
    /\ runs' = runs \ {S}
    /\ \/ settled' = settled \cup S /\ UNCHANGED <<waiting, dead>>
       \/ waiting' = waiting \cup S /\ UNCHANGED <<dead, settled>>
       \/ dead' = dead \cup S /\ UNCHANGED <<waiting, settled>>

\* Sends that were given up are tried again, or an operator throws them away.
Redirect ==
  \E S \in (SUBSET dead) \ {{}} :
    /\ dead' = dead \ S
    /\ \/ waiting' = waiting \cup S /\ UNCHANGED settled
       \/ settled' = settled \cup S /\ UNCHANGED waiting
    /\ UNCHANGED runs

\* The process ends; whatever it was running waits again.
Die ==
  /\ waiting' = waiting \cup UNION runs
  /\ runs' = {}
  /\ UNCHANGED <<dead, settled>>

Next == Accept \/ Start \/ End \/ Redirect \/ Die

Spec == Init /\ [][Next]_vars
=============================================================================
