------------------------- MODULE SqliteQueueDelivery -------------------------
(***************************************************************************)
(* SqliteQueue implements JobDelivery.  A send runs while a pump loop is   *)
(* consuming a job that was claimed with it; a claim that an admission     *)
(* gate defers is no run.  It waits while a row that can still run stands  *)
(* for it, also one left 'processing' by a loop that is gone.              *)
(***************************************************************************)
EXTENDS SqliteQueue

Runs == {worker[w].covers : w \in {v \in Workers : worker[v].phase = "consuming"}}

\* The sends that the rows of these statuses stand for.
CoveredBy(statuses) == UNION {jobs[i].covers : i \in {k \in Ids : jobs[k].status \in statuses}}

Delivery == INSTANCE JobDelivery
              WITH Sends <- Ids, runs <- Runs, dead <- CoveredBy({"dead"}),
                   waiting <- CoveredBy({"pending", "processing"}) \ UNION Runs

\* The queue keeps the promise of JobDelivery: through coalescing, folding, retries, lease
\* reclaims, crashes and revivals, every accepted send is in exactly one place, runs in one
\* job at a time, and is settled only by a run whose claim already stood for it or by an
\* operator who deletes a dead letter.
KeepsPromise == Delivery!Spec
=============================================================================
