-------------------------- MODULE MCApprovalQueue --------------------------
(* The approval queue of a pull request that is to be merged, with two requests or two passes at once, and of one *)
(* that is to be closed and labelled, with one of each.                                                           *)
EXTENDS ApprovalQueue

CONSTANTS d1, d2, p1, p2

TwoRequests == [wants |-> {"merge"}, asks |-> {d1, d2}, passes |-> {p1}, head |-> 2, unpinned |-> FALSE,
                modes |-> {"live", "paused"}]
TwoPasses == [wants |-> {"merge"}, asks |-> {d1}, passes |-> {p1, p2}, head |-> 1, unpinned |-> TRUE,
              modes |-> {"live", "paused", "dry_run"}]
CloseAndLabel == [wants |-> {"close", "label"}, asks |-> {d1}, passes |-> {p1}, head |-> 1, unpinned |-> FALSE,
                  modes |-> {"live", "paused"}]
AllScenes == {TwoRequests, TwoPasses, CloseAndLabel}

\* The merge may be staged, expire and be staged again.
Stagings == [c \in Classes |-> IF c = "merge" THEN 2 ELSE 1]
=============================================================================
