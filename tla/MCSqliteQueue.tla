---------------------------- MODULE MCSqliteQueue ----------------------------
(***************************************************************************)
(* Small instances of SqliteQueue for TLC.  The pump loops are             *)
(* interchangeable, so the safety runs are reduced by their symmetry.      *)
(***************************************************************************)
EXTENDS SqliteQueueDelivery, TLC

CONSTANTS w1, w2

Symmetry == Permutations(Workers)

\* In a run whose foreground messages are all of one lane, every turn of the lane cycle claims
\* from the same rows: claimSeq and lastRepo decide nothing, and states that differ only in them
\* are one.
OneLaneView == <<jobs, worker, activeBackground, instCount, pressureCache, phase, budget,
                 hostHigh, sends, queuedEvents, settled, faults>>

Message(type, family, pr, origin, inst, paths) ==
  [type |-> type, repo |-> 1, pr |-> pr, family |-> family, origin |-> origin, inst |-> inst,
   paths |-> paths, scope |-> "none"]

Push          == Message("github-webhook", "push", 1, "event", "none", {})
FullIndex     == Message("rag-index-repo", "none", 0, "none", "i1", {})
IndexA        == Message("rag-index-repo", "none", 0, "none", "i1", {"a"})
Sweep         == Message("agent-regate-sweep", "none", 0, "none", "i1", {})
Hook          == Message("github-webhook", "other", 0, "event", "i1", {})
SweepRegate   == Message("agent-regate-pr", "none", 1, "sweep", "i1", {})
BacklogOfAnother == Message("agent-regate-pr", "none", 1, "backlog", "none", {})
Backlog       == Message("agent-regate-pr", "none", 2, "backlog", "none", {})

LifecycleMessages  == {Push}
BackgroundMessages == {FullIndex, IndexA, Sweep}
SettlingMessages   == {Push, IndexA}
DelayMessages      == {Backlog, BacklogOfAnother}
PressureMessages   == {Hook, SweepRegate, Backlog}
=============================================================================
