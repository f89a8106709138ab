----------------------------- MODULE MCOrbRelay -----------------------------
(* One container with two events of a key, with an event and a notice, or restarted in either relay mode; and an *)
(* installation that is enrolled again.  Events 2 and 3 are noise to the container, which shortens its part.     *)
EXTENDS OrbRelay

Keys == [i \in Events |-> IF i = 1 THEN NoKey ELSE 1]
Kinds == {"orb", "queue", "wire", "box"}

TwoEvents == [ids |-> {2, 3}, modes |-> {"pull"}, changes |-> 0, faults |-> 1, faulty |-> {"orb", "queue"}]
TwoModes == [ids |-> {1}, modes |-> {"push", "pull"}, changes |-> 0, faults |-> 2, faulty |-> Kinds]
TwoEnrollments == [ids |-> {1}, modes |-> {"pull"}, changes |-> 2, faults |-> 1, faulty |-> Kinds]
WithNotice == [ids |-> {2, 4}, modes |-> {"pull"}, changes |-> 0, faults |-> 1, faulty |-> {"queue", "box"}]
AllScenes == {TwoEvents, TwoModes, TwoEnrollments, WithNotice}
Restarts == {[TwoModes EXCEPT !.modes = {"pull"}, !.faults = 1, !.faulty = {"box"}]}
=============================================================================
