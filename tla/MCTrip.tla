------------------------------ MODULE MCTrip ------------------------------
(* Instances of Trip for TLC: one bus with a morning and an evening trip.   *)
EXTENDS GpsFlag, TLC

CONSTANTS m, e, b, s1, s2, u1, u2, w1, w2, w3

MCBusOf     == [t \in {m, e} |-> b]
MCShift     == (m :> "morning") @@ (e :> "evening")
MCRosterBus == [s \in Students |-> b]

\* Requests are interchangeable, and so are students and supervisors.
Symmetry == Permutations(Workers) \cup Permutations(Students) \cup Permutations(Supervisors)
=============================================================================
