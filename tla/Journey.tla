------------------------------ MODULE Journey ------------------------------
(***************************************************************************)
(* What the events of a trip promise to a parent: each student's journey   *)
(* on each trip goes from waiting to aboard to off, in that order and once. *)
(***************************************************************************)
CONSTANTS Trips, Students
VARIABLE place

Init == place = [t \in Trips |-> [s \in Students |-> "waiting"]]

Move(t, s, from, to) ==
  /\ place[t][s] = from
  /\ place' = [place EXCEPT ![t][s] = to]

GetOn(t, s)  == Move(t, s, "waiting", "aboard")
GetOff(t, s) == Move(t, s, "aboard", "off")

Next == \E t \in Trips, s \in Students : GetOn(t, s) \/ GetOff(t, s)

Spec == Init /\ [][Next]_place
=============================================================================
