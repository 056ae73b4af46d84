--------------------------- MODULE TripProtocol ---------------------------
(***************************************************************************)
(* What the trip routes promise when each call is one atomic operation:    *)
(* the life of a trip, the supervisor who runs it, the bus's GPS flag, and *)
(* where each student is.  Module Trip implements it for a client that     *)
(* waits for each answer, also when its statements fail (a bus update that *)
(* is lost looks like SetGps); with overlapping requests it does not.      *)
(***************************************************************************)
CONSTANTS Trips, Students, Buses, Supervisors, NoOne, BusOf, Shift

VARIABLES status, supervisor, gpsActive, place

vars == <<status, supervisor, gpsActive, place>>

OnBus(t) == {s \in Students : place[t][s] = "aboard"}
Mornings(t) == {m \in Trips : BusOf[m] = BusOf[t] /\ Shift[m] = "morning"}

Init ==
  /\ status \in [Trips -> {"scheduled", "cancelled"}]
  /\ supervisor \in [Trips -> Supervisors \cup {NoOne}]
  /\ gpsActive = [b \in Buses |-> FALSE]
  /\ place = [t \in Trips |-> [s \in Students |-> "waiting"]]

Assign(t, u) ==
  /\ supervisor' = [supervisor EXCEPT ![t] = u]
  /\ UNCHANGED <<status, gpsActive, place>>

\* A trip starts once; an evening trip only after a morning trip of the bus,
\* if it has any, is over.  Whoever was assigned stays assigned.
Start(t, u) ==
  /\ status[t] = "scheduled"
  /\ Shift[t] = "evening" /\ Mornings(t) # {}
       => \E m \in Mornings(t) : status[m] \in {"completed", "cancelled"}
  /\ status' = [status EXCEPT ![t] = "active"]
  /\ supervisor' = [supervisor EXCEPT ![t] = IF @ = NoOne THEN u ELSE @]
  /\ gpsActive' = [gpsActive EXCEPT ![BusOf[t]] = TRUE]
  /\ UNCHANGED place

Move(t, s, from, to) ==
  /\ place[t][s] = from
  /\ place' = [place EXCEPT ![t][s] = to]
  /\ UNCHANGED <<status, supervisor, gpsActive>>

\* The end is blocked until every boarded student's exit is confirmed.
End(t) ==
  /\ status[t] = "active"
  /\ OnBus(t) = {}
  /\ status' = [status EXCEPT ![t] = "completed"]
  /\ gpsActive' = [gpsActive EXCEPT ![BusOf[t]] = FALSE]
  /\ UNCHANGED <<supervisor, place>>

SetGps(b, active) ==
  /\ gpsActive' = [gpsActive EXCEPT ![b] = active]
  /\ UNCHANGED <<status, supervisor, place>>

Next ==
  \/ \E t \in Trips, u \in Supervisors : Assign(t, u) \/ Start(t, u)
  \/ \E t \in Trips, s \in Students :
       Move(t, s, "waiting", "aboard") \/ Move(t, s, "aboard", "off")
  \/ \E t \in Trips : End(t)
  \/ \E b \in Buses, active \in BOOLEAN : SetGps(b, active)

Spec == Init /\ [][Next]_vars
=============================================================================
