------------------------------ MODULE GpsFlag ------------------------------
(***************************************************************************)
(* Bus.gpsActive, which the map and the ETA read, follows the trips of the *)
(* bus: start and end write it in their last statement.  Three things can  *)
(* put it astray, and two history variables record for each bus whether    *)
(* one of them has: a start or end that fails before that statement, a     *)
(* call of PUT /buses/:id/gps-active, and starts and ends of the bus that  *)
(* overlap.  The steps are those of module Trip, for any number of         *)
(* requests; the history restricts none of them.                           *)
(***************************************************************************)
EXTENDS Trip

VARIABLES
  crossed,   \* history: buses whose starts and ends overlapped since they were at rest
  doubtful   \* history: buses whose flag something may have put astray

gpsVars == <<vars, crossed, doubtful>>

-----------------------------------------------------------------------------
Setting == {"start.gps", "end.gps"}
Working == {"start.morning", "start.write", "end.read", "end.write"} \cup Setting

\* Requests that start or end a trip of the bus.
Serving(b) == {w \in Workers : req[w].at \in Working /\ BusOf[req[w].trip] = b}

Driving(b)     == \E t \in Trips : BusOf[t] = b /\ status[t] = "active"
Overlapping(b) == \E v, w \in Serving(b) : v # w
AtRest(b)      == Serving(b) = {} /\ ~Driving(b)

\* The bus that the next statement of w updates.
SetNext(w) == IF req[w].at \in Setting THEN {BusOf[req[w].trip]} ELSE {}

\* What a step leaves of the history: it has upset the flags of the buses in one
\* set, and written those of another.  While starts and ends overlap, the flag is
\* in doubt whatever they write.
Remember(upset, written) ==
  /\ crossed' = {b \in Buses : Overlapping(b)' \/ (b \in crossed /\ ~AtRest(b)')}
  /\ doubtful' = (doubtful \ (written \ crossed)) \cup upset \cup crossed'

GpsInit == Init /\ crossed = {} /\ doubtful = {}

GpsNext ==
  \E w \in Workers :
    \/ Continue(w) /\ Remember({}, SetNext(w))
    \/ Fail(w)     /\ Remember(SetNext(w), {})
    \/ Arrive(w)   /\ Remember({b \in Buses : gpsActive'[b] # gpsActive[b]}, {})

GpsSpec == GpsInit /\ [][GpsNext]_gpsVars

-----------------------------------------------------------------------------
\* The evening guard takes the first morning trip it finds (trips.routes.ts:60);
\* the seed gives no bus two trips of one shift.
OneTripPerShift(b) ==
  \A t, u \in Trips : BusOf[t] = b /\ BusOf[u] = b /\ Shift[t] = Shift[u] => t = u

\* Of any number of requests that overlap and fail: the flag of a bus says whether
\* a trip of the bus is active, from the answer to a start or an end of one of its
\* trips (trips.routes.ts:72, 294) until a later one fails half way, overlaps
\* another, or a supervisor sets the flag by hand (buses.routes.ts:25).  The next
\* start or end that is answered puts it right again, whatever had happened.
GpsFollowsTrips ==
  \A b \in Buses \ doubtful :
    OneTripPerShift(b) => (GpsAfterAnswer(b) <=> Driving(b))
=============================================================================
