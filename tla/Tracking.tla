------------------------------ MODULE Tracking ------------------------------
(***************************************************************************)
(* The position of one bus during one trip: the simulator                  *)
(* (sockets/simulator.ts) and the supervisor's phone that reports real     *)
(* positions (report:location of sockets/gateway.ts).                      *)
(*                                                                         *)
(* setInterval does not wait for the tick before, so ticks may overlap.    *)
(* A position is abstracted to the stop the simulator heads for and the    *)
(* ticks it takes from there; any other position is Leg ticks away.  The   *)
(* route keeps its stops, whose replacement module Enrolment has.          *)
(***************************************************************************)
EXTENDS Requests, Integers

CONSTANTS
  Ticks,    \* ticks of the simulator that may be in progress at once
  Stops,    \* stops of the bus's route
  Leg       \* ticks from any position to within reach of a stop

ASSUME TrackingAssumption ==
  /\ IsFiniteSet(Ticks)
  /\ Stops \in Nat \ {0, 1}
  /\ Leg \in Nat \ {0}

VARIABLES
  trip,          \* Trip.status
  simStopIndex,  \* Trip.simStopIndex
  position,      \* Bus.currentLat and currentLng
  fresh,         \* realGpsLastSeenAt is less than 20 s ago
  overwritten,   \* history: simulated positions written since that mark was set
  tick           \* the ticks in progress, as req holds the requests

trackingVars == <<trip, simStopIndex, position, fresh, overwritten, tick>>
busVars      == <<simStopIndex, position, overwritten>>

\* n more ticks reach stop k; no stop is -1.
Toward(k, n) == [stop |-> k, ticks |-> n]
Elsewhere    == Toward(-1, 0)

LastStop == Toward(Stops - 1, 0)
TicksTo(p, k) == IF p.stop = k THEN p.ticks ELSE Leg

TrackingInit ==
  /\ trip = "scheduled" /\ simStopIndex = 0
  /\ position = Elsewhere
  /\ fresh = FALSE /\ overwritten = 0
  /\ tick = [t \in Ticks |-> Idle]

TickGoto(t, r) == tick' = [tick EXCEPT ![t] = r]

-----------------------------------------------------------------------------
(* The simulator.                                                           *)

\* The rows of the active trip, of its bus and of the stops of its route.
TickRead(t) ==
  /\ tick[t] = Idle
  /\ trip = "active"
  /\ TickGoto(t, [at |-> "decide", index |-> simStopIndex, from |-> position])
  /\ UNCHANGED <<trip, busVars, fresh, req, failures>>

\* One turn of the event loop: back off, or compute the move and send it.
Move(r) ==
  LET index == IF r.index <= Stops - 2 THEN r.index ELSE Stops - 2
      left  == TicksTo(r.from, index + 1)
      there == left <= 1
  IN [at |-> "move", to |-> Toward(index + 1, IF there THEN 0 ELSE left - 1),
      advance |-> there /\ index < Stops - 2, index |-> index + 1]

TickDecide_Mutant(t) ==
  /\ tick[t].at = "decide"
  /\ TickGoto(t, Move(tick[t]))
  /\ UNCHANGED <<trip, busVars, fresh, req, failures>>

TickDecide(t) ==
  /\ tick[t].at = "decide"
  /\ TickGoto(t, IF fresh THEN Idle ELSE Move(tick[t]))
  /\ UNCHANGED <<trip, busVars, fresh, req, failures>>

\* The update of the bus, whatever has happened to it since.
TickMove_Mutant(t) ==
  /\ tick[t].at = "move"
  /\ position' = tick[t].to
  /\ overwritten' = IF fresh THEN overwritten + 1 ELSE 0
  /\ TickGoto(t, Idle)
  /\ UNCHANGED <<trip, simStopIndex, fresh, req, failures>>

TickMove(t) ==
  /\ tick[t].at = "move"
  /\ position' = tick[t].to
  /\ overwritten' = IF fresh THEN overwritten + 1 ELSE 0
  /\ TickGoto(t, IF tick[t].advance THEN [at |-> "advance", index |-> tick[t].index] ELSE Idle)
  /\ UNCHANGED <<trip, simStopIndex, fresh, req, failures>>

TickAdvance(t) ==
  /\ tick[t].at = "advance"
  /\ simStopIndex' = tick[t].index
  /\ TickGoto(t, Idle)
  /\ UNCHANGED <<trip, position, overwritten, fresh, req, failures>>

\* A statement of the tick throws; the error is logged.
TickFail(t) ==
  /\ tick[t] # Idle
  /\ failures < MaxFailures /\ failures' = failures + 1
  /\ TickGoto(t, Idle)
  /\ UNCHANGED <<trip, busVars, fresh, req>>

-----------------------------------------------------------------------------
(* report:location: the trip is read, the bus is written, the mark is set.  *)

Report(w) ==
  /\ Free(w)
  /\ trip = "active"
  /\ Continue(w, [at |-> "report"])
  /\ UNCHANGED trackingVars

ReportWrite(w) ==
  /\ At(w, "report")
  /\ position' = Elsewhere
  /\ Continue(w, [at |-> "mark"])
  /\ UNCHANGED <<trip, simStopIndex, fresh, overwritten, tick>>

ReportMark(w) ==
  /\ At(w, "mark")
  /\ fresh' = TRUE /\ overwritten' = 0
  /\ Succeed(w)
  /\ UNCHANGED <<trip, simStopIndex, position, tick>>

\* REAL_GPS_FRESHNESS_MS have passed.
Stale ==
  /\ fresh
  /\ fresh' = FALSE /\ overwritten' = 0
  /\ UNCHANGED <<trip, simStopIndex, position, tick, req, failures>>

-----------------------------------------------------------------------------
\* POST /trips/:id/start and PUT /trips/:id/end, which module Trip details.
StartTrip ==
  /\ trip = "scheduled"
  /\ trip' = "active"
  /\ UNCHANGED <<busVars, fresh, tick, req, failures>>

EndTrip ==
  /\ trip = "active"
  /\ trip' = "completed"
  /\ UNCHANGED <<busVars, fresh, tick, req, failures>>

\* The process restarts: ticks and handlers stop where they are, and the mark,
\* which is kept in memory, is lost.
Restart ==
  /\ failures < MaxFailures /\ failures' = failures + 1
  /\ req' = [w \in Workers |-> Idle]
  /\ tick' = [t \in Ticks |-> Idle]
  /\ fresh' = FALSE /\ overwritten' = 0
  /\ UNCHANGED <<trip, simStopIndex, position>>

TrackingTick(t) == TickRead(t) \/ TickDecide(t) \/ TickMove(t) \/ TickAdvance(t)

ServeReport(w) == ReportWrite(w) \/ ReportMark(w)

TrackingNext ==
  \/ \E t \in Ticks : TrackingTick(t) \/ TickFail(t)
  \/ \E w \in Workers : \/ Report(w) \/ ServeReport(w)
                        \/ Crash(w) /\ UNCHANGED trackingVars
  \/ Stale \/ StartTrip \/ EndTrip \/ Restart

TrackingSpec ==
  RequestsInit /\ TrackingInit /\ [][TrackingNext]_<<trackingVars, req, failures>>

-----------------------------------------------------------------------------
Positions == [stop : Int, ticks : 0..Leg]
TickStates ==
  {Idle} \cup [at : {"decide"}, index : Nat, from : Positions]
    \cup [at : {"move"}, to : Positions, advance : BOOLEAN, index : Nat]
    \cup [at : {"advance"}, index : Nat]

\* The rows of the bus, of its trip and of its route are well formed.
TrackingTypeOK ==
  /\ trip \in {"scheduled", "active", "completed"}
  /\ simStopIndex \in Nat /\ overwritten \in Nat
  /\ position \in Positions
  /\ fresh \in BOOLEAN
  /\ tick \in [Ticks -> TickStates]
  /\ req \in [Workers -> {Idle} \cup [at : {"report", "mark"}]]

\* "The two sources never fight" (gateway.ts:11): once the phone's mark is set,
\* and until it is stale, no simulated position is written over the real one.
SourcesNeverFight == fresh => overwritten = 0

\* The same up to the ticks in progress, which is what the code ensures:
\* after the phone's mark was set, and until it is stale, at most one simulated
\* position per tick that had passed the check is written over the real one.
RealPositionHolds == fresh => overwritten <= Cardinality(Ticks)

\* Nothing but one tick at a time touches the bus, and its trip goes on.
Undisturbed ==
  /\ trip = "active" /\ ~fresh
  /\ \A w \in Workers : Free(w)
  /\ \E t \in Ticks : \A u \in Ticks \ {t} : tick[u] = Idle
=============================================================================
