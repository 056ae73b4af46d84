------------------------------- MODULE Trip -------------------------------
(***************************************************************************)
(* One school day's trips of the Aman School backend: the handlers of      *)
(* routes/trips.routes.ts that change these rows, and the routes elsewhere *)
(* that write Bus.gpsActive (PUT /buses/:id/gps-active) and                *)
(* Bus.supervisorId (PUT /buses/:id; the staff routes of schools.routes.ts *)
(* write it one bus at a time as well, so EditBus stands for them too).    *)
(*                                                                         *)
(* No handler uses a transaction: each `await prisma...` is one atomic     *)
(* step on the database, and between two of them any other request may     *)
(* run.  A worker w is one HTTP request being served; req[w].at names the  *)
(* statement it will execute next, and the other fields of req[w] are the  *)
(* local variables of the handler that are still needed.  A rejection      *)
(* changes nothing, so it is either a guard that is not met (when the      *)
(* first statement rejects) or a step that only frees the worker.          *)
(***************************************************************************)
EXTENDS Naturals, FiniteSets

CONSTANTS
  Trips,        \* rows of table Trip (no route creates or deletes one)
  Students,     \* students of the school
  Buses,        \* buses of the school
  Supervisors,  \* users with the role supervisor
  NoOne,        \* a null supervisorId
  AlertIds,     \* bound: ids available for student_not_collected alerts
  Workers,      \* requests the server handles at the same time
  BusOf,        \* Trip.busId
  Shift,        \* Trip.shift
  RosterBus,    \* Student.busId
  Ops,          \* the routes that clients call
  MayFail       \* whether a statement may fail, or the server restart

AllOps == {"assign", "start", "board", "manual-board", "alight", "not-collected",
           "collected", "end", "gps-active", "edit-bus"}

\* Every trip runs on a bus in one of the two shifts; null is not a user.
ASSUME TripAssumption ==
  /\ BusOf \in [Trips -> Buses]
  /\ Shift \in [Trips -> {"morning", "evening"}]
  /\ RosterBus \in [Students -> Buses]
  /\ NoOne \notin Supervisors
  /\ Ops \subseteq AllOps
  /\ MayFail \in BOOLEAN

\* DuplicatesBounded counts the requests in flight.
ASSUME FiniteWorkers == IsFiniteSet(Workers)

VARIABLES
  status,         \* Trip.status
  supervisor,     \* Trip.supervisorId
  startedAt,      \* whether Trip.startedAt is set
  endedAt,        \* whether Trip.endedAt is set
  gpsActive,      \* Bus.gpsActive
  busSupervisor,  \* Bus.supervisorId
  boardRows,      \* number of TripEvent rows of type board, per trip and student
  alightRows,     \* number of TripEvent rows of type alight, per trip and student
  lastEvent,      \* each student's latest TripEvent of the day
  alerts,         \* the student_not_collected rows of table Alert
  req             \* the requests in flight

tripVars  == <<status, supervisor, startedAt, endedAt>>
busVars   == <<gpsActive, busSupervisor>>
eventVars == <<boardRows, alightRows, lastEvent>>
vars      == <<tripVars, busVars, eventVars, alerts, req>>

-----------------------------------------------------------------------------
Statuses == {"scheduled", "active", "completed", "cancelled"}
User     == Supervisors \cup {NoOne}

\* The student of an alert is the one its message names: the row has no
\* student column.
NoAlert  == [status |-> "none"]
AlertRow == [status  : {"active", "acknowledged", "resolved"},
             trip    : Trips,
             student : Students]

\* Rows are timestamped when they are inserted.
NoEvent  == [type |-> "none"]
EventRow == [type : {"board", "alight"}, trip : Trips]

Idle == [at |-> "idle"]

AssignRequest  == [at : {"assign.write"}, trip : Trips, user : Supervisors]
StartRequest   == [at : {"start.morning", "start.write"}, trip : Trips,
                   user : Supervisors, seen : User]
TripRequest    == [at : {"start.gps", "end.gps", "end.read", "collect.find"}, trip : Trips]
EventRequest   == [at : {"board.create", "alight.check", "alight.create",
                         "escalate.create", "collect.check", "collect.create"},
                   trip : Trips, student : Students]
ResolveRequest == [at : {"collect.resolve"}, alert : AlertIds]
EndRequest     == [at : {"end.write"}, trip : Trips, boarded : SUBSET Students]

Request == {Idle} \cup AssignRequest \cup StartRequest \cup TripRequest
             \cup EventRequest \cup ResolveRequest \cup EndRequest

Free(w)      == req[w].at = "idle"
At(w, point) == req[w].at = point

\* The handler of w goes on to its next statement with local variables r.
Goto(w, r) == req' = [req EXCEPT ![w] = r]
\* The handler of w answers.
Answer(w)  == Goto(w, Idle)

\* Event step of request w: the same trip and student, next statement `point`.
GotoEvent(w, point, t, s) == Goto(w, [at |-> point, trip |-> t, student |-> s])

Boarded(t)  == {s \in Students : boardRows[t][s] > 0}
Alighted(t) == {s \in Students : alightRows[t][s] > 0}
\* (A mutant for the check of the properties: ids of both lists compared the
\* wrong way round, as are the other definitions whose names end in _Mutant.)
StillOnBus_Mutant(t) == Alighted(t) \ Boarded(t)
StillOnBus(t) == Boarded(t) \ Alighted(t)

\* The rows findFirst may return in the evening guard: it is unordered.
MorningTrips(t) == {m \in Trips : BusOf[m] = BusOf[t] /\ Shift[m] = "morning"}

OpenAlerts(t) == {a \in AlertIds : alerts[a].status = "active" /\ alerts[a].trip = t}
UnusedAlerts  == {a \in AlertIds : alerts[a] = NoAlert}

-----------------------------------------------------------------------------
(* Trips come from the seed only, with or without a supervisor.  No route   *)
(* cancels a trip: a cancelled one was cancelled in the database.           *)
Init ==
  /\ status \in [Trips -> {"scheduled", "cancelled"}]
  /\ supervisor \in [Trips -> User]
  /\ startedAt = [t \in Trips |-> FALSE]
  /\ endedAt = [t \in Trips |-> FALSE]
  /\ gpsActive = [b \in Buses |-> FALSE]
  /\ busSupervisor \in [Buses -> User]
  /\ \A b, c \in Buses : busSupervisor[b] = busSupervisor[c] /\ b # c
                            => busSupervisor[b] = NoOne
  /\ boardRows = [t \in Trips |-> [s \in Students |-> 0]]
  /\ alightRows = [t \in Trips |-> [s \in Students |-> 0]]
  /\ lastEvent = [s \in Students |-> NoEvent]
  /\ alerts = [a \in AlertIds |-> NoAlert]
  /\ req = [w \in Workers |-> Idle]

-----------------------------------------------------------------------------
(* POST /trips/:id/assign-supervisor.  The guard is on the bus's            *)
(* supervisor; the trip's status is not looked at.                          *)
Assign(w, t, u) ==
  /\ "assign" \in Ops
  /\ Free(w)
  /\ busSupervisor[BusOf[t]] \in {NoOne, u}
  /\ Goto(w, [at |-> "assign.write", trip |-> t, user |-> u])
  /\ UNCHANGED <<tripVars, busVars, eventVars, alerts>>

AssignWrite(w) ==
  /\ At(w, "assign.write")
  /\ supervisor' = [supervisor EXCEPT ![req[w].trip] = req[w].user]
  /\ Answer(w)
  /\ UNCHANGED <<status, startedAt, endedAt, busVars, eventVars, alerts>>

-----------------------------------------------------------------------------
(* POST /trips/:id/start: load the trip, for an evening trip look at a      *)
(* morning trip of the bus, update the trip, then update the bus.           *)
Start(w, t, u) ==
  /\ "start" \in Ops
  /\ Free(w)
  /\ status[t] = "scheduled"
  /\ Goto(w, [at   |-> IF Shift[t] = "evening" THEN "start.morning" ELSE "start.write",
              trip |-> t, user |-> u, seen |-> supervisor[t]])
  /\ UNCHANGED <<tripVars, busVars, eventVars, alerts>>

MorningDone_Mutant(m) == status[m] # "scheduled"  \* begun, not done
MorningDone(m) == status[m] \in {"completed", "cancelled"}

StartMorning(w) ==
  /\ At(w, "start.morning")
  /\ \/ /\ \/ MorningTrips(req[w].trip) = {}
           \/ \E m \in MorningTrips(req[w].trip) : MorningDone(m)
        /\ Goto(w, [req[w] EXCEPT !.at = "start.write"])
     \/ /\ \E m \in MorningTrips(req[w].trip) : ~MorningDone(m)
        /\ Answer(w)
  /\ UNCHANGED <<tripVars, busVars, eventVars, alerts>>

StartWrite_Mutant(w) ==  \* the caller is not the default supervisor
  /\ At(w, "start.write")
  /\ LET r == req[w] IN
       /\ status' = [status EXCEPT ![r.trip] = "active"]
       /\ startedAt' = [startedAt EXCEPT ![r.trip] = TRUE]
       /\ supervisor' = [supervisor EXCEPT ![r.trip] = r.seen]
       /\ Goto(w, [at |-> "start.gps", trip |-> r.trip])
  /\ UNCHANGED <<endedAt, busVars, eventVars, alerts>>

StartWrite(w) ==
  /\ At(w, "start.write")
  /\ LET r == req[w] IN
       /\ status' = [status EXCEPT ![r.trip] = "active"]
       /\ startedAt' = [startedAt EXCEPT ![r.trip] = TRUE]
       /\ supervisor' = [supervisor EXCEPT
                           ![r.trip] = IF r.seen = NoOne THEN r.user ELSE r.seen]
       /\ Goto(w, [at |-> "start.gps", trip |-> r.trip])
  /\ UNCHANGED <<endedAt, busVars, eventVars, alerts>>

StartGps(w) ==
  /\ At(w, "start.gps")
  /\ gpsActive' = [gpsActive EXCEPT ![BusOf[req[w].trip]] = TRUE]
  /\ Answer(w)
  /\ UNCHANGED <<tripVars, busSupervisor, eventVars, alerts>>

-----------------------------------------------------------------------------
Board_Mutant(w, t, s) ==  \* no look at earlier board rows
  /\ "board" \in Ops
  /\ Free(w)
  /\ GotoEvent(w, "board.create", t, s)
  /\ UNCHANGED <<tripVars, busVars, eventVars, alerts>>

(* POST /trips/:id/board.  Neither the trip's status, nor the bus's roster, *)
(* nor nfcRevoked is looked at: only an earlier board row rejects.          *)
Board(w, t, s) ==
  /\ "board" \in Ops
  /\ Free(w)
  /\ boardRows[t][s] = 0
  /\ GotoEvent(w, "board.create", t, s)
  /\ UNCHANGED <<tripVars, busVars, eventVars, alerts>>

(* POST /trips/:id/manual-board: the same, for students of the roster.      *)
ManualBoard(w, t, s) ==
  /\ "manual-board" \in Ops
  /\ Free(w)
  /\ RosterBus[s] = BusOf[t]
  /\ boardRows[t][s] = 0
  /\ GotoEvent(w, "board.create", t, s)
  /\ UNCHANGED <<tripVars, busVars, eventVars, alerts>>

BoardCreate(w) ==
  /\ At(w, "board.create")
  /\ LET r == req[w] IN
       /\ boardRows' = [boardRows EXCEPT ![r.trip][r.student] = @ + 1]
       /\ lastEvent' = [lastEvent EXCEPT ![r.student] = [type |-> "board", trip |-> r.trip]]
  /\ Answer(w)
  /\ UNCHANGED <<tripVars, busVars, alightRows, alerts>>

-----------------------------------------------------------------------------
Alight_Mutant(w, t, s) ==  \* no look at the board rows
  /\ "alight" \in Ops
  /\ Free(w)
  /\ GotoEvent(w, "alight.check", t, s)
  /\ UNCHANGED <<tripVars, busVars, eventVars, alerts>>

(* POST /trips/:id/alight: a board row must exist, an alight row must not.  *)
Alight(w, t, s) ==
  /\ "alight" \in Ops
  /\ Free(w)
  /\ boardRows[t][s] > 0
  /\ GotoEvent(w, "alight.check", t, s)
  /\ UNCHANGED <<tripVars, busVars, eventVars, alerts>>

AlightCheck(w) ==
  /\ At(w, "alight.check")
  /\ LET r == req[w] IN
       IF alightRows[r.trip][r.student] = 0
         THEN GotoEvent(w, "alight.create", r.trip, r.student)
         ELSE Answer(w)
  /\ UNCHANGED <<tripVars, busVars, eventVars, alerts>>

AddAlightRow(t, s) ==
  /\ alightRows' = [alightRows EXCEPT ![t][s] = @ + 1]
  /\ lastEvent' = [lastEvent EXCEPT ![s] = [type |-> "alight", trip |-> t]]

AlightCreate(w) ==
  /\ At(w, "alight.create")
  /\ AddAlightRow(req[w].trip, req[w].student)
  /\ Answer(w)
  /\ UNCHANGED <<tripVars, busVars, boardRows, alerts>>

-----------------------------------------------------------------------------
NotCollected_Mutant(w, t, s) ==  \* no look at the open alerts
  /\ "not-collected" \in Ops
  /\ Free(w)
  /\ Cardinality({v \in Workers : At(v, "escalate.create")}) < Cardinality(UnusedAlerts)
  /\ GotoEvent(w, "escalate.create", t, s)
  /\ UNCHANGED <<tripVars, busVars, eventVars, alerts>>

(* POST /trips/:id/students/:studentId/not-collected.  An active alert of   *)
(* the same trip, whatever student it names, makes the handler answer       *)
(* without creating one.                                                    *)
NotCollected(w, t, s) ==
  /\ "not-collected" \in Ops
  /\ Free(w)
  /\ OpenAlerts(t) = {}
  /\ Cardinality({v \in Workers : At(v, "escalate.create")}) < Cardinality(UnusedAlerts)
  /\ GotoEvent(w, "escalate.create", t, s)
  /\ UNCHANGED <<tripVars, busVars, eventVars, alerts>>

NotCollectedCreate(w) ==
  /\ At(w, "escalate.create")
  /\ \E a \in UnusedAlerts :
       alerts' = [alerts EXCEPT ![a] = [status |-> "active", trip |-> req[w].trip,
                                        student |-> req[w].student]]
  /\ Answer(w)
  /\ UNCHANGED <<tripVars, busVars, eventVars>>

(* PUT /trips/:id/students/:studentId/collected: record a manual exit for a *)
(* student who boarded and has none, then resolve an active alert of the    *)
(* trip, whatever student it names.                                         *)
Collected(w, t, s) ==
  /\ "collected" \in Ops
  /\ Free(w)
  /\ IF boardRows[t][s] > 0
       THEN GotoEvent(w, "collect.check", t, s)
       ELSE Goto(w, [at |-> "collect.find", trip |-> t])
  /\ UNCHANGED <<tripVars, busVars, eventVars, alerts>>

CollectedCheck_Mutant(w) ==  \* the alert is resolved before the exit is recorded
  /\ At(w, "collect.check")
  /\ Goto(w, [at |-> "collect.find", trip |-> req[w].trip])
  /\ UNCHANGED <<tripVars, busVars, eventVars, alerts>>

CollectedCheck(w) ==
  /\ At(w, "collect.check")
  /\ LET r == req[w] IN
       IF alightRows[r.trip][r.student] = 0
         THEN GotoEvent(w, "collect.create", r.trip, r.student)
         ELSE Goto(w, [at |-> "collect.find", trip |-> r.trip])
  /\ UNCHANGED <<tripVars, busVars, eventVars, alerts>>

CollectedCreate(w) ==
  /\ At(w, "collect.create")
  /\ AddAlightRow(req[w].trip, req[w].student)
  /\ Goto(w, [at |-> "collect.find", trip |-> req[w].trip])
  /\ UNCHANGED <<tripVars, busVars, boardRows, alerts>>

CollectedFind(w) ==
  /\ At(w, "collect.find")
  /\ \/ /\ OpenAlerts(req[w].trip) = {}
        /\ Answer(w)
     \/ \E a \in OpenAlerts(req[w].trip) : Goto(w, [at |-> "collect.resolve", alert |-> a])
  /\ UNCHANGED <<tripVars, busVars, eventVars, alerts>>

\* The update is by id: the alert may have been acknowledged or resolved since.
CollectedResolve(w) ==
  /\ At(w, "collect.resolve")
  /\ alerts' = [alerts EXCEPT ![req[w].alert] = [@ EXCEPT !.status = "resolved"]]
  /\ Answer(w)
  /\ UNCHANGED <<tripVars, busVars, eventVars>>

-----------------------------------------------------------------------------
End_Mutant(w, t) ==  \* no look at the trip's status
  /\ "end" \in Ops
  /\ Free(w)
  /\ Goto(w, [at |-> "end.read", trip |-> t])
  /\ UNCHANGED <<tripVars, busVars, eventVars, alerts>>

(* PUT /trips/:id/end: load the trip, read its events, reject while a       *)
(* student who boarded has no exit, update the trip by id, update the bus.  *)
End(w, t) ==
  /\ "end" \in Ops
  /\ Free(w)
  /\ status[t] = "active"
  /\ Goto(w, [at |-> "end.read", trip |-> t])
  /\ UNCHANGED <<tripVars, busVars, eventVars, alerts>>

EndRead(w) ==
  /\ At(w, "end.read")
  /\ LET t == req[w].trip IN
       IF StillOnBus(t) = {}
         THEN Goto(w, [at |-> "end.write", trip |-> t, boarded |-> Boarded(t)])
         ELSE Answer(w)
  /\ UNCHANGED <<tripVars, busVars, eventVars, alerts>>

EndWrite_Mutant(w) ==  \* a status the enum does not have
  /\ At(w, "end.write")
  /\ status' = [status EXCEPT ![req[w].trip] = "ended"]
  /\ endedAt' = [endedAt EXCEPT ![req[w].trip] = TRUE]
  /\ Goto(w, [at |-> "end.gps", trip |-> req[w].trip])
  /\ UNCHANGED <<supervisor, startedAt, busVars, eventVars, alerts>>

EndWrite(w) ==
  /\ At(w, "end.write")
  /\ status' = [status EXCEPT ![req[w].trip] = "completed"]
  /\ endedAt' = [endedAt EXCEPT ![req[w].trip] = TRUE]
  /\ Goto(w, [at |-> "end.gps", trip |-> req[w].trip])
  /\ UNCHANGED <<supervisor, startedAt, busVars, eventVars, alerts>>

EndGps_Mutant(w) ==  \* the bus is not updated when the trip ends
  /\ At(w, "end.gps")
  /\ Answer(w)
  /\ UNCHANGED <<tripVars, busVars, eventVars, alerts>>

EndGps(w) ==
  /\ At(w, "end.gps")
  /\ gpsActive' = [gpsActive EXCEPT ![BusOf[req[w].trip]] = FALSE]
  /\ Answer(w)
  /\ UNCHANGED <<tripVars, busSupervisor, eventVars, alerts>>

-----------------------------------------------------------------------------
(* PUT /buses/:id/gps-active: any supervisor of the school, at any time.    *)
SetGps(w, b, active) ==
  /\ "gps-active" \in Ops
  /\ Free(w)
  /\ gpsActive' = [gpsActive EXCEPT ![b] = active]
  /\ UNCHANGED <<tripVars, busSupervisor, eventVars, alerts, req>>

(* PUT /buses/:id: supervisorId is unique over the buses.                   *)
EditBus(w, b, u) ==
  /\ "edit-bus" \in Ops
  /\ Free(w)
  /\ u = NoOne \/ \A c \in Buses \ {b} : busSupervisor[c] # u
  /\ busSupervisor' = [busSupervisor EXCEPT ![b] = u]
  /\ UNCHANGED <<tripVars, gpsActive, eventVars, alerts, req>>

(* A statement of the handler fails, or the server restarts: the statements *)
(* before it stay done, the ones after it are never executed.               *)
Fail(w) ==
  /\ MayFail
  /\ ~Free(w)
  /\ Answer(w)
  /\ UNCHANGED <<tripVars, busVars, eventVars, alerts>>

-----------------------------------------------------------------------------
\* A new request: its first statement that can reject or that matters.
Arrive(w) ==
  \/ \E t \in Trips, u \in Supervisors : Assign(w, t, u) \/ Start(w, t, u)
  \/ \E t \in Trips, s \in Students :
       \/ Board(w, t, s) \/ ManualBoard(w, t, s) \/ Alight(w, t, s)
       \/ NotCollected(w, t, s) \/ Collected(w, t, s)
  \/ \E t \in Trips : End(w, t)
  \/ \E b \in Buses : \/ \E active \in BOOLEAN : SetGps(w, b, active)
                      \/ \E u \in User : EditBus(w, b, u)

\* The next statement of a request in flight.
Continue(w) ==
  \/ AssignWrite(w)
  \/ StartMorning(w) \/ StartWrite(w) \/ StartGps(w)
  \/ BoardCreate(w)
  \/ AlightCheck(w) \/ AlightCreate(w)
  \/ NotCollectedCreate(w)
  \/ CollectedCheck(w) \/ CollectedCreate(w) \/ CollectedFind(w) \/ CollectedResolve(w)
  \/ EndRead(w) \/ EndWrite(w) \/ EndGps(w)

Next == \E w \in Workers : Arrive(w) \/ Continue(w) \/ Fail(w)

Spec == Init /\ [][Next]_vars

-----------------------------------------------------------------------------
(* Type invariant.                                                          *)
TypeOK ==
  /\ status \in [Trips -> Statuses]
  /\ supervisor \in [Trips -> User]
  /\ startedAt \in [Trips -> BOOLEAN]
  /\ endedAt \in [Trips -> BOOLEAN]
  /\ gpsActive \in [Buses -> BOOLEAN]
  /\ busSupervisor \in [Buses -> User]
  /\ boardRows \in [Trips -> [Students -> Nat]]
  /\ alightRows \in [Trips -> [Students -> Nat]]
  /\ lastEvent \in [Students -> {NoEvent} \cup EventRow]
  /\ alerts \in [AlertIds -> {NoAlert} \cup AlertRow]
  /\ req \in [Workers -> Request]

\* The alert a request is about to resolve was found in the table (so that
\* TypeOK is inductive together with it).
ResolvesAnAlert ==
  \A w \in Workers : At(w, "collect.resolve") => alerts[req[w].alert] \in AlertRow

(* What any number of concurrent, failing requests cannot break.            *)

\* Nobody gets off who did not get on: the exit rows of both writers, the
\* alight and the collected handler, follow a board row of the same trip.
ExitAfterBoarding ==
  /\ \A t \in Trips, s \in Students : alightRows[t][s] > 0 => boardRows[t][s] > 0
  /\ \A w \in Workers :
       req[w].at \in {"alight.check", "alight.create", "collect.check", "collect.create"}
         => boardRows[req[w].trip][req[w].student] > 0

\* What the status of a trip says about its timestamps and about the
\* requests that are about to change it.
TripLife ==
  /\ \A t \in Trips : /\ status[t] \in {"active", "completed"} => startedAt[t]
                      /\ status[t] = "completed" => endedAt[t]
  /\ \A w \in Workers :
       /\ req[w].at \in {"end.read", "end.write"}
            => status[req[w].trip] \in {"active", "completed"}
       /\ req[w].at \in {"start.morning", "start.write"} => status[req[w].trip] # "cancelled"

\* A completed trip has both timestamps, so GET /trips/:id/report always
\* finds a duration for it (trips.routes.ts:314).
CompletedHasDuration ==
  \A t \in Trips : status[t] = "completed" => startedAt[t] /\ endedAt[t]

\* A trip that was ever started has a supervisor, whatever assignments ran
\* beside the start: the socket accepts positions of a trip from its
\* supervisor only (gateway.ts report:location).
StartedHasSupervisor ==
  \A t \in Trips : startedAt[t] => supervisor[t] # NoOne

\* An evening trip that was ever started, on a bus with morning trips, had a
\* morning trip that was ended (or cancelled) before: the guard of the start
\* survives every interleaving in this form, though not in the form "is
\* completed now" (a stale start can reopen the morning trip).
MorningOver(t) ==
  Shift[t] = "evening" /\ MorningTrips(t) # {}
    => \E m \in MorningTrips(t) : endedAt[m] \/ status[m] = "cancelled"

EveningAfterMorning ==
  /\ \A t \in Trips : startedAt[t] => MorningOver(t)
  /\ \A w \in Workers : At(w, "start.write") => MorningOver(req[w].trip)

\* When PUT /trips/:id/end completes a trip, every student it saw boarded has
\* an exit by then.  A student who is left on the bus boarded after its read.
EndConfirmsSeen ==
  \A w \in Workers :
    At(w, "end.write") => req[w].boarded \subseteq Alighted(req[w].trip)

\* Requests that have passed their check and are about to insert a row.
Boarding(t, s) ==
  {w \in Workers : At(w, "board.create") /\ req[w].trip = t /\ req[w].student = s}
Exiting(t, s) ==
  {w \in Workers : (At(w, "alight.create") \/ At(w, "collect.create"))
                      /\ req[w].trip = t /\ req[w].student = s}

\* The check before each insert is not a uniqueness constraint, but the rows
\* of a student on a trip, with those about to be inserted, are never more
\* than the requests the server handles at once: in particular a client that
\* waits for each answer never records a student twice.
DuplicatesBounded ==
  \A t \in Trips, s \in Students :
    /\ boardRows[t][s] + Cardinality(Boarding(t, s)) <= Cardinality(Workers)
    /\ alightRows[t][s] + Cardinality(Exiting(t, s)) <= Cardinality(Workers)

\* No sequence of calls, however they overlap, revives a cancelled trip.
CancelledStaysCancelled ==
  [][\A t \in Trips : status[t] = "cancelled" => status'[t] = "cancelled"]_vars

\* Where a student is on a trip, as PUT /trips/:id/end and the supervisor's
\* screens read it off the sets of students with a row of each type.
Place(t, s) == CASE alightRows[t][s] > 0 -> "off"
                 [] alightRows[t][s] = 0 /\ boardRows[t][s] > 0 -> "aboard"
                 [] OTHER -> "waiting"

Journeys == INSTANCE Journey WITH place <- [t \in Trips |-> [s \in Students |-> Place(t, s)]]

\* Every student's day is waiting, then aboard, then off, one step at a time
\* and never back, whatever duplicates the races leave in the table.
JourneySpec == Journeys!Spec

\* What GET /students/:id/today-status tells a parent from the latest row agrees
\* with what the end of the trip concludes from all of them, however requests
\* overlap and fail (students.routes.ts:50): an exit that is shown was recorded,
\* and "on the way" is wrong only for a student boarded twice on that trip, whose
\* second board row landed after the exit.
TodayStatusAgrees ==
  \A s \in Students :
    LET event == lastEvent[s] IN
    event # NoEvent =>
      \/ event.type = "alight" <=> Place(event.trip, s) = "off"
      \/ event.type = "board" /\ boardRows[event.trip][s] > 1

\* What trips.routes.ts:271 says of PUT /trips/:id/end: it is blocked until
\* every boarded student's exit is confirmed.  With overlapping requests it is
\* not: the events are read before the trip is written, and a board between
\* the two is not looked at (a board after the end is not rejected either).
EndBlockedUntilExits ==
  [][\A t \in Trips : status[t] = "active" /\ status'[t] = "completed"
                         => StillOnBus(t) = {}]_vars

(* What a client that waits for each answer gets.                           *)

\* The bus update is the last statement of start and end: until it is done
\* the flag is the one the request in flight will write.
GpsAfterAnswer(b) ==
  CASE \E w \in Workers : At(w, "start.gps") /\ BusOf[req[w].trip] = b -> TRUE
    [] \E w \in Workers : At(w, "end.gps") /\ BusOf[req[w].trip] = b -> FALSE
    [] OTHER -> gpsActive[b]

Protocol == INSTANCE TripProtocol WITH
  gpsActive <- [b \in Buses |-> GpsAfterAnswer(b)],
  place <- [t \in Trips |-> [s \in Students |-> Place(t, s)]]

\* Served one at a time, the handlers implement the atomic protocol: a trip
\* starts once, keeps its assigned supervisor, and ends with nobody aboard.
ProtocolSpec == Protocol!Spec

\* Served one at a time, no student has two rows of a type on a trip.
OneRowEach ==
  \A t \in Trips, s \in Students : boardRows[t][s] <= 1 /\ alightRows[t][s] <= 1
=============================================================================
