---------------------------- MODULE TripProofs ----------------------------
(***************************************************************************)
(* Proofs about Trip for any number of trips, students, buses, supervisors *)
(* and concurrent requests.  IInv is the inductive invariant: its conjuncts*)
(* that no run names (ResolvesAnAlert, ExitAfterBoarding, TripLife) say    *)
(* what the local variables of a waiting handler still guarantee about the *)
(* tables, which is what the guards of the code cannot promise by          *)
(* themselves once other requests run between a read and its write.        *)
(***************************************************************************)
EXTENDS GpsFlag, FiniteSetTheorems, TLAPS

\* The seeded database, with no request in flight, is well typed.
LEMMA InitType == Init => TypeOK
  <1> SUFFICES ASSUME Init PROVE TypeOK
    OBVIOUS
  <1> USE TripAssumption
  <1>1. QED
    BY DEF Init, TypeOK, Statuses, User, NoAlert, Idle, Request

\* A request moved to r, and nothing else about requests, keeps their type.
LEMMA GotoType ==
  ASSUME req \in [Workers -> Request], NEW w \in Workers, NEW r \in Request, Goto(w, r)
  PROVE  req' \in [Workers -> Request]
  BY DEF Goto

\* A handler that answers leaves every request well typed.
LEMMA AnswerType ==
  ASSUME req \in [Workers -> Request], NEW w \in Workers, Answer(w)
  PROVE  req' \in [Workers -> Request]
  BY DEF Goto, Answer, Request

\* A handler of a boarding, exit or escalation that goes on to its next
\* statement leaves every request well typed.
LEMMA GotoEventType ==
  ASSUME req \in [Workers -> Request], NEW w \in Workers, NEW t \in Trips, NEW s \in Students,
         NEW point \in {"board.create", "alight.check", "alight.create",
                        "escalate.create", "collect.check", "collect.create"},
         GotoEvent(w, point, t, s)
  PROVE  req' \in [Workers -> Request]
  BY DEF Goto, GotoEvent, Request, EventRequest

\* An exit row keeps the types of the events, and nobody's exit is forgotten.
LEMMA AddAlightRowType ==
  ASSUME TypeOK, NEW t \in Trips, NEW s \in Students, AddAlightRow(t, s)
  PROVE  /\ alightRows' \in [Trips -> [Students -> Nat]]
         /\ lastEvent' \in [Students -> {NoEvent} \cup EventRow]
         /\ \A tt \in Trips, ss \in Students :
              alightRows'[tt][ss] = alightRows[tt][ss] + IF tt = t /\ ss = s THEN 1 ELSE 0
  <1>1. alightRows' = [alightRows EXCEPT ![t][s] = @ + 1]
    BY DEF AddAlightRow
  <1>2. [type |-> "alight", trip |-> t] \in EventRow
    BY DEF EventRow
  <1>3. lastEvent' \in [Students -> {NoEvent} \cup EventRow]
    BY <1>2 DEF AddAlightRow, TypeOK
  <1>4. QED
    BY <1>1, <1>3 DEF TypeOK

\* The statement a request stands at tells which local variables it has.
LEMMA RequestAt ==
  ASSUME TypeOK, NEW w \in Workers
  PROVE  /\ At(w, "assign.write") => req[w] \in AssignRequest
         /\ At(w, "start.morning") \/ At(w, "start.write") => req[w] \in StartRequest
         /\ At(w, "start.gps") \/ At(w, "end.gps") \/ At(w, "end.read")
              \/ At(w, "collect.find") => req[w] \in TripRequest
         /\ At(w, "board.create") \/ At(w, "alight.check") \/ At(w, "alight.create")
              \/ At(w, "escalate.create") \/ At(w, "collect.check")
              \/ At(w, "collect.create") => req[w] \in EventRequest
         /\ At(w, "collect.resolve") => req[w] \in ResolveRequest
         /\ At(w, "end.write") => req[w] \in EndRequest
  <1>1. req[w] \in Request
    BY DEF TypeOK
  <1>2. QED
    BY <1>1 DEF At, Request, Idle, AssignRequest, StartRequest, TripRequest, EventRequest,
                ResolveRequest, EndRequest

\* Every first statement of a request keeps the types.
LEMMA ArriveType ==
  ASSUME TypeOK, NEW w \in Workers, Arrive(w)
  PROVE  TypeOK'
  <1> USE DEF Free
  <1>1. ASSUME NEW t \in Trips, NEW u \in Supervisors, Assign(w, t, u) PROVE TypeOK'
    <2>1. [at |-> "assign.write", trip |-> t, user |-> u] \in Request
      BY DEF Request, AssignRequest
    <2>2. req' \in [Workers -> Request]
      BY <1>1, <2>1, GotoType DEF TypeOK, Assign
    <2>3. QED
      BY <1>1, <2>2 DEF TypeOK, Assign, tripVars, busVars, eventVars
  <1>2. ASSUME NEW t \in Trips, NEW u \in Supervisors, Start(w, t, u) PROVE TypeOK'
    <2> DEFINE point == IF Shift[t] = "evening" THEN "start.morning" ELSE "start.write"
    <2>1. [at |-> point, trip |-> t, user |-> u, seen |-> supervisor[t]] \in Request
      BY DEF Request, StartRequest, TypeOK
    <2>2. req' \in [Workers -> Request]
      BY <1>2, <2>1, GotoType DEF TypeOK, Start
    <2>3. QED
      BY <1>2, <2>2 DEF TypeOK, Start, tripVars, busVars, eventVars
  <1>3. ASSUME NEW t \in Trips, NEW s \in Students, Board(w, t, s) PROVE TypeOK'
    <2>1. req' \in [Workers -> Request]
      BY <1>3, GotoEventType DEF TypeOK, Board
    <2>2. QED
      BY <1>3, <2>1 DEF TypeOK, Board, tripVars, busVars, eventVars
  <1>4. ASSUME NEW t \in Trips, NEW s \in Students, ManualBoard(w, t, s) PROVE TypeOK'
    <2>1. req' \in [Workers -> Request]
      BY <1>4, GotoEventType DEF TypeOK, ManualBoard
    <2>2. QED
      BY <1>4, <2>1 DEF TypeOK, ManualBoard, tripVars, busVars, eventVars
  <1>5. ASSUME NEW t \in Trips, NEW s \in Students, Alight(w, t, s) PROVE TypeOK'
    <2>1. req' \in [Workers -> Request]
      BY <1>5, GotoEventType DEF TypeOK, Alight
    <2>2. QED
      BY <1>5, <2>1 DEF TypeOK, Alight, tripVars, busVars, eventVars
  <1>6. ASSUME NEW t \in Trips, NEW s \in Students, NotCollected(w, t, s) PROVE TypeOK'
    <2>1. req' \in [Workers -> Request]
      BY <1>6, GotoEventType DEF TypeOK, NotCollected
    <2>2. QED
      BY <1>6, <2>1 DEF TypeOK, NotCollected, tripVars, busVars, eventVars
  <1>7. ASSUME NEW t \in Trips, NEW s \in Students, Collected(w, t, s) PROVE TypeOK'
    <2>1. [at |-> "collect.find", trip |-> t] \in Request
      BY DEF Request, TripRequest
    <2>2. req' \in [Workers -> Request]
      BY <1>7, <2>1, GotoType, GotoEventType DEF TypeOK, Collected
    <2>3. QED
      BY <1>7, <2>2 DEF TypeOK, Collected, tripVars, busVars, eventVars
  <1>8. ASSUME NEW t \in Trips, End(w, t) PROVE TypeOK'
    <2>1. [at |-> "end.read", trip |-> t] \in Request
      BY DEF Request, TripRequest
    <2>2. req' \in [Workers -> Request]
      BY <1>8, <2>1, GotoType DEF TypeOK, End
    <2>3. QED
      BY <1>8, <2>2 DEF TypeOK, End, tripVars, busVars, eventVars
  <1>9. ASSUME NEW b \in Buses, NEW active \in BOOLEAN, SetGps(w, b, active) PROVE TypeOK'
    BY <1>9 DEF TypeOK, SetGps, tripVars, eventVars
  <1>10. ASSUME NEW b \in Buses, NEW u \in User, EditBus(w, b, u) PROVE TypeOK'
    BY <1>10 DEF TypeOK, EditBus, tripVars, eventVars
  <1> HIDE DEF Free
  <1>11. QED
    BY <1>1, <1>2, <1>3, <1>4, <1>5, <1>6, <1>7, <1>8, <1>9, <1>10 DEF Arrive

\* Every later statement keeps the types.
LEMMA ContinueType ==
  ASSUME TypeOK, ResolvesAnAlert, NEW w \in Workers, Continue(w)
  PROVE  TypeOK'
  <1> USE TripAssumption, RequestAt
  <1>1. ASSUME AssignWrite(w) PROVE TypeOK'
    <2>1. req' \in [Workers -> Request]
      BY <1>1, AnswerType DEF TypeOK, AssignWrite
    <2>2. QED
      BY <1>1, <2>1 DEF TypeOK, AssignWrite, tripVars, busVars, eventVars, AssignRequest, User
  <1>2. ASSUME StartMorning(w) PROVE TypeOK'
    <2>1. [req[w] EXCEPT !.at = "start.write"] \in Request
      BY <1>2 DEF StartMorning, Request, StartRequest
    <2>2. req' \in [Workers -> Request]
      BY <1>2, <2>1, GotoType, AnswerType DEF TypeOK, StartMorning
    <2>3. QED
      BY <1>2, <2>2 DEF TypeOK, StartMorning, tripVars, busVars, eventVars
  <1>3. ASSUME StartWrite(w) PROVE TypeOK'
    <2>1. req[w].trip \in Trips
      BY <1>3 DEF StartWrite, StartRequest
    <2>2. [at |-> "start.gps", trip |-> req[w].trip] \in Request
      BY <2>1 DEF Request, TripRequest
    <2>3. req' \in [Workers -> Request]
      BY <1>3, <2>2, GotoType DEF TypeOK, StartWrite
    <2>4. QED
      BY <1>3, <2>1, <2>3 DEF TypeOK, StartWrite, tripVars, busVars, eventVars, Statuses, User, StartRequest
  <1>4. ASSUME StartGps(w) PROVE TypeOK'
    <2>1. req' \in [Workers -> Request]
      BY <1>4, AnswerType DEF TypeOK, StartGps
    <2>2. QED
      BY <1>4, <2>1 DEF TypeOK, StartGps, tripVars, busVars, eventVars, TripRequest
  <1>5. ASSUME BoardCreate(w) PROVE TypeOK'
    <2>1. req' \in [Workers -> Request]
      BY <1>5, AnswerType DEF TypeOK, BoardCreate
    <2>2. req[w].trip \in Trips /\ req[w].student \in Students
      BY <1>5 DEF BoardCreate, EventRequest
    <2>3. [type |-> "board", trip |-> req[w].trip] \in EventRow
      BY <2>2 DEF EventRow
    <2>4. lastEvent' \in [Students -> {NoEvent} \cup EventRow]
      BY <1>5, <2>2, <2>3 DEF TypeOK, BoardCreate
    <2>5. boardRows' \in [Trips -> [Students -> Nat]]
      BY <1>5, <2>2 DEF TypeOK, BoardCreate
    <2>6. QED
      BY <1>5, <2>1, <2>4, <2>5 DEF TypeOK, BoardCreate, tripVars, busVars
  <1>6. ASSUME AlightCheck(w) PROVE TypeOK'
    <2>1. req[w].trip \in Trips /\ req[w].student \in Students
      BY <1>6 DEF AlightCheck, EventRequest
    <2>2. req' \in [Workers -> Request]
      BY <1>6, <2>1, GotoEventType, AnswerType DEF TypeOK, AlightCheck
    <2>3. QED
      BY <1>6, <2>2 DEF TypeOK, AlightCheck, tripVars, busVars, eventVars
  <1>7. ASSUME AlightCreate(w) PROVE TypeOK'
    <2>1. req' \in [Workers -> Request]
      BY <1>7, AnswerType DEF TypeOK, AlightCreate
    <2>2. req[w].trip \in Trips /\ req[w].student \in Students
      BY <1>7 DEF AlightCreate, EventRequest
    <2>3. AddAlightRow(req[w].trip, req[w].student)
      BY <1>7 DEF AlightCreate
    <2>4. QED
      BY <1>7, <2>1, <2>2, <2>3, AddAlightRowType DEF TypeOK, AlightCreate, tripVars, busVars
  <1>8. ASSUME NotCollectedCreate(w) PROVE TypeOK'
    <2>1. req' \in [Workers -> Request]
      BY <1>8, AnswerType DEF TypeOK, NotCollectedCreate
    <2>2. req[w].trip \in Trips /\ req[w].student \in Students
      BY <1>8 DEF NotCollectedCreate, EventRequest
    <2>3. [status |-> "active", trip |-> req[w].trip, student |-> req[w].student] \in AlertRow
      BY <2>2 DEF AlertRow
    <2>4. alerts' \in [AlertIds -> {NoAlert} \cup AlertRow]
      BY <1>8, <2>3 DEF TypeOK, NotCollectedCreate, UnusedAlerts
    <2>5. QED
      BY <1>8, <2>1, <2>4 DEF TypeOK, NotCollectedCreate, tripVars, busVars, eventVars
  <1>9. ASSUME CollectedCheck(w) PROVE TypeOK'
    <2>1. req[w].trip \in Trips /\ req[w].student \in Students
      BY <1>9 DEF CollectedCheck, EventRequest
    <2>2. [at |-> "collect.find", trip |-> req[w].trip] \in Request
      BY <2>1 DEF Request, TripRequest
    <2>3. req' \in [Workers -> Request]
      BY <1>9, <2>1, <2>2, GotoEventType, GotoType DEF TypeOK, CollectedCheck
    <2>4. QED
      BY <1>9, <2>3 DEF TypeOK, CollectedCheck, tripVars, busVars, eventVars
  <1>10. ASSUME CollectedCreate(w) PROVE TypeOK'
    <2>1. req[w].trip \in Trips /\ req[w].student \in Students
      BY <1>10 DEF CollectedCreate, EventRequest
    <2>2. [at |-> "collect.find", trip |-> req[w].trip] \in Request
      BY <2>1 DEF Request, TripRequest
    <2>3. req' \in [Workers -> Request]
      BY <1>10, <2>2, GotoType DEF TypeOK, CollectedCreate
    <2>4. AddAlightRow(req[w].trip, req[w].student)
      BY <1>10 DEF CollectedCreate
    <2>5. QED
      BY <1>10, <2>1, <2>3, <2>4, AddAlightRowType
      DEF TypeOK, CollectedCreate, tripVars, busVars
  <1>11. ASSUME CollectedFind(w) PROVE TypeOK'
    <2>1. \A a \in AlertIds : [at |-> "collect.resolve", alert |-> a] \in Request
      BY DEF Request, ResolveRequest
    <2>2. req' \in [Workers -> Request]
      BY <1>11, <2>1, GotoType, AnswerType DEF TypeOK, CollectedFind, OpenAlerts
    <2>3. QED
      BY <1>11, <2>2 DEF TypeOK, CollectedFind, tripVars, busVars, eventVars
  <1>12. ASSUME CollectedResolve(w) PROVE TypeOK'
    <2>1. req' \in [Workers -> Request]
      BY <1>12, AnswerType DEF TypeOK, CollectedResolve
    <2>2. req[w].alert \in AlertIds
      BY <1>12 DEF CollectedResolve, ResolveRequest
    <2>3. [alerts[req[w].alert] EXCEPT !.status = "resolved"] \in AlertRow
      BY <1>12, <2>2 DEF ResolvesAnAlert, CollectedResolve, AlertRow
    <2>4. QED
      BY <1>12, <2>1, <2>2, <2>3 DEF TypeOK, CollectedResolve, tripVars, busVars, eventVars
  <1>13. ASSUME EndRead(w) PROVE TypeOK'
    <2>1. req[w].trip \in Trips
      BY <1>13 DEF EndRead, TripRequest
    <2>2. [at |-> "end.write", trip |-> req[w].trip, boarded |-> Boarded(req[w].trip)] \in Request
      BY <2>1 DEF Request, EndRequest, Boarded
    <2>3. req' \in [Workers -> Request]
      BY <1>13, <2>2, GotoType, AnswerType DEF TypeOK, EndRead
    <2>4. QED
      BY <1>13, <2>3 DEF TypeOK, EndRead, tripVars, busVars, eventVars
  <1>14. ASSUME EndWrite(w) PROVE TypeOK'
    <2>1. req[w].trip \in Trips
      BY <1>14 DEF EndWrite, EndRequest
    <2>2. [at |-> "end.gps", trip |-> req[w].trip] \in Request
      BY <2>1 DEF Request, TripRequest
    <2>3. req' \in [Workers -> Request]
      BY <1>14, <2>2, GotoType DEF TypeOK, EndWrite
    <2>4. QED
      BY <1>14, <2>1, <2>3 DEF TypeOK, EndWrite, tripVars, busVars, eventVars, Statuses, EndRequest
  <1>15. ASSUME EndGps(w) PROVE TypeOK'
    <2>1. req' \in [Workers -> Request]
      BY <1>15, AnswerType DEF TypeOK, EndGps
    <2>2. QED
      BY <1>15, <2>1 DEF TypeOK, EndGps, tripVars, busVars, eventVars, TripRequest
  <1> HIDE TripAssumption, RequestAt
  <1>16. QED
    BY <1>1, <1>2, <1>3, <1>4, <1>5, <1>6, <1>7, <1>8, <1>9, <1>10, <1>11, <1>12, <1>13, <1>14, <1>15 DEF Continue

-----------------------------------------------------------------------------
\* A step of w leaves every other request alone.
LEMMA OthersUntouched ==
  ASSUME NEW w \in Workers, Arrive(w) \/ Continue(w) \/ Fail(w),
         req \in [Workers -> Request]
  PROVE  \A v \in Workers \ {w} : req'[v] = req[v]
  BY DEF Arrive, Continue, Fail, Assign, Start, Board, ManualBoard, Alight, NotCollected,
         Collected, End, SetGps, EditBus, AssignWrite, StartMorning, StartWrite, StartGps,
         BoardCreate, AlightCheck, AlightCreate, NotCollectedCreate, CollectedCheck,
         CollectedCreate, CollectedFind, CollectedResolve, EndRead, EndWrite, EndGps,
         Goto, GotoEvent, Answer

\* The statement after which a request stands at a point.
LEMMA Entry ==
  ASSUME TypeOK, NEW w \in Workers, Arrive(w) \/ Continue(w) \/ Fail(w)
  PROVE  /\ req'[w].at = "start.morning" =>
              \E t \in Trips, u \in Supervisors : Start(w, t, u)
         /\ req'[w].at = "start.write" =>
              StartMorning(w) \/ \E t \in Trips, u \in Supervisors : Start(w, t, u)
         /\ req'[w].at = "board.create" =>
              \E t \in Trips, s \in Students : Board(w, t, s) \/ ManualBoard(w, t, s)
         /\ req'[w].at = "alight.check" => \E t \in Trips, s \in Students : Alight(w, t, s)
         /\ req'[w].at = "alight.create" => AlightCheck(w)
         /\ req'[w].at = "collect.check" => \E t \in Trips, s \in Students : Collected(w, t, s)
         /\ req'[w].at = "collect.create" => CollectedCheck(w)
         /\ req'[w].at = "collect.resolve" => CollectedFind(w)
         /\ req'[w].at = "end.read" => \E t \in Trips : End(w, t)
         /\ req'[w].at = "end.write" => EndRead(w)
  <1> DEFINE Goal == /\ req'[w].at = "start.morning" =>
                          \E t \in Trips, u \in Supervisors : Start(w, t, u)
                     /\ req'[w].at = "start.write" =>
                          StartMorning(w) \/ \E t \in Trips, u \in Supervisors : Start(w, t, u)
                     /\ req'[w].at = "board.create" =>
                          \E t \in Trips, s \in Students : Board(w, t, s) \/ ManualBoard(w, t, s)
                     /\ req'[w].at = "alight.check" => \E t \in Trips, s \in Students : Alight(w, t, s)
                     /\ req'[w].at = "alight.create" => AlightCheck(w)
                     /\ req'[w].at = "collect.check" => \E t \in Trips, s \in Students : Collected(w, t, s)
                     /\ req'[w].at = "collect.create" => CollectedCheck(w)
                     /\ req'[w].at = "collect.resolve" => CollectedFind(w)
                     /\ req'[w].at = "end.read" => \E t \in Trips : End(w, t)
                     /\ req'[w].at = "end.write" => EndRead(w)
  <1> USE DEF Goto, GotoEvent, Answer, Idle, Free, At
  <1>1. CASE Arrive(w)
    <2>1. ASSUME NEW t \in Trips, NEW u \in Supervisors, Assign(w, t, u) \/ Start(w, t, u)
          PROVE  Goal
      <3>1. CASE Assign(w, t, u)
        BY <3>1 DEF TypeOK, Assign
      <3>2. CASE Start(w, t, u)
        BY <3>2 DEF TypeOK, Start
      <3>3. QED
        BY <2>1, <3>1, <3>2
    <2>2. ASSUME NEW t \in Trips, NEW s \in Students,
                 \/ Board(w, t, s) \/ ManualBoard(w, t, s) \/ Alight(w, t, s)
                 \/ NotCollected(w, t, s) \/ Collected(w, t, s)
          PROVE  Goal
      BY <2>2 DEF TypeOK, Board, ManualBoard, Alight, NotCollected, Collected
    <2>3. ASSUME NEW t \in Trips, End(w, t) PROVE Goal
      BY <2>3 DEF TypeOK, End
    <2>4. ASSUME NEW b \in Buses,
                 \/ \E active \in BOOLEAN : SetGps(w, b, active)
                 \/ \E u \in User : EditBus(w, b, u)
          PROVE  Goal
      BY <2>4 DEF TypeOK, SetGps, EditBus
    <2>5. QED
      BY <1>1, <2>1, <2>2, <2>3, <2>4 DEF Arrive
  <1>2. CASE Continue(w)
    <2>1. ASSUME StartMorning(w) PROVE Goal
      BY <2>1, RequestAt DEF StartMorning, StartRequest, TypeOK
    <2>2. ASSUME CollectedFind(w) PROVE Goal
      BY <2>2 DEF CollectedFind, TypeOK
    <2>3. ASSUME \/ AlightCheck(w) \/ CollectedCheck(w) \/ EndRead(w)
          PROVE  Goal
      BY <2>3 DEF AlightCheck, CollectedCheck, EndRead, TypeOK
    <2>4. ASSUME \/ AssignWrite(w) \/ StartWrite(w) \/ StartGps(w) \/ BoardCreate(w)
                 \/ AlightCreate(w) \/ NotCollectedCreate(w) \/ CollectedCreate(w)
                 \/ CollectedResolve(w) \/ EndWrite(w) \/ EndGps(w)
          PROVE  Goal
      BY <2>4 DEF AssignWrite, StartWrite, StartGps, BoardCreate, AlightCreate,
                  NotCollectedCreate, CollectedCreate, CollectedResolve, EndWrite, EndGps, TypeOK
    <2>5. QED
      BY <1>2, <2>1, <2>2, <2>3, <2>4 DEF Continue
  <1>3. CASE Fail(w)
    BY <1>3 DEF Fail, TypeOK
  <1>4. QED
    BY <1>1, <1>2, <1>3

\* The statements that write each table.
LEMMA Writers ==
  ASSUME NEW w \in Workers, Arrive(w) \/ Continue(w) \/ Fail(w)
  PROVE  /\ UNCHANGED boardRows \/ BoardCreate(w)
         /\ UNCHANGED alightRows \/ AlightCreate(w) \/ CollectedCreate(w)
         /\ UNCHANGED <<status, startedAt, endedAt>> \/ StartWrite(w) \/ EndWrite(w)
         /\ UNCHANGED supervisor \/ AssignWrite(w) \/ StartWrite(w)
         /\ UNCHANGED alerts \/ NotCollectedCreate(w) \/ CollectedResolve(w)
  BY DEF Arrive, Continue, Fail, Assign, Start, Board, ManualBoard, Alight, NotCollected,
         Collected, End, SetGps, EditBus, AssignWrite, StartMorning, StartWrite, StartGps,
         BoardCreate, AlightCheck, AlightCreate, NotCollectedCreate, CollectedCheck,
         CollectedCreate, CollectedFind, CollectedResolve, EndRead, EndWrite, EndGps,
         tripVars, busVars, eventVars

\* The rows and the latest event of a student are written together.
LEMMA EventWriters ==
  ASSUME NEW w \in Workers, Arrive(w) \/ Continue(w) \/ Fail(w)
  PROVE  \/ UNCHANGED <<lastEvent, boardRows, alightRows>>
         \/ BoardCreate(w) \/ AlightCreate(w) \/ CollectedCreate(w)
  BY DEF Arrive, Continue, Fail, Assign, Start, Board, ManualBoard, Alight, NotCollected,
         Collected, End, SetGps, EditBus, AssignWrite, StartMorning, StartWrite, StartGps,
         BoardCreate, AlightCheck, AlightCreate, NotCollectedCreate, CollectedCheck,
         CollectedCreate, CollectedFind, CollectedResolve, EndRead, EndWrite, EndGps,
         tripVars, busVars, eventVars

-----------------------------------------------------------------------------
\* One step of one request, from a well-typed state: the premise of every
\* preservation lemma below.
Step(w) == Arrive(w) \/ Continue(w) \/ Fail(w)

\* Every statement of every handler keeps the types.
LEMMA StepType ==
  ASSUME TypeOK, ResolvesAnAlert, NEW w \in Workers, Step(w)
  PROVE  TypeOK'
  <1>1. CASE Fail(w)
    BY <1>1, AnswerType DEF Fail, TypeOK, tripVars, busVars, eventVars
  <1>2. QED
    BY <1>1, ArriveType, ContinueType DEF Step

\* No statement takes away the alert that a pending resolve was found for:
\* alerts are never deleted (trips.routes.ts:194-203).
LEMMA ResolvesAnAlertStep ==
  ASSUME TypeOK, ResolvesAnAlert, NEW w \in Workers, Step(w)
  PROVE  ResolvesAnAlert'
  <1> SUFFICES ASSUME NEW v \in Workers, At(v, "collect.resolve")'
               PROVE  alerts'[req'[v].alert] \in AlertRow
    BY DEF ResolvesAnAlert
  <1>1. req'[v].alert \in AlertIds /\ alerts[req'[v].alert] \in AlertRow
    <2>1. CASE v # w
      <3>1. req'[v] = req[v]
        BY <2>1, OthersUntouched DEF Step, TypeOK
      <3>2. QED
        BY <3>1, RequestAt DEF ResolvesAnAlert, At, ResolveRequest
    <2>2. CASE v = w
      <3>1. CollectedFind(w)
        BY <2>2, Entry DEF Step, At
      <3>2. PICK a \in OpenAlerts(req[w].trip) : req'[w].alert = a
        BY <2>2, <3>1 DEF CollectedFind, Goto, Answer, Idle, At, TypeOK
      <3>3. QED
        BY <2>2, <3>2 DEF OpenAlerts, TypeOK, NoAlert, AlertRow
    <2>3. QED
      BY <2>1, <2>2
  <1>2. \A a \in AlertIds : alerts[a] \in AlertRow => alerts'[a] \in AlertRow
    <2>1. TypeOK'
      BY StepType
    <2>2. CASE UNCHANGED alerts
      BY <2>2
    <2>3. CASE NotCollectedCreate(w)
      BY <2>1, <2>3 DEF NotCollectedCreate, UnusedAlerts, TypeOK, NoAlert, AlertRow
    <2>4. CASE CollectedResolve(w)
      BY <2>1, <2>4 DEF CollectedResolve, TypeOK, NoAlert, AlertRow
    <2>5. QED
      BY <2>2, <2>3, <2>4, Writers DEF Step
  <1>3. QED
    BY <1>1, <1>2

\* No statement makes an exit row of a student who never boarded, although
\* the check (trips.routes.ts:126-131) and the insert are apart.
LEMMA ExitAfterBoardingStep ==
  ASSUME TypeOK, ExitAfterBoarding, NEW w \in Workers, Step(w)
  PROVE  ExitAfterBoarding'
  <1>1. \A t \in Trips, s \in Students : boardRows[t][s] > 0 => boardRows'[t][s] > 0
    <2>1. CASE UNCHANGED boardRows
      BY <2>1
    <2>2. CASE BoardCreate(w)
      BY <2>2 DEF BoardCreate, TypeOK
    <2>3. QED
      BY <2>1, <2>2, Writers DEF Step
  <1>2. \A t \in Trips, s \in Students : alightRows'[t][s] > 0 => boardRows'[t][s] > 0
    <2>1. CASE UNCHANGED alightRows
      BY <2>1, <1>1 DEF ExitAfterBoarding
    <2>2. CASE AlightCreate(w) \/ CollectedCreate(w)
      <3>1. boardRows[req[w].trip][req[w].student] > 0
        BY <2>2 DEF ExitAfterBoarding, AlightCreate, CollectedCreate, At
      <3>2. /\ req[w].trip \in Trips /\ req[w].student \in Students
            /\ AddAlightRow(req[w].trip, req[w].student)
        BY <2>2, RequestAt DEF AlightCreate, CollectedCreate, EventRequest
      <3>3. \A t \in Trips, s \in Students :
              alightRows'[t][s] > 0
                => alightRows[t][s] > 0 \/ (t = req[w].trip /\ s = req[w].student)
        BY <3>2, AddAlightRowType DEF TypeOK
      <3>4. QED
        BY <1>1, <3>1, <3>3 DEF ExitAfterBoarding
    <2>3. QED
      BY <2>1, <2>2, Writers DEF Step
  <1>3. ASSUME NEW v \in Workers,
               req'[v].at \in {"alight.check", "alight.create", "collect.check", "collect.create"}
        PROVE  boardRows'[req'[v].trip][req'[v].student] > 0
    <2>1. CASE v # w
      <3>1. req'[v] = req[v]
        BY <2>1, OthersUntouched DEF Step, TypeOK
      <3>2. req[v] \in EventRequest
        BY <1>3, <3>1, RequestAt DEF At
      <3>3. QED
        BY <1>1, <1>3, <3>1, <3>2 DEF ExitAfterBoarding, EventRequest
    <2>2. CASE v = w
      <3>1. CASE \E t \in Trips, s \in Students : Alight(w, t, s) \/ Collected(w, t, s)
        BY <1>1, <1>3, <2>2, <3>1 DEF Alight, Collected, Goto, GotoEvent, TypeOK
      <3>2. CASE AlightCheck(w) \/ CollectedCheck(w)
        <4>1. /\ req[w] \in EventRequest
              /\ boardRows[req[w].trip][req[w].student] > 0
          BY <3>2, RequestAt DEF AlightCheck, CollectedCheck, ExitAfterBoarding, At
        <4>2. req'[w].trip = req[w].trip /\ req'[w].student = req[w].student
          BY <1>3, <2>2, <3>2
          DEF AlightCheck, CollectedCheck, Goto, GotoEvent, Answer, Idle, TypeOK
        <4>3. QED
          BY <1>1, <2>2, <4>1, <4>2 DEF EventRequest
      <3>3. QED
        BY <1>3, <2>2, <3>1, <3>2, Entry DEF Step
    <2>3. QED
      BY <2>1, <2>2
  <1>4. QED
    BY <1>2, <1>3 DEF ExitAfterBoarding

\* No statement takes a trip off the order scheduled, active, completed,
\* with the timestamps and pending updates that go with each.
LEMMA TripLifeStep ==
  ASSUME TypeOK, TripLife, NEW w \in Workers, Step(w)
  PROVE  /\ TripLife'
         /\ \A t \in Trips : status[t] = "cancelled" => status'[t] = "cancelled"
         /\ \A t \in Trips : endedAt[t] => endedAt'[t]
  <1>1. \A t \in Trips :
          /\ status[t] = "cancelled" <=> status'[t] = "cancelled"
          /\ status[t] \in {"active", "completed"} => status'[t] \in {"active", "completed"}
          /\ endedAt[t] => endedAt'[t]
          /\ status'[t] \in {"active", "completed"} => startedAt'[t]
          /\ status'[t] = "completed" => endedAt'[t]
    <2>1. CASE UNCHANGED <<status, startedAt, endedAt>>
      BY <2>1 DEF TripLife
    <2>2. CASE StartWrite(w)
      BY <2>2, RequestAt DEF StartWrite, TripLife, TypeOK, At, StartRequest
    <2>3. CASE EndWrite(w)
      BY <2>3, RequestAt DEF EndWrite, TripLife, TypeOK, At, EndRequest
    <2>4. QED
      BY <2>1, <2>2, <2>3, Writers DEF Step
  <1>2. ASSUME NEW v \in Workers, req'[v].at \in {"end.read", "end.write"}
        PROVE  status'[req'[v].trip] \in {"active", "completed"}
    <2>1. CASE v # w
      <3>1. req'[v] = req[v]
        BY <2>1, OthersUntouched DEF Step, TypeOK
      <3>2. QED
        BY <1>1, <1>2, <3>1, RequestAt DEF TripLife, At, TripRequest, EndRequest
    <2>2. CASE v = w
      <3>1. CASE \E t \in Trips : End(w, t)
        BY <1>1, <2>2, <3>1 DEF End, Goto, TypeOK
      <3>2. CASE EndRead(w)
        BY <1>1, <1>2, <2>2, <3>2, RequestAt
        DEF EndRead, Goto, Answer, Idle, TypeOK, TripLife, At, TripRequest
      <3>3. QED
        BY <1>2, <2>2, <3>1, <3>2, Entry DEF Step
    <2>3. QED
      BY <2>1, <2>2
  <1>3. ASSUME NEW v \in Workers, req'[v].at \in {"start.morning", "start.write"}
        PROVE  status'[req'[v].trip] # "cancelled"
    <2>1. CASE v # w
      <3>1. req'[v] = req[v]
        BY <2>1, OthersUntouched DEF Step, TypeOK
      <3>2. QED
        BY <1>1, <1>3, <3>1, RequestAt DEF TripLife, At, StartRequest
    <2>2. CASE v = w
      <3>1. CASE \E t \in Trips, u \in Supervisors : Start(w, t, u)
        BY <1>1, <2>2, <3>1 DEF Start, Goto, TypeOK
      <3>2. CASE StartMorning(w)
        <4>1. req[w] \in StartRequest /\ status[req[w].trip] # "cancelled"
          BY <3>2, RequestAt DEF StartMorning, TripLife, At
        <4>2. req'[w].trip = req[w].trip
          BY <1>3, <2>2, <3>2, <4>1
          DEF StartMorning, Goto, Answer, Idle, TypeOK, StartRequest
        <4>3. QED
          BY <1>1, <2>2, <4>1, <4>2 DEF StartRequest
      <3>3. QED
        BY <1>3, <2>2, <3>1, <3>2, Entry DEF Step
    <2>3. QED
      BY <2>1, <2>2
  <1>4. QED
    BY <1>1, <1>2, <1>3 DEF TripLife

\* No assignment or start leaves a started trip without a supervisor
\* (trips.routes.ts:19-76).
LEMMA StartedHasSupervisorStep ==
  ASSUME TypeOK, StartedHasSupervisor, NEW w \in Workers, Step(w)
  PROVE  StartedHasSupervisor'
  <1>1. CASE AssignWrite(w)
    <2>1. UNCHANGED startedAt
      BY <1>1 DEF AssignWrite
    <2>2. req[w].user # NoOne
      BY <1>1, RequestAt, TripAssumption DEF AssignWrite, AssignRequest
    <2>3. QED
      BY <1>1, <2>1, <2>2 DEF AssignWrite, StartedHasSupervisor, TypeOK
  <1>2. CASE StartWrite(w)
    <2>1. req[w] \in StartRequest
      BY <1>2, RequestAt DEF StartWrite
    <2>2. (IF req[w].seen = NoOne THEN req[w].user ELSE req[w].seen) # NoOne
      BY <2>1, TripAssumption DEF StartRequest
    <2>3. QED
      BY <1>2, <2>1, <2>2 DEF StartWrite, StartedHasSupervisor, StartRequest, TypeOK
  <1>3. CASE EndWrite(w)
    BY <1>3 DEF EndWrite, StartedHasSupervisor
  <1>4. CASE UNCHANGED <<supervisor, startedAt>>
    BY <1>4 DEF StartedHasSupervisor
  <1>5. QED
    BY <1>1, <1>2, <1>3, <1>4, Writers DEF Step

\* Once the morning is over for an evening trip, it stays over.
LEMMA MorningOverStays ==
  ASSUME TypeOK, TripLife, NEW w \in Workers, Step(w), NEW t \in Trips, MorningOver(t)
  PROVE  MorningOver(t)'
  <1>1. \A m \in MorningTrips(t) :
          endedAt[m] \/ status[m] = "cancelled" => endedAt'[m] \/ status'[m] = "cancelled"
    BY TripLifeStep DEF MorningTrips
  <1>2. QED
    BY <1>1 DEF MorningOver, MorningTrips

\* No statement starts an evening trip, or reaches the update that will,
\* before a morning trip of its bus is over (trips.routes.ts:57-66).
LEMMA EveningAfterMorningStep ==
  ASSUME TypeOK, TripLife, EveningAfterMorning, NEW w \in Workers, Step(w)
  PROVE  EveningAfterMorning'
  <1>1. ASSUME NEW t \in Trips, startedAt'[t]
        PROVE  MorningOver(t)
    <2>1. CASE UNCHANGED startedAt
      BY <1>1, <2>1 DEF EveningAfterMorning
    <2>2. CASE StartWrite(w)
      BY <1>1, <2>2, RequestAt DEF StartWrite, EveningAfterMorning, TypeOK, StartRequest
    <2>3. QED
      BY <2>1, <2>2, Writers DEF Step, EndWrite
  <1>2. ASSUME NEW v \in Workers, At(v, "start.write")'
        PROVE  req'[v].trip \in Trips /\ MorningOver(req'[v].trip)
    <2>1. CASE v # w
      <3>1. req'[v] = req[v]
        BY <2>1, OthersUntouched DEF Step, TypeOK
      <3>2. QED
        BY <1>2, <3>1, RequestAt DEF EveningAfterMorning, At, StartRequest
    <2>2. CASE v = w
      <3>1. CASE \E t \in Trips, u \in Supervisors : Start(w, t, u)
        <4>1. PICK t \in Trips, u \in Supervisors : Start(w, t, u)
          BY <3>1
        <4>2. req'[w].trip = t /\ Shift[t] # "evening"
          BY <1>2, <2>2, <4>1 DEF Start, Goto, At, TypeOK
        <4>3. QED
          BY <2>2, <4>2 DEF MorningOver
      <3>2. CASE StartMorning(w)
        <4>1. req[w] \in StartRequest
          BY <3>2, RequestAt DEF StartMorning
        <4>2. /\ req'[w].trip = req[w].trip
              /\ \/ MorningTrips(req[w].trip) = {}
                 \/ \E m \in MorningTrips(req[w].trip) : MorningDone(m)
          BY <1>2, <2>2, <3>2, <4>1
          DEF StartMorning, Goto, Answer, Idle, At, TypeOK, StartRequest
        <4>3. \A m \in Trips : MorningDone(m) => endedAt[m] \/ status[m] = "cancelled"
          BY DEF MorningDone, TripLife
        <4>4. QED
          BY <2>2, <4>1, <4>2, <4>3 DEF MorningOver, MorningTrips, StartRequest
      <3>3. QED
        BY <1>2, <2>2, <3>1, <3>2, Entry DEF Step, At
    <2>3. QED
      BY <2>1, <2>2
  <1>3. \A t \in Trips : MorningOver(t) => MorningOver(t)'
    BY MorningOverStays
  <1>4. QED
    BY <1>1, <1>2, <1>3 DEF EveningAfterMorning, MorningOver, MorningTrips

\* No statement ends a trip with an unconfirmed exit among the students the
\* end saw boarded (trips.routes.ts:280-293).
LEMMA EndConfirmsSeenStep ==
  ASSUME TypeOK, EndConfirmsSeen, NEW w \in Workers, Step(w)
  PROVE  EndConfirmsSeen'
  <1>1. \A t \in Trips : Alighted(t) \subseteq Alighted(t)'
    <2>1. CASE UNCHANGED alightRows
      BY <2>1 DEF Alighted
    <2>2. CASE AlightCreate(w) \/ CollectedCreate(w)
      <3>1. /\ req[w].trip \in Trips /\ req[w].student \in Students
            /\ AddAlightRow(req[w].trip, req[w].student)
        BY <2>2, RequestAt DEF AlightCreate, CollectedCreate, EventRequest
      <3>2. ASSUME NEW t \in Trips, NEW s \in Students, alightRows[t][s] > 0
            PROVE  alightRows'[t][s] > 0
        <4>1. alightRows[t][s] \in Nat
          BY DEF TypeOK
        <4>2. alightRows'[t][s]
                = alightRows[t][s] + IF t = req[w].trip /\ s = req[w].student THEN 1 ELSE 0
          BY <3>1, AddAlightRowType
        <4>3. QED
          BY <3>2, <4>1, <4>2
      <3>3. QED
        BY <3>2 DEF Alighted
    <2>3. QED
      BY <2>1, <2>2, Writers DEF Step
  <1>2. ASSUME NEW v \in Workers, At(v, "end.write")'
        PROVE  /\ req'[v].trip \in Trips /\ req'[v].boarded \subseteq Students
               /\ req'[v].boarded \subseteq Alighted(req'[v].trip)
    <2>1. CASE v # w
      <3>1. req'[v] = req[v]
        BY <2>1, OthersUntouched DEF Step, TypeOK
      <3>2. req[v] \in EndRequest
        BY <1>2, <3>1, RequestAt DEF At
      <3>3. QED
        BY <1>2, <3>1, <3>2 DEF EndConfirmsSeen, At, EndRequest
    <2>2. CASE v = w
      <3>1. EndRead(w)
        BY <1>2, <2>2, Entry DEF Step, At
      <3>2. req[w].trip \in Trips
        BY <3>1, RequestAt DEF EndRead, TripRequest
      <3>3. /\ req'[w].trip = req[w].trip
            /\ req'[w].boarded = Boarded(req[w].trip)
            /\ StillOnBus(req[w].trip) = {}
        BY <1>2, <2>2, <3>1 DEF EndRead, Goto, Answer, Idle, At, TypeOK
      <3>4. QED
        BY <2>2, <3>2, <3>3 DEF StillOnBus, Boarded
    <2>3. QED
      BY <2>1, <2>2
  <1>3. QED
    BY <1>1, <1>2 DEF EndConfirmsSeen

-----------------------------------------------------------------------------
\* Sets of requests are finite, and no larger than the sets they are part of.
LEMMA WorkersCount ==
  ASSUME NEW S \in SUBSET Workers, NEW R \in SUBSET S
  PROVE  /\ IsFiniteSet(S) /\ IsFiniteSet(R)
         /\ Cardinality(S) \in Nat /\ Cardinality(R) \in Nat /\ Cardinality(Workers) \in Nat
         /\ Cardinality(R) <= Cardinality(S) /\ Cardinality(S) <= Cardinality(Workers)
  <1>1. IsFiniteSet(S) /\ Cardinality(S) <= Cardinality(Workers)
    BY FiniteWorkers, FS_Subset
  <1>2. IsFiniteSet(R) /\ Cardinality(R) <= Cardinality(S)
    BY <1>1, FS_Subset
  <1>3. QED
    BY <1>1, <1>2, FiniteWorkers, FS_CardinalityType

\* A counter n of rows and a set of requests about to add to it stay within
\* the bound when one of them adds its row, when some of them go away, and
\* when the set grows while there is no row.
LEMMA RowsStayBounded ==
  ASSUME NEW n \in Nat, NEW k \in Nat, NEW S \in SUBSET Workers, NEW R \in SUBSET Workers,
         n + Cardinality(S) <= Cardinality(Workers),
         \/ k = n + 1 /\ \E w \in S : R \subseteq S \ {w}
         \/ k = n /\ R \subseteq S
         \/ k = 0
  PROVE  k + Cardinality(R) <= Cardinality(Workers)
  <1>1. CASE k = n + 1 /\ \E w \in S : R \subseteq S \ {w}
    <2>1. PICK w \in S : R \subseteq S \ {w}
      BY <1>1
    <2>2. Cardinality(S \ {w}) = Cardinality(S) - 1
      BY WorkersCount, FS_RemoveElement
    <2>3. Cardinality(R) <= Cardinality(S \ {w})
      BY <2>1, WorkersCount
    <2>4. QED
      BY <1>1, <2>2, <2>3, WorkersCount
  <1>2. CASE k = n /\ R \subseteq S
    BY <1>2, WorkersCount
  <1>3. CASE k = 0
    BY <1>3, WorkersCount
  <1>4. QED
    BY <1>1, <1>2, <1>3

\* A student's rows on a trip exceed one only by the requests that passed the
\* same check before the row was there (trips.routes.ts:91-94, 126-131).
LEMMA DuplicatesBoundedStep ==
  ASSUME TypeOK, DuplicatesBounded, NEW w \in Workers, Step(w), TypeOK'
  PROVE  DuplicatesBounded'
  <1> SUFFICES ASSUME NEW t \in Trips, NEW s \in Students
               PROVE  /\ boardRows'[t][s] + Cardinality(Boarding(t, s)')
                            <= Cardinality(Workers)
                      /\ alightRows'[t][s] + Cardinality(Exiting(t, s)')
                            <= Cardinality(Workers)
    BY DEF DuplicatesBounded
  <1>1. boardRows[t][s] \in Nat /\ alightRows[t][s] \in Nat
        /\ boardRows'[t][s] \in Nat /\ alightRows'[t][s] \in Nat
    BY DEF TypeOK
  <1>2. /\ boardRows[t][s] + Cardinality(Boarding(t, s)) <= Cardinality(Workers)
        /\ alightRows[t][s] + Cardinality(Exiting(t, s)) <= Cardinality(Workers)
    BY DEF DuplicatesBounded
  <1>3. \/ boardRows'[t][s] = boardRows[t][s] + 1
              /\ \E v \in Boarding(t, s) : Boarding(t, s)' \subseteq Boarding(t, s) \ {v}
        \/ boardRows'[t][s] = boardRows[t][s] /\ Boarding(t, s)' \subseteq Boarding(t, s)
        \/ boardRows'[t][s] = 0
    <2>1. Boarding(t, s)' \subseteq Boarding(t, s) \cup {w}
      BY OthersUntouched DEF Step, Boarding, At, TypeOK
    <2>2. CASE BoardCreate(w)
      <3>1. w \notin Boarding(t, s)'
        BY <2>2 DEF BoardCreate, Answer, Goto, Idle, Boarding, At, TypeOK
      <3>2. CASE w \in Boarding(t, s)
        <4>1. boardRows'[t][s] = boardRows[t][s] + 1
          BY <2>2, <3>2 DEF BoardCreate, Boarding, TypeOK
        <4>2. Boarding(t, s)' \subseteq Boarding(t, s) \ {w}
          BY <2>1, <3>1, <3>2
        <4>3. QED
          BY <3>2, <4>1, <4>2
      <3>3. CASE w \notin Boarding(t, s)
        <4>1. boardRows'[t][s] = boardRows[t][s]
          BY <2>2, <3>3, RequestAt DEF BoardCreate, Boarding, TypeOK, EventRequest
        <4>2. QED
          BY <2>1, <3>1, <4>1
      <3>4. QED
        BY <3>2, <3>3
    <2>3. CASE UNCHANGED boardRows /\ w \in Boarding(t, s)'
      <3>1. PICK tt \in Trips, ss \in Students :
                   Board(w, tt, ss) \/ ManualBoard(w, tt, ss)
        BY <2>3, Entry DEF Step, Boarding, At
      <3>2. tt = t /\ ss = s /\ boardRows[tt][ss] = 0
        BY <2>3, <3>1 DEF Board, ManualBoard, GotoEvent, Goto, Boarding, TypeOK
      <3>3. QED
        BY <2>3, <3>2
    <2>4. CASE UNCHANGED boardRows /\ w \notin Boarding(t, s)'
      BY <2>1, <2>4
    <2>5. QED
      BY <2>2, <2>3, <2>4, Writers DEF Step
  <1>4. \/ alightRows'[t][s] = alightRows[t][s] + 1
              /\ \E v \in Exiting(t, s) : Exiting(t, s)' \subseteq Exiting(t, s) \ {v}
        \/ alightRows'[t][s] = alightRows[t][s] /\ Exiting(t, s)' \subseteq Exiting(t, s)
        \/ alightRows'[t][s] = 0
    <2>1. Exiting(t, s)' \subseteq Exiting(t, s) \cup {w}
      BY OthersUntouched DEF Step, Exiting, At, TypeOK
    <2>2. CASE AlightCreate(w) \/ CollectedCreate(w)
      <3>1. w \notin Exiting(t, s)'
        BY <2>2 DEF AlightCreate, CollectedCreate, Answer, Goto, Idle, Exiting, At, TypeOK
      <3>2. CASE w \in Exiting(t, s)
        <4>1. alightRows'[t][s] = alightRows[t][s] + 1
          BY <2>2, <3>2 DEF AlightCreate, CollectedCreate, AddAlightRow, Exiting, TypeOK
        <4>2. Exiting(t, s)' \subseteq Exiting(t, s) \ {w}
          BY <2>1, <3>1, <3>2
        <4>3. QED
          BY <3>2, <4>1, <4>2
      <3>3. CASE w \notin Exiting(t, s)
        <4>1. alightRows'[t][s] = alightRows[t][s]
          BY <2>2, <3>3, RequestAt
          DEF AlightCreate, CollectedCreate, AddAlightRow, Exiting, TypeOK, EventRequest
        <4>2. QED
          BY <2>1, <3>1, <4>1
      <3>4. QED
        BY <3>2, <3>3
    <2>3. CASE UNCHANGED alightRows /\ w \in Exiting(t, s)'
      <3>1. AlightCheck(w) \/ CollectedCheck(w)
        BY <2>3, Entry DEF Step, Exiting, At
      <3>2. req[w].trip = t /\ req[w].student = s /\ alightRows[t][s] = 0
        BY <2>3, <3>1, RequestAt
        DEF AlightCheck, CollectedCheck, GotoEvent, Goto, Answer, Idle, Exiting, At, TypeOK,
            EventRequest
      <3>3. QED
        BY <2>3, <3>2
    <2>4. CASE UNCHANGED alightRows /\ w \notin Exiting(t, s)'
      BY <2>1, <2>4
    <2>5. QED
      BY <2>2, <2>3, <2>4, Writers DEF Step
  <1>5. /\ Boarding(t, s) \in SUBSET Workers /\ Boarding(t, s)' \in SUBSET Workers
        /\ Exiting(t, s) \in SUBSET Workers /\ Exiting(t, s)' \in SUBSET Workers
    BY DEF Boarding, Exiting
  <1>6. boardRows'[t][s] + Cardinality(Boarding(t, s)') <= Cardinality(Workers)
    BY <1>1, <1>2, <1>3, <1>5, RowsStayBounded
  <1>7. alightRows'[t][s] + Cardinality(Exiting(t, s)') <= Cardinality(Workers)
    BY <1>1, <1>2, <1>4, <1>5, RowsStayBounded
  <1>8. QED
    BY <1>6, <1>7

-----------------------------------------------------------------------------
(* The inductive invariant.  CompletedHasDuration follows from TripLife; the *)
(* refinement of Journey needs ExitAfterBoarding.                            *)
IInv ==
  /\ TypeOK
  /\ ResolvesAnAlert
  /\ ExitAfterBoarding
  /\ TripLife
  /\ StartedHasSupervisor
  /\ EveningAfterMorning
  /\ EndConfirmsSeen
  /\ DuplicatesBounded

\* The inductive invariant holds when the day begins.
LEMMA InitIInv == Init => IInv
  <1> SUFFICES ASSUME Init PROVE IInv
    OBVIOUS
  <1>1. TypeOK
    BY InitType
  <1>2. \A w \in Workers : req[w].at = "idle"
    BY DEF Init, Idle
  <1>3. ResolvesAnAlert /\ EndConfirmsSeen
    BY <1>2 DEF ResolvesAnAlert, EndConfirmsSeen, At
  <1>4. ExitAfterBoarding
    BY <1>2 DEF Init, ExitAfterBoarding
  <1>5. TripLife /\ StartedHasSupervisor
    BY <1>2 DEF Init, TripLife, StartedHasSupervisor
  <1>6. EveningAfterMorning
    BY <1>2 DEF Init, EveningAfterMorning, At
  <1>7. DuplicatesBounded
    <2> SUFFICES ASSUME NEW t \in Trips, NEW s \in Students
                 PROVE  /\ boardRows[t][s] + Cardinality(Boarding(t, s)) <= Cardinality(Workers)
                        /\ alightRows[t][s] + Cardinality(Exiting(t, s)) <= Cardinality(Workers)
      BY DEF DuplicatesBounded
    <2>1. boardRows[t][s] = 0 /\ alightRows[t][s] = 0
      BY DEF Init
    <2>2. Boarding(t, s) \in SUBSET Workers /\ Exiting(t, s) \in SUBSET Workers
      BY DEF Boarding, Exiting
    <2>3. QED
      BY <2>1, <2>2, WorkersCount
  <1>8. QED
    BY <1>1, <1>3, <1>4, <1>5, <1>6, <1>7 DEF IInv

\* Every step of the handlers, and every stutter, keeps the inductive invariant.
LEMMA NextIInv == IInv /\ [Next]_vars => IInv'
  <1> SUFFICES ASSUME IInv, [Next]_vars PROVE IInv'
    OBVIOUS
  <1>1. ASSUME NEW w \in Workers, Step(w) PROVE IInv'
    <2>1. TypeOK' /\ ResolvesAnAlert'
      BY <1>1, StepType, ResolvesAnAlertStep DEF IInv
    <2>2. ExitAfterBoarding'
      BY <1>1, ExitAfterBoardingStep DEF IInv
    <2>3. TripLife' /\ StartedHasSupervisor'
      BY <1>1, TripLifeStep, StartedHasSupervisorStep DEF IInv
    <2>4. EveningAfterMorning'
      BY <1>1, EveningAfterMorningStep DEF IInv
    <2>5. EndConfirmsSeen'
      BY <1>1, EndConfirmsSeenStep DEF IInv
    <2>6. DuplicatesBounded'
      BY <1>1, <2>1, DuplicatesBoundedStep DEF IInv
    <2>7. QED
      BY <2>1, <2>2, <2>3, <2>4, <2>5, <2>6 DEF IInv
  <1>2. CASE Next
    BY <1>1, <1>2 DEF Next, Step
  <1>3. CASE UNCHANGED vars
    <2>1. UNCHANGED <<status, supervisor, startedAt, endedAt, gpsActive, busSupervisor,
                      boardRows, alightRows, lastEvent, alerts, req>>
      BY <1>3 DEF vars, tripVars, busVars, eventVars
    <2>2. TypeOK' /\ ResolvesAnAlert'
      BY <2>1 DEF IInv, TypeOK, ResolvesAnAlert, At
    <2>3. ExitAfterBoarding' /\ TripLife' /\ StartedHasSupervisor'
      BY <2>1 DEF IInv, ExitAfterBoarding, TripLife, StartedHasSupervisor
    <2>4. EveningAfterMorning'
      BY <2>1 DEF IInv, EveningAfterMorning, MorningOver, MorningTrips, At
    <2>5. EndConfirmsSeen'
      BY <2>1 DEF IInv, EndConfirmsSeen, Alighted, At
    <2>6. DuplicatesBounded'
      BY <2>1 DEF IInv, DuplicatesBounded, Boarding, Exiting, At
    <2>7. QED
      BY <2>2, <2>3, <2>4, <2>5, <2>6 DEF IInv
  <1>4. QED
    BY <1>2, <1>3

\* In every behaviour of the handlers, the inductive invariant holds.
THEOREM Inductive == Spec => []IInv
  BY InitIInv, NextIInv, PTL DEF Spec

\* The tables and the local variables of the handlers keep their types.
THEOREM TypeCorrect == Spec => []TypeOK
  <1>1. IInv => TypeOK
    BY DEF IInv
  <1>2. QED
    BY <1>1, Inductive, PTL

\* A completed trip always has both timestamps: the report of a trip
\* (trips.routes.ts:314) never divides an absent one.
THEOREM ReportHasDuration == Spec => []CompletedHasDuration
  <1>1. IInv => CompletedHasDuration
    BY DEF IInv, TripLife, CompletedHasDuration
  <1>2. QED
    BY <1>1, Inductive, PTL

\* A trip that was ever started has a supervisor, however the assignments and
\* the starts of any number of clients overlap (trips.routes.ts:19-76).
THEOREM SupervisedAfterStart == Spec => []StartedHasSupervisor
  <1>1. IInv => StartedHasSupervisor
    BY DEF IInv
  <1>2. QED
    BY <1>1, Inductive, PTL

\* No evening trip starts before a morning trip of its bus was ended or
\* cancelled (the guard at trips.routes.ts:57-66), whatever runs between the
\* guard and the update.
THEOREM EveningGuard == Spec => []EveningAfterMorning
  <1>1. IInv => EveningAfterMorning
    BY DEF IInv
  <1>2. QED
    BY <1>1, Inductive, PTL

\* A trip is completed only after every student its end saw boarded has an
\* exit (trips.routes.ts:280-293).
THEOREM EndGuard == Spec => []EndConfirmsSeen
  <1>1. IInv => EndConfirmsSeen
    BY DEF IInv
  <1>2. QED
    BY <1>1, Inductive, PTL

\* The duplicate rows that the check-then-insert of board, alight and
\* collected admits are at most one for each request served at once.
THEOREM RowsBounded == Spec => []DuplicatesBounded
  <1>1. IInv => DuplicatesBounded
    BY DEF IInv
  <1>2. QED
    BY <1>1, Inductive, PTL

\* With one request at a time no student has two rows of a type on a trip,
\* even if requests fail half way and are sent again.
THEOREM OneRowWhenSerial ==
  ASSUME NEW client, Workers = {client}
  PROVE  Spec => []OneRowEach
  <1>1. IInv => OneRowEach
    <2> SUFFICES ASSUME IInv, NEW t \in Trips, NEW s \in Students
                 PROVE  boardRows[t][s] <= 1 /\ alightRows[t][s] <= 1
      BY DEF OneRowEach
    <2>1. boardRows[t][s] \in Nat /\ alightRows[t][s] \in Nat
      BY DEF IInv, TypeOK
    <2>2. Boarding(t, s) \in SUBSET Workers /\ Exiting(t, s) \in SUBSET Workers
      BY DEF Boarding, Exiting
    <2>3. Cardinality(Boarding(t, s)) \in Nat /\ Cardinality(Exiting(t, s)) \in Nat
      BY <2>2, WorkersCount
    <2>4. Cardinality(Workers) = 1
      BY FS_Singleton
    <2>5. /\ boardRows[t][s] + Cardinality(Boarding(t, s)) <= 1
          /\ alightRows[t][s] + Cardinality(Exiting(t, s)) <= 1
      BY <2>4 DEF IInv, DuplicatesBounded
    <2>6. QED
      BY <2>1, <2>3, <2>5
  <1>2. QED
    BY <1>1, Inductive, PTL

\* No sequence of requests revives a cancelled trip.
THEOREM CancelledForGood == Spec => CancelledStaysCancelled
  <1>1. IInv /\ [Next]_vars => [\A t \in Trips : status[t] = "cancelled"
                                             => status'[t] = "cancelled"]_vars
    BY TripLifeStep DEF IInv, Next, Step
  <1>2. QED
    BY <1>1, Inductive, PTL DEF Spec, CancelledStaysCancelled

-----------------------------------------------------------------------------
\* Where a student is changes only when the first row of a type is inserted.
LEMMA PlaceStep ==
  ASSUME IInv, NEW w \in Workers, Step(w), TypeOK', NEW t \in Trips, NEW s \in Students
  PROVE  \/ Place(t, s)' = Place(t, s)
         \/ /\ \/ Place(t, s) = "waiting" /\ Place(t, s)' = "aboard"
               \/ Place(t, s) = "aboard" /\ Place(t, s)' = "off"
            /\ req[w].trip = t /\ req[w].student = s
  <1>1. /\ boardRows[t][s] \in Nat /\ alightRows[t][s] \in Nat
        /\ boardRows'[t][s] \in Nat /\ alightRows'[t][s] \in Nat
    BY DEF IInv, TypeOK
  <1>2. alightRows[t][s] > 0 => boardRows[t][s] > 0
    BY DEF IInv, ExitAfterBoarding
  <1>3. CASE UNCHANGED <<boardRows, alightRows>>
    BY <1>3 DEF Place
  <1>4. CASE BoardCreate(w)
    <2>1. req[w] \in EventRequest /\ UNCHANGED alightRows
      BY <1>4, RequestAt DEF BoardCreate, IInv
    <2>2. CASE req[w].trip = t /\ req[w].student = s
      <3>1. boardRows'[t][s] = boardRows[t][s] + 1
        BY <1>4, <2>2 DEF BoardCreate, IInv, TypeOK
      <3>2. QED
        BY <1>1, <1>2, <2>1, <2>2, <3>1 DEF Place
    <2>3. CASE ~(req[w].trip = t /\ req[w].student = s)
      <3>1. boardRows'[t][s] = boardRows[t][s]
        BY <1>4, <2>1, <2>3 DEF BoardCreate, IInv, TypeOK, EventRequest
      <3>2. QED
        BY <2>1, <3>1 DEF Place
    <2>4. QED
      BY <2>2, <2>3
  <1>5. CASE AlightCreate(w) \/ CollectedCreate(w)
    <2>1. req[w] \in EventRequest /\ UNCHANGED boardRows
      BY <1>5, RequestAt DEF AlightCreate, CollectedCreate, IInv
    <2>2. CASE req[w].trip = t /\ req[w].student = s
      <3>1. alightRows'[t][s] = alightRows[t][s] + 1
        BY <1>5, <2>2 DEF AlightCreate, CollectedCreate, AddAlightRow, IInv, TypeOK
      <3>2. boardRows[t][s] > 0
        BY <1>5, <2>2 DEF AlightCreate, CollectedCreate, At, IInv, ExitAfterBoarding
      <3>3. QED
        BY <1>1, <2>1, <2>2, <3>1, <3>2 DEF Place
    <2>3. CASE ~(req[w].trip = t /\ req[w].student = s)
      <3>1. alightRows'[t][s] = alightRows[t][s]
        BY <1>5, <2>1, <2>3
        DEF AlightCreate, CollectedCreate, AddAlightRow, IInv, TypeOK, EventRequest
      <3>2. QED
        BY <2>1, <3>1 DEF Place
    <2>4. QED
      BY <2>2, <2>3
  <1>6. UNCHANGED boardRows \/ UNCHANGED alightRows
    BY Writers DEF Step, BoardCreate, eventVars
  <1>7. QED
    BY <1>3, <1>4, <1>5, <1>6, Writers DEF Step

\* Each student's day on a trip is waiting, aboard, off, in this order and
\* once: the events as today-status reads them implement Journey, for any
\* number of overlapping and failing requests.
THEOREM JourneyRefined == Spec => JourneySpec
  <1> DEFINE Places == [t \in Trips |-> [s \in Students |-> Place(t, s)]]
  <1>1. Init => Journeys!Init
    BY DEF Init, Journeys!Init, Place
  <1>2. ASSUME IInv, NEW w \in Workers, Step(w), TypeOK'
        PROVE  [Journeys!Next]_Places
    <2>1. CASE \A t \in Trips, s \in Students : Place(t, s)' = Place(t, s)
      BY <2>1
    <2>2. CASE \E t \in Trips, s \in Students : Place(t, s)' # Place(t, s)
      <3>1. PICK t \in Trips, s \in Students : Place(t, s)' # Place(t, s)
        BY <2>2
      <3>2. /\ \/ Place(t, s) = "waiting" /\ Place(t, s)' = "aboard"
               \/ Place(t, s) = "aboard" /\ Place(t, s)' = "off"
            /\ req[w].trip = t /\ req[w].student = s
        BY <1>2, <3>1, PlaceStep
      <3>3. \A tt \in Trips, ss \in Students :
              tt # t \/ ss # s => Place(tt, ss)' = Place(tt, ss)
        BY <1>2, <3>2, PlaceStep
      <3>4. Places' = [Places EXCEPT ![t][s] = Place(t, s)']
        BY <3>3
      <3>5. Journeys!GetOn(t, s) \/ Journeys!GetOff(t, s)
        BY <3>2, <3>4 DEF Journeys!GetOn, Journeys!GetOff, Journeys!Move
      <3>6. QED
        BY <3>5 DEF Journeys!Next
    <2>3. QED
      BY <2>1, <2>2
  <1>3. IInv /\ IInv' /\ [Next]_vars => [Journeys!Next]_Places
    <2> SUFFICES ASSUME IInv, IInv', [Next]_vars PROVE [Journeys!Next]_Places
      OBVIOUS
    <2>1. CASE UNCHANGED vars
      BY <2>1 DEF vars, eventVars, Place
    <2>2. CASE Next
      BY <1>2, <2>2 DEF Next, Step, IInv
    <2>3. QED
      BY <2>1, <2>2
  <1>4. QED
    BY <1>1, <1>3, Inductive, PTL DEF Spec, JourneySpec, Journeys!Spec

-----------------------------------------------------------------------------
(* What the parent is told.                                                 *)

\* A board row that lands after an exit of the same trip is a second one.
LEMMA TodayStatusStep ==
  ASSUME NEW w \in Workers, IInv, TypeOK', TodayStatusAgrees, Step(w)
  PROVE  TodayStatusAgrees'
  <1> DEFINE t == req[w].trip
             x == req[w].student
             Told(e, boards, alights) == e # NoEvent =>
               \/ e.type = "alight" <=> alights[e.trip] > 0
               \/ e.type = "board" /\ boards[e.trip] > 1
  <1>0. TypeOK
    BY DEF IInv
  <1>1. \A s \in Students :
          Told(lastEvent[s], [u \in Trips |-> boardRows[u][s]], [u \in Trips |-> alightRows[u][s]])
    BY <1>0 DEF TodayStatusAgrees, Place, TypeOK, EventRow
  <1>2. SUFFICES ASSUME NEW s \in Students
                 PROVE  Told(lastEvent'[s], [u \in Trips |-> boardRows'[u][s]],
                                            [u \in Trips |-> alightRows'[u][s]])
    <2>1. \A u \in Trips, y \in Students : Place(u, y)' = "off" <=> alightRows'[u][y] > 0
      BY DEF Place
    <2>2. \A y \in Students : lastEvent'[y] # NoEvent => lastEvent'[y].trip \in Trips
      BY DEF TypeOK, EventRow
    <2>3. QED
      BY <2>1, <2>2 DEF TodayStatusAgrees
  <1>3. CASE BoardCreate(w)
    <2>1. t \in Trips /\ x \in Students /\ alightRows' = alightRows
      BY <1>0, <1>3, RequestAt DEF BoardCreate, EventRequest
    <2>2. /\ boardRows' = [boardRows EXCEPT ![t][x] = @ + 1]
          /\ lastEvent' = [lastEvent EXCEPT ![x] = [type |-> "board", trip |-> t]]
      BY <1>3 DEF BoardCreate
    <2>3. CASE s = x
      <3>1. lastEvent'[s] = [type |-> "board", trip |-> t]
        BY <1>0, <2>2, <2>3 DEF TypeOK
      <3>2. boardRows'[t][s] = boardRows[t][s] + 1 /\ boardRows[t][s] \in Nat
        BY <1>0, <2>1, <2>2, <2>3 DEF TypeOK
      <3>3. alightRows[t][s] > 0 => boardRows[t][s] > 0
        BY <2>1, <2>3 DEF IInv, ExitAfterBoarding
      <3>4. alightRows[t][s] > 0 => boardRows'[t][s] > 1
        BY <3>2, <3>3
      <3>5. QED
        BY <2>1, <3>1, <3>4
    <2>4. CASE s # x
      <3>1. lastEvent'[s] = lastEvent[s] /\ \A u \in Trips : boardRows'[u][s] = boardRows[u][s]
        BY <1>0, <2>1, <2>2, <2>4 DEF TypeOK
      <3>2. QED
        BY <1>1, <2>1, <3>1
    <2>5. QED
      BY <2>3, <2>4
  <1>4. CASE AlightCreate(w) \/ CollectedCreate(w)
    <2>1. t \in Trips /\ x \in Students /\ AddAlightRow(t, x) /\ boardRows' = boardRows
      BY <1>0, <1>4, RequestAt DEF AlightCreate, CollectedCreate, EventRequest
    <2>2. /\ \A u \in Trips : alightRows'[u][s] = alightRows[u][s] + IF u = t /\ s = x THEN 1 ELSE 0
          /\ \A u \in Trips : alightRows[u][s] \in Nat
      BY <1>0, <2>1, AddAlightRowType DEF TypeOK
    <2>3. CASE s = x
      <3>1. lastEvent'[s] = [type |-> "alight", trip |-> t]
        BY <1>0, <2>1, <2>3 DEF TypeOK, AddAlightRow
      <3>2. alightRows'[t][s] > 0
        BY <2>1, <2>2, <2>3
      <3>3. QED
        BY <2>1, <3>1, <3>2
    <2>4. CASE s # x
      <3>1. lastEvent'[s] = lastEvent[s] /\ \A u \in Trips : alightRows'[u][s] = alightRows[u][s]
        BY <1>0, <2>1, <2>2, <2>4 DEF TypeOK, AddAlightRow
      <3>2. QED
        BY <1>1, <2>1, <3>1
    <2>5. QED
      BY <2>3, <2>4
  <1>5. CASE UNCHANGED <<lastEvent, boardRows, alightRows>>
    BY <1>1, <1>5
  <1>6. QED
    BY <1>3, <1>4, <1>5, EventWriters DEF Step

\* What today-status tells a parent from the latest row agrees with the rows that
\* the end of the trip looks at, unless a duplicate board row landed after the
\* exit; for any number of requests that overlap and fail.
THEOREM TodayStatusRight == Spec => []TodayStatusAgrees
  <1>1. Init => TodayStatusAgrees
    BY DEF Init, TodayStatusAgrees
  <1>2. IInv /\ IInv' /\ TodayStatusAgrees /\ [Next]_vars => TodayStatusAgrees'
    <2> SUFFICES ASSUME IInv, IInv', TodayStatusAgrees, [Next]_vars PROVE TodayStatusAgrees'
      OBVIOUS
    <2>1. CASE Next
      BY <2>1, TodayStatusStep DEF Next, Step, IInv
    <2>2. CASE UNCHANGED vars
      BY <2>2 DEF vars, eventVars, TodayStatusAgrees, Place
    <2>3. QED
      BY <2>1, <2>2
  <1>3. QED
    BY <1>1, <1>2, Inductive, PTL DEF Spec

-----------------------------------------------------------------------------
(* One request at a time.                                                   *)

\* What a request has read before its next statement is still so: no other
\* request runs between the two.
NothingStale ==
  \A w \in Workers :
    LET r == req[w] IN
    /\ r.at \in {"start.morning", "start.write"}
         => status[r.trip] = "scheduled" /\ r.seen = supervisor[r.trip]
    /\ r.at = "start.write" /\ Shift[r.trip] = "evening" /\ MorningTrips(r.trip) # {}
         => \E m \in MorningTrips(r.trip) : MorningDone(m)
    /\ r.at = "board.create" => boardRows[r.trip][r.student] = 0
    /\ r.at \in {"alight.create", "collect.create"} => alightRows[r.trip][r.student] = 0
    /\ r.at \in {"end.read", "end.write"} => status[r.trip] = "active"
    /\ r.at = "end.write" => StillOnBus(r.trip) = {}

\* The inductive invariant of a client that waits for each answer.
SerialInv == IInv /\ NothingStale

\* A request reads its rows in the statement before the one that writes them.
LEMMA NothingStaleStep ==
  ASSUME NEW client, Workers = {client}, IInv, NothingStale, Step(client), TypeOK'
  PROVE  NothingStale'
  <1> DEFINE r == req'[client]
             b == req[client]
  <1>0. client \in Workers /\ TypeOK /\ req \in [Workers -> Request]
    BY DEF IInv, TypeOK
  <1>1. r.at \in {"start.morning", "start.write"} /\ (\E t \in Trips, u \in Supervisors : Start(client, t, u))
          => /\ status'[r.trip] = "scheduled" /\ r.seen = supervisor'[r.trip]
             /\ r.at = "start.write" => Shift[r.trip] # "evening"
    BY <1>0 DEF Start, Goto, tripVars
  <1>2. ASSUME StartMorning(client), r.at = "start.write"
        PROVE  /\ status'[r.trip] = "scheduled" /\ r.seen = supervisor'[r.trip]
               /\ MorningTrips(r.trip) # {} => \E m \in MorningTrips(r.trip) : MorningDone(m)'
    <2>1. b \in StartRequest /\ b.at = "start.morning"
      BY <1>0, <1>2, RequestAt DEF StartMorning, At
    <2>2. /\ \/ MorningTrips(b.trip) = {}
             \/ \E m \in MorningTrips(b.trip) : MorningDone(m)
          /\ r = [b EXCEPT !.at = "start.write"]
      BY <1>0, <1>2 DEF StartMorning, Goto, Answer, Idle
    <2>3. r.trip = b.trip /\ r.seen = b.seen
      BY <2>1, <2>2 DEF StartRequest
    <2>4. UNCHANGED <<status, supervisor>>
      BY <1>2 DEF StartMorning, tripVars
    <2>5. status[b.trip] = "scheduled" /\ b.seen = supervisor[b.trip]
      BY <1>0, <2>1 DEF NothingStale
    <2>6. QED
      BY <2>2, <2>3, <2>4, <2>5 DEF MorningDone
  <1>3. r.at = "board.create" => boardRows'[r.trip][r.student] = 0
    <2> SUFFICES ASSUME r.at = "board.create" PROVE boardRows'[r.trip][r.student] = 0
      OBVIOUS
    <2>1. PICK t \in Trips, s \in Students : Board(client, t, s) \/ ManualBoard(client, t, s)
      BY <1>0, Entry DEF Step
    <2>2. QED
      BY <1>0, <2>1 DEF Board, ManualBoard, GotoEvent, Goto, eventVars
  <1>4. r.at \in {"alight.create", "collect.create"} => alightRows'[r.trip][r.student] = 0
    <2> SUFFICES ASSUME r.at \in {"alight.create", "collect.create"}
                 PROVE  alightRows'[r.trip][r.student] = 0
      OBVIOUS
    <2>1. AlightCheck(client) \/ CollectedCheck(client)
      BY <1>0, Entry DEF Step
    <2>2. QED
      BY <1>0, <2>1 DEF AlightCheck, CollectedCheck, GotoEvent, Goto, Answer, Idle, eventVars
  <1>5. r.at = "end.read" => status'[r.trip] = "active"
    <2> SUFFICES ASSUME r.at = "end.read" PROVE status'[r.trip] = "active"
      OBVIOUS
    <2>1. PICK t \in Trips : End(client, t)
      BY <1>0, Entry DEF Step
    <2>2. QED
      BY <1>0, <2>1 DEF End, Goto, tripVars
  <1>6. r.at = "end.write"
          => /\ status'[r.trip] = "active"
             /\ \A s \in Students : boardRows'[r.trip][s] > 0 => alightRows'[r.trip][s] > 0
    <2> SUFFICES ASSUME r.at = "end.write"
                 PROVE  /\ status'[r.trip] = "active"
                        /\ \A s \in Students :
                             boardRows'[r.trip][s] > 0 => alightRows'[r.trip][s] > 0
      OBVIOUS
    <2>1. EndRead(client)
      BY <1>0, Entry DEF Step
    <2>2. r.trip = b.trip /\ StillOnBus(b.trip) = {} /\ b.at = "end.read"
      BY <1>0, <2>1 DEF EndRead, Goto, Answer, Idle, At
    <2>3. status[b.trip] = "active"
      BY <1>0, <2>2 DEF NothingStale
    <2>4. UNCHANGED <<status, boardRows, alightRows>>
      BY <2>1 DEF EndRead, tripVars, eventVars
    <2>5. QED
      BY <2>2, <2>3, <2>4 DEF StillOnBus, Boarded, Alighted
  <1>7. r.at = "start.morning" => \E t \in Trips, u \in Supervisors : Start(client, t, u)
    BY <1>0, Entry DEF Step
  <1>8. r.at = "start.write"
          => StartMorning(client) \/ \E t \in Trips, u \in Supervisors : Start(client, t, u)
    BY <1>0, Entry DEF Step
  <1>10. /\ r.at \in {"start.morning", "start.write"}
              => status'[r.trip] = "scheduled" /\ r.seen = supervisor'[r.trip]
         /\ r.at = "start.write" /\ Shift[r.trip] = "evening" /\ MorningTrips(r.trip) # {}
              => \E m \in MorningTrips(r.trip) : MorningDone(m)'
    BY <1>1, <1>2, <1>7, <1>8
  <1>11. QED
    BY <1>3, <1>4, <1>5, <1>6, <1>10 DEF NothingStale, StillOnBus, Boarded, Alighted

\* With one request at a time, nothing a handler has read is stale when it writes.
LEMMA SerialInductive ==
  ASSUME NEW client, Workers = {client}
  PROVE  Spec => []SerialInv
  <1>1. Init => SerialInv
    <2> SUFFICES ASSUME Init PROVE SerialInv
      OBVIOUS
    <2>1. NothingStale
      BY DEF Init, Idle, NothingStale
    <2>2. QED
      BY <2>1, InitIInv DEF SerialInv
  <1>2. SerialInv /\ [Next]_vars => SerialInv'
    <2> SUFFICES ASSUME SerialInv, [Next]_vars PROVE SerialInv'
      OBVIOUS
    <2>1. IInv'
      BY NextIInv DEF SerialInv
    <2>2. CASE Next
      <3>1. Step(client)
        BY <2>2 DEF Next, Step
      <3>2. NothingStale'
        BY <2>1, <3>1, NothingStaleStep DEF SerialInv, IInv
      <3>3. QED
        BY <2>1, <3>2 DEF SerialInv
    <2>3. CASE UNCHANGED vars
      <3>1. UNCHANGED <<status, supervisor, boardRows, alightRows, req>>
        BY <2>3 DEF vars, tripVars, eventVars
      <3>2. NothingStale'
        BY <3>1 DEF SerialInv, NothingStale, MorningDone, StillOnBus, Boarded, Alighted
      <3>3. QED
        BY <2>1, <3>2 DEF SerialInv
    <2>4. QED
      BY <2>2, <2>3
  <1>3. QED
    BY <1>1, <1>2, PTL DEF Spec

-----------------------------------------------------------------------------
(* The atomic protocol.                                                     *)

\* The flag of a bus before and after a step, if there is only one client: a
\* start or an end that has still to update the bus decides it.
LEMMA GpsWhenSerial ==
  ASSUME NEW client, Workers = {client}, NEW b
  PROVE  /\ req[client].at = "start.gps" /\ BusOf[req[client].trip] = b
              => GpsAfterAnswer(b) = TRUE
         /\ req[client].at = "end.gps" /\ BusOf[req[client].trip] = b
              => GpsAfterAnswer(b) = FALSE
         /\ ~(req[client].at \in {"start.gps", "end.gps"} /\ BusOf[req[client].trip] = b)
              => GpsAfterAnswer(b) = gpsActive[b]
         /\ req'[client].at = "start.gps" /\ BusOf[req'[client].trip] = b
              => GpsAfterAnswer(b)' = TRUE
         /\ req'[client].at = "end.gps" /\ BusOf[req'[client].trip] = b
              => GpsAfterAnswer(b)' = FALSE
         /\ ~(req'[client].at \in {"start.gps", "end.gps"} /\ BusOf[req'[client].trip] = b)
              => GpsAfterAnswer(b)' = gpsActive'[b]
  <1>1. /\ req[client].at = "start.gps" /\ BusOf[req[client].trip] = b
              => GpsAfterAnswer(b) = TRUE
        /\ req[client].at = "end.gps" /\ BusOf[req[client].trip] = b
              => GpsAfterAnswer(b) = FALSE
        /\ ~(req[client].at \in {"start.gps", "end.gps"} /\ BusOf[req[client].trip] = b)
              => GpsAfterAnswer(b) = gpsActive[b]
    <2> DEFINE P == \E w \in Workers : req[w].at = "start.gps" /\ BusOf[req[w].trip] = b
               Q == \E w \in Workers : req[w].at = "end.gps" /\ BusOf[req[w].trip] = b
    <2>1. /\ P <=> req[client].at = "start.gps" /\ BusOf[req[client].trip] = b
          /\ Q <=> req[client].at = "end.gps" /\ BusOf[req[client].trip] = b
      OBVIOUS
    <2>2. ~(P /\ Q)
      BY <2>1
    <2>3. GpsAfterAnswer(b) = CASE P -> TRUE [] Q -> FALSE [] OTHER -> gpsActive[b]
      BY Zenon DEF GpsAfterAnswer, At
    <2> HIDE DEF P, Q
    <2>4. /\ P => GpsAfterAnswer(b) = TRUE
          /\ Q => GpsAfterAnswer(b) = FALSE
          /\ ~P /\ ~Q => GpsAfterAnswer(b) = gpsActive[b]
      BY <2>2, <2>3, Zenon
    <2>5. QED
      BY <2>1, <2>4
  <1>2. /\ req'[client].at = "start.gps" /\ BusOf[req'[client].trip] = b
              => GpsAfterAnswer(b)' = TRUE
        /\ req'[client].at = "end.gps" /\ BusOf[req'[client].trip] = b
              => GpsAfterAnswer(b)' = FALSE
        /\ ~(req'[client].at \in {"start.gps", "end.gps"} /\ BusOf[req'[client].trip] = b)
              => GpsAfterAnswer(b)' = gpsActive'[b]
    <2> DEFINE P == \E w \in Workers : req'[w].at = "start.gps" /\ BusOf[req'[w].trip] = b
               Q == \E w \in Workers : req'[w].at = "end.gps" /\ BusOf[req'[w].trip] = b
    <2>1. /\ P <=> req'[client].at = "start.gps" /\ BusOf[req'[client].trip] = b
          /\ Q <=> req'[client].at = "end.gps" /\ BusOf[req'[client].trip] = b
      OBVIOUS
    <2>2. ~(P /\ Q)
      BY <2>1
    <2>3. GpsAfterAnswer(b)' = CASE P -> TRUE [] Q -> FALSE [] OTHER -> gpsActive'[b]
      BY Zenon DEF GpsAfterAnswer, At
    <2> HIDE DEF P, Q
    <2>4. /\ P => GpsAfterAnswer(b)' = TRUE
          /\ Q => GpsAfterAnswer(b)' = FALSE
          /\ ~P /\ ~Q => GpsAfterAnswer(b)' = gpsActive'[b]
      BY <2>2, <2>3, Zenon
    <2>5. QED
      BY <2>1, <2>4
  <1>3. QED
    BY <1>1, <1>2

\* The statements about the flag of a bus, and those after which it is still due.
LEMMA GpsWriters ==
  ASSUME TypeOK, NEW w \in Workers, Step(w),
         ~(StartWrite(w) \/ EndWrite(w) \/ Fail(w) \/ StartGps(w) \/ EndGps(w)),
         ~\E b \in Buses, active \in BOOLEAN : SetGps(w, b, active)
  PROVE  /\ req[w].at \notin {"start.gps", "end.gps"} /\ req'[w].at \notin {"start.gps", "end.gps"}
         /\ gpsActive' = gpsActive
  <1> DEFINE Goal == /\ req[w].at \notin {"start.gps", "end.gps"}
                     /\ req'[w].at \notin {"start.gps", "end.gps"}
                     /\ gpsActive' = gpsActive
  <1> SUFFICES Goal
    OBVIOUS
  <1> USE DEF Goto, GotoEvent, Answer, Idle, Free, At, busVars
  <1>1. CASE Arrive(w)
    <2>1. ASSUME NEW t \in Trips, NEW u \in Supervisors, Assign(w, t, u) PROVE Goal
      BY <2>1 DEF TypeOK, Assign
    <2>2. ASSUME NEW t \in Trips, NEW u \in Supervisors, Start(w, t, u) PROVE Goal
      BY <2>2 DEF TypeOK, Start
    <2>3. ASSUME NEW t \in Trips, NEW s \in Students,
                 \/ Board(w, t, s) \/ ManualBoard(w, t, s) \/ Alight(w, t, s)
                 \/ NotCollected(w, t, s) \/ Collected(w, t, s)
          PROVE  Goal
      BY <2>3 DEF TypeOK, Board, ManualBoard, Alight, NotCollected, Collected
    <2>4. ASSUME NEW t \in Trips, End(w, t) PROVE Goal
      BY <2>4 DEF TypeOK, End
    <2>5. ASSUME NEW b \in Buses, NEW u \in User, EditBus(w, b, u) PROVE Goal
      BY <2>5 DEF EditBus
    <2>6. QED
      BY <1>1, <2>1, <2>2, <2>3, <2>4, <2>5 DEF Arrive
  <1>2. CASE Continue(w)
    <2>1. StartMorning(w) => Goal
      BY RequestAt DEF StartMorning, StartRequest, TypeOK
    <2>2. CollectedFind(w) => Goal
      BY DEF CollectedFind, TypeOK
    <2>3. AlightCheck(w) \/ CollectedCheck(w) \/ EndRead(w) => Goal
      BY DEF AlightCheck, CollectedCheck, EndRead, TypeOK
    <2>4. AssignWrite(w) \/ BoardCreate(w) \/ AlightCreate(w) \/ NotCollectedCreate(w)
            \/ CollectedCreate(w) \/ CollectedResolve(w) => Goal
      BY DEF AssignWrite, BoardCreate, AlightCreate, NotCollectedCreate, CollectedCreate,
             CollectedResolve, TypeOK
    <2> HIDE DEF Goal
    <2>5. QED
      BY <1>2, <2>1, <2>2, <2>3, <2>4 DEF Continue
  <1>3. QED
    BY <1>1, <1>2 DEF Step

\* The flags as a client sees them.
Flags == [b \in Buses |-> GpsAfterAnswer(b)]

\* The flags as a client sees them change when a trip starts or ends, by a call of
\* PUT /buses/:id/gps-active, or when the update of a bus fails.
LEMMA FlagsStep ==
  ASSUME NEW client, Workers = {client}, TypeOK, TypeOK', Step(client)
  PROVE  /\ StartWrite(client) => Flags' = [Flags EXCEPT ![BusOf[req[client].trip]] = TRUE]
         /\ EndWrite(client) => Flags' = [Flags EXCEPT ![BusOf[req[client].trip]] = FALSE]
         /\ \A b \in Buses, active \in BOOLEAN :
              SetGps(client, b, active) => Flags' = [Flags EXCEPT ![b] = active]
         /\ Fail(client) =>
              \/ Flags' = Flags
              \/ /\ req[client].at \in {"start.gps", "end.gps"}
                 /\ \E b \in Buses, active \in BOOLEAN : Flags' = [Flags EXCEPT ![b] = active]
         /\ \/ Flags' = Flags
            \/ StartWrite(client) \/ EndWrite(client) \/ Fail(client)
            \/ \E b \in Buses, active \in BOOLEAN : SetGps(client, b, active)
  <1> DEFINE r == req[client]
             q == req'[client]
  <1>0. /\ client \in Workers /\ req \in [Workers -> Request]
        /\ gpsActive \in [Buses -> BOOLEAN] /\ gpsActive' \in [Buses -> BOOLEAN]
    BY DEF TypeOK
  <1>1. \A b \in Buses : Flags[b] = GpsAfterAnswer(b) /\ Flags'[b] = GpsAfterAnswer(b)'
    BY Zenon DEF Flags
  <1>3. \A b \in Buses :
          /\ r.at = "start.gps" /\ BusOf[r.trip] = b => Flags[b] = TRUE
          /\ r.at = "end.gps" /\ BusOf[r.trip] = b => Flags[b] = FALSE
          /\ ~(r.at \in {"start.gps", "end.gps"} /\ BusOf[r.trip] = b)
               => Flags[b] = gpsActive[b]
    BY <1>1, GpsWhenSerial, Zenon
  <1>4. \A b \in Buses :
          /\ q.at = "start.gps" /\ BusOf[q.trip] = b => Flags'[b] = TRUE
          /\ q.at = "end.gps" /\ BusOf[q.trip] = b => Flags'[b] = FALSE
          /\ ~(q.at \in {"start.gps", "end.gps"} /\ BusOf[q.trip] = b)
               => Flags'[b] = gpsActive'[b]
    BY <1>1, GpsWhenSerial, Zenon
  <1>5. /\ DOMAIN Flags = Buses /\ DOMAIN Flags' = Buses
        /\ Flags = [b \in Buses |-> Flags[b]] /\ Flags' = [b \in Buses |-> Flags'[b]]
    BY DEF Flags
  <1> HIDE DEF r, q
  <1>6. ASSUME StartWrite(client)
        PROVE  Flags' = [Flags EXCEPT ![BusOf[req[client].trip]] = TRUE]
    <2>1. /\ r.at = "start.write" /\ q.at = "start.gps" /\ q.trip = r.trip
          /\ gpsActive' = gpsActive
      BY <1>0, <1>6 DEF StartWrite, At, Goto, busVars, r, q
    <2>2. Flags' = [Flags EXCEPT ![BusOf[r.trip]] = TRUE]
      BY <1>3, <1>4, <1>5, <2>1
    <2>3. QED
      BY <2>2 DEF r
  <1>7. ASSUME EndWrite(client)
        PROVE  Flags' = [Flags EXCEPT ![BusOf[req[client].trip]] = FALSE]
    <2>1. /\ r.at = "end.write" /\ q.at = "end.gps" /\ q.trip = r.trip
          /\ gpsActive' = gpsActive
      BY <1>0, <1>7 DEF EndWrite, At, Goto, busVars, r, q
    <2>2. Flags' = [Flags EXCEPT ![BusOf[r.trip]] = FALSE]
      BY <1>3, <1>4, <1>5, <2>1
    <2>3. QED
      BY <2>2 DEF r
  <1>8. ASSUME NEW b \in Buses, NEW active \in BOOLEAN, SetGps(client, b, active)
        PROVE  Flags' = [Flags EXCEPT ![b] = active]
    <2>1. r.at = "idle" /\ q.at = "idle" /\ gpsActive' = [gpsActive EXCEPT ![b] = active]
      BY <1>0, <1>8 DEF SetGps, Free, r, q
    <2>2. QED
      BY <1>0, <1>3, <1>4, <1>5, <2>1
  <1>9. ASSUME Fail(client)
        PROVE  \/ Flags' = Flags
               \/ /\ req[client].at \in {"start.gps", "end.gps"}
                  /\ \E b \in Buses, active \in BOOLEAN : Flags' = [Flags EXCEPT ![b] = active]
    <2>1. q.at = "idle" /\ gpsActive' = gpsActive
      BY <1>0, <1>9 DEF Fail, Answer, Goto, Idle, busVars, q
    <2>2. CASE r.at \in {"start.gps", "end.gps"}
      <3>1. BusOf[r.trip] \in Buses
        BY <1>0, <2>2, RequestAt, TripAssumption DEF At, TripRequest, r
      <3>2. Flags' = [Flags EXCEPT ![BusOf[r.trip]] = gpsActive[BusOf[r.trip]]]
        BY <1>0, <1>3, <1>4, <1>5, <2>1, <2>2, <3>1
      <3>3. QED
        BY <1>0, <2>2, <3>1, <3>2 DEF r
    <2>3. CASE r.at \notin {"start.gps", "end.gps"}
      <3>1. Flags' = Flags
        BY <1>3, <1>4, <1>5, <2>1, <2>3
      <3>2. QED
        BY <3>1
    <2>4. QED
      BY <2>2, <2>3
  <1>10. ASSUME StartGps(client) \/ EndGps(client) PROVE Flags' = Flags
    <2>1. /\ BusOf[r.trip] \in Buses /\ q.at = "idle"
          /\ \/ r.at = "start.gps" /\ gpsActive' = [gpsActive EXCEPT ![BusOf[r.trip]] = TRUE]
             \/ r.at = "end.gps" /\ gpsActive' = [gpsActive EXCEPT ![BusOf[r.trip]] = FALSE]
      BY <1>0, <1>10, RequestAt, TripAssumption
      DEF StartGps, EndGps, TripRequest, Answer, Goto, Idle, At, r, q
    <2>2. ASSUME NEW b \in Buses PROVE Flags'[b] = Flags[b]
      <3>1. CASE b = BusOf[r.trip]
        BY <1>0, <1>3, <1>4, <2>1, <3>1
      <3>2. CASE b # BusOf[r.trip]
        BY <1>0, <1>3, <1>4, <2>1, <3>2
      <3>3. QED
        BY <3>1, <3>2
    <2>3. QED
      BY <1>5, <2>2
  <1>11. ASSUME ~(StartWrite(client) \/ EndWrite(client) \/ Fail(client)
                   \/ StartGps(client) \/ EndGps(client)),
                ~\E b \in Buses, active \in BOOLEAN : SetGps(client, b, active)
         PROVE  Flags' = Flags
    <2>1. /\ r.at \notin {"start.gps", "end.gps"} /\ q.at \notin {"start.gps", "end.gps"}
          /\ gpsActive' = gpsActive
      BY <1>11, GpsWriters DEF r, q
    <2>2. Flags' = Flags
      BY <1>3, <1>4, <1>5, <2>1
    <2>3. QED
      BY <2>2
  <1>12. QED
    BY <1>6, <1>7, <1>8, <1>9, <1>10, <1>11

Places == [t \in Trips |-> [s \in Students |-> Place(t, s)]]

\* Every step of a client that waits for each answer is a call of the protocol, or
\* the part of a call that nobody sees.
LEMMA ProtocolStep ==
  ASSUME NEW client, Workers = {client}, SerialInv, Step(client), TypeOK'
  PROVE  [Protocol!Next]_(Protocol!vars)
  <1> DEFINE t == req[client].trip
  <1>0. client \in Workers /\ TypeOK /\ IInv
    BY DEF SerialInv, IInv
  <1>1. Protocol!vars = <<status, supervisor, Flags, Places>>
    BY DEF Protocol!vars, Flags, Places
  <1>2. UNCHANGED <<boardRows, alightRows>> => Places' = Places
    BY DEF Places, Place
  <1>3. CASE StartWrite(client)
    <2>1. /\ t \in Trips /\ req[client].user \in Supervisors
          /\ status[t] = "scheduled" /\ req[client].seen = supervisor[t]
      BY <1>0, <1>3, RequestAt DEF StartWrite, StartRequest, SerialInv, NothingStale, At
    <2>2. Shift[t] = "evening" /\ Protocol!Mornings(t) # {}
            => \E m \in Protocol!Mornings(t) : status[m] \in {"completed", "cancelled"}
      BY <1>0, <1>3 DEF StartWrite, At, SerialInv, NothingStale, MorningTrips, MorningDone,
                        Protocol!Mornings
    <2>3. /\ status' = [status EXCEPT ![t] = "active"]
          /\ supervisor' = [supervisor EXCEPT
                              ![t] = IF req[client].seen = NoOne THEN req[client].user
                                     ELSE req[client].seen]
          /\ UNCHANGED <<boardRows, alightRows>>
      BY <1>3 DEF StartWrite, eventVars
    <2>4. supervisor' = [supervisor EXCEPT ![t] = IF @ = NoOne THEN req[client].user ELSE @]
      BY <2>1, <2>3
    <2>5. Flags' = [Flags EXCEPT ![BusOf[t]] = TRUE]
      BY <1>0, <1>3, FlagsStep DEF StartWrite, At, EndWrite, Fail, Answer, Goto, SetGps
    <2>6. Protocol!Start(t, req[client].user)
      BY <1>2, <2>1, <2>2, <2>3, <2>4, <2>5 DEF Protocol!Start, Flags, Places
    <2>7. QED
      BY <2>1, <2>6 DEF Protocol!Next
  <1>4. CASE EndWrite(client)
    <2>1. /\ t \in Trips /\ status[t] = "active" /\ StillOnBus(t) = {}
      BY <1>0, <1>4, RequestAt DEF EndWrite, EndRequest, SerialInv, NothingStale, At
    <2>2. Protocol!OnBus(t) = {}
      <3>1. \A s \in Students : boardRows[t][s] > 0 => alightRows[t][s] > 0
        BY <2>1 DEF StillOnBus, Boarded, Alighted
      <3>2. \A s \in Students : Place(t, s) # "aboard"
        BY <3>1 DEF Place
      <3>3. QED
        BY <2>1, <3>2 DEF Protocol!OnBus
    <2>3. /\ status' = [status EXCEPT ![t] = "completed"]
          /\ UNCHANGED <<supervisor, boardRows, alightRows>>
      BY <1>4 DEF EndWrite, eventVars
    <2>4. Flags' = [Flags EXCEPT ![BusOf[t]] = FALSE]
      BY <1>0, <1>4, FlagsStep
    <2>5. Protocol!End(t)
      BY <1>2, <2>1, <2>2, <2>3, <2>4 DEF Protocol!End, Flags, Places
    <2>6. QED
      BY <2>1, <2>5 DEF Protocol!Next
  <1>5. CASE AssignWrite(client)
    <2>1. t \in Trips /\ req[client].user \in Supervisors
      BY <1>0, <1>5, RequestAt DEF AssignWrite, AssignRequest
    <2>2. /\ supervisor' = [supervisor EXCEPT ![t] = req[client].user]
          /\ UNCHANGED <<status, boardRows, alightRows>>
      BY <1>5 DEF AssignWrite, eventVars
    <2>3. Flags' = Flags
      <3>1. req[client].at = "assign.write"
        BY <1>5 DEF AssignWrite, At
      <3>2. QED
        BY <1>0, <3>1, FlagsStep DEF StartWrite, EndWrite, SetGps, Free, At
    <2>4. Protocol!Assign(t, req[client].user)
      BY <1>2, <2>1, <2>2, <2>3 DEF Protocol!Assign, Flags, Places
    <2>5. QED
      BY <2>1, <2>4 DEF Protocol!Next
  <1>6. CASE BoardCreate(client) \/ AlightCreate(client) \/ CollectedCreate(client)
    <2>1. PICK tt \in Trips, s \in Students : req[client].trip = tt /\ req[client].student = s
      BY <1>0, <1>6, RequestAt DEF BoardCreate, AlightCreate, CollectedCreate, EventRequest
    <2>2. /\ boardRows[tt][s] \in Nat /\ alightRows[tt][s] \in Nat
          /\ boardRows \in [Trips -> [Students -> Nat]]
          /\ alightRows \in [Trips -> [Students -> Nat]]
      BY <1>0 DEF TypeOK
    <2>3. \/ Place(tt, s) = "waiting" /\ Place(tt, s)' = "aboard"
          \/ Place(tt, s) = "aboard" /\ Place(tt, s)' = "off"
      <3>1. CASE BoardCreate(client)
        <4>1. boardRows[tt][s] = 0 /\ alightRows' = alightRows
          BY <1>0, <2>1, <3>1 DEF BoardCreate, SerialInv, NothingStale, At
        <4>2. alightRows[tt][s] = 0
          BY <1>0, <2>2, <4>1 DEF IInv, ExitAfterBoarding
        <4>3. boardRows'[tt][s] = 1
          BY <2>1, <2>2, <3>1, <4>1 DEF BoardCreate
        <4>4. QED
          BY <4>1, <4>2, <4>3 DEF Place
      <3>2. CASE AlightCreate(client) \/ CollectedCreate(client)
        <4>1. /\ alightRows[tt][s] = 0 /\ boardRows[tt][s] > 0
              /\ AddAlightRow(tt, s)
          BY <1>0, <2>1, <3>2
          DEF AlightCreate, CollectedCreate, SerialInv, NothingStale, At, IInv, ExitAfterBoarding
        <4>2. alightRows'[tt][s] = 1
          BY <2>2, <4>1 DEF AddAlightRow
        <4>3. QED
          BY <4>1, <4>2 DEF Place
      <3>3. QED
        BY <1>6, <3>1, <3>2
    <2>4. \A u \in Trips, x \in Students : u # tt \/ x # s => Place(u, x)' = Place(u, x)
      BY <1>0, <2>1, PlaceStep
    <2>5. Places' = [Places EXCEPT ![tt][s] = Place(tt, s)']
      BY <2>4 DEF Places
    <2>6. Places[tt][s] = Place(tt, s)
      BY DEF Places
    <2>7. UNCHANGED <<status, supervisor>>
      BY <1>6 DEF BoardCreate, AlightCreate, CollectedCreate, tripVars
    <2>8. Flags' = Flags
      <3>1. req[client].at \in {"board.create", "alight.create", "collect.create"}
        BY <1>6 DEF BoardCreate, AlightCreate, CollectedCreate, At
      <3>2. QED
        BY <1>0, <3>1, FlagsStep DEF StartWrite, EndWrite, SetGps, Free, At
    <2>9. Protocol!Move(tt, s, Place(tt, s), Place(tt, s)')
      BY <2>5, <2>6, <2>7, <2>8 DEF Protocol!Move, Flags, Places
    <2>10. Protocol!Move(tt, s, "waiting", "aboard") \/ Protocol!Move(tt, s, "aboard", "off")
      BY <2>3, <2>9
    <2>11. QED
      BY <2>10 DEF Protocol!Next
  <1>7. ASSUME ~(StartWrite(client) \/ EndWrite(client) \/ AssignWrite(client)),
               ~(BoardCreate(client) \/ AlightCreate(client) \/ CollectedCreate(client))
        PROVE  [Protocol!Next]_(Protocol!vars)
    <2>1. UNCHANGED <<status, supervisor>> /\ Places' = Places
      BY <1>0, <1>2, <1>7, Writers DEF Step
    <2>2. CASE Flags' = Flags
      BY <1>1, <2>1, <2>2 DEF Protocol!vars, Flags, Places
    <2>3. ASSUME NEW b \in Buses, NEW active \in BOOLEAN, Flags' = [Flags EXCEPT ![b] = active]
          PROVE  Protocol!Next
      <3>1. Protocol!SetGps(b, active)
        BY <2>1, <2>3 DEF Protocol!SetGps, Flags, Places
      <3>2. QED
        BY <3>1 DEF Protocol!Next
    <2>4. QED
      BY <1>0, <1>7, <2>2, <2>3, FlagsStep
  <1>8. QED
    BY <1>3, <1>4, <1>5, <1>6, <1>7

\* For a client that waits for each answer the handlers implement the atomic
\* protocol of TripProtocol: a trip starts once, an evening trip after a morning
\* trip, whoever was assigned stays assigned, and a trip ends with nobody aboard.
\* A bus update that fails looks like a call of PUT /buses/:id/gps-active.
THEOREM ProtocolRefined ==
  ASSUME NEW client, Workers = {client}
  PROVE  Spec => ProtocolSpec
  <1>1. Init => Protocol!Init
    <2> SUFFICES ASSUME Init PROVE Protocol!Init
      OBVIOUS
    <2>1. \A b \in Buses : GpsAfterAnswer(b) = FALSE
      BY GpsWhenSerial DEF Init, Idle
    <2>2. \A t \in Trips, s \in Students : Place(t, s) = "waiting"
      BY DEF Init, Place
    <2>3. QED
      BY <2>1, <2>2 DEF Init, Protocol!Init, User
  <1>2. SerialInv /\ SerialInv' /\ [Next]_vars => [Protocol!Next]_(Protocol!vars)
    <2> SUFFICES ASSUME SerialInv, SerialInv', [Next]_vars
                 PROVE  [Protocol!Next]_(Protocol!vars)
      OBVIOUS
    <2>1. CASE Next
      BY <2>1, ProtocolStep DEF Next, Step, SerialInv, IInv
    <2>2. CASE UNCHANGED vars
      BY <2>2 DEF vars, tripVars, busVars, eventVars, Protocol!vars, GpsAfterAnswer, At, Place
    <2>3. QED
      BY <2>1, <2>2
  <1>3. QED
    BY <1>1, <1>2, SerialInductive, PTL DEF Spec, ProtocolSpec, Protocol!Spec

-----------------------------------------------------------------------------
(* The flag of the bus, for any number of requests that overlap, fail, and  *)
(* set it by hand.                                                          *)

\* While an evening trip of the bus runs, its morning trips are over.
EveningLast(b) ==
  \A t \in Trips : BusOf[t] = b /\ status[t] = "active" /\ Shift[t] = "evening"
                     => \A m \in MorningTrips(t) : MorningDone(m)

\* What a start or an end that nothing overlaps has read is still so.
Fresh(w) ==
  LET t == req[w].trip IN
  /\ req[w].at \in {"start.morning", "start.write"} => status[t] = "scheduled"
  /\ req[w].at = "start.write" /\ Shift[t] = "evening" /\ MorningTrips(t) # {}
       => \E m \in MorningTrips(t) : MorningDone(m)
  /\ req[w].at \in {"end.read", "end.write"} => status[t] = "active"
  /\ req[w].at = "start.gps" => Driving(BusOf[t])
  /\ req[w].at = "end.gps" => ~Driving(BusOf[t])

\* Starts and ends of the bus have not overlapped since it was last at rest.
Clear(b) == ~Overlapping(b) /\ EveningLast(b) /\ \A w \in Serving(b) : Fresh(w)

\* No request is about to write the flag, and it is right.
Settled(b) ==
  (\A w \in Serving(b) : req[w].at \notin Setting) => (gpsActive[b] <=> Driving(b))

\* The history of a bus promises a clear bus, and a right flag if it is not in doubt.
GpsInv ==
  /\ crossed \subseteq doubtful
  /\ \A b \in Buses \ crossed :
       OneTripPerShift(b) => Clear(b) /\ (b \notin doubtful => Settled(b))

\* No two trips of a clear bus are active at a time.
LEMMA OneActive ==
  ASSUME NEW b, OneTripPerShift(b), EveningLast(b), NEW t \in Trips, NEW u \in Trips,
         BusOf[t] = b, BusOf[u] = b, status[t] = "active", status[u] = "active"
  PROVE  t = u
  <1>1. Shift[t] \in {"morning", "evening"} /\ Shift[u] \in {"morning", "evening"}
    BY TripAssumption
  <1>2. CASE Shift[t] = Shift[u]
    BY <1>2 DEF OneTripPerShift
  <1>3. CASE Shift[t] = "evening" /\ Shift[u] = "morning"
    BY <1>3 DEF EveningLast, MorningTrips, MorningDone
  <1>4. CASE Shift[u] = "evening" /\ Shift[t] = "morning"
    BY <1>4 DEF EveningLast, MorningTrips, MorningDone
  <1>5. QED
    BY <1>1, <1>2, <1>3, <1>4

\* A request that is about to write the flag of a clear bus writes what is right.
LEMMA FlagIsRight ==
  ASSUME TypeOK, NEW b \in Buses, Clear(b), Settled(b)
  PROVE  GpsAfterAnswer(b) <=> Driving(b)
  <1> DEFINE P == \E w \in Workers : req[w].at = "start.gps" /\ BusOf[req[w].trip] = b
             Q == \E w \in Workers : req[w].at = "end.gps" /\ BusOf[req[w].trip] = b
  <1>1. (P => Driving(b)) /\ (Q => ~Driving(b))
    BY DEF Clear, Fresh, Serving, Working, Setting
  <1>2. ~P /\ ~Q => (gpsActive[b] <=> Driving(b))
    BY DEF Settled, Serving, Setting
  <1>3. GpsAfterAnswer(b) = CASE P -> TRUE [] Q -> FALSE [] OTHER -> gpsActive[b]
    BY Zenon DEF GpsAfterAnswer, At
  <1>4. ~(P /\ Q)
    BY <1>1
  <1> HIDE DEF P, Q
  <1>5. /\ P => GpsAfterAnswer(b) = TRUE
        /\ Q => GpsAfterAnswer(b) = FALSE
        /\ ~P /\ ~Q => GpsAfterAnswer(b) = gpsActive[b]
    BY <1>3, <1>4, Zenon
  <1>6. QED
    BY <1>1, <1>2, <1>5

\* A step of w does not make another request start or end serving the bus.
LEMMA ServingStep ==
  ASSUME TypeOK, NEW w \in Workers, Step(w), NEW b, NEW v \in Workers \ {w}
  PROVE  req'[v] = req[v] /\ (v \in Serving(b)' <=> v \in Serving(b))
  <1>1. req'[v] = req[v]
    BY OthersUntouched DEF Step, TypeOK
  <1>2. QED
    BY <1>1 DEF Serving

\* Statuses of the bus that do not change change nothing that is said of them.
LEMMA SameTrips ==
  ASSUME NEW b, \A t \in Trips : BusOf[t] = b => status'[t] = status[t]
  PROVE  (EveningLast(b)' <=> EveningLast(b)) /\ (Driving(b)' <=> Driving(b))
  BY DEF EveningLast, Driving, MorningTrips, MorningDone

\* A request that neither serves the bus nor touches its trips leaves it clear.
LEMMA Bystander ==
  ASSUME TypeOK, NEW w \in Workers, Step(w), NEW b \in Buses, Clear(b),
         w \notin Serving(b), w \notin Serving(b)',
         \A t \in Trips : BusOf[t] = b => status'[t] = status[t]
  PROVE  Clear(b)' /\ (Settled(b) /\ gpsActive'[b] = gpsActive[b] => Settled(b)')
  <1>1. \A v \in Workers : v \in Serving(b)' <=> v \in Serving(b)
    BY ServingStep
  <1>2. Serving(b)' = Serving(b)
    BY <1>1 DEF Serving
  <1>3. \A v \in Serving(b) : req'[v] = req[v]
    BY ServingStep DEF Serving
  <1>4. (EveningLast(b)' <=> EveningLast(b)) /\ (Driving(b)' <=> Driving(b))
    BY SameTrips
  <1>5. ASSUME NEW v \in Serving(b) PROVE Fresh(v)'
    <2>1. req'[v] = req[v] /\ BusOf[req[v].trip] = b /\ Fresh(v)
      BY <1>3, <1>5 DEF Clear, Serving
    <2>2. req[v].trip \in Trips
      BY <1>5, RequestAt DEF Serving, Working, Setting, At, StartRequest, TripRequest, EndRequest
    <2>3. \A m \in MorningTrips(req[v].trip) : status'[m] = status[m]
      BY <2>1 DEF MorningTrips
    <2>4. QED
      BY <1>4, <2>1, <2>2, <2>3 DEF Fresh, MorningDone, MorningTrips
  <1>6. ~Overlapping(b)'
    BY <1>2 DEF Clear, Overlapping
  <1>7. QED
    BY <1>2, <1>3, <1>4, <1>5, <1>6 DEF Clear, Settled

\* On a bus where nothing overlaps, a request that starts, goes on or stops serving
\* it is the only one.
LEMMA SoleServer ==
  ASSUME TypeOK, NEW w \in Workers, Step(w), NEW b \in Buses, Clear(b), ~Overlapping(b)',
         w \in Serving(b) \/ w \in Serving(b)'
  PROVE  /\ EveningLast(b)' /\ (w \in Serving(b)' => Fresh(w)') => Clear(b)'
         /\ (w \in Serving(b)' /\ req'[w].at \in Setting) \/ (gpsActive'[b] <=> Driving(b)')
              => Settled(b)'
         /\ Settled(b) /\ (w \in Serving(b) => req[w].at \notin Setting)
              => (gpsActive[b] <=> Driving(b))
  <1>1. \A v \in Serving(b) \cup Serving(b)' : v = w
    <2> SUFFICES ASSUME NEW v \in Serving(b) \cup Serving(b)', v # w PROVE FALSE
      OBVIOUS
    <2>1. v \in Serving(b) /\ v \in Serving(b)'
      BY ServingStep DEF Serving
    <2>2. QED
      BY <2>1 DEF Clear, Overlapping
  <1>2. QED
    BY <1>1 DEF Clear, Settled

\* The later statements that have to do with a start or an end.
LEMMA ContinueWork ==
  ASSUME TypeOK, NEW w \in Workers, Continue(w)
  PROVE  \/ StartMorning(w) \/ StartWrite(w) \/ StartGps(w)
         \/ EndRead(w) \/ EndWrite(w) \/ EndGps(w)
         \/ /\ req[w].at \notin Working /\ req'[w].at \notin Working
            /\ status' = status /\ gpsActive' = gpsActive
  <1> DEFINE Aside == /\ req[w].at \notin Working /\ req'[w].at \notin Working
                      /\ status' = status /\ gpsActive' = gpsActive
  <1> USE DEF Goto, GotoEvent, Answer, Idle, At, busVars, tripVars, Working, Setting
  <1>1. CollectedFind(w) => Aside
    BY DEF CollectedFind, TypeOK
  <1>2. AlightCheck(w) \/ CollectedCheck(w) => Aside
    BY DEF AlightCheck, CollectedCheck, TypeOK
  <1>3. AssignWrite(w) \/ BoardCreate(w) \/ AlightCreate(w) \/ NotCollectedCreate(w)
          \/ CollectedCreate(w) \/ CollectedResolve(w) => Aside
    BY DEF AssignWrite, BoardCreate, AlightCreate, NotCollectedCreate, CollectedCreate,
           CollectedResolve, TypeOK
  <1> HIDE DEF Aside
  <1>4. QED
    BY <1>1, <1>2, <1>3, Zenon DEF Continue, Aside

\* The first statements that have to do with a start, an end or the flag.
LEMMA ArriveWork ==
  ASSUME TypeOK, NEW w \in Workers, Arrive(w)
  PROVE  \/ \E t \in Trips, u \in Supervisors : Start(w, t, u)
         \/ \E t \in Trips : End(w, t)
         \/ /\ req[w].at \notin Working /\ req'[w].at \notin Working
            /\ status' = status
  <1> DEFINE Aside == /\ req[w].at \notin Working /\ req'[w].at \notin Working
                      /\ status' = status
  <1> USE DEF Goto, GotoEvent, Idle, Free, tripVars, Working, Setting
  <1>1. ASSUME NEW t \in Trips, NEW u \in Supervisors, Assign(w, t, u) PROVE Aside
    BY <1>1 DEF TypeOK, Assign
  <1>2. ASSUME NEW t \in Trips, NEW s \in Students,
               \/ Board(w, t, s) \/ ManualBoard(w, t, s) \/ Alight(w, t, s)
               \/ NotCollected(w, t, s) \/ Collected(w, t, s)
        PROVE  Aside
    BY <1>2 DEF TypeOK, Board, ManualBoard, Alight, NotCollected, Collected
  <1>3. ASSUME NEW c \in Buses, NEW active \in BOOLEAN, SetGps(w, c, active) PROVE Aside
    BY <1>3 DEF SetGps
  <1>4. ASSUME NEW c \in Buses, NEW u \in User, EditBus(w, c, u) PROVE Aside
    BY <1>4 DEF EditBus
  <1> HIDE DEF Aside
  <1>5. QED
    BY <1>1, <1>2, <1>3, <1>4, Zenon DEF Arrive, Aside

\* A new request leaves a clear bus clear, unless it overlaps another; the flag
\* stays right unless it is the one to change it.
LEMMA ClearArrive ==
  ASSUME TypeOK, NEW w \in Workers, Arrive(w), NEW b \in Buses, Clear(b), ~Overlapping(b)'
  PROVE  Clear(b)' /\ (Settled(b) /\ gpsActive'[b] = gpsActive[b] => Settled(b)')
  <1>1. Step(w) /\ w \notin Serving(b) /\ status' = status
    <2>1. Free(w)
      BY DEF Arrive, Assign, Start, Board, ManualBoard, Alight, NotCollected, Collected, End,
             SetGps, EditBus
    <2>2. QED
      BY <2>1, Writers DEF Step, Free, Serving, Working, Setting, StartWrite, EndWrite, At
  <1>2. CASE w \notin Serving(b)'
    BY <1>1, <1>2, Bystander
  <1>3. CASE w \in Serving(b)'
    <2>1. req'[w].at \in Working
      BY <1>3 DEF Serving
    <2>2. req'[w].at \notin Setting /\ Fresh(w)'
      <3>1. ASSUME NEW t \in Trips, NEW u \in Supervisors, Start(w, t, u)
            PROVE  req'[w].at \notin Setting /\ Fresh(w)'
        <4>1. /\ status[t] = "scheduled" /\ req'[w].trip = t
              /\ req'[w].at = IF Shift[t] = "evening" THEN "start.morning" ELSE "start.write"
          BY <3>1 DEF Start, Goto, TypeOK
        <4>2. QED
          BY <1>1, <4>1 DEF Fresh, Setting
      <3>2. ASSUME NEW t \in Trips, End(w, t)
            PROVE  req'[w].at \notin Setting /\ Fresh(w)'
        <4>1. status[t] = "active" /\ req'[w].trip = t /\ req'[w].at = "end.read"
          BY <3>2 DEF End, Goto, TypeOK
        <4>2. QED
          BY <1>1, <4>1 DEF Fresh, Setting
      <3>3. QED
        BY <2>1, <3>1, <3>2, ArriveWork
    <2>3. (EveningLast(b)' <=> EveningLast(b)) /\ (Driving(b)' <=> Driving(b)) /\ EveningLast(b)
      BY <1>1, SameTrips DEF Clear
    <2>4. Clear(b)'
      BY <1>1, <1>3, <2>2, <2>3, SoleServer
    <2>5. Settled(b) => (gpsActive[b] <=> Driving(b))
      BY <1>1, <1>3, SoleServer
    <2>6. (gpsActive'[b] <=> Driving(b)') => Settled(b)'
      BY <1>1, <1>3, SoleServer
    <2>7. QED
      BY <2>3, <2>4, <2>5, <2>6
  <1>4. QED
    BY <1>2, <1>3

\* A request that fails leaves a clear bus clear, and its flag right unless it was
\* about to write it.
LEMMA ClearFail ==
  ASSUME TypeOK, NEW w \in Workers, Fail(w), NEW b \in Buses, Clear(b), ~Overlapping(b)'
  PROVE  Clear(b)' /\ (Settled(b) /\ b \notin SetNext(w) => Settled(b)')
  <1>1. Step(w) /\ status' = status /\ gpsActive' = gpsActive /\ w \notin Serving(b)'
    BY DEF Step, Fail, tripVars, busVars, Answer, Goto, Idle, TypeOK, Serving, Working, Setting
  <1>2. CASE w \notin Serving(b)
    BY <1>1, <1>2, Bystander
  <1>3. CASE w \in Serving(b)
    <2>1. (EveningLast(b)' <=> EveningLast(b)) /\ (Driving(b)' <=> Driving(b)) /\ EveningLast(b)
      BY <1>1, SameTrips DEF Clear
    <2>2. Clear(b)'
      BY <1>1, <1>3, <2>1, SoleServer
    <2>3. Settled(b) /\ req[w].at \notin Setting => (gpsActive[b] <=> Driving(b))
      BY <1>1, <1>3, SoleServer
    <2>4. (gpsActive'[b] <=> Driving(b)') => Settled(b)'
      BY <1>1, <1>3, SoleServer
    <2>5. req[w].at \in Setting => b \in SetNext(w)
      BY <1>3 DEF SetNext, Serving
    <2>6. QED
      BY <1>1, <2>1, <2>2, <2>3, <2>4, <2>5
  <1>4. QED
    BY <1>2, <1>3

\* The start of a trip of a clear bus: its morning trips are over.
LEMMA ClearStart ==
  ASSUME TypeOK, NEW w \in Workers, StartWrite(w), NEW b \in Buses, OneTripPerShift(b),
         Clear(b), ~Overlapping(b)', w \in Serving(b)
  PROVE  Clear(b)' /\ Settled(b)'
  <1> DEFINE t == req[w].trip
  <1>1. Step(w) /\ status \in [Trips -> Statuses]
    BY DEF Step, Continue, TypeOK
  <1>2. t \in Trips /\ BusOf[t] = b /\ req[w].at = "start.write"
    BY RequestAt DEF StartWrite, StartRequest, Serving, At
  <1>3. /\ status[t] = "scheduled"
        /\ Shift[t] = "evening" /\ MorningTrips(t) # {} => \E m \in MorningTrips(t) : MorningDone(m)
    BY <1>2 DEF Clear, Fresh
  <1>4. /\ status' = [status EXCEPT ![t] = "active"]
        /\ req'[w] = [at |-> "start.gps", trip |-> t]
    BY DEF StartWrite, Goto, TypeOK
  <1>5. Driving(b)'
    BY <1>1, <1>2, <1>4 DEF Driving
  <1>6. w \in Serving(b)' /\ req'[w].at \in Setting /\ Fresh(w)'
    BY <1>2, <1>4, <1>5 DEF Serving, Working, Setting, Fresh
  <1>7. EveningLast(b)'
    <2> SUFFICES ASSUME NEW u \in Trips, BusOf[u] = b, status'[u] = "active",
                        Shift[u] = "evening", NEW m \in MorningTrips(u)
                 PROVE  status'[m] \in {"completed", "cancelled"}
      BY DEF EveningLast, MorningTrips, MorningDone
    <2>1. m \in Trips /\ BusOf[m] = b /\ Shift[m] = "morning"
      BY DEF MorningTrips
    <2>2. CASE u = t
      <3>1. PICK n \in MorningTrips(t) : MorningDone(n)
        BY <1>3, <2>2
      <3>2. n = m
        BY <1>2, <2>1, <3>1 DEF OneTripPerShift, MorningTrips
      <3>3. QED
        BY <1>1, <1>3, <1>4, <3>1, <3>2 DEF MorningDone
    <2>3. CASE u # t
      <3>1. status[u] = "active"
        BY <1>1, <1>4, <2>3
      <3>2. MorningDone(m)
        BY <3>1 DEF Clear, EveningLast
      <3>3. QED
        BY <1>1, <1>3, <1>4, <2>1, <3>2 DEF MorningDone
    <2>4. QED
      BY <2>2, <2>3
  <1>8. QED
    BY <1>1, <1>6, <1>7, SoleServer

\* The end of a trip of a clear bus: no other trip of the bus is active.
LEMMA ClearEnd ==
  ASSUME TypeOK, NEW w \in Workers, EndWrite(w), NEW b \in Buses, OneTripPerShift(b),
         Clear(b), ~Overlapping(b)', w \in Serving(b)
  PROVE  Clear(b)' /\ Settled(b)'
  <1> DEFINE t == req[w].trip
  <1>1. Step(w) /\ status \in [Trips -> Statuses]
    BY DEF Step, Continue, TypeOK
  <1>2. t \in Trips /\ BusOf[t] = b /\ req[w].at = "end.write"
    BY RequestAt DEF EndWrite, EndRequest, Serving, At
  <1>3. status[t] = "active" /\ EveningLast(b)
    BY <1>2 DEF Clear, Fresh
  <1>4. /\ status' = [status EXCEPT ![t] = "completed"]
        /\ req'[w] = [at |-> "end.gps", trip |-> t]
    BY DEF EndWrite, Goto, TypeOK
  <1>5. \A u \in Trips : BusOf[u] = b => status'[u] # "active"
    BY <1>1, <1>2, <1>3, <1>4, OneActive
  <1>6. ~Driving(b)' /\ EveningLast(b)'
    BY <1>5 DEF Driving, EveningLast
  <1>7. w \in Serving(b)' /\ req'[w].at \in Setting /\ Fresh(w)'
    BY <1>2, <1>4, <1>6 DEF Serving, Working, Setting, Fresh
  <1>8. QED
    BY <1>1, <1>6, <1>7, SoleServer

\* The last statement of a start or an end writes what the trips of the bus say.
LEMMA ClearFlag ==
  ASSUME TypeOK, NEW w \in Workers, StartGps(w) \/ EndGps(w), NEW b \in Buses,
         Clear(b), ~Overlapping(b)', w \in Serving(b)
  PROVE  Clear(b)' /\ Settled(b)'
  <1>1. Step(w) /\ status' = status /\ w \notin Serving(b)'
    BY DEF Step, Continue, StartGps, EndGps, tripVars, Answer, Goto, Idle, TypeOK, Serving,
           Working, Setting
  <1>2. (EveningLast(b)' <=> EveningLast(b)) /\ (Driving(b)' <=> Driving(b)) /\ EveningLast(b)
    BY <1>1, SameTrips DEF Clear
  <1>3. BusOf[req[w].trip] = b /\ Fresh(w)
    BY DEF Clear, Serving
  <1>4. gpsActive'[b] <=> Driving(b)
    <2>1. CASE StartGps(w)
      <3>1. Driving(b)
        BY <1>3, <2>1 DEF StartGps, At, Fresh
      <3>2. gpsActive'[b] = TRUE
        BY <1>3, <2>1 DEF StartGps, TypeOK
      <3>3. QED
        BY <3>1, <3>2
    <2>2. CASE EndGps(w)
      <3>1. ~Driving(b)
        BY <1>3, <2>2 DEF EndGps, At, Fresh
      <3>2. gpsActive'[b] = FALSE
        BY <1>3, <2>2 DEF EndGps, TypeOK
      <3>3. QED
        BY <3>1, <3>2
    <2>3. QED
      BY <2>1, <2>2
  <1>5. Clear(b)'
    BY <1>1, <1>2, SoleServer
  <1>6. (gpsActive'[b] <=> Driving(b)') => Settled(b)'
    BY <1>1, SoleServer
  <1>7. QED
    BY <1>2, <1>4, <1>5, <1>6

\* The reads of a start or an end of a clear bus.
LEMMA ClearRead ==
  ASSUME TypeOK, NEW w \in Workers, StartMorning(w) \/ EndRead(w), NEW b \in Buses,
         Clear(b), ~Overlapping(b)', w \in Serving(b)
  PROVE  Clear(b)' /\ (Settled(b) => Settled(b)')
  <1>1. Step(w) /\ status' = status /\ gpsActive' = gpsActive
    BY DEF Step, Continue, StartMorning, EndRead, tripVars, busVars
  <1>2. (EveningLast(b)' <=> EveningLast(b)) /\ (Driving(b)' <=> Driving(b)) /\ EveningLast(b)
    BY <1>1, SameTrips DEF Clear
  <1>3. Fresh(w)
    BY DEF Clear
  <1>4. req[w].at \notin Setting /\ (w \in Serving(b)' => Fresh(w)')
    <2>1. CASE StartMorning(w)
      <3>1. req[w] \in StartRequest /\ req[w].at = "start.morning" /\ status[req[w].trip] = "scheduled"
        BY <1>3, <2>1, RequestAt DEF StartMorning, At, Fresh
      <3>2. \/ req'[w] = Idle
            \/ /\ req'[w] = [req[w] EXCEPT !.at = "start.write"]
               /\ \/ MorningTrips(req[w].trip) = {}
                  \/ \E m \in MorningTrips(req[w].trip) : MorningDone(m)
        BY <2>1 DEF StartMorning, Goto, Answer, TypeOK
      <3>3. CASE req'[w] = Idle
        BY <3>1, <3>3 DEF Serving, Working, Setting, Idle
      <3>4. CASE req'[w] = [req[w] EXCEPT !.at = "start.write"]
        <4>1. req'[w].at = "start.write" /\ req'[w].trip = req[w].trip
          BY <3>1, <3>4 DEF StartRequest
        <4>2. \/ MorningTrips(req[w].trip) = {}
              \/ \E m \in MorningTrips(req[w].trip) : MorningDone(m)
          BY <3>2, <4>1 DEF Idle
        <4>3. QED
          BY <1>1, <3>1, <4>1, <4>2 DEF Fresh, Setting, MorningDone, MorningTrips
      <3>5. QED
        BY <3>2, <3>3, <3>4
    <2>2. CASE EndRead(w)
      <3>1. req[w].at = "end.read" /\ status[req[w].trip] = "active"
        BY <1>3, <2>2 DEF EndRead, At, Fresh
      <3>2. \/ req'[w] = Idle
            \/ req'[w].at = "end.write" /\ req'[w].trip = req[w].trip
        BY <2>2 DEF EndRead, Goto, Answer, TypeOK
      <3>3. QED
        BY <1>1, <3>1, <3>2 DEF Fresh, Setting, Serving, Working, Idle
    <2>3. QED
      BY <2>1, <2>2
  <1>5. Clear(b)'
    BY <1>1, <1>2, <1>4, SoleServer
  <1>6. Settled(b) => (gpsActive[b] <=> Driving(b))
    BY <1>1, <1>4, SoleServer
  <1>7. (gpsActive'[b] <=> Driving(b)') => Settled(b)'
    BY <1>1, SoleServer
  <1>8. QED
    BY <1>1, <1>2, <1>5, <1>6, <1>7

\* A later statement leaves a clear bus clear and keeps its flag right; the one
\* that writes the flag puts it right.
LEMMA ClearContinue ==
  ASSUME TypeOK, NEW w \in Workers, Continue(w), NEW b \in Buses, OneTripPerShift(b),
         Clear(b), ~Overlapping(b)'
  PROVE  Clear(b)' /\ (Settled(b) \/ b \in SetNext(w) => Settled(b)')
  <1>1. Step(w)
    BY DEF Step
  <1>2. CASE w \in Serving(b)
    <2>1. req[w].at \in Working /\ (req[w].at \notin Setting => b \notin SetNext(w))
      BY <1>2 DEF Serving, SetNext
    <2>2. ASSUME StartMorning(w) \/ EndRead(w) PROVE b \notin SetNext(w)
      BY <2>1, <2>2 DEF StartMorning, EndRead, At, Setting
    <2>3. QED
      BY <1>2, <2>1, <2>2, ContinueWork, ClearRead, ClearStart, ClearEnd, ClearFlag
  <1>3. CASE w \notin Serving(b)
    <2>1. /\ w \notin Serving(b)' /\ b \notin SetNext(w) /\ gpsActive'[b] = gpsActive[b]
          /\ \A t \in Trips : BusOf[t] = b => status'[t] = status[t]
      <3> DEFINE r == req[w]
      <3>1. b \notin SetNext(w)
        BY <1>3 DEF SetNext, Serving, Working
      <3>2. CASE StartMorning(w)
        <4>1. /\ r \in StartRequest /\ r.at \in Working /\ status' = status /\ gpsActive' = gpsActive
              /\ req'[w] = Idle \/ req'[w] = [r EXCEPT !.at = "start.write"]
          BY <3>2, RequestAt DEF StartMorning, At, Working, tripVars, busVars, Goto, Answer, TypeOK
        <4>2. req'[w].at = "idle" \/ req'[w].trip = r.trip
          BY <4>1 DEF Idle, StartRequest
        <4>3. QED
          BY <1>3, <3>1, <4>1, <4>2 DEF Serving, Working, Setting
      <3>3. CASE StartWrite(w) \/ EndWrite(w)
        <4>1. /\ r.trip \in Trips /\ r.at \in Working /\ req'[w].trip = r.trip /\ gpsActive' = gpsActive
              /\ \E x \in {"active", "completed"} : status' = [status EXCEPT ![r.trip] = x]
          BY <3>3, RequestAt DEF StartWrite, EndWrite, At, Working, StartRequest, EndRequest,
                                 busVars, Goto, TypeOK
        <4>2. BusOf[r.trip] # b
          BY <1>3, <4>1 DEF Serving
        <4>3. \A t \in Trips : BusOf[t] = b => status'[t] = status[t]
          BY <4>1, <4>2 DEF TypeOK
        <4>4. QED
          BY <3>1, <4>1, <4>2, <4>3 DEF Serving
      <3>4. CASE StartGps(w) \/ EndGps(w)
        <4>1. r.at \in Working /\ req'[w].at = "idle" /\ status' = status
          BY <3>4 DEF StartGps, EndGps, At, Working, Setting, tripVars, Goto, Answer, Idle, TypeOK
        <4>2. BusOf[r.trip] # b
          BY <1>3, <4>1 DEF Serving
        <4>3. \/ gpsActive' = [gpsActive EXCEPT ![BusOf[r.trip]] = TRUE]
              \/ gpsActive' = [gpsActive EXCEPT ![BusOf[r.trip]] = FALSE]
          BY <3>4 DEF StartGps, EndGps
        <4>4. gpsActive'[b] = gpsActive[b]
          BY <4>2, <4>3 DEF TypeOK
        <4>5. QED
          BY <3>1, <4>1, <4>4 DEF Serving, Working, Setting
      <3>5. CASE EndRead(w)
        <4>1. /\ r.at \in Working /\ status' = status /\ gpsActive' = gpsActive
              /\ req'[w].at = "idle" \/ req'[w].trip = r.trip
          BY <3>5 DEF EndRead, At, Working, tripVars, busVars, Goto, Answer, Idle, TypeOK
        <4>2. QED
          BY <1>3, <3>1, <4>1 DEF Serving, Working, Setting
      <3>6. CASE /\ r.at \notin Working /\ req'[w].at \notin Working
                 /\ status' = status /\ gpsActive' = gpsActive
        BY <3>1, <3>6 DEF Serving
      <3>7. QED
        BY <3>2, <3>3, <3>4, <3>5, <3>6, ContinueWork
    <2>2. QED
      BY <1>1, <1>3, <2>1, Bystander
  <1>4. QED
    BY <1>2, <1>3

\* Every step keeps what the history of the buses promises.
LEMMA GpsInvStep ==
  ASSUME TypeOK, GpsInv, GpsNext
  PROVE  GpsInv'
  <1>1. PICK w \in Workers :
          \/ Continue(w) /\ Remember({}, SetNext(w))
          \/ Fail(w)     /\ Remember(SetNext(w), {})
          \/ Arrive(w)   /\ Remember({b \in Buses : gpsActive'[b] # gpsActive[b]}, {})
    BY DEF GpsNext
  <1>2. \E upset, written : Remember(upset, written)
    BY <1>1
  <1>3. crossed' \subseteq doubtful'
    BY <1>2 DEF Remember
  <1>4. ASSUME NEW b \in Buses \ crossed', OneTripPerShift(b)
        PROVE  Clear(b)' /\ (b \notin doubtful' => Settled(b)')
    <2>1. ~Overlapping(b)' /\ (b \in crossed => AtRest(b)')
      BY <1>2, <1>4 DEF Remember
    <2>2. CASE b \in crossed
      <3>1. Serving(b)' = {} /\ ~Driving(b)' /\ b \in doubtful
        BY <2>1, <2>2 DEF AtRest, GpsInv
      <3>2. b \in doubtful'
        BY <1>2, <2>2, <3>1 DEF Remember
      <3>3. EveningLast(b)'
        BY <3>1 DEF EveningLast, Driving
      <3>4. QED
        BY <2>1, <3>1, <3>2, <3>3 DEF Clear
    <2>3. CASE b \notin crossed
      <3>1. Clear(b) /\ (b \notin doubtful => Settled(b))
        BY <1>4, <2>3 DEF GpsInv
      <3>2. CASE Continue(w) /\ Remember({}, SetNext(w))
        <4>1. b \notin doubtful' => b \notin doubtful \/ b \in SetNext(w)
          BY <2>3, <3>2 DEF Remember
        <4>2. QED
          BY <1>4, <2>1, <3>1, <3>2, <4>1, ClearContinue
      <3>3. CASE Fail(w) /\ Remember(SetNext(w), {})
        <4>1. b \notin doubtful' => b \notin doubtful /\ b \notin SetNext(w)
          BY <3>3 DEF Remember
        <4>2. QED
          BY <2>1, <3>1, <3>3, <4>1, ClearFail
      <3>4. CASE Arrive(w) /\ Remember({c \in Buses : gpsActive'[c] # gpsActive[c]}, {})
        <4>1. b \notin doubtful' => b \notin doubtful /\ gpsActive'[b] = gpsActive[b]
          BY <1>4, <3>4 DEF Remember
        <4>2. QED
          BY <2>1, <3>1, <3>4, <4>1, ClearArrive
      <3>5. QED
        BY <1>1, <3>2, <3>3, <3>4
    <2>4. QED
      BY <2>2, <2>3
  <1>5. QED
    BY <1>3, <1>4 DEF GpsInv, OneTripPerShift

\* The history adds to the handlers and takes nothing away: every behaviour that
\* GpsSpec allows is one of Spec.
LEMMA HistoryAdds == GpsSpec => Spec
  <1>1. GpsInit => Init
    BY DEF GpsInit
  <1>2. [GpsNext]_gpsVars => [Next]_vars
    BY DEF GpsNext, Next, gpsVars
  <1>3. QED
    BY <1>1, <1>2, PTL DEF GpsSpec, Spec

\* However many starts and ends overlap and fail, and whoever sets the flag by
\* hand: the flag that the map and the ETA read says whether a trip of the bus is
\* active from any answered start or end of the bus that no other one overlaps,
\* until the next disturbance.  (A bus with two trips in one shift is left out:
\* the end of the first clears the flag that the second one set.)
THEOREM GpsFlagRight == GpsSpec => []GpsFollowsTrips
  <1>1. GpsInit => GpsInv
    <2> SUFFICES ASSUME GpsInit, NEW b \in Buses PROVE Clear(b) /\ Settled(b)
      BY DEF GpsInv, GpsInit
    <2>1. Serving(b) = {}
      BY DEF GpsInit, Init, Serving, Idle, Working, Setting
    <2>2. ~Driving(b) /\ gpsActive[b] = FALSE
      BY DEF GpsInit, Init, Driving
    <2>3. EveningLast(b)
      BY <2>2 DEF EveningLast, Driving
    <2>4. QED
      BY <2>1, <2>2, <2>3 DEF GpsInit, Clear, Settled, Overlapping
  <1>2. TypeOK /\ GpsInv /\ [GpsNext]_gpsVars => GpsInv'
    <2> SUFFICES ASSUME TypeOK, GpsInv, [GpsNext]_gpsVars PROVE GpsInv'
      OBVIOUS
    <2>1. CASE GpsNext
      BY <2>1, GpsInvStep
    <2>2. CASE UNCHANGED gpsVars
      BY <2>2 DEF gpsVars, vars, tripVars, busVars, GpsInv, OneTripPerShift, Clear, Settled,
                  Overlapping, Serving, Driving, EveningLast, Fresh, MorningTrips, MorningDone
    <2>3. QED
      BY <2>1, <2>2
  <1>3. TypeOK /\ GpsInv => GpsFollowsTrips
    BY FlagIsRight DEF GpsInv, GpsFollowsTrips
  <1>4. QED
    BY <1>1, <1>2, <1>3, HistoryAdds, TypeCorrect, PTL DEF GpsSpec
=============================================================================
