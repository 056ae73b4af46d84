-------------------------- MODULE EscalationProofs --------------------------
(***************************************************************************)
(* Proofs about Escalation for any number of trips, students, phones and   *)
(* concurrent requests, and for any deadline: the bound on the open alerts *)
(* of a trip, the report behind every waiting screen, and the exit behind  *)
(* every alert that a phone resolves.  What a step of the server does to   *)
(* the tables is known from TripProofs; what is new here is which request  *)
(* serves which call of a phone.                                           *)
(***************************************************************************)
EXTENDS Escalation, TripProofs

\* Everybody boarded before the protocol begins, and no board row is deleted.
AllBoarded == \A t \in Trips, s \in Students : boardRows[t][s] > 0

\* Which statement a request that serves a call of the phone may stand at, and
\* what the table has by then.
Serves(w, c) ==
  /\ c.kind = "confirm" => req[w].at \in {"alight.check", "alight.create"}
  /\ c.kind \in {"reject", "escalate"}
       => req[w].at = "escalate.create" /\ req[w].trip = c.trip
  /\ c.kind = "collect"
       => \/ /\ req[w].at \in {"collect.check", "collect.create"}
             /\ req[w].trip = c.trip /\ req[w].student = c.student
          \/ /\ req[w].at \in {"collect.find", "collect.resolve"}
             /\ alightRows[c.trip][c.student] > 0

CallsInFlight == \A w \in Workers : Serves(w, caller[w])

EscInv ==
  /\ EscTypeOK /\ ResolvesAnAlert
  /\ AllBoarded /\ CallsInFlight
  /\ \A t \in Trips : IsFiniteSet(OpenAlerts(t))
  /\ OpenAlertsBounded /\ WaitingIsReported

-----------------------------------------------------------------------------
(* What a step does to the server.                                          *)

\* A request's first statement as the phone or the ops room causes it.
Sent(w) ==
  \E t \in Trips, s \in Students : Alight(w, t, s) \/ NotCollected(w, t, s) \/ Collected(w, t, s)

\* The ops room's two buttons.
OpsRoom == \E a \in AlertIds : Acknowledge(a) \/ Resolve(a)

\* Every step is one of a request, as module Trip has it, or of the ops room, or
\* of a phone alone.
LEMMA TripPart ==
  ASSUME EscTypeOK, EscNext
  PROVE  (\E w \in Workers : Step(w)) \/ OpsRoom \/ UNCHANGED vars
<1>1. ASSUME NEW t \in Trips, Phone(t) PROVE (\E w \in Workers : Step(w)) \/ UNCHANGED vars
  <2>1. CASE Back(t) \/ Tick(t) \/ \E s \in Students : OpenVerify(t, s)
    BY <2>1 DEF Back, Tick, OpenVerify
  <2>2. ASSUME NEW w \in Workers, Escalate(w, t) PROVE Step(w) \/ UNCHANGED vars
    <3>1. phone[t].student \in Students
      BY <2>2 DEF Escalate, EscTypeOK, Screens, Shows, Scan, Verify
    <3> QED BY <2>2, <3>1 DEF Escalate, AlreadyOpen, Step, Arrive
  <2>3. ASSUME NEW w \in Workers, NEW s \in Students,
               Confirm(w, t, s) \/ Reject(w, t, s) \/ Collect(w, t, s)
        PROVE  Step(w) \/ UNCHANGED vars
    BY <2>3 DEF Confirm, Reject, Collect, AlreadyOpen, Step, Arrive
  <2> QED BY <1>1, <2>1, <2>2, <2>3 DEF Phone
<1>2. ASSUME NEW w \in Workers,
             \/ Serve(w) \/ ServeError(w)
             \/ \E t \in Trips, s \in Students : CollectElsewhere(w, t, s)
      PROVE  Step(w)
  BY <1>2 DEF Serve, ServeError, CollectElsewhere, Step, Arrive
<1> QED BY <1>1, <1>2 DEF EscNext, OpsRoom

\* The statements of module Trip and the ops room keep the types of the tables, and
\* they delete no alert and no exit.
LEMMA TablesStep ==
  ASSUME EscTypeOK, ResolvesAnAlert, AllBoarded, EscNext
  PROVE  /\ TypeOK' /\ ResolvesAnAlert' /\ AllBoarded'
         /\ \A t \in Trips, s \in Students : alightRows[t][s] > 0 => alightRows'[t][s] > 0
         /\ \A a \in AlertIds : alerts[a] # NoAlert
              => alerts'[a] # NoAlert /\ alerts'[a].trip = alerts[a].trip
<1>0. TypeOK
  BY DEF EscTypeOK
<1>1. ASSUME NEW w \in Workers, Step(w)
      PROVE  /\ TypeOK' /\ ResolvesAnAlert' /\ AllBoarded'
             /\ \A t \in Trips, s \in Students : alightRows[t][s] > 0 => alightRows'[t][s] > 0
             /\ \A a \in AlertIds : alerts[a] # NoAlert
                  => alerts'[a] # NoAlert /\ alerts'[a].trip = alerts[a].trip
  <2>1. TypeOK' /\ ResolvesAnAlert'
    BY <1>0, <1>1, StepType, ResolvesAnAlertStep
  <2>2. AllBoarded'
    <3>1. CASE BoardCreate(w)
      BY <1>0, <3>1 DEF BoardCreate, AllBoarded, TypeOK
    <3> QED BY <1>1, <3>1, Writers DEF Step, AllBoarded
  <2>3. \A t \in Trips, s \in Students : alightRows[t][s] > 0 => alightRows'[t][s] > 0
    <3>1. CASE AlightCreate(w) \/ CollectedCreate(w)
      <4>1. /\ req[w].trip \in Trips /\ req[w].student \in Students
            /\ AddAlightRow(req[w].trip, req[w].student)
        BY <1>0, <3>1, RequestAt DEF AlightCreate, CollectedCreate, EventRequest
      <4> QED BY <1>0, <4>1, AddAlightRowType DEF TypeOK
    <3> QED BY <1>1, <3>1, Writers DEF Step
  <2>4. \A a \in AlertIds : alerts[a] # NoAlert
          => alerts'[a] # NoAlert /\ alerts'[a].trip = alerts[a].trip
    <3>1. CASE NotCollectedCreate(w)
      BY <1>0, <3>1 DEF NotCollectedCreate, UnusedAlerts, TypeOK
    <3>2. CASE CollectedResolve(w)
      BY <1>0, <3>2 DEF CollectedResolve, TypeOK, NoAlert, AlertRow
    <3> QED BY <1>1, <3>1, <3>2, Writers DEF Step
  <2> QED BY <2>1, <2>2, <2>3, <2>4
<1>2. ASSUME NEW a \in AlertIds, Acknowledge(a) \/ Resolve(a)
      PROVE  /\ TypeOK' /\ ResolvesAnAlert' /\ AllBoarded'
             /\ \A t \in Trips, s \in Students : alightRows[t][s] > 0 => alightRows'[t][s] > 0
             /\ \A b \in AlertIds : alerts[b] # NoAlert
                  => alerts'[b] # NoAlert /\ alerts'[b].trip = alerts[b].trip
  <2>1. UNCHANGED <<tripVars, busVars, eventVars, req>>
    BY <1>2 DEF Acknowledge, Resolve
  <2>2. alerts[a] \in AlertRow
    BY <1>0, <1>2 DEF Acknowledge, Resolve, TypeOK
  <2>3. PICK st \in {"acknowledged", "resolved"} :
          alerts' = [alerts EXCEPT ![a] = [@ EXCEPT !.status = st]]
    BY <1>2 DEF Acknowledge, Resolve
  <2>4. [alerts[a] EXCEPT !.status = st] \in AlertRow
    BY <2>2 DEF AlertRow
  <2>5. /\ alerts' \in [AlertIds -> {NoAlert} \cup AlertRow]
        /\ \A b \in AlertIds : alerts[b] \in AlertRow => alerts'[b] \in AlertRow
        /\ \A b \in AlertIds : alerts[b] # NoAlert
             => alerts'[b] # NoAlert /\ alerts'[b].trip = alerts[b].trip
    BY <1>0, <2>2, <2>3, <2>4 DEF TypeOK, AlertRow, NoAlert
  <2>6. TypeOK'
    BY <1>0, <2>1, <2>5 DEF TypeOK, tripVars, busVars, eventVars
  <2>7. ResolvesAnAlert'
    BY <1>0, <2>1, <2>5, RequestAt DEF ResolvesAnAlert, At, ResolveRequest
  <2> QED BY <2>1, <2>5, <2>6, <2>7 DEF AllBoarded, eventVars
<1>3. CASE UNCHANGED vars
  <2>1. UNCHANGED <<status, supervisor, startedAt, endedAt, gpsActive, busSupervisor,
                    boardRows, alightRows, lastEvent, alerts, req>>
    BY <1>3 DEF vars, tripVars, busVars, eventVars
  <2> QED BY <1>0, <2>1 DEF TypeOK, ResolvesAnAlert, AllBoarded, At
<1> QED BY <1>1, <1>2, <1>3, TripPart DEF OpsRoom

-----------------------------------------------------------------------------
(* The phones.                                                              *)

\* What a step does to the phones and to the calls they wait for: one phone
\* shows another screen, and one request takes up a call or answers it.
LEMMA PhoneType ==
  ASSUME EscTypeOK, EscNext
  PROVE  /\ phone' \in [Trips -> Screens]
         /\ caller' \in [Workers -> {NoCall} \cup Calls]
<1>0. /\ phone \in [Trips -> Screens] /\ caller \in [Workers -> {NoCall} \cup Calls]
      /\ Scan \in Screens /\ \A s \in Students : Verify(s) \in Screens
  BY DEF EscTypeOK, Screens
<1>1. \A s \in Students : Waiting(s) \in Screens
  BY DeadlineAssumption DEF Waiting, Screens
<1>2. \A screen \in Screens : Below(screen) \in Screens
  BY <1>0 DEF Below, Screens, Scan, Verify
<1>3. ASSUME NEW t \in Trips, Phone(t)
      PROVE  phone' \in [Trips -> Screens] /\ caller' \in [Workers -> {NoCall} \cup Calls]
  <2>1. CASE Back(t) \/ \E s \in Students : OpenVerify(t, s)
    BY <1>0, <1>2, <2>1 DEF Back, OpenVerify, Show
  <2>2. Shows(t, "waiting") =>
          phone[t] \in [screen : {"waiting"}, student : Students,
                        elapsed : 0..Deadline, escalated : BOOLEAN]
    BY <1>0 DEF Shows, Screens, Scan, Verify
  <2>3. CASE Tick(t)
    <3>1. [phone[t] EXCEPT !.elapsed = @ + 1] \in Screens
      BY <2>2, <2>3, DeadlineAssumption DEF Tick, Screens
    <3> QED BY <1>0, <2>3, <3>1 DEF Tick
  <2>4. ASSUME NEW w \in Workers, Escalate(w, t)
        PROVE  phone' \in [Trips -> Screens] /\ caller' \in [Workers -> {NoCall} \cup Calls]
    <3>1. [phone[t] EXCEPT !.escalated = TRUE] \in Screens /\ phone[t].student \in Students
      BY <2>2, <2>4 DEF Escalate, Screens
    <3>2. [kind |-> "escalate", trip |-> t, student |-> phone[t].student] \in Calls
      BY <3>1 DEF Calls
    <3> QED BY <1>0, <2>4, <3>1, <3>2 DEF Escalate, Calling
  <2>5. ASSUME NEW w \in Workers, NEW s \in Students,
               Confirm(w, t, s) \/ Reject(w, t, s) \/ Collect(w, t, s)
        PROVE  phone' \in [Trips -> Screens] /\ caller' \in [Workers -> {NoCall} \cup Calls]
    <3>1. \A k \in {"confirm", "reject", "collect"} :
            [kind |-> k, trip |-> t, student |-> s] \in Calls
      BY DEF Calls
    <3> QED BY <1>0, <1>1, <2>5, <3>1 DEF Confirm, Reject, Collect, Calling, Show
  <2> QED BY <1>3, <2>1, <2>3, <2>4, <2>5 DEF Phone
<1>4. ASSUME NEW w \in Workers, Serve(w)
      PROVE  phone' \in [Trips -> Screens] /\ caller' \in [Workers -> {NoCall} \cup Calls]
  <2>1. caller' \in [Workers -> {NoCall} \cup Calls]
    BY <1>0, <1>4 DEF Serve
  <2>2. CASE UNCHANGED phone
    BY <1>0, <2>1, <2>2
  <2>3. CASE Success(caller[w])
    <3>1. CASE caller[w] = NoCall
      BY <1>0, <2>1, <2>3, <3>1 DEF Success, NoCall
    <3>2. CASE caller[w] \in Calls
      <4>1. caller[w].trip \in Trips /\ caller[w].student \in Students
        BY <3>2 DEF Calls
      <4> QED BY <1>0, <1>1, <1>2, <2>1, <2>3, <4>1 DEF Success, Show
    <3> QED BY <1>0, <3>1, <3>2
  <2> QED BY <1>4, <2>2, <2>3 DEF Serve
<1>5. ASSUME NEW w \in Workers,
             ServeError(w) \/ \E t \in Trips, s \in Students : CollectElsewhere(w, t, s)
      PROVE  phone' \in [Trips -> Screens] /\ caller' \in [Workers -> {NoCall} \cup Calls]
  BY <1>0, <1>5 DEF ServeError, CollectElsewhere
<1>6. ASSUME OpsRoom
      PROVE  phone' \in [Trips -> Screens] /\ caller' \in [Workers -> {NoCall} \cup Calls]
  BY <1>0, <1>6 DEF OpsRoom, Acknowledge, Resolve
<1> QED BY <1>3, <1>4, <1>5, <1>6 DEF EscNext, OpsRoom

\* The statement a request stands at after the step of the request.
LEMMA CallSteps ==
  ASSUME TypeOK, AllBoarded, NEW w \in Workers
  PROVE  /\ \A t \in Trips, s \in Students :
              /\ Alight(w, t, s) => Free(w) /\ req'[w].at = "alight.check"
              /\ NotCollected(w, t, s)
                   => Free(w) /\ req'[w].at = "escalate.create" /\ req'[w].trip = t
              /\ Collected(w, t, s)
                   => /\ Free(w) /\ req'[w].at = "collect.check"
                      /\ req'[w].trip = t /\ req'[w].student = s
         /\ Continue(w) =>
              /\ req[w].at = "alight.check" => req'[w] = Idle \/ req'[w].at = "alight.create"
              /\ req[w].at = "alight.create" => req'[w] = Idle
              /\ req[w].at = "escalate.create" => req'[w] = Idle /\ NotCollectedCreate(w)
              /\ req[w].at = "collect.check"
                   => \/ /\ req'[w].at = "collect.create"
                         /\ req'[w].trip = req[w].trip /\ req'[w].student = req[w].student
                      \/ /\ req'[w].at = "collect.find"
                         /\ alightRows'[req[w].trip][req[w].student] > 0
              /\ req[w].at = "collect.create"
                   => /\ req'[w].at = "collect.find"
                      /\ alightRows'[req[w].trip][req[w].student] > 0
              /\ req[w].at = "collect.find" => req'[w] = Idle \/ req'[w].at = "collect.resolve"
              /\ req[w].at = "collect.resolve" => req'[w] = Idle
<1>1. ASSUME NEW t \in Trips, NEW s \in Students
      PROVE  /\ Alight(w, t, s) => Free(w) /\ req'[w].at = "alight.check"
             /\ NotCollected(w, t, s)
                  => Free(w) /\ req'[w].at = "escalate.create" /\ req'[w].trip = t
             /\ Collected(w, t, s)
                  => /\ Free(w) /\ req'[w].at = "collect.check"
                     /\ req'[w].trip = t /\ req'[w].student = s
  BY DEF Alight, NotCollected, Collected, GotoEvent, Goto, TypeOK, AllBoarded
<1>2. ASSUME Continue(w), req[w].at \in {"alight.check", "alight.create", "escalate.create"}
      PROVE  /\ req[w].at = "alight.check" => req'[w] = Idle \/ req'[w].at = "alight.create"
             /\ req[w].at = "alight.create" => req'[w] = Idle
             /\ req[w].at = "escalate.create" => req'[w] = Idle /\ NotCollectedCreate(w)
  <2>1. AlightCheck(w) \/ AlightCreate(w) \/ NotCollectedCreate(w)
    BY <1>2
    DEF Continue, At, AssignWrite, StartMorning, StartWrite, StartGps, BoardCreate,
        CollectedCheck, CollectedCreate, CollectedFind, CollectedResolve, EndRead, EndWrite,
        EndGps
  <2> QED BY <1>2, <2>1
          DEF AlightCheck, AlightCreate, NotCollectedCreate, GotoEvent, Goto, Answer, At, TypeOK
<1>3. ASSUME Continue(w), req[w].at = "collect.check"
      PROVE  \/ /\ req'[w].at = "collect.create"
                /\ req'[w].trip = req[w].trip /\ req'[w].student = req[w].student
             \/ /\ req'[w].at = "collect.find"
                /\ alightRows'[req[w].trip][req[w].student] > 0
  <2>1. CollectedCheck(w)
    BY <1>3
    DEF Continue, At, AssignWrite, StartMorning, StartWrite, StartGps, BoardCreate,
        AlightCheck, AlightCreate, NotCollectedCreate, CollectedCreate, CollectedFind,
        CollectedResolve, EndRead, EndWrite, EndGps
  <2>2. /\ req[w].trip \in Trips /\ req[w].student \in Students
        /\ alightRows[req[w].trip][req[w].student] \in Nat
    BY <2>1, RequestAt DEF CollectedCheck, EventRequest, TypeOK
  <2> QED BY <2>1, <2>2 DEF CollectedCheck, GotoEvent, Goto, TypeOK, eventVars
<1>4. ASSUME Continue(w), req[w].at = "collect.create"
      PROVE  /\ req'[w].at = "collect.find"
             /\ alightRows'[req[w].trip][req[w].student] > 0
  <2>1. CollectedCreate(w)
    BY <1>4
    DEF Continue, At, AssignWrite, StartMorning, StartWrite, StartGps, BoardCreate,
        AlightCheck, AlightCreate, NotCollectedCreate, CollectedCheck, CollectedFind,
        CollectedResolve, EndRead, EndWrite, EndGps
  <2>2. /\ req[w].trip \in Trips /\ req[w].student \in Students
        /\ AddAlightRow(req[w].trip, req[w].student)
        /\ alightRows[req[w].trip][req[w].student] \in Nat
    BY <2>1, RequestAt DEF CollectedCreate, EventRequest, TypeOK
  <2>3. alightRows'[req[w].trip][req[w].student] > 0
    BY <2>2, AddAlightRowType
  <2> QED BY <2>1, <2>3 DEF CollectedCreate, Goto, TypeOK
<1>5. ASSUME Continue(w), req[w].at \in {"collect.find", "collect.resolve"}
      PROVE  /\ req[w].at = "collect.find" => req'[w] = Idle \/ req'[w].at = "collect.resolve"
             /\ req[w].at = "collect.resolve" => req'[w] = Idle
  <2>1. CollectedFind(w) \/ CollectedResolve(w)
    BY <1>5
    DEF Continue, At, AssignWrite, StartMorning, StartWrite, StartGps, BoardCreate,
        AlightCheck, AlightCreate, NotCollectedCreate, CollectedCheck, CollectedCreate,
        EndRead, EndWrite, EndGps
  <2> QED BY <1>5, <2>1 DEF CollectedFind, CollectedResolve, Goto, Answer, At, TypeOK
<1> QED BY <1>1, <1>2, <1>3, <1>4, <1>5

\* The request that serves a phone's call stays on the path of its handler, and
\* the exit that a collected call records comes before its look at the alerts.
LEMMA CallsInFlightStep ==
  ASSUME EscInv, EscNext, EscTypeOK'
  PROVE  CallsInFlight'
<1>0. /\ TypeOK /\ AllBoarded /\ EscTypeOK
      /\ caller \in [Workers -> {NoCall} \cup Calls] /\ req \in [Workers -> Request]
  BY DEF EscInv, EscTypeOK, TypeOK
<1>1. \A v \in Workers : Serves(v, caller[v])
  BY DEF EscInv, CallsInFlight
<1>2. \A t \in Trips, s \in Students : alightRows[t][s] > 0 => alightRows'[t][s] > 0
  BY <1>0, TablesStep DEF EscInv
<1>3. \A v \in Workers :
        caller'[v] = caller[v] /\ req'[v] = req[v] => Serves(v, caller[v])'
  <2> SUFFICES ASSUME NEW v \in Workers, caller'[v] = caller[v], req'[v] = req[v]
               PROVE  Serves(v, caller[v])'
    OBVIOUS
  <2>1. caller[v].kind = "collect" => caller[v].trip \in Trips /\ caller[v].student \in Students
    BY <1>0 DEF NoCall, Calls
  <2> QED BY <1>1, <1>2, <2>1 DEF Serves
<1>4. \A v \in Workers : caller[v].kind = "none" \/ caller[v] \in Calls
  BY <1>0 DEF NoCall
<1>5. \A v \in Workers : Free(v) => caller[v].kind = "none"
  BY <1>1, <1>4 DEF Serves, Free, Calls
<1>6. \A v \in Workers : caller'[v] = NoCall => Serves(v, caller[v])'
  BY DEF NoCall, Serves
<1>7. ASSUME NEW w \in Workers,
             \A v \in Workers \ {w} : caller'[v] = caller[v], Step(w), Serves(w, caller[w])'
      PROVE  CallsInFlight'
  BY <1>0, <1>3, <1>7, OthersUntouched DEF Step, CallsInFlight
<1>8. ASSUME NEW t \in Trips, Phone(t) PROVE CallsInFlight'
  <2>1. CASE UNCHANGED <<caller, req>>
    BY <1>3, <2>1 DEF CallsInFlight
  <2>2. ASSUME NEW w \in Workers, NEW s \in Students, NotCollected(w, t, s),
               Calling(w, "reject", t, s) \/ Calling(w, "escalate", t, s)
        PROVE  CallsInFlight'
    <3>1. /\ caller'[w].kind \in {"reject", "escalate"} /\ caller'[w].trip = t
          /\ \A v \in Workers \ {w} : caller'[v] = caller[v]
      BY <1>0, <2>2 DEF Calling
    <3>2. Serves(w, caller[w])'
      BY <1>0, <2>2, <3>1, CallSteps DEF Serves
    <3> QED BY <1>7, <2>2, <3>1, <3>2 DEF Step, Arrive
  <2>3. ASSUME NEW w \in Workers, NEW s \in Students, Confirm(w, t, s) PROVE CallsInFlight'
    <3>1. /\ caller'[w].kind = "confirm" /\ \A v \in Workers \ {w} : caller'[v] = caller[v]
      BY <1>0, <2>3 DEF Confirm, Calling
    <3>2. Serves(w, caller[w])'
      BY <1>0, <2>3, <3>1, CallSteps DEF Confirm, Serves
    <3> QED BY <1>7, <2>3, <3>1, <3>2 DEF Step, Arrive, Confirm
  <2>4. ASSUME NEW w \in Workers, NEW s \in Students, Collect(w, t, s) PROVE CallsInFlight'
    <3>1. /\ caller'[w].kind = "collect" /\ caller'[w].trip = t /\ caller'[w].student = s
          /\ \A v \in Workers \ {w} : caller'[v] = caller[v]
      BY <1>0, <2>4 DEF Collect, Calling
    <3>2. Serves(w, caller[w])'
      BY <1>0, <2>4, <3>1, CallSteps DEF Collect, Serves
    <3> QED BY <1>7, <2>4, <3>1, <3>2 DEF Step, Arrive, Collect
  <2>5. ASSUME NEW w \in Workers, Escalate(w, t) PROVE CallsInFlight'
    <3>1. phone[t].student \in Students
      BY <1>0, <2>5 DEF Escalate, EscTypeOK, Screens, Shows, Scan, Verify
    <3> QED BY <2>1, <2>2, <2>5, <3>1 DEF Escalate, AlreadyOpen, vars
  <2>6. ASSUME NEW w \in Workers, NEW s \in Students, Reject(w, t, s) PROVE CallsInFlight'
    BY <2>1, <2>2, <2>6 DEF Reject, AlreadyOpen, vars
  <2>7. CASE Back(t) \/ Tick(t) \/ \E s \in Students : OpenVerify(t, s)
    BY <2>1, <2>7 DEF Back, Tick, OpenVerify, vars
  <2> QED BY <1>8, <2>3, <2>4, <2>5, <2>6, <2>7 DEF Phone
<1>9. ASSUME NEW w \in Workers, Serve(w) PROVE CallsInFlight'
  <2>1. \A v \in Workers \ {w} : caller'[v] = caller[v]
    BY <1>0, <1>9 DEF Serve
  <2>2. CASE req'[w] = Idle
    BY <1>0, <1>6, <1>7, <1>9, <2>1, <2>2 DEF Serve, Step
  <2>3. CASE req'[w] # Idle
    <3>1. caller' = caller
      BY <1>9, <2>3 DEF Serve
    <3>2. caller[w].kind = "none" => Serves(w, caller[w])'
      BY <3>1 DEF Serves
    <3>3. caller[w].kind = "confirm" => Serves(w, caller[w])'
      BY <1>0, <1>1, <1>9, <2>3, <3>1, CallSteps DEF Serves, Serve
    <3>4. caller[w].kind \notin {"reject", "escalate"}
      BY <1>0, <1>1, <1>9, <2>3, CallSteps DEF Serves, Serve
    <3>5. ASSUME caller[w].kind = "collect" PROVE Serves(w, caller[w])'
      <4>1. caller[w].trip \in Trips /\ caller[w].student \in Students
        BY <1>4, <3>5 DEF Calls
      <4>2. CASE /\ req[w].at \in {"collect.check", "collect.create"}
                 /\ req[w].trip = caller[w].trip /\ req[w].student = caller[w].student
        BY <1>0, <1>9, <3>1, <3>5, <4>2, CallSteps DEF Serves, Serve
      <4>3. CASE /\ req[w].at \in {"collect.find", "collect.resolve"}
                 /\ alightRows[caller[w].trip][caller[w].student] > 0
        BY <1>0, <1>2, <1>9, <2>3, <3>1, <3>5, <4>1, <4>3, CallSteps DEF Serves, Serve
      <4> QED BY <1>1, <3>5, <4>2, <4>3 DEF Serves
    <3>6. Serves(w, caller[w])'
      BY <1>4, <3>2, <3>3, <3>4, <3>5 DEF Calls
    <3> QED BY <1>7, <1>9, <2>1, <3>6 DEF Serve, Step
  <2> QED BY <2>2, <2>3
<1>10. ASSUME NEW w \in Workers, ServeError(w) PROVE CallsInFlight'
  BY <1>0, <1>6, <1>7, <1>10 DEF ServeError, Step
<1>11. ASSUME NEW w \in Workers, NEW t \in Trips, NEW s \in Students, CollectElsewhere(w, t, s)
       PROVE  CallsInFlight'
  <2>1. Free(w) /\ caller' = caller
    BY <1>11 DEF CollectElsewhere, Collected
  <2>2. Serves(w, caller[w])'
    BY <1>5, <2>1 DEF Serves
  <2> QED BY <1>7, <1>11, <2>1, <2>2 DEF CollectElsewhere, Step, Arrive
<1>12. CASE OpsRoom
  BY <1>3, <1>12 DEF OpsRoom, Acknowledge, Resolve, CallsInFlight
<1> QED BY <1>8, <1>9, <1>10, <1>11, <1>12 DEF EscNext, OpsRoom

\* A phone opens its waiting screen only on an answer that found an alert of the
\* trip in the table or put one there, and alerts are never deleted.
LEMMA WaitingStep ==
  ASSUME EscInv, EscNext, EscTypeOK'
  PROVE  WaitingIsReported'
<1>0. /\ TypeOK /\ AllBoarded /\ EscTypeOK /\ req \in [Workers -> Request]
      /\ phone \in [Trips -> Screens] /\ caller \in [Workers -> {NoCall} \cup Calls]
  BY DEF EscInv, EscTypeOK, TypeOK
<1> SUFFICES ASSUME NEW t \in Trips, Shows(t, "waiting")'
             PROVE  \E a \in AlertIds : alerts'[a] # NoAlert /\ alerts'[a].trip = t
  BY DEF WaitingIsReported
<1>1. \A a \in AlertIds : alerts[a] # NoAlert
        => alerts'[a] # NoAlert /\ alerts'[a].trip = alerts[a].trip
  BY <1>0, TablesStep DEF EscInv
<1>2. CASE Shows(t, "waiting")
  BY <1>1, <1>2 DEF EscInv, WaitingIsReported
<1>3. CASE OpenAlerts(t) # {}
  <2>1. PICK a \in AlertIds : alerts[a].status = "active" /\ alerts[a].trip = t
    BY <1>3 DEF OpenAlerts
  <2> QED BY <1>1, <2>1 DEF NoAlert
<1>4. ASSUME NEW w \in Workers, Serve(w), ~Shows(t, "waiting")
      PROVE  \E a \in AlertIds : alerts'[a] # NoAlert /\ alerts'[a].trip = t
  <2>1. Success(caller[w]) /\ req'[w] = Idle
    BY <1>4 DEF Serve, Shows
  <2>2. \A screen \in Screens : Below(screen).screen # "waiting"
    BY DEF Below, Scan, Verify
  <2>3. caller[w].kind = "reject" /\ caller[w].trip = t
    <3>1. caller[w] \in Calls
      BY <1>0, <1>4, <2>1 DEF NoCall, Success, Shows
    <3>2. caller[w].trip \in Trips
      BY <3>1 DEF Calls
    <3>3. caller[w].kind # "confirm"
      BY <1>0, <1>4, <2>1, <2>2, <3>2 DEF Success, Show, Shows
    <3>4. caller[w].kind # "collect"
      BY <1>0, <1>4, <2>1, <3>2 DEF Success, Show, Shows, Scan
    <3>5. caller[w].kind = "reject"
      BY <1>4, <2>1, <3>3, <3>4 DEF Success, Shows
    <3> QED BY <1>0, <1>4, <2>1, <3>2, <3>5 DEF Success, Show, Shows
  <2>4. req[w].at = "escalate.create" /\ req[w].trip = t
    BY <2>3 DEF EscInv, CallsInFlight, Serves
  <2>5. NotCollectedCreate(w)
    BY <1>0, <1>4, <2>4, CallSteps DEF Serve
  <2>6. PICK a \in UnusedAlerts :
          alerts' = [alerts EXCEPT ![a] = [status |-> "active", trip |-> t,
                                           student |-> req[w].student]]
    BY <2>4, <2>5 DEF NotCollectedCreate
  <2>7. alerts'[a].status = "active" /\ alerts'[a].trip = t /\ a \in AlertIds
    BY <1>0, <2>6 DEF UnusedAlerts, TypeOK
  <2> QED BY <2>7 DEF NoAlert
<1>5. ASSUME NEW tt \in Trips, Phone(tt), ~Shows(t, "waiting") PROVE OpenAlerts(t) # {}
  <2>1. ASSUME NEW s \in Students, OpenVerify(tt, s) PROVE FALSE
    BY <1>0, <1>5, <2>1 DEF OpenVerify, Show, Shows, Verify
  <2>2. ~Back(tt)
    <3>1. Below(phone[tt]).screen # "waiting"
      BY DEF Below, Scan, Verify
    <3> QED BY <1>0, <1>5, <3>1 DEF Back, Show, Shows
  <2>3. ~Tick(tt)
    BY <1>0, <1>5 DEF Tick, Shows
  <2>4. ASSUME NEW w \in Workers, Escalate(w, tt) PROVE FALSE
    BY <1>0, <1>5, <2>4 DEF Escalate, Shows
  <2>5. ASSUME NEW w \in Workers, NEW s \in Students, Confirm(w, tt, s) \/ Collect(w, tt, s)
        PROVE  FALSE
    BY <1>5, <2>5 DEF Confirm, Collect, Shows
  <2>6. ASSUME NEW w \in Workers, NEW s \in Students, Reject(w, tt, s)
        PROVE  OpenAlerts(t) # {}
    BY <1>0, <1>5, <2>6 DEF Reject, AlreadyOpen, Show, Shows
  <2> QED BY <1>5, <2>1, <2>2, <2>3, <2>4, <2>5, <2>6 DEF Phone
<1>6. ASSUME NEW w \in Workers,
             ServeError(w) \/ \E tt \in Trips, s \in Students : CollectElsewhere(w, tt, s)
      PROVE  UNCHANGED phone
  BY <1>6 DEF ServeError, CollectElsewhere
<1>7. OpsRoom => UNCHANGED phone
  BY DEF OpsRoom, Acknowledge, Resolve
<1>8. UNCHANGED phone => Shows(t, "waiting")
  BY DEF Shows
<1> QED BY <1>2, <1>3, <1>4, <1>5, <1>6, <1>7, <1>8 DEF EscNext, OpsRoom

-----------------------------------------------------------------------------
(* The open alerts of a trip.                                               *)

\* Counting: n alerts and the requests about to insert one stay within the
\* requests served at once when a request inserts its alert, when alerts or
\* requests go away, and when a request joins while there is no alert.
LEMMA AlertsStayBounded ==
  ASSUME NEW A, IsFiniteSet(A), NEW B, NEW S \in SUBSET Workers, NEW R \in SUBSET Workers,
         Cardinality(A) + Cardinality(S) <= Cardinality(Workers),
         \/ B \subseteq A /\ R \subseteq S
         \/ B = {}
         \/ \E a, w : w \in S /\ B \subseteq A \cup {a} /\ R \subseteq S \ {w}
  PROVE  IsFiniteSet(B) /\ Cardinality(B) + Cardinality(R) <= Cardinality(Workers)
<1>0. /\ Cardinality(A) \in Nat /\ Cardinality(S) \in Nat /\ Cardinality(R) \in Nat
      /\ Cardinality(Workers) \in Nat /\ Cardinality(R) <= Cardinality(Workers)
  BY WorkersCount, FS_CardinalityType
<1>1. CASE B \subseteq A /\ R \subseteq S
  <2>1. IsFiniteSet(B) /\ Cardinality(B) <= Cardinality(A) /\ Cardinality(B) \in Nat
    BY <1>1, FS_Subset, FS_CardinalityType
  <2>2. Cardinality(R) <= Cardinality(S)
    BY <1>1, WorkersCount
  <2> QED BY <1>0, <2>1, <2>2
<1>2. CASE B = {}
  BY <1>0, <1>2, FS_EmptySet
<1>3. ASSUME NEW a, NEW w \in S, B \subseteq A \cup {a}, R \subseteq S \ {w}
      PROVE  IsFiniteSet(B) /\ Cardinality(B) + Cardinality(R) <= Cardinality(Workers)
  <2>1. /\ IsFiniteSet(A \cup {a}) /\ Cardinality(A \cup {a}) <= Cardinality(A) + 1
        /\ Cardinality(A \cup {a}) \in Nat
    <3>1. /\ IsFiniteSet(A \cup {a})
          /\ \/ Cardinality(A \cup {a}) = Cardinality(A)
             \/ Cardinality(A \cup {a}) = Cardinality(A) + 1
      BY FS_AddElement
    <3> QED BY <1>0, <3>1
  <2>2. /\ IsFiniteSet(B) /\ Cardinality(B) <= Cardinality(A \cup {a})
        /\ Cardinality(B) \in Nat
    BY <1>3, <2>1, FS_Subset, FS_CardinalityType
  <2>3. Cardinality(S \ {w}) = Cardinality(S) - 1
    BY WorkersCount, FS_RemoveElement
  <2>4. Cardinality(R) <= Cardinality(S \ {w}) /\ Cardinality(S \ {w}) \in Nat
    BY <1>3, WorkersCount
  <2> QED BY <1>0, <2>1, <2>2, <2>3, <2>4
<1> QED BY <1>1, <1>2, <1>3

\* A request reaches the insert only from a handler that found no open alert.
LEMMA EscalateEntry ==
  ASSUME TypeOK, NEW w \in Workers, Step(w), req'[w].at = "escalate.create"
  PROVE  \/ req'[w] = req[w]
         \/ \E t \in Trips, s \in Students : NotCollected(w, t, s) /\ req'[w].trip = t
<1> USE DEF Goto, GotoEvent, Answer, Idle, Free, At
<1>1. CASE Arrive(w)
  <2>1. ASSUME NEW t \in Trips, NEW u \in Supervisors, Assign(w, t, u) PROVE FALSE
    BY <2>1 DEF TypeOK, Assign
  <2>2. ASSUME NEW t \in Trips, NEW u \in Supervisors, Start(w, t, u) PROVE FALSE
    BY <2>2 DEF TypeOK, Start
  <2>3. ASSUME NEW t \in Trips, NEW s \in Students,
               Board(w, t, s) \/ ManualBoard(w, t, s) \/ Alight(w, t, s) \/ Collected(w, t, s)
        PROVE  FALSE
    BY <2>3 DEF TypeOK, Board, ManualBoard, Alight, Collected
  <2>4. ASSUME NEW t \in Trips, NEW s \in Students, NotCollected(w, t, s)
        PROVE  req'[w].trip = t
    BY <2>4 DEF TypeOK, NotCollected
  <2>5. ASSUME NEW t \in Trips, End(w, t) PROVE FALSE
    BY <2>5 DEF TypeOK, End
  <2>6. ASSUME NEW b \in Buses,
               \/ \E active \in BOOLEAN : SetGps(w, b, active)
               \/ \E u \in User : EditBus(w, b, u)
        PROVE  req'[w] = req[w]
    BY <2>6 DEF SetGps, EditBus
  <2> QED BY <1>1, <2>1, <2>2, <2>3, <2>4, <2>5, <2>6 DEF Arrive
<1>2. CASE Continue(w)
  <2>1. ~StartMorning(w)
    BY RequestAt DEF StartMorning, StartRequest, TypeOK
  <2>2. ~CollectedFind(w)
    BY DEF CollectedFind, TypeOK
  <2>3. ~AlightCheck(w) /\ ~CollectedCheck(w) /\ ~EndRead(w)
    BY DEF AlightCheck, CollectedCheck, EndRead, TypeOK
  <2>4. /\ ~AssignWrite(w) /\ ~StartWrite(w) /\ ~StartGps(w) /\ ~BoardCreate(w)
        /\ ~AlightCreate(w) /\ ~NotCollectedCreate(w) /\ ~CollectedCreate(w)
        /\ ~CollectedResolve(w) /\ ~EndWrite(w) /\ ~EndGps(w)
    BY DEF AssignWrite, StartWrite, StartGps, BoardCreate, AlightCreate, NotCollectedCreate,
           CollectedCreate, CollectedResolve, EndWrite, EndGps, TypeOK
  <2> QED BY <1>2, <2>1, <2>2, <2>3, <2>4 DEF Continue
<1>3. CASE Fail(w)
  BY <1>3 DEF Fail, TypeOK
<1> QED BY <1>1, <1>2, <1>3 DEF Step

\* What one step of a request does to the open alerts of a trip and to the
\* requests about to insert one (trips.routes.ts:150-172).
LEMMA OpenAlertsMove ==
  ASSUME TypeOK, TypeOK', NEW w \in Workers, Step(w), NEW t \in Trips
  PROVE  \/ OpenAlerts(t)' \subseteq OpenAlerts(t) /\ Escalating(t)' \subseteq Escalating(t)
         \/ OpenAlerts(t)' = {}
         \/ \E a, v : /\ v \in Escalating(t)
                      /\ OpenAlerts(t)' \subseteq OpenAlerts(t) \cup {a}
                      /\ Escalating(t)' \subseteq Escalating(t) \ {v}
<1>1. Escalating(t)' \subseteq Escalating(t) \cup {w}
  BY OthersUntouched DEF Step, Escalating, At, TypeOK
<1>2. CASE NotCollectedCreate(w)
  <2>1. PICK a \in UnusedAlerts :
          alerts' = [alerts EXCEPT ![a] = [status |-> "active", trip |-> req[w].trip,
                                           student |-> req[w].student]]
    BY <1>2 DEF NotCollectedCreate
  <2>2. w \notin Escalating(t)'
    BY <1>2 DEF NotCollectedCreate, Answer, Goto, Idle, Escalating, At, TypeOK
  <2>3. CASE req[w].trip = t
    <3>1. w \in Escalating(t)
      BY <1>2, <2>3 DEF NotCollectedCreate, Escalating
    <3>2. OpenAlerts(t)' \subseteq OpenAlerts(t) \cup {a}
      BY <2>1 DEF OpenAlerts, TypeOK
    <3> QED BY <1>1, <2>2, <3>1, <3>2
  <2>4. CASE req[w].trip # t
    <3>1. OpenAlerts(t)' \subseteq OpenAlerts(t)
      BY <2>1, <2>4 DEF OpenAlerts, TypeOK, UnusedAlerts
    <3> QED BY <1>1, <2>2, <3>1
  <2> QED BY <2>3, <2>4
<1>3. CASE CollectedResolve(w)
  <2>1. OpenAlerts(t)' \subseteq OpenAlerts(t)
    BY <1>3 DEF CollectedResolve, OpenAlerts, TypeOK
  <2>2. w \notin Escalating(t)'
    BY <1>3 DEF CollectedResolve, Answer, Goto, Idle, Escalating, At, TypeOK
  <2> QED BY <1>1, <2>1, <2>2
<1>4. CASE UNCHANGED alerts
  <2>1. OpenAlerts(t)' = OpenAlerts(t)
    BY <1>4 DEF OpenAlerts
  <2>2. CASE w \in Escalating(t)' /\ req'[w] # req[w]
    BY <2>1, <2>2, EscalateEntry DEF Escalating, At, NotCollected
  <2>3. CASE w \notin Escalating(t)' \/ req'[w] = req[w]
    BY <1>1, <2>1, <2>3 DEF Escalating, At
  <2> QED BY <2>2, <2>3
<1> QED BY <1>2, <1>3, <1>4, Writers DEF Step

\* The check of not-collected and its insert are two statements, so requests
\* that overlap can each insert an alert, but no more than one each.
LEMMA OpenAlertsStep ==
  ASSUME EscInv, EscNext, EscTypeOK'
  PROVE  (\A t \in Trips : IsFiniteSet(OpenAlerts(t)))' /\ OpenAlertsBounded'
<1> SUFFICES ASSUME NEW t \in Trips
             PROVE  /\ IsFiniteSet(OpenAlerts(t)')
                    /\ Cardinality(OpenAlerts(t)') + Cardinality(Escalating(t)')
                         <= Cardinality(Workers)
  BY DEF OpenAlertsBounded
<1>0. TypeOK /\ TypeOK' /\ EscTypeOK
  BY DEF EscInv, EscTypeOK
<1>1. /\ IsFiniteSet(OpenAlerts(t))
      /\ Cardinality(OpenAlerts(t)) + Cardinality(Escalating(t)) <= Cardinality(Workers)
  BY DEF EscInv, OpenAlertsBounded
<1>2. Escalating(t) \in SUBSET Workers /\ Escalating(t)' \in SUBSET Workers
  BY DEF Escalating
<1>3. \/ OpenAlerts(t)' \subseteq OpenAlerts(t) /\ Escalating(t)' \subseteq Escalating(t)
      \/ OpenAlerts(t)' = {}
      \/ \E a, v : /\ v \in Escalating(t)
                   /\ OpenAlerts(t)' \subseteq OpenAlerts(t) \cup {a}
                   /\ Escalating(t)' \subseteq Escalating(t) \ {v}
  <2>1. ASSUME NEW w \in Workers, Step(w)
        PROVE  \/ OpenAlerts(t)' \subseteq OpenAlerts(t) /\ Escalating(t)' \subseteq Escalating(t)
               \/ OpenAlerts(t)' = {}
               \/ \E a, v : /\ v \in Escalating(t)
                            /\ OpenAlerts(t)' \subseteq OpenAlerts(t) \cup {a}
                            /\ Escalating(t)' \subseteq Escalating(t) \ {v}
    BY <1>0, <2>1, OpenAlertsMove
  <2>2. ASSUME NEW a \in AlertIds, Acknowledge(a) \/ Resolve(a)
        PROVE  OpenAlerts(t)' \subseteq OpenAlerts(t) /\ Escalating(t)' = Escalating(t)
    <3>1. PICK st \in {"acknowledged", "resolved"} :
            alerts' = [alerts EXCEPT ![a] = [@ EXCEPT !.status = st]]
      BY <2>2 DEF Acknowledge, Resolve
    <3>2. alerts[a] \in AlertRow
      BY <1>0, <2>2 DEF Acknowledge, Resolve, TypeOK
    <3>3. alerts'[a].status # "active" /\ \A b \in AlertIds \ {a} : alerts'[b] = alerts[b]
      BY <1>0, <3>1, <3>2 DEF TypeOK, AlertRow
    <3>4. OpenAlerts(t)' \subseteq OpenAlerts(t)
      BY <3>3 DEF OpenAlerts
    <3> QED BY <2>2, <3>4 DEF Acknowledge, Resolve, Escalating, At
  <2>3. UNCHANGED vars => OpenAlerts(t)' = OpenAlerts(t) /\ Escalating(t)' = Escalating(t)
    BY DEF vars, OpenAlerts, Escalating, At
  <2> QED BY <1>0, <2>1, <2>2, <2>3, TripPart DEF OpsRoom
<1> QED BY <1>1, <1>2, <1>3, AlertsStayBounded

-----------------------------------------------------------------------------
(* The inductive invariant.                                                 *)

\* Everybody is aboard, nobody waits and nothing is in flight.
LEMMA InitEscInv == EscInit => EscInv
<1> SUFFICES ASSUME EscInit PROVE EscInv
  OBVIOUS
<1>1. TypeOK
  BY TripAssumption DEF EscInit, TypeOK, Statuses, User, NoAlert, Idle, Request, EventRow
<1>2. EscTypeOK
  BY <1>1 DEF EscInit, EscTypeOK, Screens
<1>3. \A w \in Workers : req[w].at = "idle" /\ caller[w].kind = "none"
  BY DEF EscInit, Idle, NoCall
<1>4. ResolvesAnAlert /\ AllBoarded /\ CallsInFlight
  BY <1>3 DEF EscInit, ResolvesAnAlert, At, AllBoarded, CallsInFlight, Serves
<1>5. \A t \in Trips : OpenAlerts(t) = {} /\ Escalating(t) \in SUBSET Workers
  BY DEF EscInit, OpenAlerts, Escalating, NoAlert
<1>6. (\A t \in Trips : IsFiniteSet(OpenAlerts(t))) /\ OpenAlertsBounded
  BY <1>5, WorkersCount, FS_EmptySet DEF OpenAlertsBounded
<1>7. WaitingIsReported
  BY DEF EscInit, WaitingIsReported, Shows, Scan
<1> QED BY <1>2, <1>4, <1>6, <1>7 DEF EscInv

\* Every step of a phone, of the server and of the ops room keeps it.
LEMMA NextEscInv == EscInv /\ [EscNext]_escVars => EscInv'
<1> SUFFICES ASSUME EscInv, [EscNext]_escVars PROVE EscInv'
  OBVIOUS
<1>1. CASE EscNext
  <2>1. EscTypeOK /\ ResolvesAnAlert /\ AllBoarded
    BY DEF EscInv
  <2>2. TypeOK' /\ ResolvesAnAlert' /\ AllBoarded'
    BY <1>1, <2>1, TablesStep
  <2>3. EscTypeOK'
    BY <1>1, <2>1, <2>2, PhoneType DEF EscTypeOK
  <2> QED BY <1>1, <2>2, <2>3, CallsInFlightStep, WaitingStep, OpenAlertsStep DEF EscInv
<1>2. CASE UNCHANGED escVars
  <2>1. UNCHANGED <<status, supervisor, startedAt, endedAt, gpsActive, busSupervisor,
                    boardRows, alightRows, lastEvent, alerts, req, phone, caller>>
    BY <1>2 DEF escVars, vars, tripVars, busVars, eventVars
  <2>2. EscTypeOK' /\ ResolvesAnAlert' /\ AllBoarded'
    BY <2>1 DEF EscInv, EscTypeOK, TypeOK, ResolvesAnAlert, At, AllBoarded
  <2>3. CallsInFlight' /\ WaitingIsReported'
    BY <2>1 DEF EscInv, CallsInFlight, Serves, WaitingIsReported, Shows
  <2>4. (\A t \in Trips : IsFiniteSet(OpenAlerts(t)))' /\ OpenAlertsBounded'
    BY <2>1 DEF EscInv, OpenAlertsBounded, OpenAlerts, Escalating, At
  <2> QED BY <2>2, <2>3, <2>4 DEF EscInv
<1> QED BY <1>1, <1>2

\* In every behaviour of phones, server and ops room, the inductive invariant
\* holds.
THEOREM EscInductive == EscSpec => []EscInv
  BY InitEscInv, NextEscInv, PTL DEF EscSpec

\* The screens and the calls of the phones keep their types.
THEOREM EscTypeCorrect == EscSpec => []EscTypeOK
<1>1. EscInv => EscTypeOK
  BY DEF EscInv
<1> QED BY <1>1, EscInductive, PTL

\* A trip never has more open alerts, with those about to be inserted, than the
\* server handles requests at once: the check of not-collected
\* (trips.routes.ts:150-153) is not a constraint of the table.
THEOREM AlertsBounded == EscSpec => []OpenAlertsBounded
<1>1. EscInv => OpenAlertsBounded
  BY DEF EscInv
<1> QED BY <1>1, EscInductive, PTL

\* A phone that shows the waiting screen has an alert of its trip in the table,
\* whatever answers were lost and whatever screen they found.
THEOREM WaitingReported == EscSpec => []WaitingIsReported
<1>1. EscInv => WaitingIsReported
  BY DEF EscInv
<1> QED BY <1>1, EscInductive, PTL

\* The alert that a phone's collected call resolves is looked up only after the
\* exit of the student is in the table (trips.routes.ts:176-204).
THEOREM ExitFirst == EscSpec => []ExitBeforeResolve
<1>1. EscInv => ExitBeforeResolve
  BY DEF EscInv, CallsInFlight, Serves, ExitBeforeResolve
<1> QED BY <1>1, EscInductive, PTL
=============================================================================
