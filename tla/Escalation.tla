---------------------------- MODULE Escalation ----------------------------
(***************************************************************************)
(* The student-not-collected protocol: the supervisor's phone (one per     *)
(* trip), the trip's handlers as module Trip has them, and the ops room    *)
(* that acknowledges and resolves alerts.                                  *)
(*                                                                         *)
(* The phone shows the scan screen, the screen that verifies who picks a   *)
(* student up, or the waiting screen of a student nobody collected, whose  *)
(* timer escalates once when it reaches the deadline.  Its calls run on    *)
(* the server beside those of the ops room; the answer to a call moves the *)
(* phone to another screen, whatever screen it shows by then.              *)
(***************************************************************************)
EXTENDS Trip

CONSTANT Deadline  \* seconds until the waiting screen escalates, in ticks

ASSUME DeadlineAssumption == Deadline \in Nat \ {0}

VARIABLES
  phone,   \* the screen of each trip's supervisor and its local state
  caller   \* the phone call each request in flight serves, if any

escVars == <<vars, phone, caller>>

-----------------------------------------------------------------------------
Scan          == [screen |-> "scan"]
Verify(s)     == [screen |-> "verify", student |-> s]
\* escalated is the ref that lets the timer call once.
Waiting(s)    == [screen |-> "waiting", student |-> s, elapsed |-> 0, escalated |-> FALSE]

Screens == {Scan} \cup {Verify(s) : s \in Students}
             \cup [screen : {"waiting"}, student : Students,
                   elapsed : 0..Deadline, escalated : BOOLEAN]

NoCall == [kind |-> "none"]
Calls  == [kind : {"confirm", "reject", "escalate", "collect"}, trip : Trips, student : Students]

Shows(t, screen) == phone[t].screen = screen
Show(t, screen)  == phone' = [phone EXCEPT ![t] = screen]

\* A button is disabled while its call is pending, but not once the screen was
\* left and opened again: the model lets the supervisor press it at any time.
Pending(t, kind, s) == \E w \in Workers : caller[w] = [kind |-> kind, trip |-> t, student |-> s]
Calling(w, kind, t, s) ==
  caller' = [caller EXCEPT ![w] = [kind |-> kind, trip |-> t, student |-> s]]

\* router.back().
Below(screen) ==
  CASE screen.screen = "waiting" -> Verify(screen.student)
    [] OTHER -> Scan

\* What the phone does with a successful answer to a call.
Success(call) ==
  CASE call.kind = "confirm" -> Show(call.trip, Below(phone[call.trip]))
    [] call.kind = "reject"  -> Show(call.trip, Waiting(call.student))
    [] call.kind = "collect" -> Show(call.trip, Scan)
    [] OTHER -> UNCHANGED phone

-----------------------------------------------------------------------------
(* The trip is under way, everybody is aboard and nothing has been recorded  *)
(* yet of who gets off.                                                      *)
EscInit ==
  /\ status = [t \in Trips |-> "active"]
  /\ supervisor \in [Trips -> Supervisors]
  /\ startedAt = [t \in Trips |-> TRUE]
  /\ endedAt = [t \in Trips |-> FALSE]
  /\ gpsActive = [b \in Buses |-> TRUE]
  /\ busSupervisor = [b \in Buses |-> NoOne]
  /\ boardRows = [t \in Trips |-> [s \in Students |-> 1]]
  /\ alightRows = [t \in Trips |-> [s \in Students |-> 0]]
  /\ lastEvent \in [Students -> [type : {"board"}, trip : Trips]]
  /\ alerts = [a \in AlertIds |-> NoAlert]
  /\ req = [w \in Workers |-> Idle]
  /\ phone = [t \in Trips |-> Scan]
  /\ caller = [w \in Workers |-> NoCall]

-----------------------------------------------------------------------------
(* The supervisor at the phone.                                             *)

\* scan.tsx: a student with a delegate is verified before the exit.
OpenVerify(t, s) ==
  /\ Shows(t, "scan")
  /\ Place(t, s) = "aboard"
  /\ Show(t, Verify(s))
  /\ UNCHANGED <<vars, caller>>

\* The waiting screen hides the back button; the gesture still leaves it,
\* and with it goes the timer.
Back(t) ==
  /\ ~Shows(t, "scan")
  /\ Show(t, Below(phone[t]))
  /\ UNCHANGED <<vars, caller>>

\* verify-pickup, yes: POST /trips/:id/alight.
Confirm(w, t, s) ==
  /\ phone[t] = Verify(s)
  /\ Alight(w, t, s)
  /\ Calling(w, "confirm", t, s)
  /\ UNCHANGED phone

\* The call of not-collected finds an open alert of the trip and is answered
\* at once, without a new one.
AlreadyOpen(w, t) ==
  /\ "not-collected" \in Ops
  /\ Free(w)
  /\ OpenAlerts(t) # {}
  /\ UNCHANGED vars

Reject_Mutant(w, t, s) ==  \* the waiting screen opens before the answer
  /\ phone[t] = Verify(s)
  /\ NotCollected(w, t, s)
  /\ Show(t, Waiting(s))
  /\ Calling(w, "reject", t, s)

\* verify-pickup, no: POST .../not-collected right away.
Reject(w, t, s) ==
  /\ phone[t] = Verify(s)
  /\ \/ /\ NotCollected(w, t, s)
        /\ Calling(w, "reject", t, s)
        /\ UNCHANGED phone
     \/ /\ AlreadyOpen(w, t)
        /\ Show(t, Waiting(s))
        /\ UNCHANGED caller

Tick_Late(t) ==  \* the timer runs on past the deadline
  /\ Shows(t, "waiting")
  /\ phone[t].elapsed <= Deadline
  /\ phone' = [phone EXCEPT ![t].elapsed = @ + 1]
  /\ UNCHANGED <<vars, caller>>

Tick_Mutant(t) ==  \* the timer stops one tick early
  /\ Shows(t, "waiting")
  /\ phone[t].elapsed < Deadline - 1
  /\ phone' = [phone EXCEPT ![t].elapsed = @ + 1]
  /\ UNCHANGED <<vars, caller>>

\* The interval of the waiting screen (counted up to the deadline).
Tick(t) ==
  /\ Shows(t, "waiting")
  /\ phone[t].elapsed < Deadline
  /\ phone' = [phone EXCEPT ![t].elapsed = @ + 1]
  /\ UNCHANGED <<vars, caller>>

\* The effect that runs when the timer has reached the deadline: it marks
\* the screen as escalated first and never calls again, whatever comes of
\* the call, which may not even reach the server.
Escalate(w, t) ==
  /\ Shows(t, "waiting")
  /\ phone[t].elapsed = Deadline
  /\ ~phone[t].escalated
  /\ phone' = [phone EXCEPT ![t].escalated = TRUE]
  /\ \/ NotCollected(w, t, phone[t].student) /\ Calling(w, "escalate", t, phone[t].student)
     \/ AlreadyOpen(w, t) /\ UNCHANGED caller
     \/ MayFail /\ Free(w) /\ UNCHANGED <<vars, caller>>

\* The waiting screen's button: PUT .../collected.
Collect(w, t, s) ==
  /\ Shows(t, "waiting")
  /\ phone[t].student = s
  /\ Collected(w, t, s)
  /\ Calling(w, "collect", t, s)
  /\ UNCHANGED phone

-----------------------------------------------------------------------------
(* The ops room.  Neither route looks at the status of the alert.           *)

Acknowledge(a) ==
  /\ alerts[a] # NoAlert
  /\ alerts' = [alerts EXCEPT ![a] = [@ EXCEPT !.status = "acknowledged"]]
  /\ UNCHANGED <<tripVars, busVars, eventVars, req, phone, caller>>

Resolve(a) ==
  /\ alerts[a] # NoAlert
  /\ alerts' = [alerts EXCEPT ![a] = [@ EXCEPT !.status = "resolved"]]
  /\ UNCHANGED <<tripVars, busVars, eventVars, req, phone, caller>>

\* The ops room and the school call PUT .../collected as well.
CollectElsewhere(w, t, s) ==
  /\ Collected(w, t, s)
  /\ UNCHANGED <<phone, caller>>

-----------------------------------------------------------------------------
\* The statements after which a handler answers with success.
Accepting == {"alight.create", "escalate.create", "collect.find", "collect.resolve"}

\* A statement of a request, and the answer to the phone if it is the last.
\* The answer itself may be lost.
Serve(w) ==
  /\ Continue(w)
  /\ IF req'[w] # Idle THEN UNCHANGED <<phone, caller>>
     ELSE /\ caller' = [caller EXCEPT ![w] = NoCall]
          /\ \/ req[w].at \in Accepting /\ Success(caller[w])
             \/ (req[w].at \in Accepting => MayFail) /\ UNCHANGED phone

\* The phone's mutation ends in an error, which nothing handles.
ServeError(w) ==
  /\ Fail(w)
  /\ caller' = [caller EXCEPT ![w] = NoCall]
  /\ UNCHANGED phone

Phone(t) ==
  \/ Back(t) \/ Tick(t)
  \/ \E s \in Students : OpenVerify(t, s)
  \/ \E w \in Workers :
       \/ Escalate(w, t)
       \/ \E s \in Students : Confirm(w, t, s) \/ Reject(w, t, s) \/ Collect(w, t, s)

EscNext ==
  \/ \E t \in Trips : Phone(t)
  \/ \E a \in AlertIds : Acknowledge(a) \/ Resolve(a)
  \/ \E w \in Workers :
       \/ Serve(w) \/ ServeError(w)
       \/ \E t \in Trips, s \in Students : CollectElsewhere(w, t, s)

EscSpec == EscInit /\ [][EscNext]_escVars

\* The server executes the statements of a request it has begun; the timer
\* runs while its screen is shown; its call gets through to the server (which
\* serves more requests at once than there are Workers) or fails.
Fairness ==
  /\ \A w \in Workers : WF_escVars(Serve(w))
  /\ \A t \in Trips : /\ WF_escVars(Tick(t))
                      /\ SF_escVars(\E w \in Workers : Escalate(w, t))

FairSpec == EscSpec /\ Fairness

-----------------------------------------------------------------------------
(* Type invariant.                                                          *)
EscTypeOK ==
  /\ TypeOK
  /\ phone \in [Trips -> Screens]
  /\ caller \in [Workers -> {NoCall} \cup Calls]

\* The check of not-collected is not a uniqueness constraint, but a trip
\* never has more open alerts, with those about to be inserted, than the
\* requests the server handles at once.
Escalating(t) == {w \in Workers : At(w, "escalate.create") /\ req[w].trip = t}

OpenAlertsBounded ==
  \A t \in Trips :
    Cardinality(OpenAlerts(t)) + Cardinality(Escalating(t)) <= Cardinality(Workers)

\* The waiting screen is shown only once an alert of the trip is in the
\* table, so the ops room can see that somebody is being waited for.
WaitingIsReported ==
  \A t \in Trips :
    Shows(t, "waiting") => \E a \in AlertIds : alerts[a] # NoAlert /\ alerts[a].trip = t

\* PUT .../collected resolves an alert only after the exit of the student it
\* was called for is in the table.
ExitBeforeResolve ==
  \A w \in Workers :
    caller[w].kind = "collect" /\ req[w].at \in {"collect.find", "collect.resolve"}
      => alightRows[caller[w].trip][caller[w].student] > 0

\* A waiting screen that stays open has called the ops room in the end, and
\* the call was answered or failed (unless the bound on alert ids is reached).
Called(t) ==
  /\ Shows(t, "waiting") /\ phone[t].escalated
  /\ ~Pending(t, "escalate", phone[t].student)

WaitingEscalates ==
  \A t \in Trips :
    Shows(t, "waiting") ~> Called(t) \/ ~Shows(t, "waiting") \/ UnusedAlerts = {}

\* What the waiting screen says once its timer has run out, "escalated
\* automatically to the ops room" ([studentId].tsx:74): there is an alert for
\* the student it names.  There is not if the trip had an open alert for
\* somebody else, or if the call failed.
EscalationNamesStudent ==
  \A t \in Trips :
    Called(t) => \E a \in AlertIds : /\ alerts[a] # NoAlert
                                     /\ alerts[a].trip = t
                                     /\ alerts[a].student = phone[t].student
=============================================================================
