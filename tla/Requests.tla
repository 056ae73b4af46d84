------------------------------ MODULE Requests ------------------------------
(***************************************************************************)
(* The requests one Express process of the Aman School backend serves at   *)
(* the same time.  A worker is one request; req[w].at names the statement  *)
(* it executes next and the other fields are the local variables its       *)
(* handler still needs.  Each `await prisma...` is one step, and between   *)
(* two of them any other request may run; no handler uses a transaction.   *)
(***************************************************************************)
EXTENDS Naturals, FiniteSets

CONSTANTS
  Workers,     \* requests served at the same time
  MaxFailures  \* bound: statements that throw and restarts of the process

ASSUME RequestsAssumption ==
  IsFiniteSet(Workers) /\ Workers # {} /\ MaxFailures \in Nat

VARIABLES
  req,       \* the requests in flight
  failures   \* how many requests have ended with status 500

Idle == [at |-> "idle"]

Free(w)     == req[w] = Idle
At(w, s)    == req[w].at = s
Goto(w, r)  == req' = [req EXCEPT ![w] = r]
Succeed(w)  == Goto(w, Idle) /\ UNCHANGED failures
Continue(w, r) == Goto(w, r) /\ UNCHANGED failures

\* A statement throws: the error handler answers 500 and nothing is undone.
Fail(w) == Goto(w, Idle) /\ failures' = failures + 1

RequestsInit == req = [w \in Workers |-> Idle] /\ failures = 0

\* The database refuses a statement or the connection is gone.
Crash(w) == ~Free(w) /\ failures < MaxFailures /\ Fail(w)
=============================================================================
