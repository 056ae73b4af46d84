------------------------------ MODULE Billing ------------------------------
(***************************************************************************)
(* Payments, invoices and parent subscriptions of the Aman School backend  *)
(* (routes/subscriptions.routes.ts) together with the screens that pay:    *)
(* the parent's (parent)/subscription.tsx and the school's                 *)
(* (school)/settings.tsx.                                                  *)
(*                                                                         *)
(* A screen has at most one payment under way, because its button is       *)
(* disabled while one is; a parent who leaves the screen and comes back,   *)
(* or who has two devices, is a payer with two screens.  POST /payments is *)
(* three statements (insert the payment, count the invoices, insert the    *)
(* invoice) and anything may run between them.  A plan is a tier together  *)
(* with a billing cycle.                                                   *)
(***************************************************************************)
EXTENDS Integers, FiniteSets, Sequences

CONSTANTS
  Parents,      \* users with the role parent
  Schools,
  Screens,      \* payment screens that are open, or still wait for an answer
  PayerOf,      \* the parent or school logged in on a screen
  Plans,        \* what is for sale
  NoPlan,       \* nothing selected, or no subscription
  Years,        \* the calendar years of the server's clock, from 1
  MaxPayments,  \* bound: payments that are ever submitted
  MaxFailures   \* bound: requests that fail

ASSUME BillingAssumption ==
  /\ PayerOf \in [Screens -> Parents \cup Schools]
  /\ Parents \cap Schools = {}
  /\ NoPlan \notin Plans
  /\ Years \in Nat \ {0}
  /\ MaxPayments \in Nat
  /\ MaxFailures \in Nat

\* UninvoicedBounded counts the screens that wait for an answer.
ASSUME FiniteScreens == IsFiniteSet(Screens)

VARIABLES
  year,          \* the server's calendar year
  payments,      \* rows of table Payment, in the order of their insertion
  invoices,      \* rows of table Invoice
  subscription,  \* User.subscriptionTier of the parents
  selected,      \* the plan each screen shows selected
  pay,           \* the payment each screen waits for
  failures       \* number of requests that failed

vars == <<year, payments, invoices, subscription, selected, pay, failures>>

-----------------------------------------------------------------------------
Payers == Parents \cup Schools
Row    == [payer : Payers, plan : Plans]
Id     == 1 .. MaxPayments

\* The number INV-<year>-<serial> of a row.  `payment`, the position of the
\* payment the row was issued for, is not a column.
Number  == [year : 1 .. Years, serial : Nat]
Invoice == [year : 1 .. Years, serial : Nat, payment : Id]

\* The point a payment has reached: the tap on the button, the statements of
\* POST /payments, then POST /parents/:id/subscription.
Ready      == [at |-> "ready"]
Tapped     == [at : {"payment.create"}, plan : Plans]
Inserted   == [at : {"invoice.count"}, payment : Id]
Numbered   == [at : {"invoice.create"}, payment : Id, year : 1 .. Years, serial : Nat]
Subscriber == [at : {"subscribe"}, plan : Plans]
Payment    == {Ready} \cup Tapped \cup Inserted \cup Numbered \cup Subscriber

At(s, point) == pay[s].at = point
Goto(s, r)   == pay' = [pay EXCEPT ![s] = r]

Taken(y, n) == \E i \in invoices : i.year = y /\ i.serial = n

\* The payment whose handler screen s waits for.
Handled(s) == IF pay[s].at \in {"invoice.count", "invoice.create"} THEN {pay[s].payment} ELSE {}

Invoiced   == {i.payment : i \in invoices}
InFlight   == UNION {Handled(s) : s \in Screens}
Uninvoiced == (DOMAIN payments \ Invoiced) \ InFlight

-----------------------------------------------------------------------------
(* The seed inserts a payment without an invoice; the table starts empty    *)
(* here.  A school's screen shows the package the school already has.       *)
Init ==
  /\ year = 1
  /\ payments = <<>>
  /\ invoices = {}
  /\ subscription = [p \in Parents |-> NoPlan]
  /\ selected \in [Screens -> Plans \cup {NoPlan}]
  /\ \A s \in Screens : selected[s] = NoPlan <=> PayerOf[s] \in Parents
  /\ pay = [s \in Screens |-> Ready]
  /\ failures = 0

NewYear ==
  /\ year < Years
  /\ year' = year + 1
  /\ UNCHANGED <<payments, invoices, subscription, selected, pay, failures>>

(* A parent's screen: the cards of the plans can be tapped at any time, also *)
(* while a payment is under way.                                            *)
Select(s, plan) ==
  /\ PayerOf[s] \in Parents
  /\ selected[s] # plan
  /\ selected' = [selected EXCEPT ![s] = plan]
  /\ UNCHANGED <<year, payments, invoices, subscription, pay, failures>>

(* The button "confirm payment and subscription".                           *)
Pay(s) ==
  /\ At(s, "ready")
  /\ selected[s] # NoPlan
  /\ Goto(s, [at |-> "payment.create", plan |-> selected[s]])
  /\ UNCHANGED <<year, payments, invoices, subscription, selected, failures>>

-----------------------------------------------------------------------------
PaymentCreate_Mutant(s) ==  \* the insert is not awaited
  /\ At(s, "payment.create")
  /\ Len(payments) < MaxPayments
  /\ Goto(s, [at |-> "invoice.count", payment |-> Len(payments) + 1])
  /\ UNCHANGED <<year, payments, invoices, subscription, selected, failures>>

(* POST /payments: the payment is confirmed as soon as it is inserted.      *)
PaymentCreate(s) ==
  /\ At(s, "payment.create")
  /\ Len(payments) < MaxPayments
  /\ payments' = Append(payments, [payer |-> PayerOf[s], plan |-> pay[s].plan])
  /\ Goto(s, [at |-> "invoice.count", payment |-> Len(payments) + 1])
  /\ UNCHANGED <<year, invoices, subscription, selected, failures>>

InvoiceCount_Mutant(s) ==  \* no invoice for a school
  /\ At(s, "invoice.count")
  /\ Goto(s, IF PayerOf[s] \in Schools THEN Ready
             ELSE [at |-> "invoice.create", payment |-> pay[s].payment, year |-> year,
                   serial |-> Cardinality(invoices) + 1])
  /\ UNCHANGED <<year, payments, invoices, subscription, selected, failures>>

(* nextInvoiceNumber: the invoices of all years are counted.                *)
InvoiceCount(s) ==
  /\ At(s, "invoice.count")
  /\ Goto(s, [at |-> "invoice.create", payment |-> pay[s].payment, year |-> year,
              serial |-> Cardinality(invoices) + 1])
  /\ UNCHANGED <<year, payments, invoices, subscription, selected, failures>>

\* On success a parent's screen goes on to subscribe, with the plan that is
\* selected now: the mutation runs the closure of the last render.
Confirmed(s) == Goto(s, IF PayerOf[s] \in Parents
                          THEN [at |-> "subscribe", plan |-> selected[s]]
                          ELSE Ready)

InvoiceCreate_Mutant(s) ==  \* the column is not unique
  /\ At(s, "invoice.create")
  /\ invoices' = invoices \cup {[year |-> pay[s].year, serial |-> pay[s].serial,
                                 payment |-> pay[s].payment]}
  /\ Confirmed(s)
  /\ UNCHANGED <<year, payments, subscription, selected, failures>>

(* invoiceNumber is unique: a number that is taken fails the request, and   *)
(* the payment stays.                                                       *)
InvoiceCreate(s) ==
  /\ At(s, "invoice.create")
  /\ LET r == pay[s] IN
       IF Taken(r.year, r.serial)
         THEN Goto(s, Ready) /\ UNCHANGED invoices
         ELSE /\ invoices' = invoices \cup {[year |-> r.year, serial |-> r.serial,
                                             payment |-> r.payment]}
              /\ Confirmed(s)
  /\ UNCHANGED <<year, payments, subscription, selected, failures>>

-----------------------------------------------------------------------------
(* POST /parents/:id/subscription.                                          *)
SubscribeWrite(s) ==
  /\ At(s, "subscribe")
  /\ subscription' = [subscription EXCEPT ![PayerOf[s]] = pay[s].plan]
  /\ Goto(s, Ready)
  /\ UNCHANGED <<year, payments, invoices, selected, failures>>

(* A statement fails, the server restarts, or the connection is lost: what  *)
(* was written stays, and the screen gets an error.                         *)
Fail(s) ==
  /\ failures < MaxFailures
  /\ failures' = failures + 1
  /\ ~At(s, "ready")
  /\ Goto(s, Ready)
  /\ UNCHANGED <<year, payments, invoices, subscription, selected>>

Serve(s) == PaymentCreate(s) \/ InvoiceCount(s) \/ InvoiceCreate(s) \/ SubscribeWrite(s)

Next ==
  \/ NewYear
  \/ \E s \in Screens : Pay(s) \/ Serve(s) \/ Fail(s)
  \/ \E s \in Screens, plan \in Plans : Select(s, plan)

Spec == Init /\ [][Next]_vars

-----------------------------------------------------------------------------
\* The tables, the screens and the requests have their types, and a payment
\* in flight or invoiced is a row (subscriptions.routes.ts:58-104).
BillingTypeOK ==
  /\ year \in 1 .. Years
  /\ payments \in Seq(Row)
  /\ Len(payments) <= MaxPayments
  /\ invoices \in SUBSET Invoice
  /\ subscription \in [Parents -> Plans \cup {NoPlan}]
  /\ selected \in [Screens -> Plans \cup {NoPlan}]
  /\ pay \in [Screens -> Payment]
  /\ \A s \in Screens : At(s, "ready") \/ selected[s] \in Plans
  /\ failures \in Nat
  /\ Invoiced \cup InFlight \subseteq DOMAIN payments

\* The serials of the invoices are 1..n without a gap and without a repeat,
\* however many payments race for the next number, unless the clock passed
\* into a new year (nextInvoiceNumber counts the invoices of all years).
SerialsWithoutGap ==
  \A y \in 1 .. Years :
    (\A i \in invoices : i.year = y)
       => {i.serial : i \in invoices} = 1 .. Cardinality(invoices)

\* No payment is invoiced twice: it is handled by one request, which ends when
\* the invoice is inserted.
InvoicedOnce ==
  /\ \A i, j \in invoices : i.payment = j.payment => i = j
  /\ \A s, t \in Screens : Handled(s) \cap Handled(t) # {} => s = t
  /\ Invoiced \cap InFlight = {}

\* Only a failure or a race for a number costs a payment its invoice: each
\* invoice is the reason that at most all other screens lost theirs, so that
\* of any n simultaneous payments at least one is invoiced.
UninvoicedBounded ==
  Cardinality(Uninvoiced)
    <= (Cardinality(Screens) - 1) * Cardinality(invoices) + failures

\* A parent has a subscription only after a payment of that parent was
\* invoiced (subscription.tsx runs the subscription in onSuccess), whatever
\* fails in between.
SubscribedHasInvoice ==
  \A p \in Parents : subscription[p] # NoPlan
                       => \E i \in invoices : payments[i.payment].payer = p

\* A payment that was confirmed has an invoice once its request was answered
\* (the comment at subscriptions.routes.ts:86).
EveryPaymentInvoiced == Uninvoiced = {}
=============================================================================
