----------------------------- MODULE ErpLedger -----------------------------
(***************************************************************************)
(* Invoices and their payments in the IDURAR ERP backend: the handlers of  *)
(* controllers/appControllers/paymentController and invoiceController that *)
(* change state.  An invoice carries its credit, its payment status and    *)
(* the list of its payments, which the handlers maintain by hand: they     *)
(* read, compute in the server, and write one document at a time, without  *)
(* a transaction.  Reading a payment also reads its invoice (autopopulate),*)
(* which is a second query.                                                *)
(*                                                                         *)
(* Amounts are whole cents: the helpers of `calculate` round to cents.     *)
(* There is no discount: schemaValidate.js rejects a body that has one.    *)
(***************************************************************************)
EXTENDS Integers, FiniteSetsExt

CONSTANTS
  Invoices,     \* documents of collection Invoice that are ever created
  Payments,     \* documents of collection Payment that are ever created
  Workers,      \* requests the server handles at the same time
  Amounts,      \* amounts of a payment
  Totals,       \* totals of an invoice
  Disciplines,  \* how the users of the ERP may coordinate, see Admitted
  MaxFailures   \* bound: requests that fail half way

ASSUME LedgerAssumption ==
  /\ Amounts \subseteq Nat \ {0}
  /\ Totals \subseteq Nat
  /\ Disciplines \subseteq {"invoice", "payment", "free"}
  /\ MaxFailures \in Nat

\* What sums and the largest amount are taken over.
ASSUME FiniteLedger ==
  /\ IsFiniteSet(Payments) /\ IsFiniteSet(Workers)
  /\ IsFiniteSet(Amounts) /\ Amounts # {}

VARIABLES
  invoice,     \* collection Invoice
  payment,     \* collection Payment
  req,         \* the requests in flight, with their local variables
  discipline,  \* how the users coordinate; it never changes
  failures     \* number of requests that failed half way

vars == <<invoice, payment, req, discipline, failures>>

-----------------------------------------------------------------------------
None == [removed |-> TRUE]   \* a document that was not created yet
Idle == [at |-> "idle"]

Exists(doc) == doc # None
Statuses    == {"unpaid", "partially", "paid"}
InvoiceDoc  == [removed : BOOLEAN, total : Totals, credit : Int, status : Statuses,
                list : SUBSET Payments]
PaymentDoc  == [removed : BOOLEAN, invoice : Invoices, amount : Amounts]

Free(w)      == req[w].at = "idle"
At(w, point) == req[w].at = point
Goto(w, r)   == req' = [req EXCEPT ![w] = r]
Answer(w)    == Goto(w, Idle)

\* The handler of w goes on with what it knows.
Continue(w, point) == Goto(w, [req[w] EXCEPT !.at = point])

\* The ternary that create, update and remove repeat.
PaymentStatus(total, credit) == IF total = credit THEN "paid"
                                ELSE IF credit > 0 THEN "partially" ELSE "unpaid"

\* $inc and $set of one findOneAndUpdate on an invoice.
AddCredit(i, delta, status) ==
  invoice' = [invoice EXCEPT ![i].credit = @ + delta, ![i].status = status]

LivePayments(i) == {p \in Payments : Exists(payment[p]) /\ ~payment[p].removed
                                       /\ payment[p].invoice = i}
SumOfPayments(i) == MapThenSumSet(LAMBDA p : payment[p].amount, LivePayments(i))

OnInvoice(i) == {w \in Workers : ~Free(w) /\ req[w].invoice = i}
OnPayment(p) == {w \in Workers : ~Free(w) /\ "payment" \in DOMAIN req[w] /\ req[w].payment = p}

\* Users who agree on an invoice keep to one request per invoice at a time,
\* those who agree on a payment to one request per payment.
Admitted(w, i, P) ==
  /\ Free(w)
  /\ discipline = "invoice" => OnInvoice(i) = {}
  /\ discipline = "payment" => \A p \in P : OnPayment(p) = {}

-----------------------------------------------------------------------------
Init ==
  /\ invoice = [i \in Invoices |-> None]
  /\ payment = [p \in Payments |-> None]
  /\ req = [w \in Workers |-> Idle]
  /\ discipline \in Disciplines
  /\ failures = 0

(* POST /invoice/create.                                                    *)
InvoiceCreate(i, total) ==
  /\ ~Exists(invoice[i])
  /\ invoice' = [invoice EXCEPT ![i] = [removed |-> FALSE, total |-> total, credit |-> 0,
                                        status |-> PaymentStatus(total, 0), list |-> {}]]
  /\ UNCHANGED <<payment, req, discipline, failures>>

InvoiceUpdate_Mutant(w, i, total) ==  \* the status is not computed again
  /\ Admitted(w, i, {})
  /\ ~invoice[i].removed
  /\ Goto(w, [at |-> "invoice.write", invoice |-> i, total |-> total,
              status |-> invoice[i].status])
  /\ UNCHANGED <<invoice, payment, discipline, failures>>

(* PATCH /invoice/update/:id: the status is computed from the credit that   *)
(* was read; the new total is not compared with it.                         *)
InvoiceUpdate(w, i, total) ==
  /\ Admitted(w, i, {})
  /\ ~invoice[i].removed
  /\ Goto(w, [at |-> "invoice.write", invoice |-> i, total |-> total,
              status |-> PaymentStatus(total, invoice[i].credit)])
  /\ UNCHANGED <<invoice, payment, discipline, failures>>

InvoiceUpdateWrite(w) ==
  /\ At(w, "invoice.write")
  /\ LET r == req[w] IN
       invoice' = IF invoice[r.invoice].removed THEN invoice
                  ELSE [invoice EXCEPT ![r.invoice].total = r.total,
                                       ![r.invoice].status = r.status]
  /\ Answer(w)
  /\ UNCHANGED <<payment, discipline, failures>>

(* DELETE /invoice/delete/:id, then its payments.                           *)
InvoiceRemove(w, i) ==
  /\ Admitted(w, i, {})
  /\ ~invoice[i].removed
  /\ invoice' = [invoice EXCEPT ![i].removed = TRUE]
  /\ Goto(w, [at |-> "invoice.payments", invoice |-> i])
  /\ UNCHANGED <<payment, discipline, failures>>

InvoiceRemovePayments_Mutant(w) ==  \* the payments stay
  /\ At(w, "invoice.payments")
  /\ Answer(w)
  /\ UNCHANGED <<invoice, payment, discipline, failures>>

InvoiceRemovePayments(w) ==
  /\ At(w, "invoice.payments")
  /\ payment' = [p \in Payments |-> IF p \in LivePayments(req[w].invoice)
                                      THEN [payment[p] EXCEPT !.removed = TRUE]
                                      ELSE payment[p]]
  /\ Answer(w)
  /\ UNCHANGED <<invoice, discipline, failures>>

-----------------------------------------------------------------------------
(* POST /payment/create: at most what is left of the invoice; then the      *)
(* payment, then the invoice.                                               *)
PaymentCreate(w, i, p, a) ==
  /\ Admitted(w, i, {p})
  /\ ~Exists(payment[p]) /\ OnPayment(p) = {}
  /\ ~invoice[i].removed
  /\ a <= invoice[i].total - invoice[i].credit
  /\ Goto(w, [at |-> "create.insert", invoice |-> i, payment |-> p, delta |-> a,
              status |-> PaymentStatus(invoice[i].total, invoice[i].credit + a)])
  /\ UNCHANGED <<invoice, payment, discipline, failures>>

PaymentInsert_Mutant(w) ==  \* the insert is not awaited
  /\ At(w, "create.insert")
  /\ Continue(w, "create.credit")
  /\ UNCHANGED <<invoice, payment, discipline, failures>>

PaymentInsert(w) ==
  /\ At(w, "create.insert")
  /\ LET r == req[w] IN
       payment' = [payment EXCEPT ![r.payment] =
                     [removed |-> FALSE, invoice |-> r.invoice, amount |-> r.delta]]
  /\ Continue(w, "create.credit")
  /\ UNCHANGED <<invoice, discipline, failures>>

PaymentCredit(w) ==
  /\ At(w, "create.credit")
  /\ LET r == req[w] IN
       invoice' = [invoice EXCEPT ![r.invoice].credit = @ + r.delta,
                                  ![r.invoice].status = r.status,
                                  ![r.invoice].list = @ \cup {r.payment}]
  /\ Answer(w)
  /\ UNCHANGED <<payment, discipline, failures>>

-----------------------------------------------------------------------------
(* PATCH /payment/update/:id: read the payment, then its invoice, then      *)
(* write both with the difference to the amount that was read.              *)
PaymentUpdate(w, p, a) ==
  /\ Exists(payment[p]) /\ ~payment[p].removed
  /\ Admitted(w, payment[p].invoice, {p})
  /\ Goto(w, [at |-> "update.read", invoice |-> payment[p].invoice, payment |-> p,
              amount |-> a, delta |-> a - payment[p].amount])
  /\ UNCHANGED <<invoice, payment, discipline, failures>>

UpdateRead_Mutant(w) ==  \* compared with the total, not with what is left
  /\ At(w, "update.read")
  /\ LET r == req[w]
         i == invoice[r.invoice]
     IN IF r.delta > i.total
          THEN Answer(w)
          ELSE Goto(w, [at |-> "update.write", invoice |-> r.invoice, payment |-> r.payment,
                        amount |-> r.amount, delta |-> r.delta,
                        status |-> PaymentStatus(i.total, i.credit + r.delta)])
  /\ UNCHANGED <<invoice, payment, discipline, failures>>

UpdateRead(w) ==
  /\ At(w, "update.read")
  /\ LET r == req[w]
         i == invoice[r.invoice]
     IN IF r.delta > i.total - i.credit
          THEN Answer(w)
          ELSE Goto(w, [at |-> "update.write", invoice |-> r.invoice, payment |-> r.payment,
                        amount |-> r.amount, delta |-> r.delta,
                        status |-> PaymentStatus(i.total, i.credit + r.delta)])
  /\ UNCHANGED <<invoice, payment, discipline, failures>>

UpdateWrite(w) ==
  /\ At(w, "update.write")
  /\ LET r == req[w] IN
       IF payment[r.payment].removed
         THEN Answer(w) /\ UNCHANGED payment   \* null.invoice throws
         ELSE /\ payment' = [payment EXCEPT ![r.payment].amount = r.amount]
              /\ Continue(w, "update.credit")
  /\ UNCHANGED <<invoice, discipline, failures>>

UpdateCredit(w) ==
  /\ At(w, "update.credit")
  /\ AddCredit(req[w].invoice, req[w].delta, req[w].status)
  /\ Answer(w)
  /\ UNCHANGED <<payment, discipline, failures>>

-----------------------------------------------------------------------------
(* DELETE /payment/delete/:id: the same, without a look at whether the      *)
(* payment was still there when it was marked.                              *)
PaymentRemove(w, p) ==
  /\ Exists(payment[p]) /\ ~payment[p].removed
  /\ Admitted(w, payment[p].invoice, {p})
  /\ Goto(w, [at |-> "remove.read", invoice |-> payment[p].invoice, payment |-> p,
              delta |-> 0 - payment[p].amount])
  /\ UNCHANGED <<invoice, payment, discipline, failures>>

RemoveRead(w) ==
  /\ At(w, "remove.read")
  /\ LET r == req[w]
         i == invoice[r.invoice]
     IN Goto(w, [at |-> "remove.write", invoice |-> r.invoice, payment |-> r.payment,
                 delta |-> r.delta, status |-> PaymentStatus(i.total, i.credit + r.delta)])
  /\ UNCHANGED <<invoice, payment, discipline, failures>>

RemoveWrite(w) ==
  /\ At(w, "remove.write")
  /\ payment' = [payment EXCEPT ![req[w].payment].removed = TRUE]
  /\ Continue(w, "remove.credit")
  /\ UNCHANGED <<invoice, discipline, failures>>

RemoveCredit_Mutant(w) ==  \* $pull without $inc
  /\ At(w, "remove.credit")
  /\ invoice' = [invoice EXCEPT ![req[w].invoice].status = req[w].status,
                                ![req[w].invoice].list = @ \ {req[w].payment}]
  /\ Answer(w)
  /\ UNCHANGED <<payment, discipline, failures>>

RemoveCredit_Unlisted(w) ==  \* $inc without $pull
  /\ At(w, "remove.credit")
  /\ AddCredit(req[w].invoice, req[w].delta, req[w].status)
  /\ Answer(w)
  /\ UNCHANGED <<payment, discipline, failures>>

RemoveCredit(w) ==
  /\ At(w, "remove.credit")
  /\ LET r == req[w] IN
       invoice' = [invoice EXCEPT ![r.invoice].credit = @ + r.delta,
                                  ![r.invoice].status = r.status,
                                  ![r.invoice].list = @ \ {r.payment}]
  /\ Answer(w)
  /\ UNCHANGED <<payment, discipline, failures>>

-----------------------------------------------------------------------------
(* A statement fails or the server restarts: what was written stays.        *)
Fail(w) ==
  /\ failures < MaxFailures
  /\ ~Free(w)
  /\ failures' = failures + 1
  /\ Answer(w)
  /\ UNCHANGED <<invoice, payment, discipline>>

Arrive(w) ==
  \/ \E i \in Invoices, total \in Totals : InvoiceUpdate(w, i, total)
  \/ \E i \in Invoices : InvoiceRemove(w, i)
  \/ \E i \in Invoices, p \in Payments, a \in Amounts : PaymentCreate(w, i, p, a)
  \/ \E p \in Payments, a \in Amounts : PaymentUpdate(w, p, a)
  \/ \E p \in Payments : PaymentRemove(w, p)

Proceed(w) ==
  \/ InvoiceUpdateWrite(w) \/ InvoiceRemovePayments(w)
  \/ PaymentInsert(w) \/ PaymentCredit(w)
  \/ UpdateRead(w) \/ UpdateWrite(w) \/ UpdateCredit(w)
  \/ RemoveRead(w) \/ RemoveWrite(w) \/ RemoveCredit(w)

Next ==
  \/ \E i \in Invoices, total \in Totals : InvoiceCreate(i, total)
  \/ \E w \in Workers : Arrive(w) \/ Proceed(w) \/ Fail(w)

Spec == Init /\ [][Next]_vars

-----------------------------------------------------------------------------
Points == {"idle", "invoice.write", "invoice.payments", "create.insert", "create.credit",
           "update.read", "update.write", "update.credit",
           "remove.read", "remove.write", "remove.credit"}

\* The documents have their types, and what a request works on exists.
LedgerTypeOK ==
  /\ \A i \in Invoices : invoice[i] \in InvoiceDoc \cup {None}
  /\ \A p \in Payments : payment[p] \in PaymentDoc \cup {None}
  /\ \A w \in Workers :
       /\ req[w].at \in Points
       /\ ~Free(w) => Exists(invoice[req[w].invoice])
       /\ req[w].at \notin {"idle", "invoice.write", "invoice.payments", "create.insert"}
            => Exists(payment[req[w].payment])
  /\ failures \in 0 .. MaxFailures

Settled(i) == ~invoice[i].removed /\ OnInvoice(i) = {}
MaxAmount  == Max(Amounts)

\* Requests about different payments of one invoice may overlap in any way:
\* its credit is the sum of its payments again when they are done, and every
\* request that failed half way shifts it by at most one amount ($inc,
\* paymentController/create.js:66-77, update.js:66-77, remove.js:45-59).
CreditIsSum ==
  discipline \in {"invoice", "payment"} =>
    \A i \in Invoices : Settled(i) =>
      LET drift == invoice[i].credit - SumOfPayments(i)
      IN  /\ drift <= failures * MaxAmount
          /\ 0 - drift <= failures * MaxAmount

\* The list of an invoice names exactly its live payments, however requests
\* about different payments overlap ($push and $pull).
ListsLivePayments ==
  discipline \in {"invoice", "payment"} /\ failures = 0 =>
    \A i \in Invoices : Settled(i) => invoice[i].list = LivePayments(i)

\* One request per invoice at a time: the stored status is the one its total
\* and credit call for, whatever requests came before.
StatusAgrees ==
  discipline = "invoice" =>
    \A i \in Invoices : Settled(i) =>
      invoice[i].status = PaymentStatus(invoice[i].total, invoice[i].credit)

\* One request per invoice at a time: no payment survives its invoice.
RemovedTogether ==
  discipline = "invoice" /\ failures = 0 =>
    \A i \in Invoices : invoice[i].removed /\ OnInvoice(i) = {} => LivePayments(i) = {}

PaysAtMost(i) ==
  Exists(invoice[i]) /\ invoice'[i].credit > invoice[i].credit
    => invoice'[i].credit <= invoice'[i].total

\* One request per invoice at a time: no payment lifts the credit above the
\* total, also after the total was edited.
NeverOverpaid == [][discipline = "invoice" => \A i \in Invoices : PaysAtMost(i)]_vars
=============================================================================
