-------------------------- MODULE ErpLedgerProofs --------------------------
(***************************************************************************)
(* Type correctness of ErpLedger, and what its invoices keep when users    *)
(* coordinate, for any number of invoices, payments, requests and          *)
(* failures: their lists, statuses and removals, and that their credit is  *)
(* the sum of their payments.                                              *)
(***************************************************************************)
EXTENDS ErpLedger, FiniteSetTheorems, WellFoundedInduction, TLAPS

OfPayment == {"create.insert", "create.credit", "update.read", "update.write", "update.credit",
              "remove.read", "remove.write", "remove.credit"}
Creating  == {"create.insert", "create.credit"}
Updating  == {"update.write", "update.credit"}
Removing  == {"remove.write", "remove.credit"}

\* The locals of each handler.
Requests ==
  {Idle}
    \cup [at : {"invoice.write"}, invoice : Invoices, total : Totals, status : Statuses]
    \cup [at : {"invoice.payments"}, invoice : Invoices]
    \cup [at : Creating, invoice : Invoices, payment : Payments, delta : Amounts, status : Statuses]
    \cup [at : {"update.read"}, invoice : Invoices, payment : Payments, amount : Amounts, delta : Int]
    \cup [at : Updating, invoice : Invoices, payment : Payments, amount : Amounts, delta : Int,
          status : Statuses]
    \cup [at : {"remove.read"}, invoice : Invoices, payment : Payments, delta : Int]
    \cup [at : Removing, invoice : Invoices, payment : Payments, delta : Int, status : Statuses]

Types ==
  /\ invoice \in [Invoices -> InvoiceDoc \cup {None}]
  /\ payment \in [Payments -> PaymentDoc \cup {None}]
  /\ req \in [Workers -> Requests]
  /\ discipline \in {"invoice", "payment", "free"}
  /\ failures \in 0 .. MaxFailures

\* What a request works on exists: its invoice always, its payment from the insert
\* on and not before, and then it is a payment of that invoice.
Known ==
  /\ \A w \in Workers : ~Free(w) => Exists(invoice[req[w].invoice])
  /\ \A w \in Workers : req[w].at \in OfPayment \ {"create.insert"} =>
       /\ Exists(payment[req[w].payment])
       /\ payment[req[w].payment].invoice = req[w].invoice
  /\ \A w \in Workers : req[w].at = "create.insert" => ~Exists(payment[req[w].payment])
  /\ \A w, v \in Workers :
       req[w].at = "create.insert" /\ req[v].at \in OfPayment /\ req[v].payment = req[w].payment
         => v = w
  /\ \A w \in Workers : req[w].at = "invoice.payments" => invoice[req[w].invoice].removed
  /\ \A p \in Payments : Exists(payment[p]) => Exists(invoice[payment[p].invoice])

-----------------------------------------------------------------------------
(* The documents and the requests, read off Types.                          *)

LEMMA NoneIsNoDoc == None \notin InvoiceDoc /\ None \notin PaymentDoc
  BY DEF None, InvoiceDoc, PaymentDoc

LEMMA Numbers == Totals \subseteq Int /\ Amounts \subseteq Int /\ Amounts \subseteq Nat \ {0}
  BY LedgerAssumption

LEMMA StatusType == ASSUME NEW t, NEW c PROVE PaymentStatus(t, c) \in Statuses
  BY DEF PaymentStatus, Statuses

LEMMA Docs ==
  ASSUME Types
  PROVE  /\ \A i \in Invoices : invoice[i] \in InvoiceDoc \/ invoice[i] = None
         /\ \A i \in Invoices : Exists(invoice[i]) <=> invoice[i] \in InvoiceDoc
         /\ \A i \in Invoices : ~invoice[i].removed => invoice[i] \in InvoiceDoc
         /\ \A p \in Payments : payment[p] \in PaymentDoc \/ payment[p] = None
         /\ \A p \in Payments : Exists(payment[p]) <=> payment[p] \in PaymentDoc
<1>1. None.removed = TRUE
  BY DEF None
<1> QED BY <1>1, NoneIsNoDoc DEF Types, Exists

LEMMA Locals ==
  ASSUME Types, NEW w \in Workers
  PROVE  /\ req[w].at \in Points
         /\ ~Free(w) => req[w].invoice \in Invoices
         /\ req[w].at \in OfPayment <=> "payment" \in DOMAIN req[w]
         /\ req[w].at \in OfPayment => req[w].payment \in Payments /\ req[w].delta \in Int
         /\ req[w].at \in Creating => req[w].delta \in Amounts
         /\ req[w].at = "invoice.write" => req[w].total \in Totals
         /\ req[w].at \in {"update.read"} \cup Updating => req[w].amount \in Amounts
         /\ req[w].at \in {"invoice.write"} \cup Creating \cup Updating \cup Removing
              => req[w].status \in Statuses
<1>0. Amounts \subseteq Int
  BY Numbers
<1>1. req[w] \in Requests
  BY DEF Types
<1>2. CASE req[w] = Idle
  BY <1>2 DEF Idle, Free, Points, OfPayment, Creating, Updating, Removing
<1>3. CASE \/ req[w] \in [at : {"invoice.write"}, invoice : Invoices, total : Totals, status : Statuses]
           \/ req[w] \in [at : {"invoice.payments"}, invoice : Invoices]
  BY <1>3 DEF Points, OfPayment, Creating, Updating, Removing
<1>4. CASE req[w] \in [at : Creating, invoice : Invoices, payment : Payments, delta : Amounts,
                       status : Statuses]
  BY <1>0, <1>4 DEF Points, OfPayment, Creating, Updating, Removing
<1>5. CASE \/ req[w] \in [at : {"update.read"}, invoice : Invoices, payment : Payments,
                          amount : Amounts, delta : Int]
           \/ req[w] \in [at : Updating, invoice : Invoices, payment : Payments, amount : Amounts,
                          delta : Int, status : Statuses]
  BY <1>5 DEF Points, OfPayment, Creating, Updating, Removing
<1>6. CASE \/ req[w] \in [at : {"remove.read"}, invoice : Invoices, payment : Payments, delta : Int]
           \/ req[w] \in [at : Removing, invoice : Invoices, payment : Payments, delta : Int,
                          status : Statuses]
  BY <1>6 DEF Points, OfPayment, Creating, Updating, Removing
<1> QED BY <1>1, <1>2, <1>3, <1>4, <1>5, <1>6 DEF Requests

\* What the writes make of a document.
LEMMA DocWritten ==
  /\ \A d \in InvoiceDoc, delta \in Int, s \in Statuses, l \in SUBSET Payments :
       /\ [d EXCEPT !.credit = @ + delta, !.status = s] \in InvoiceDoc
       /\ [d EXCEPT !.credit = @ + delta, !.status = s, !.list = l] \in InvoiceDoc
  /\ \A d \in PaymentDoc, a \in Amounts : [d EXCEPT !.amount = a] \in PaymentDoc
  /\ \A d \in PaymentDoc : [d EXCEPT !.removed = TRUE] \in PaymentDoc
<1>1. ASSUME NEW d \in InvoiceDoc, NEW delta \in Int, NEW s \in Statuses, NEW l \in SUBSET Payments
      PROVE  /\ [d EXCEPT !.credit = @ + delta, !.status = s] \in InvoiceDoc
             /\ [d EXCEPT !.credit = @ + delta, !.status = s, !.list = l] \in InvoiceDoc
  <2>1. d.credit + delta \in Int
    BY DEF InvoiceDoc
  <2>2. ASSUME NEW c \in Int
        PROVE  /\ [d EXCEPT !.credit = c, !.status = s] \in InvoiceDoc
               /\ [d EXCEPT !.credit = c, !.status = s, !.list = l] \in InvoiceDoc
    BY DEF InvoiceDoc
  <2> QED BY <2>1, <2>2
<1>2. ASSUME NEW d \in PaymentDoc, NEW a \in Amounts
      PROVE  [d EXCEPT !.amount = a] \in PaymentDoc /\ [d EXCEPT !.removed = TRUE] \in PaymentDoc
  BY DEF PaymentDoc
<1>3. \A d \in PaymentDoc : [d EXCEPT !.removed = TRUE] \in PaymentDoc
  BY DEF PaymentDoc
<1> QED BY <1>1, <1>2, <1>3

LEMMA ProceedBusy ==
  ASSUME NEW w \in Workers, Proceed(w) PROVE ~Free(w)
  BY DEF Proceed, InvoiceUpdateWrite, InvoiceRemovePayments, PaymentInsert, PaymentCredit, UpdateRead,
         UpdateWrite, UpdateCredit, RemoveRead, RemoveWrite, RemoveCredit, At, Free

LEMMA OnPaymentAt ==
  ASSUME Types, NEW p
  PROVE  OnPayment(p) = {w \in Workers : req[w].at \in OfPayment /\ req[w].payment = p}
<1>1. \A w \in Workers : ~Free(w) /\ "payment" \in DOMAIN req[w] <=> req[w].at \in OfPayment
  BY Locals DEF Free, OfPayment
<1> QED BY <1>1 DEF OnPayment

-----------------------------------------------------------------------------
(* Types.                                                                   *)

LEMMA LedgerInitTypes == Init => Types
  BY LedgerAssumption DEF Init, Types, Requests

LEMMA GotoType ==
  ASSUME Types, NEW w \in Workers, NEW x \in Requests, Goto(w, x)
  PROVE  req' \in [Workers -> Requests]
  BY DEF Goto, Types

LEMMA TypesStep ==
  ASSUME Types, Known, [Next]_vars
  PROVE  Types'
<1>0. /\ invoice \in [Invoices -> InvoiceDoc \cup {None}]
      /\ payment \in [Payments -> PaymentDoc \cup {None}]
      /\ req \in [Workers -> Requests] /\ Idle \in Requests
      /\ discipline \in {"invoice", "payment", "free"} /\ failures \in 0 .. MaxFailures
      /\ Amounts \subseteq Int
  BY LedgerAssumption DEF Types, Requests
<1>1. CASE UNCHANGED vars
  BY <1>1 DEF vars, Types
<1>2. ASSUME NEW i \in Invoices, NEW total \in Totals, InvoiceCreate(i, total) PROVE Types'
  <2>1. [removed |-> FALSE, total |-> total, credit |-> 0, status |-> PaymentStatus(total, 0),
         list |-> {}] \in InvoiceDoc
    BY StatusType DEF InvoiceDoc
  <2> HIDE DEF InvoiceDoc
  <2> QED BY <1>0, <1>2, <2>1 DEF InvoiceCreate, Types
<1>3. ASSUME NEW w \in Workers, NEW x \in Requests, Goto(w, x),
             invoice' \in [Invoices -> InvoiceDoc \cup {None}],
             payment' \in [Payments -> PaymentDoc \cup {None}],
             discipline' = discipline, failures' \in 0 .. MaxFailures
      PROVE  Types'
  BY <1>0, <1>3, GotoType DEF Types
<1>4. ASSUME NEW w \in Workers, Arrive(w) PROVE Types'
  <2>1. ASSUME NEW i \in Invoices, NEW total \in Totals, InvoiceUpdate(w, i, total) PROVE Types'
    <3>1. [at |-> "invoice.write", invoice |-> i, total |-> total,
           status |-> PaymentStatus(total, invoice[i].credit)] \in Requests
      BY StatusType DEF Requests
    <3> QED BY <1>0, <1>3, <2>1, <3>1 DEF InvoiceUpdate
  <2>2. ASSUME NEW i \in Invoices, InvoiceRemove(w, i) PROVE Types'
    <3>1. [at |-> "invoice.payments", invoice |-> i] \in Requests
      BY DEF Requests
    <3>2. invoice' \in [Invoices -> InvoiceDoc \cup {None}]
      <4>1. [invoice[i] EXCEPT !.removed = TRUE] \in InvoiceDoc
        BY <2>2, Docs DEF InvoiceRemove, InvoiceDoc
      <4> QED BY <1>0, <2>2, <4>1 DEF InvoiceRemove
    <3> QED BY <1>0, <1>3, <2>2, <3>1, <3>2 DEF InvoiceRemove
  <2>3. ASSUME NEW i \in Invoices, NEW p \in Payments, NEW a \in Amounts, PaymentCreate(w, i, p, a)
        PROVE  Types'
    <3>1. [at |-> "create.insert", invoice |-> i, payment |-> p, delta |-> a,
           status |-> PaymentStatus(invoice[i].total, invoice[i].credit + a)] \in Requests
      BY StatusType DEF Requests, Creating
    <3> QED BY <1>0, <1>3, <2>3, <3>1 DEF PaymentCreate
  <2>4. ASSUME NEW p \in Payments, NEW a \in Amounts, PaymentUpdate(w, p, a) PROVE Types'
    <3>3. payment[p].invoice \in Invoices /\ payment[p].amount \in Amounts
      BY <2>4, Docs DEF PaymentUpdate, PaymentDoc
    <3>2. payment[p].invoice \in Invoices /\ a - payment[p].amount \in Int
      <4>1. payment[p].amount \in Int /\ Amounts \subseteq Int
        BY <1>0, <3>3
      <4>2. \A x, y \in Int : x - y \in Int
        OBVIOUS
      <4> QED BY <3>3, <4>1, <4>2
    <3>1. [at |-> "update.read", invoice |-> payment[p].invoice, payment |-> p,
           amount |-> a, delta |-> a - payment[p].amount] \in Requests
      <4>1. ASSUME NEW i \in Invoices, NEW d \in Int
            PROVE  [at |-> "update.read", invoice |-> i, payment |-> p, amount |-> a,
                    delta |-> d] \in Requests
        BY DEF Requests
      <4> QED BY <3>2, <4>1
    <3> QED BY <1>0, <1>3, <2>4, <3>1 DEF PaymentUpdate
  <2>5. ASSUME NEW p \in Payments, PaymentRemove(w, p) PROVE Types'
    <3>3. payment[p].invoice \in Invoices /\ payment[p].amount \in Amounts
      BY <2>5, Docs DEF PaymentRemove, PaymentDoc
    <3>2. payment[p].invoice \in Invoices /\ 0 - payment[p].amount \in Int
      <4>1. payment[p].amount \in Int /\ Amounts \subseteq Int
        BY <1>0, <3>3
      <4>2. \A x, y \in Int : x - y \in Int
        OBVIOUS
      <4> QED BY <3>3, <4>1, <4>2
    <3>1. [at |-> "remove.read", invoice |-> payment[p].invoice, payment |-> p,
           delta |-> 0 - payment[p].amount] \in Requests
      <4>1. ASSUME NEW i \in Invoices, NEW d \in Int
            PROVE  [at |-> "remove.read", invoice |-> i, payment |-> p, delta |-> d] \in Requests
        BY DEF Requests
      <4> QED BY <3>2, <4>1
    <3> QED BY <1>0, <1>3, <2>5, <3>1 DEF PaymentRemove
  <2> QED BY <1>4, <2>1, <2>2, <2>3, <2>4, <2>5 DEF Arrive
<1>5. ASSUME NEW w \in Workers, Proceed(w) PROVE Types'
  <2>0. ~Free(w) /\ req[w].invoice \in Invoices /\ invoice[req[w].invoice] \in InvoiceDoc
    BY <1>5, ProceedBusy, Locals, Docs DEF Known
  <2>1. CASE InvoiceUpdateWrite(w)
    <3>1. [invoice[req[w].invoice] EXCEPT !.total = req[w].total, !.status = req[w].status] \in InvoiceDoc
      BY <2>0, <2>1, Locals DEF InvoiceUpdateWrite, At, InvoiceDoc
    <3>2. invoice' \in [Invoices -> InvoiceDoc \cup {None}]
      BY <1>0, <2>0, <2>1, <3>1 DEF InvoiceUpdateWrite
    <3> QED BY <1>0, <1>3, <2>1, <3>2 DEF InvoiceUpdateWrite, Answer
  <2>2. CASE InvoiceRemovePayments(w)
    <3>1. \A p \in LivePayments(req[w].invoice) : [payment[p] EXCEPT !.removed = TRUE] \in PaymentDoc
      BY Docs DEF LivePayments, PaymentDoc
    <3>2. payment' \in [Payments -> PaymentDoc \cup {None}]
      BY <1>0, <2>2, <3>1 DEF InvoiceRemovePayments
    <3> QED BY <1>0, <1>3, <2>2, <3>2 DEF InvoiceRemovePayments, Answer
  <2>3. CASE PaymentInsert(w)
    <3>1. /\ [removed |-> FALSE, invoice |-> req[w].invoice, amount |-> req[w].delta] \in PaymentDoc
          /\ req[w].payment \in Payments
      BY <2>0, <2>3, Locals DEF PaymentInsert, At, PaymentDoc, Creating, OfPayment
    <3>2. payment' \in [Payments -> PaymentDoc \cup {None}]
      BY <1>0, <2>3, <3>1 DEF PaymentInsert
    <3>3. [req[w] EXCEPT !.at = "create.credit"] \in Requests
      BY <1>0, <2>3 DEF PaymentInsert, At, Requests, Creating, Updating, Removing, Idle
    <3> QED BY <1>0, <1>3, <2>3, <3>2, <3>3 DEF PaymentInsert, Continue
  <2>4. CASE PaymentCredit(w)
    <3>1. [invoice[req[w].invoice] EXCEPT !.credit = @ + req[w].delta, !.status = req[w].status,
                                          !.list = @ \cup {req[w].payment}] \in InvoiceDoc
      <4>1. /\ req[w].delta \in Int /\ req[w].status \in Statuses
            /\ invoice[req[w].invoice].list \cup {req[w].payment} \in SUBSET Payments
        BY <2>0, <2>4, Locals DEF PaymentCredit, At, InvoiceDoc, Creating, OfPayment
      <4> QED BY <2>0, <4>1, DocWritten
    <3>2. invoice' \in [Invoices -> InvoiceDoc \cup {None}]
      BY <1>0, <2>0, <2>4, <3>1 DEF PaymentCredit
    <3> QED BY <1>0, <1>3, <2>4, <3>2 DEF PaymentCredit, Answer
  <2>5. CASE UpdateRead(w)
    <3>1. [at |-> "update.write", invoice |-> req[w].invoice, payment |-> req[w].payment,
           amount |-> req[w].amount, delta |-> req[w].delta,
           status |-> PaymentStatus(invoice[req[w].invoice].total,
                                    invoice[req[w].invoice].credit + req[w].delta)] \in Requests
      BY <2>0, <2>5, Locals, StatusType DEF UpdateRead, At, Requests, Updating, OfPayment
    <3> QED BY <1>0, <1>3, <2>5, <3>1 DEF UpdateRead, Answer
  <2>6. CASE UpdateWrite(w)
    <3>1. [req[w] EXCEPT !.at = "update.credit"] \in Requests
      BY <1>0, <2>6 DEF UpdateWrite, At, Requests, Creating, Updating, Removing, Idle
    <3>2. /\ [payment[req[w].payment] EXCEPT !.amount = req[w].amount] \in PaymentDoc
          /\ req[w].payment \in Payments
      <4>1. req[w].payment \in Payments /\ req[w].amount \in Amounts /\ Exists(payment[req[w].payment])
        BY <2>6, Locals DEF UpdateWrite, At, Updating, OfPayment, Known
      <4> QED BY <4>1, DocWritten, Docs
    <3>3. payment' \in [Payments -> PaymentDoc \cup {None}]
      BY <1>0, <2>6, <3>2 DEF UpdateWrite
    <3> QED BY <1>0, <1>3, <2>6, <3>1, <3>3 DEF UpdateWrite, Answer, Continue
  <2>7. CASE UpdateCredit(w)
    <3>1. [invoice[req[w].invoice] EXCEPT !.credit = @ + req[w].delta, !.status = req[w].status] \in InvoiceDoc
      <4>1. req[w].delta \in Int /\ req[w].status \in Statuses
        BY <2>7, Locals DEF UpdateCredit, At, Updating, OfPayment
      <4> QED BY <2>0, <4>1, DocWritten
    <3>2. invoice' \in [Invoices -> InvoiceDoc \cup {None}]
      BY <1>0, <2>0, <2>7, <3>1 DEF UpdateCredit, AddCredit
    <3> QED BY <1>0, <1>3, <2>7, <3>2 DEF UpdateCredit, Answer
  <2>8. CASE RemoveRead(w)
    <3>1. [at |-> "remove.write", invoice |-> req[w].invoice, payment |-> req[w].payment,
           delta |-> req[w].delta,
           status |-> PaymentStatus(invoice[req[w].invoice].total,
                                    invoice[req[w].invoice].credit + req[w].delta)] \in Requests
      BY <2>0, <2>8, Locals, StatusType DEF RemoveRead, At, Requests, Removing, OfPayment
    <3> QED BY <1>0, <1>3, <2>8, <3>1 DEF RemoveRead
  <2>9. CASE RemoveWrite(w)
    <3>1. [req[w] EXCEPT !.at = "remove.credit"] \in Requests
      BY <1>0, <2>9 DEF RemoveWrite, At, Requests, Creating, Updating, Removing, Idle
    <3>2. /\ [payment[req[w].payment] EXCEPT !.removed = TRUE] \in PaymentDoc
          /\ req[w].payment \in Payments
      <4>1. req[w].payment \in Payments /\ Exists(payment[req[w].payment])
        BY <2>9, Locals DEF RemoveWrite, At, OfPayment, Known
      <4> QED BY <4>1, DocWritten, Docs
    <3>3. payment' \in [Payments -> PaymentDoc \cup {None}]
      BY <1>0, <2>9, <3>2 DEF RemoveWrite
    <3> QED BY <1>0, <1>3, <2>9, <3>1, <3>3 DEF RemoveWrite, Continue
  <2>10. CASE RemoveCredit(w)
    <3>1. [invoice[req[w].invoice] EXCEPT !.credit = @ + req[w].delta, !.status = req[w].status,
                                          !.list = @ \ {req[w].payment}] \in InvoiceDoc
      <4>1. /\ req[w].delta \in Int /\ req[w].status \in Statuses
            /\ invoice[req[w].invoice].list \ {req[w].payment} \in SUBSET Payments
        BY <2>0, <2>10, Locals DEF RemoveCredit, At, InvoiceDoc, Removing, OfPayment
      <4> QED BY <2>0, <4>1, DocWritten
    <3>2. invoice' \in [Invoices -> InvoiceDoc \cup {None}]
      BY <1>0, <2>0, <2>10, <3>1 DEF RemoveCredit
    <3> QED BY <1>0, <1>3, <2>10, <3>2 DEF RemoveCredit, Answer
  <2> QED BY <1>5, <2>1, <2>2, <2>3, <2>4, <2>5, <2>6, <2>7, <2>8, <2>9, <2>10 DEF Proceed
<1>6. ASSUME NEW w \in Workers, Fail(w) PROVE Types'
  <2>1. failures' \in 0 .. MaxFailures
    BY <1>0, <1>6, LedgerAssumption DEF Fail
  <2> QED BY <1>0, <1>3, <1>6, <2>1 DEF Fail, Answer
<1> QED BY <1>1, <1>2, <1>4, <1>5, <1>6 DEF Next

-----------------------------------------------------------------------------
(* What a request works on.                                                 *)

LEMMA Frame ==
  ASSUME Types, NEW w \in Workers, NEW x, Goto(w, x)
  PROVE  \A v \in Workers : req'[v] = IF v = w THEN x ELSE req[v]
  BY DEF Types, Goto

\* A document stays, a payment stays on its invoice, what is removed stays removed.
InvoicesKept == \A i \in Invoices : Exists(invoice[i]) =>
  /\ Exists(invoice'[i])
  /\ invoice[i].removed => invoice'[i].removed

PaymentsKept == \A p \in Payments : Exists(payment[p]) =>
  /\ Exists(payment'[p]) /\ payment'[p].invoice = payment[p].invoice
  /\ payment[p].removed => payment'[p].removed

LEMMA KeptStep ==
  ASSUME Types, Known, [Next]_vars
  PROVE  InvoicesKept /\ PaymentsKept
<1>1. ASSUME invoice' = invoice PROVE InvoicesKept
  BY <1>1 DEF InvoicesKept
<1>2. ASSUME payment' = payment PROVE PaymentsKept
  BY <1>2 DEF PaymentsKept
<1>3. ASSUME NEW j \in Invoices, \A i \in Invoices \ {j} : invoice'[i] = invoice[i],
             Exists(invoice[j]) => Exists(invoice'[j]) /\ (invoice[j].removed => invoice'[j].removed)
      PROVE  InvoicesKept
  BY <1>3 DEF InvoicesKept
<1>4. ASSUME NEW q \in Payments, \A p \in Payments \ {q} : payment'[p] = payment[p],
             Exists(payment[q]) =>
               /\ Exists(payment'[q]) /\ payment'[q].invoice = payment[q].invoice
               /\ payment[q].removed => payment'[q].removed
      PROVE  PaymentsKept
  BY <1>4 DEF PaymentsKept
<1>5. /\ Types'
      /\ \A i \in Invoices : invoice'[i] \in InvoiceDoc => Exists(invoice'[i])
      /\ \A p \in Payments : payment'[p] \in PaymentDoc => Exists(payment'[p])
  BY TypesStep, NoneIsNoDoc DEF Exists
<1>6. CASE UNCHANGED vars
  BY <1>1, <1>2, <1>6 DEF vars
<1>7. ASSUME NEW i \in Invoices, NEW total \in Totals, InvoiceCreate(i, total)
      PROVE  InvoicesKept /\ PaymentsKept
  BY <1>2, <1>3, <1>7 DEF InvoiceCreate, Types
<1>8. ASSUME NEW w \in Workers, Arrive(w) PROVE InvoicesKept /\ PaymentsKept
  <2>1. ASSUME NEW i \in Invoices, NEW total \in Totals, InvoiceUpdate(w, i, total)
        PROVE  InvoicesKept /\ PaymentsKept
    BY <1>1, <1>2, <2>1 DEF InvoiceUpdate
  <2>2. ASSUME NEW i \in Invoices, InvoiceRemove(w, i) PROVE InvoicesKept /\ PaymentsKept
    BY <1>2, <1>3, <1>5, <2>2, Docs DEF InvoiceRemove, Types, InvoiceDoc
  <2>3. ASSUME NEW i \in Invoices, NEW p \in Payments, NEW a \in Amounts, PaymentCreate(w, i, p, a)
        PROVE  InvoicesKept /\ PaymentsKept
    BY <1>1, <1>2, <2>3 DEF PaymentCreate
  <2>4. ASSUME NEW p \in Payments, NEW a \in Amounts, PaymentUpdate(w, p, a)
        PROVE  InvoicesKept /\ PaymentsKept
    BY <1>1, <1>2, <2>4 DEF PaymentUpdate
  <2>5. ASSUME NEW p \in Payments, PaymentRemove(w, p) PROVE InvoicesKept /\ PaymentsKept
    BY <1>1, <1>2, <2>5 DEF PaymentRemove
  <2> QED BY <1>8, <2>1, <2>2, <2>3, <2>4, <2>5 DEF Arrive
<1>9. ASSUME NEW w \in Workers, Proceed(w) PROVE InvoicesKept /\ PaymentsKept
  <2>0. req[w].invoice \in Invoices
    BY <1>9, Locals, ProceedBusy
  <2>1. CASE InvoiceUpdateWrite(w)
    <3>1. CASE invoice' = invoice
      BY <1>1, <1>2, <2>1, <3>1 DEF InvoiceUpdateWrite
    <3>2. CASE ~invoice[req[w].invoice].removed
      <4>1. /\ invoice[req[w].invoice] \in InvoiceDoc
            /\ invoice'[req[w].invoice].credit = invoice[req[w].invoice].credit
            /\ invoice'[req[w].invoice].removed = invoice[req[w].invoice].removed
            /\ DOMAIN invoice'[req[w].invoice] = DOMAIN invoice[req[w].invoice]
        BY <2>0, <2>1, <3>2, Docs DEF InvoiceUpdateWrite, Types, InvoiceDoc
      <4>2. Exists(invoice'[req[w].invoice])
        BY <4>1 DEF Exists, None, InvoiceDoc
      <4> QED BY <1>2, <1>3, <2>0, <2>1, <3>2, <4>1, <4>2 DEF InvoiceUpdateWrite, Types
    <3> QED BY <2>1, <3>1, <3>2 DEF InvoiceUpdateWrite
  <2>2. CASE InvoiceRemovePayments(w)
    <3>1. ASSUME NEW p \in Payments, Exists(payment[p])
          PROVE  /\ Exists(payment'[p]) /\ payment'[p].invoice = payment[p].invoice
                 /\ payment[p].removed => payment'[p].removed
      <4>1. payment[p] \in PaymentDoc
        BY <3>1, Docs
      <4>2. [payment[p] EXCEPT !.removed = TRUE] \in PaymentDoc
        BY <4>1, DocWritten
      <4>3. payment'[p] = payment[p] \/ payment'[p] = [payment[p] EXCEPT !.removed = TRUE]
        BY <2>2 DEF InvoiceRemovePayments
      <4> QED BY <1>5, <3>1, <4>1, <4>2, <4>3 DEF PaymentDoc
    <3> QED BY <1>1, <2>2, <3>1 DEF InvoiceRemovePayments, PaymentsKept
  <2>3. CASE PaymentInsert(w)
    <3>1. req[w].payment \in Payments /\ ~Exists(payment[req[w].payment])
      BY <2>3, Locals DEF PaymentInsert, At, OfPayment, Known
    <3> QED BY <1>1, <1>4, <2>3, <3>1 DEF PaymentInsert, Types
  <2>4. CASE PaymentCredit(w) \/ UpdateCredit(w) \/ RemoveCredit(w)
    <3>1. Exists(invoice[req[w].invoice])
      BY <2>4 DEF PaymentCredit, UpdateCredit, RemoveCredit, At, Known, Free
    <3>2. invoice'[req[w].invoice].removed = invoice[req[w].invoice].removed
      BY <2>0, <2>4, <3>1, Docs
         DEF PaymentCredit, UpdateCredit, AddCredit, RemoveCredit, Types, InvoiceDoc
    <3>3. invoice'[req[w].invoice] # None
      BY <1>5, <2>0, <2>4, <3>1, Docs, NoneIsNoDoc
         DEF PaymentCredit, UpdateCredit, AddCredit, RemoveCredit, Types, InvoiceDoc, None
    <3> QED BY <1>2, <1>3, <2>0, <2>4, <3>2, <3>3
            DEF PaymentCredit, UpdateCredit, AddCredit, RemoveCredit, Types, Exists
  <2>5. CASE UpdateRead(w) \/ RemoveRead(w)
    BY <1>1, <1>2, <2>5 DEF UpdateRead, RemoveRead
  <2>6. CASE UpdateWrite(w) \/ RemoveWrite(w)
    <3>1. req[w].payment \in Payments /\ Exists(payment[req[w].payment])
      BY <2>6, Locals DEF UpdateWrite, RemoveWrite, At, OfPayment, Known
    <3>2. payment[req[w].payment] \in PaymentDoc
      BY <3>1, Docs
    <3>3. \/ payment' = payment
          \/ payment' = [payment EXCEPT ![req[w].payment] = [@ EXCEPT !.amount = req[w].amount]]
          \/ payment' = [payment EXCEPT ![req[w].payment] = [@ EXCEPT !.removed = TRUE]]
      BY <2>6 DEF UpdateWrite, RemoveWrite
    <3>4. /\ payment'[req[w].payment].invoice = payment[req[w].payment].invoice
          /\ payment[req[w].payment].removed => payment'[req[w].payment].removed
      BY <3>1, <3>2, <3>3 DEF Types, PaymentDoc
    <3>5. Exists(payment'[req[w].payment])
      BY <3>1, <3>2, <3>3 DEF Types, PaymentDoc, Exists, None
    <3>6. \A p \in Payments \ {req[w].payment} : payment'[p] = payment[p]
      BY <3>3 DEF Types
    <3> QED BY <1>1, <1>4, <2>6, <3>1, <3>4, <3>5, <3>6 DEF UpdateWrite, RemoveWrite
  <2> QED BY <1>9, <2>1, <2>2, <2>3, <2>4, <2>5, <2>6 DEF Proceed
<1>10. ASSUME NEW w \in Workers, Fail(w) PROVE InvoicesKept /\ PaymentsKept
  BY <1>1, <1>2, <1>10 DEF Fail
<1> QED BY <1>6, <1>7, <1>8, <1>9, <1>10 DEF Next

\* What a step makes of the request of v, when it neither leaves nor ends it: a
\* request that goes on keeps its invoice and its payment, which is there by then;
\* one that arrives was admitted.
GoesOn(v) ==
  /\ req[v].at \in OfPayment /\ req'[v].at \in OfPayment \ {"create.insert"}
  /\ req'[v].invoice = req[v].invoice /\ req'[v].payment = req[v].payment
  /\ Exists(payment'[req[v].payment]) /\ payment'[req[v].payment].invoice = req[v].invoice

Arrives(v) ==
  /\ Exists(invoice[req'[v].invoice])
  /\ discipline = "invoice" => OnInvoice(req'[v].invoice) = {}
  /\ req'[v].at = "invoice.payments" => invoice'[req'[v].invoice].removed
  /\ \/ ~invoice[req'[v].invoice].removed
     \/ req'[v].at \in {"update.read", "remove.read"} /\ ~payment[req'[v].payment].removed
  /\ req'[v].at \in OfPayment =>
       /\ payment' = payment
       /\ discipline = "payment" => OnPayment(req'[v].payment) = {}
       /\ IF req'[v].at = "create.insert"
          THEN OnPayment(req'[v].payment) = {} /\ ~Exists(payment[req'[v].payment])
          ELSE /\ Exists(payment[req'[v].payment])
               /\ payment[req'[v].payment].invoice = req'[v].invoice

Moves(w) ==
  /\ \A v \in Workers \ {w} : req'[v] = req[v]
  /\ \/ req'[w] = Idle
     \/ GoesOn(w)
     \/ Free(w) /\ Arrives(w)

LEMMA RequestMoves ==
  ASSUME Types, Known, [Next]_vars
  PROVE  /\ discipline' = discipline
         /\ req' = req \/ \E w \in Workers : Moves(w)
<1>1. CASE UNCHANGED vars
  BY <1>1 DEF vars
<1>2. ASSUME NEW i \in Invoices, NEW total \in Totals, InvoiceCreate(i, total)
      PROVE  discipline' = discipline /\ req' = req
  BY <1>2 DEF InvoiceCreate
<1>3. ASSUME NEW w \in Workers, Answer(w) PROVE Moves(w)
  BY <1>3, Frame DEF Answer, Moves
<1>4. ASSUME NEW w \in Workers, Arrive(w) PROVE discipline' = discipline /\ Moves(w)
  <2>1. ASSUME NEW x, Goto(w, x), Free(w), x # Idle, Exists(invoice[x.invoice]),
               discipline = "invoice" => OnInvoice(x.invoice) = {},
               x.at \notin OfPayment, ~invoice[x.invoice].removed, x.at = "invoice.payments" => invoice'[x.invoice].removed
        PROVE  Moves(w)
    <3>1. \A v \in Workers : req'[v] = IF v = w THEN x ELSE req[v]
      BY <2>1, Frame
    <3> QED BY <2>1, <3>1 DEF Moves, Arrives
  <2>2. ASSUME NEW x, Goto(w, x), Free(w), Exists(invoice[x.invoice]), payment' = payment,
               discipline = "invoice" => OnInvoice(x.invoice) = {},
               discipline = "payment" => OnPayment(x.payment) = {},
               x.at \in OfPayment,
               \/ ~invoice[x.invoice].removed
               \/ x.at \in {"update.read", "remove.read"} /\ ~payment[x.payment].removed,
               IF x.at = "create.insert"
               THEN OnPayment(x.payment) = {} /\ ~Exists(payment[x.payment])
               ELSE Exists(payment[x.payment]) /\ payment[x.payment].invoice = x.invoice
        PROVE  Moves(w)
    <3>1. \A v \in Workers : req'[v] = IF v = w THEN x ELSE req[v]
      BY <2>2, Frame
    <3> QED BY <2>2, <3>1 DEF Moves, Arrives, OfPayment
  <2>3. ASSUME NEW i \in Invoices, NEW total \in Totals, InvoiceUpdate(w, i, total)
        PROVE  discipline' = discipline /\ Moves(w)
    BY <2>1, <2>3, Docs DEF InvoiceUpdate, Admitted, Idle, OfPayment
  <2>4. ASSUME NEW i \in Invoices, InvoiceRemove(w, i) PROVE discipline' = discipline /\ Moves(w)
    <3>1. invoice[i] \in InvoiceDoc /\ Exists(invoice[i])
      BY <2>4, Docs DEF InvoiceRemove
    <3>2. invoice'[i].removed
      BY <2>4, <3>1 DEF InvoiceRemove, Types, InvoiceDoc
    <3> QED BY <2>1, <2>4, <3>1, <3>2 DEF InvoiceRemove, Admitted, Idle, OfPayment
  <2>5. ASSUME NEW i \in Invoices, NEW p \in Payments, NEW a \in Amounts, PaymentCreate(w, i, p, a)
        PROVE  discipline' = discipline /\ Moves(w)
    <3>1. Exists(invoice[i])
      BY <2>5, Docs DEF PaymentCreate
    <3> QED BY <2>2, <2>5, <3>1 DEF PaymentCreate, Admitted, OfPayment
  <2>6. ASSUME NEW p \in Payments, NEW a \in Amounts, PaymentUpdate(w, p, a)
        PROVE  discipline' = discipline /\ Moves(w)
    BY <2>2, <2>6 DEF PaymentUpdate, Admitted, OfPayment, Known
  <2>7. ASSUME NEW p \in Payments, PaymentRemove(w, p) PROVE discipline' = discipline /\ Moves(w)
    BY <2>2, <2>7 DEF PaymentRemove, Admitted, OfPayment, Known
  <2> QED BY <1>4, <2>3, <2>4, <2>5, <2>6, <2>7 DEF Arrive
<1>5. ASSUME NEW w \in Workers, Proceed(w) PROVE discipline' = discipline /\ Moves(w)
  <2>1. ASSUME NEW x, Goto(w, x), req[w].at \in OfPayment, x.at \in OfPayment \ {"create.insert"},
               x.invoice = req[w].invoice, x.payment = req[w].payment,
               \/ req[w].at # "create.insert"
               \/ /\ Exists(payment'[req[w].payment])
                  /\ payment'[req[w].payment].invoice = req[w].invoice
        PROVE  Moves(w)
    <3>1. \A v \in Workers : req'[v] = IF v = w THEN x ELSE req[v]
      BY <2>1, Frame
    <3>2. /\ Exists(payment'[req[w].payment])
          /\ payment'[req[w].payment].invoice = req[w].invoice
      BY <2>1, KeptStep, Locals DEF PaymentsKept, Known
    <3> QED BY <2>1, <3>1, <3>2 DEF Moves, GoesOn
  <2>2. CASE InvoiceUpdateWrite(w) \/ InvoiceRemovePayments(w) \/ PaymentCredit(w) \/ UpdateCredit(w)
             \/ RemoveCredit(w)
    BY <1>3, <2>2
       DEF InvoiceUpdateWrite, InvoiceRemovePayments, PaymentCredit, UpdateCredit, RemoveCredit
  <2>3. ASSUME NEW point \in OfPayment \ {"create.insert"}, req[w].at \in OfPayment
        PROVE  LET x == [req[w] EXCEPT !.at = point]
               IN  x.at = point /\ x.invoice = req[w].invoice /\ x.payment = req[w].payment
    <3>1. req[w] \in Requests
      BY DEF Types
    <3> QED BY <2>3, <3>1
            DEF Requests, OfPayment, Creating, Updating, Removing, Idle
  <2>4. CASE PaymentInsert(w)
    <3>1. req[w].payment \in Payments
      BY <2>4, Locals DEF PaymentInsert, At, OfPayment
    <3>2. /\ Exists(payment'[req[w].payment])
          /\ payment'[req[w].payment].invoice = req[w].invoice
      BY <2>4, <3>1 DEF PaymentInsert, Types, Exists, None
    <3> QED BY <2>1, <2>3, <2>4, <3>2 DEF PaymentInsert, Continue, At, OfPayment
  <2>5. CASE UpdateRead(w)
    BY <1>3, <2>1, <2>5 DEF UpdateRead, At, OfPayment
  <2>6. CASE UpdateWrite(w)
    BY <1>3, <2>1, <2>3, <2>6 DEF UpdateWrite, Continue, At, OfPayment
  <2>7. CASE RemoveRead(w)
    BY <2>1, <2>7 DEF RemoveRead, At, OfPayment
  <2>8. CASE RemoveWrite(w)
    BY <2>1, <2>3, <2>8 DEF RemoveWrite, Continue, At, OfPayment
  <2> QED BY <1>5, <2>2, <2>4, <2>5, <2>6, <2>7, <2>8 DEF Proceed
<1>6. ASSUME NEW w \in Workers, Fail(w) PROVE discipline' = discipline /\ Moves(w)
  BY <1>3, <1>6 DEF Fail
<1> QED BY <1>1, <1>2, <1>4, <1>5, <1>6 DEF Next

\* Only an insert adds a payment.
Created ==
  \A p \in Payments : Exists(payment'[p]) =>
    \/ Exists(payment[p])
    \/ \E w \in Workers : /\ req[w].at = "create.insert" /\ req'[w].at # "create.insert"
                          /\ req[w].payment = p /\ payment'[p].invoice = req[w].invoice

LEMMA CreatedStep ==
  ASSUME Types, Known, [Next]_vars
  PROVE  Created
<1>1. ASSUME payment' = payment PROVE Created
  BY <1>1 DEF Created
<1>2. ASSUME NEW w \in Workers, InvoiceRemovePayments(w) PROVE Created
  <2>1. \A p \in Payments : payment'[p] = payment[p] \/ p \in LivePayments(req[w].invoice)
    BY <1>2 DEF InvoiceRemovePayments
  <2> QED BY <2>1 DEF Created, LivePayments
<1>3. ASSUME NEW w \in Workers, PaymentInsert(w) PROVE Created
  <2>1. req[w].payment \in Payments /\ req[w] \in Requests
    BY <1>3, Locals DEF PaymentInsert, At, OfPayment, Types
  <2>2. req'[w].at = "create.credit"
    BY <1>3, <2>1, Frame DEF PaymentInsert, Continue, At, Requests, Creating, Updating, Removing, Idle
  <2> QED BY <1>3, <2>1, <2>2 DEF PaymentInsert, At, Types, Created
<1>4. ASSUME NEW w \in Workers, UpdateWrite(w) \/ RemoveWrite(w) PROVE Created
  <2>1. Exists(payment[req[w].payment])
    BY <1>4 DEF UpdateWrite, RemoveWrite, At, Known, OfPayment
  <2> QED BY <1>4, <2>1 DEF UpdateWrite, RemoveWrite, Types, Created
<1> QED BY <1>1, <1>2, <1>3, <1>4
        DEF Next, vars, Arrive, Proceed, Fail, InvoiceCreate, InvoiceUpdate, InvoiceRemove, PaymentCreate,
            PaymentUpdate, PaymentRemove, InvoiceUpdateWrite, PaymentCredit, UpdateRead,
            UpdateCredit, RemoveRead, RemoveCredit

LEMMA KnownStep ==
  ASSUME Types, Known, [Next]_vars
  PROVE  Known'
<1>0. /\ Types' /\ InvoicesKept /\ PaymentsKept /\ Created
      /\ req' = req \/ \E w \in Workers : Moves(w)
  BY TypesStep, KeptStep, CreatedStep, RequestMoves
<1>1. \A v \in Workers : req'[v] = req[v] \/ Free(v)' \/ GoesOn(v) \/ (Free(v) /\ Arrives(v))
  BY <1>0 DEF Moves, Free, Idle
<1>2. \A v \in Workers :
        /\ ~Free(v) => req[v].invoice \in Invoices
        /\ ~Free(v)' => req'[v].invoice \in Invoices
        /\ req[v].at \in OfPayment => req[v].payment \in Payments /\ ~Free(v)
        /\ req'[v].at \in OfPayment => req'[v].payment \in Payments /\ ~Free(v)'
  <2>1. ASSUME NEW v \in Workers
        PROVE  /\ ~Free(v) => req[v].invoice \in Invoices
               /\ req[v].at \in OfPayment => req[v].payment \in Payments /\ ~Free(v)
    BY Locals DEF Free, OfPayment
  <2>2. ASSUME NEW v \in Workers
        PROVE  /\ ~Free(v)' => req'[v].invoice \in Invoices
               /\ req'[v].at \in OfPayment => req'[v].payment \in Payments /\ ~Free(v)'
    <3>1. req'[v] \in Requests
      BY <1>0 DEF Types
    <3> QED BY <3>1 DEF Requests, Idle, Free, OfPayment, Creating, Updating, Removing
  <2> QED BY <2>1, <2>2
<1>3. ASSUME NEW v \in Workers, ~Free(v)' PROVE Exists(invoice'[req'[v].invoice])
  <2>1. Exists(invoice[req'[v].invoice])
    BY <1>1, <1>3 DEF Known, GoesOn, Arrives, Free, OfPayment
  <2> QED BY <1>0, <1>2, <1>3, <2>1 DEF InvoicesKept, Exists
<1>4. ASSUME NEW v \in Workers, req'[v].at \in OfPayment \ {"create.insert"}
      PROVE  Exists(payment'[req'[v].payment]) /\ payment'[req'[v].payment].invoice = req'[v].invoice
  <2>1. CASE req'[v] = req[v]
    BY <1>0, <1>2, <1>4, <2>1 DEF Known, PaymentsKept
  <2>2. CASE GoesOn(v)
    BY <2>2 DEF GoesOn
  <2>3. CASE Arrives(v)
    BY <1>4, <2>3 DEF Arrives
  <2> QED BY <1>1, <1>4, <2>1, <2>2, <2>3 DEF Free, OfPayment
<1>5. ASSUME NEW v \in Workers, req'[v].at = "create.insert"
      PROVE  /\ ~Exists(payment'[req'[v].payment])
             /\ \A u \in Workers : req'[u].at \in OfPayment /\ req'[u].payment = req'[v].payment => u = v
  <2>0. req'[v].at \in OfPayment /\ req'[v].payment \in Payments /\ ~GoesOn(v) /\ ~Free(v)'
    BY <1>2, <1>5 DEF OfPayment, GoesOn
  <2>1. CASE req'[v] = req[v]
    <3>1. /\ ~Exists(payment[req[v].payment])
          /\ \A u \in Workers : req[u].at \in OfPayment /\ req[u].payment = req[v].payment => u = v
      BY <1>5, <2>1 DEF Known
    <3>2. ~Exists(payment'[req[v].payment])
      BY <1>0, <1>5, <2>0, <2>1, <3>1 DEF Created, OfPayment
    <3>3. ASSUME NEW u \in Workers, req'[u].at \in OfPayment, req'[u].payment = req[v].payment
          PROVE  u = v
      <4>1. CASE req'[u] = req[u]
        BY <3>1, <3>3, <4>1
      <4>2. CASE GoesOn(u)
        BY <3>1, <3>3, <4>2 DEF GoesOn
      <4>3. CASE Arrives(u)
        <5>1. v \in OnPayment(req'[u].payment)
          BY <2>0, <2>1, <3>3, OnPaymentAt
        <5> QED BY <3>1, <3>3, <4>3, <5>1 DEF Arrives
      <4> QED BY <1>1, <1>2, <3>3, <4>1, <4>2, <4>3
    <3> QED BY <2>1, <3>2, <3>3
  <2>2. CASE Free(v) /\ Arrives(v)
    <3>1. /\ \A u \in Workers \ {v} : req'[u] = req[u]
          /\ OnPayment(req'[v].payment) = {} /\ ~Exists(payment[req'[v].payment]) /\ payment' = payment
      BY <1>0, <1>5, <2>0, <2>2 DEF Arrives, Moves, Free
    <3> QED BY <3>1, OnPaymentAt
  <2> QED BY <1>1, <2>0, <2>1, <2>2
<1>6. ASSUME NEW v \in Workers, req'[v].at = "invoice.payments" PROVE invoice'[req'[v].invoice].removed
  <2>1. req'[v] = req[v] \/ Arrives(v)
    BY <1>1, <1>6 DEF GoesOn, Free, OfPayment
  <2>2. CASE req'[v] = req[v]
    BY <1>0, <1>2, <1>6, <2>2 DEF Known, InvoicesKept, Free
  <2> QED BY <1>6, <2>1, <2>2 DEF Arrives
<1>7. ASSUME NEW p \in Payments, Exists(payment'[p]) PROVE Exists(invoice'[payment'[p].invoice])
  <2>1. CASE Exists(payment[p])
    <3>1. payment[p].invoice \in Invoices
      BY <2>1, Docs DEF PaymentDoc
    <3> QED BY <1>0, <2>1, <3>1 DEF Known, PaymentsKept, InvoicesKept
  <2>2. CASE ~Exists(payment[p])
    <3>1. PICK w \in Workers : req[w].at = "create.insert" /\ payment'[p].invoice = req[w].invoice
      BY <1>0, <1>7, <2>2 DEF Created
    <3>2. ~Free(w)
      BY <3>1 DEF Free
    <3> QED BY <1>0, <1>2, <3>1, <3>2 DEF Known, InvoicesKept
  <2> QED BY <2>1, <2>2
<1> QED BY <1>3, <1>4, <1>5, <1>6, <1>7 DEF Known, Exists

-----------------------------------------------------------------------------
(* What the users' discipline gives.                                        *)

OnePerInvoice == \A v, w \in Workers :
  ~Free(v) /\ ~Free(w) /\ req[v].invoice = req[w].invoice => v = w

OnePerPayment == \A v, w \in Workers :
  req[v].at \in OfPayment /\ req[w].at \in OfPayment /\ req[v].payment = req[w].payment => v = w

Alone ==
  /\ discipline = "invoice" => OnePerInvoice
  /\ discipline \in {"invoice", "payment"} => OnePerPayment

LEMMA AloneStep ==
  ASSUME Types, Known, Alone, [Next]_vars
  PROVE  Alone'
<1>0. /\ Types' /\ Known' /\ discipline' = discipline
      /\ req' = req \/ \E w \in Workers : Moves(w)
  BY TypesStep, KnownStep, RequestMoves
<1>1. CASE req' = req
  BY <1>0, <1>1 DEF Alone, OnePerInvoice, OnePerPayment, Free
<1>2. ASSUME NEW w \in Workers, Moves(w) PROVE Alone'
  <2>1. ASSUME NEW v \in Workers, v # w PROVE req'[v] = req[v]
    BY <1>2, <2>1 DEF Moves
  <2>2. CASE Free(w)'
    BY <1>0, <2>1, <2>2 DEF Alone, OnePerInvoice, OnePerPayment, Free, OfPayment
  <2>3. CASE GoesOn(w)
    BY <1>0, <2>1, <2>3 DEF Alone, OnePerInvoice, OnePerPayment, GoesOn, Free, OfPayment
  <2>4. CASE Arrives(w)
    <3>1. ASSUME NEW v \in Workers, v # w, ~Free(v)', ~Free(w)', req'[v].invoice = req'[w].invoice
          PROVE  discipline # "invoice"
      BY <2>1, <2>4, <3>1 DEF Arrives, OnInvoice, Free
    <3>2. ASSUME NEW v \in Workers, v # w, req'[v].at \in OfPayment, req'[w].at \in OfPayment,
                 req'[v].payment = req'[w].payment
          PROVE  discipline # "payment"
      BY <2>1, <2>4, <3>2, OnPaymentAt DEF Arrives
    <3>3. discipline = "invoice" => OnePerInvoice'
      BY <2>1, <3>1 DEF Alone, OnePerInvoice, Free
    <3>4. discipline = "payment" => OnePerPayment'
      BY <2>1, <3>2 DEF Alone, OnePerPayment
    <3>5. discipline = "invoice" => OnePerPayment'
      <4>1. ASSUME NEW v \in Workers, NEW u \in Workers, OnePerInvoice',
                   req'[v].at \in OfPayment, req'[u].at \in OfPayment, req'[v].payment = req'[u].payment
            PROVE  u = v
        <5>1. CASE req'[v].at = "create.insert"
          BY <1>0, <4>1, <5>1 DEF Known, Exists
        <5>2. CASE req'[u].at = "create.insert"
          BY <1>0, <4>1, <5>2 DEF Known, Exists
        <5>3. CASE req'[v].at # "create.insert" /\ req'[u].at # "create.insert"
          BY <1>0, <4>1, <5>3 DEF Known, OnePerInvoice, Free, OfPayment
        <5> QED BY <5>1, <5>2, <5>3
      <4> QED BY <3>3, <4>1 DEF OnePerPayment
    <3> QED BY <1>0, <3>3, <3>4, <3>5 DEF Alone
  <2> QED BY <1>2, <2>2, <2>3, <2>4 DEF Moves, Free, Idle
<1> QED BY <1>0, <1>1, <1>2

-----------------------------------------------------------------------------
(* One request per invoice: its status and its total.                       *)

\* What request r has computed is right for its invoice i, and it leaves room.
Promises(r, i) ==
  /\ r.at \in Creating \cup Updating \cup Removing => r.status = PaymentStatus(i.total, i.credit + r.delta)
  /\ r.at = "invoice.write" => r.status = PaymentStatus(r.total, i.credit)
  /\ r.at \in Creating \cup Updating => i.credit + r.delta <= i.total
  /\ r.at \in {"remove.read"} \cup Removing => r.delta < 0

Statused ==
  discipline = "invoice" =>
    /\ \A i \in Invoices : Exists(invoice[i]) =>
         invoice[i].status = PaymentStatus(invoice[i].total, invoice[i].credit)
    /\ \A w \in Workers : Promises(req[w], invoice[req[w].invoice])

\* Only the request that is done with an invoice writes it, or the one that removes it.
LEMMA InvoiceSteady ==
  ASSUME Types, Known, Alone, [Next]_vars, discipline = "invoice",
         NEW v \in Workers, ~Free(v)', req'[v].at # "invoice.payments"
  PROVE  invoice'[req'[v].invoice] = invoice[req'[v].invoice]
<1>0. /\ req' = req \/ \E w \in Workers : Moves(w)
      /\ Exists(invoice[req'[v].invoice])
      /\ OnePerInvoice
  <2>1. req' = req \/ \E w \in Workers : Moves(w)
    BY RequestMoves
  <2>2. req'[v] = req[v] \/ GoesOn(v) \/ Arrives(v)
    BY <2>1 DEF Moves, Free, Idle
  <2> QED BY <2>1, <2>2 DEF Known, Alone, Free, GoesOn, Arrives, OfPayment
<1>1. ASSUME NEW w \in Workers, ~Free(w), Answer(w),
             \A i \in Invoices : i # req[w].invoice => invoice'[i] = invoice[i],
             req'[v].invoice \in Invoices
      PROVE  invoice'[req'[v].invoice] = invoice[req'[v].invoice]
  <2>1. \A u \in Workers : req'[u] = IF u = w THEN Idle ELSE req[u]
    BY <1>1, Frame DEF Answer
  <2>2. v # w
    BY <1>1, <2>1 DEF Free, Idle
  <2> QED BY <1>0, <1>1, <2>1, <2>2 DEF OnePerInvoice, Free
<1>2. req'[v].invoice \in Invoices
  <2>1. req'[v] \in Requests
    BY TypesStep DEF Types
  <2> QED BY <2>1 DEF Requests, Idle, Free
<1>3. ASSUME NEW i \in Invoices, NEW total \in Totals, InvoiceCreate(i, total)
      PROVE  invoice'[req'[v].invoice] = invoice[req'[v].invoice]
  BY <1>0, <1>2, <1>3 DEF InvoiceCreate, Types
<1>4. ASSUME NEW w \in Workers, NEW i \in Invoices, InvoiceRemove(w, i)
      PROVE  invoice'[req'[v].invoice] = invoice[req'[v].invoice]
  <2>1. \A u \in Workers : req'[u] = IF u = w THEN [at |-> "invoice.payments", invoice |-> i] ELSE req[u]
    BY <1>4, Frame DEF InvoiceRemove
  <2>2. v # w
    BY <2>1
  <2>3. req[v].invoice # i
    BY <1>4, <2>1, <2>2 DEF InvoiceRemove, Admitted, OnInvoice, Free
  <2> QED BY <1>2, <1>4, <2>1, <2>2, <2>3 DEF InvoiceRemove, Types
<1>5. ASSUME NEW w \in Workers, Proceed(w), invoice' # invoice
      PROVE  invoice'[req'[v].invoice] = invoice[req'[v].invoice]
  <2>1. CASE InvoiceUpdateWrite(w)
    BY <1>1, <1>2, <1>5, <2>1, ProceedBusy DEF InvoiceUpdateWrite, Types
  <2>2. CASE PaymentCredit(w) \/ UpdateCredit(w) \/ RemoveCredit(w)
    BY <1>1, <1>2, <1>5, <2>2, ProceedBusy DEF PaymentCredit, UpdateCredit, AddCredit, RemoveCredit, Types
  <2> QED BY <1>5, <2>1, <2>2
          DEF Proceed, InvoiceRemovePayments, PaymentInsert, UpdateRead, UpdateWrite, RemoveRead, RemoveWrite
<1> QED BY <1>3, <1>4, <1>5
        DEF Next, vars, Arrive, Fail, InvoiceUpdate, PaymentCreate, PaymentUpdate, PaymentRemove

LEMMA PromiseMade ==
  ASSUME Types, Known, Statused, [Next]_vars, discipline = "invoice", NEW v \in Workers
  PROVE  Promises(req'[v], invoice[req'[v].invoice])
<1> USE DEF Creating, Updating, Removing
<1>0. \A u \in Workers : Promises(req[u], invoice[req[u].invoice])
  BY DEF Statused
<1>1. CASE req' = req
  BY <1>0, <1>1
<1>2. ASSUME NEW w \in Workers, NEW x, Goto(w, x), Promises(x, invoice[x.invoice])
      PROVE  Promises(req'[v], invoice[req'[v].invoice])
  <2>1. req'[v] = IF v = w THEN x ELSE req[v]
    BY <1>2, Frame
  <2> QED BY <1>0, <1>2, <2>1
<1>3. ASSUME NEW w \in Workers, Answer(w) PROVE Promises(req'[v], invoice[req'[v].invoice])
  BY <1>2, <1>3 DEF Answer, Promises, Idle
<1>4. ASSUME NEW w \in Workers, Arrive(w) PROVE Promises(req'[v], invoice[req'[v].invoice])
  <2>1. ASSUME NEW i \in Invoices, NEW total \in Totals, InvoiceUpdate(w, i, total)
        PROVE  Promises(req'[v], invoice[req'[v].invoice])
    BY <1>2, <2>1 DEF InvoiceUpdate, Promises
  <2>2. ASSUME NEW i \in Invoices, InvoiceRemove(w, i)
        PROVE  Promises(req'[v], invoice[req'[v].invoice])
    BY <1>2, <2>2 DEF InvoiceRemove, Promises
  <2>3. ASSUME NEW i \in Invoices, NEW p \in Payments, NEW a \in Amounts, PaymentCreate(w, i, p, a)
        PROVE  Promises(req'[v], invoice[req'[v].invoice])
    <3>1. invoice[i].total \in Int /\ invoice[i].credit \in Int /\ a \in Int
      <4>1. invoice[i] \in InvoiceDoc
        BY <2>3, Docs DEF PaymentCreate
      <4> QED BY <4>1, Numbers DEF InvoiceDoc
    <3>2. invoice[i].credit + a <= invoice[i].total
      BY <2>3, <3>1 DEF PaymentCreate
    <3> QED BY <1>2, <2>3, <3>2 DEF PaymentCreate, Promises
  <2>4. ASSUME NEW p \in Payments, NEW a \in Amounts, PaymentUpdate(w, p, a)
        PROVE  Promises(req'[v], invoice[req'[v].invoice])
    BY <1>2, <2>4 DEF PaymentUpdate, Promises
  <2>5. ASSUME NEW p \in Payments, PaymentRemove(w, p)
        PROVE  Promises(req'[v], invoice[req'[v].invoice])
    <3>1. payment[p].amount \in Nat \ {0}
      <4>1. payment[p] \in PaymentDoc
        BY <2>5, Docs DEF PaymentRemove
      <4> QED BY <4>1, Numbers DEF PaymentDoc
    <3>2. 0 - payment[p].amount < 0
      BY <3>1
    <3> QED BY <1>2, <2>5, <3>2 DEF PaymentRemove, Promises
  <2> QED BY <1>4, <2>1, <2>2, <2>3, <2>4, <2>5 DEF Arrive
<1>5. ASSUME NEW w \in Workers, Proceed(w) PROVE Promises(req'[v], invoice[req'[v].invoice])
  <2>0. req[w] \in Requests /\ Promises(req[w], invoice[req[w].invoice])
    BY <1>0 DEF Types
  <2>1. CASE InvoiceUpdateWrite(w) \/ InvoiceRemovePayments(w) \/ PaymentCredit(w) \/ UpdateCredit(w)
             \/ RemoveCredit(w)
    BY <1>3, <2>1
       DEF InvoiceUpdateWrite, InvoiceRemovePayments, PaymentCredit, UpdateCredit, RemoveCredit
  <2>2. ASSUME NEW point, Continue(w, point),
               \/ req[w].at = "create.insert" /\ point = "create.credit"
               \/ req[w].at = "update.write" /\ point = "update.credit"
               \/ req[w].at = "remove.write" /\ point = "remove.credit"
        PROVE  Promises(req'[v], invoice[req'[v].invoice])
    <3>1. LET x == [req[w] EXCEPT !.at = point]
          IN  /\ x.at = point /\ x.invoice = req[w].invoice
              /\ x.delta = req[w].delta /\ x.status = req[w].status
      BY <2>0, <2>2 DEF Requests, Idle
    <3>2. Promises([req[w] EXCEPT !.at = point], invoice[req[w].invoice])
      BY <2>0, <2>2, <3>1 DEF Promises
    <3> QED BY <1>2, <2>2, <3>1, <3>2 DEF Continue
  <2>3. CASE PaymentInsert(w)
    BY <2>2, <2>3 DEF PaymentInsert, At
  <2>4. CASE UpdateRead(w)
    <3>1. CASE Answer(w)
      BY <1>3, <3>1
    <3>2. CASE ~(req[w].delta > invoice[req[w].invoice].total - invoice[req[w].invoice].credit)
      <4>1. /\ invoice[req[w].invoice].total \in Int /\ invoice[req[w].invoice].credit \in Int
            /\ req[w].delta \in Int
        <5>1. invoice[req[w].invoice] \in InvoiceDoc /\ req[w].delta \in Int
          BY <2>4, Locals, Docs DEF UpdateRead, At, OfPayment, Known, Free
        <5> QED BY <5>1, Numbers DEF InvoiceDoc
      <4>2. invoice[req[w].invoice].credit + req[w].delta <= invoice[req[w].invoice].total
        BY <3>2, <4>1
      <4> QED BY <1>2, <2>4, <3>2, <4>2 DEF UpdateRead, Promises
    <3> QED BY <2>4, <3>1, <3>2 DEF UpdateRead
  <2>5. CASE UpdateWrite(w)
    BY <1>3, <2>2, <2>5 DEF UpdateWrite, At
  <2>6. CASE RemoveRead(w)
    <3>1. req[w].delta < 0
      BY <2>0, <2>6 DEF RemoveRead, At, Promises
    <3> QED BY <1>2, <2>6, <3>1 DEF RemoveRead, Promises
  <2>7. CASE RemoveWrite(w)
    BY <2>2, <2>7 DEF RemoveWrite, At
  <2> QED BY <1>5, <2>1, <2>3, <2>4, <2>5, <2>6, <2>7 DEF Proceed
<1>6. ASSUME NEW w \in Workers, Fail(w) PROVE Promises(req'[v], invoice[req'[v].invoice])
  BY <1>3, <1>6 DEF Fail
<1> QED BY <1>1, <1>4, <1>5, <1>6 DEF Next, vars, InvoiceCreate

\* A write leaves the status that the total and the credit call for, and raises the
\* credit to the total at most.
Right(i) ==
  /\ invoice'[i].status = PaymentStatus(invoice'[i].total, invoice'[i].credit)
  /\ Exists(invoice[i]) /\ invoice'[i].credit > invoice[i].credit => invoice'[i].credit <= invoice'[i].total

LEMMA RightStep ==
  ASSUME Types, Known, Statused, [Next]_vars, discipline = "invoice",
         NEW i \in Invoices, Exists(invoice'[i])
  PROVE  Right(i)
<1> USE DEF Creating, Updating, Removing
<1>0. Exists(invoice[i]) => /\ invoice[i] \in InvoiceDoc /\ invoice[i].credit \in Int
                            /\ invoice[i].status = PaymentStatus(invoice[i].total, invoice[i].credit)
  BY Docs DEF Statused, InvoiceDoc
<1>1. CASE invoice'[i] = invoice[i]
  BY <1>0, <1>1 DEF Right
<1>2. ASSUME NEW j \in Invoices, NEW total \in Totals, InvoiceCreate(j, total) PROVE Right(i)
  BY <1>1, <1>2 DEF InvoiceCreate, Types, Right
<1>3. ASSUME NEW w \in Workers, NEW j \in Invoices, InvoiceRemove(w, j) PROVE Right(i)
  <2>1. CASE i = j
    <3>1. /\ invoice'[i].credit = invoice[i].credit /\ invoice'[i].total = invoice[i].total
          /\ invoice'[i].status = invoice[i].status /\ Exists(invoice[i])
      BY <1>3, <2>1, Docs DEF InvoiceRemove, Types, InvoiceDoc
    <3> QED BY <1>0, <3>1 DEF Right
  <2> QED BY <1>1, <1>3, <2>1 DEF InvoiceRemove, Types
<1>4. ASSUME NEW w \in Workers, Proceed(w) PROVE Right(i)
  <2>0. /\ req[w].invoice \in Invoices /\ invoice[req[w].invoice] \in InvoiceDoc
        /\ Promises(req[w], invoice[req[w].invoice])
    BY <1>4, ProceedBusy, Locals, Docs DEF Known, Statused
  <2>1. CASE InvoiceUpdateWrite(w)
    <3>1. CASE i = req[w].invoice /\ ~invoice[i].removed
      <4>1. /\ invoice'[i].credit = invoice[i].credit /\ invoice'[i].total = req[w].total
            /\ invoice'[i].status = req[w].status
        BY <2>0, <2>1, <3>1 DEF InvoiceUpdateWrite, Types, InvoiceDoc
      <4>2. req[w].status = PaymentStatus(req[w].total, invoice[i].credit)
        BY <2>0, <2>1, <3>1 DEF InvoiceUpdateWrite, At, Promises
      <4> QED BY <1>0, <2>0, <3>1, <4>1, <4>2 DEF Right, InvoiceDoc
    <3> QED BY <1>1, <2>1, <3>1 DEF InvoiceUpdateWrite, Types
  <2>2. CASE PaymentCredit(w) \/ UpdateCredit(w) \/ RemoveCredit(w)
    <3>1. CASE i = req[w].invoice
      <4>0. req[w].delta \in Int /\ invoice[i].credit \in Int
        BY <2>0, <2>2, <3>1, Locals
           DEF PaymentCredit, UpdateCredit, RemoveCredit, At, OfPayment, InvoiceDoc
      <4>1. /\ invoice'[i].credit = invoice[i].credit + req[w].delta
            /\ invoice'[i].total = invoice[i].total /\ invoice'[i].status = req[w].status
        BY <2>0, <2>2, <3>1
           DEF PaymentCredit, UpdateCredit, AddCredit, RemoveCredit, Types, InvoiceDoc
      <4>2. /\ req[w].status = PaymentStatus(invoice[i].total, invoice[i].credit + req[w].delta)
            /\ req[w].delta < 0 \/ invoice[i].credit + req[w].delta <= invoice[i].total
        BY <2>0, <2>2, <3>1 DEF PaymentCredit, UpdateCredit, RemoveCredit, At, Promises
      <4>3. req[w].delta < 0 => ~(invoice[i].credit + req[w].delta > invoice[i].credit)
        BY <4>0
      <4> QED BY <4>1, <4>2, <4>3 DEF Right
    <3> QED BY <1>1, <2>2, <3>1 DEF PaymentCredit, UpdateCredit, AddCredit, RemoveCredit, Types
  <2> QED BY <1>1, <1>4, <2>1, <2>2
          DEF Proceed, InvoiceRemovePayments, PaymentInsert, UpdateRead, UpdateWrite, RemoveRead, RemoveWrite
<1> QED BY <1>1, <1>2, <1>3, <1>4
        DEF Next, vars, Arrive, Fail, InvoiceUpdate, PaymentCreate, PaymentUpdate, PaymentRemove

LEMMA StatusedStep ==
  ASSUME Types, Known, Alone, Statused, [Next]_vars
  PROVE  Statused'
<1>1. discipline' = discipline
  BY RequestMoves
<1>2. ASSUME discipline = "invoice", NEW v \in Workers
      PROVE  Promises(req'[v], invoice'[req'[v].invoice])
  <2>1. CASE Free(v)' \/ req'[v].at = "invoice.payments"
    BY <2>1 DEF Free, Promises, Creating, Updating, Removing
  <2>2. CASE ~Free(v)' /\ req'[v].at # "invoice.payments"
    BY <1>2, <2>2, PromiseMade, InvoiceSteady
  <2> QED BY <2>1, <2>2
<1>3. ASSUME discipline = "invoice", NEW i \in Invoices, Exists(invoice'[i])
      PROVE  invoice'[i].status = PaymentStatus(invoice'[i].total, invoice'[i].credit)
  BY <1>3, RightStep DEF Right
<1> QED BY <1>1, <1>2, <1>3 DEF Statused, Exists, Promises, PaymentStatus

-----------------------------------------------------------------------------
(* One request per invoice and no failure: an invoice takes its payments along. *)

\* A request on an invoice that was removed is the one that removes its payments,
\* and it is still to do so if one of them is live.
Gone ==
  discipline = "invoice" /\ failures = 0 =>
    /\ \A w \in Workers : ~Free(w) /\ invoice[req[w].invoice].removed => req[w].at = "invoice.payments"
    /\ \A p \in Payments : /\ Exists(payment[p]) /\ ~payment[p].removed
                           /\ invoice[payment[p].invoice].removed
         => \E w \in Workers : req[w].at = "invoice.payments" /\ req[w].invoice = payment[p].invoice

LEMMA RemovedBy ==
  ASSUME Types, Known, [Next]_vars, NEW i \in Invoices, ~invoice[i].removed, invoice'[i].removed
  PROVE  \E w \in Workers : InvoiceRemove(w, i)
<1>0. invoice[i] \in InvoiceDoc /\ Exists(invoice[i])
  BY Docs
<1>1. ASSUME NEW w \in Workers, Proceed(w) PROVE FALSE
  <2>1. req[w].invoice \in Invoices
    BY <1>1, ProceedBusy, Locals
  <2>2. CASE InvoiceUpdateWrite(w)
    BY <1>0, <2>1, <2>2 DEF InvoiceUpdateWrite, Types, InvoiceDoc
  <2>3. CASE PaymentCredit(w) \/ UpdateCredit(w) \/ RemoveCredit(w)
    BY <1>0, <2>1, <2>3 DEF PaymentCredit, UpdateCredit, AddCredit, RemoveCredit, Types, InvoiceDoc
  <2> QED BY <1>1, <2>2, <2>3
          DEF Proceed, InvoiceRemovePayments, PaymentInsert, UpdateRead, UpdateWrite, RemoveRead, RemoveWrite
<1>2. ASSUME NEW j \in Invoices, NEW total \in Totals, InvoiceCreate(j, total) PROVE FALSE
  BY <1>0, <1>2 DEF InvoiceCreate, Types
<1>3. ASSUME NEW w \in Workers, NEW j \in Invoices, InvoiceRemove(w, j) PROVE InvoiceRemove(w, i)
  BY <1>3 DEF InvoiceRemove, Types
<1> QED BY <1>1, <1>2, <1>3
        DEF Next, vars, Arrive, Fail, InvoiceUpdate, PaymentCreate, PaymentUpdate, PaymentRemove

LEMMA FailuresStay ==
  ASSUME Types, [Next]_vars, failures' = 0
  PROVE  failures = 0
<1>1. failures \in Nat
  BY LedgerAssumption DEF Types
<1>2. ASSUME NEW w \in Workers, Arrive(w) PROVE failures' = failures
  BY <1>2 DEF Arrive, InvoiceUpdate, InvoiceRemove, PaymentCreate, PaymentUpdate, PaymentRemove
<1>3. ASSUME NEW w \in Workers, Proceed(w) PROVE failures' = failures
  BY <1>3 DEF Proceed, InvoiceUpdateWrite, InvoiceRemovePayments, PaymentInsert, PaymentCredit,
              UpdateRead, UpdateWrite, UpdateCredit, RemoveRead, RemoveWrite, RemoveCredit
<1>4. ASSUME NEW w \in Workers, Fail(w) PROVE FALSE
  <2>1. failures' = failures + 1
    BY <1>4 DEF Fail
  <2> QED BY <1>1, <2>1
<1> QED BY <1>2, <1>3, <1>4 DEF Next, vars, InvoiceCreate

\* A request that removes payments either stays, or has removed them, or has failed.
LEMMA TakesAlong ==
  ASSUME Types, Known, [Next]_vars, NEW w \in Workers, req[w].at = "invoice.payments"
  PROVE  req'[w] = req[w] \/ InvoiceRemovePayments(w) \/ failures' # failures
<1>1. ASSUME NEW v \in Workers, NEW x, Goto(v, x), v # w PROVE req'[w] = req[w]
  BY <1>1, Frame
<1>2. ASSUME NEW v \in Workers, Arrive(v) PROVE req'[w] = req[w]
  <2>1. Free(v) /\ \E x : Goto(v, x)
    BY <1>2 DEF Arrive, InvoiceUpdate, InvoiceRemove, PaymentCreate, PaymentUpdate, PaymentRemove, Admitted
  <2> QED BY <1>1, <2>1 DEF Free
<1>3. ASSUME NEW v \in Workers, Proceed(v) PROVE req'[w] = req[w] \/ InvoiceRemovePayments(w)
  <2>1. \E x : Goto(v, x)
    BY <1>3 DEF Proceed, InvoiceUpdateWrite, InvoiceRemovePayments, PaymentInsert, PaymentCredit,
                UpdateRead, UpdateWrite, UpdateCredit, RemoveRead, RemoveWrite, RemoveCredit, Answer, Continue
  <2>2. v = w => InvoiceRemovePayments(w)
    BY <1>3 DEF Proceed, InvoiceUpdateWrite, PaymentInsert, PaymentCredit,
                UpdateRead, UpdateWrite, UpdateCredit, RemoveRead, RemoveWrite, RemoveCredit, At
  <2> QED BY <1>1, <2>1, <2>2
<1>4. ASSUME NEW v \in Workers, Fail(v) PROVE failures' # failures
  BY <1>4 DEF Fail, Types
<1> QED BY <1>2, <1>3, <1>4 DEF Next, vars, InvoiceCreate

LEMMA GoneStep ==
  ASSUME Types, Known, Alone, Gone, [Next]_vars
  PROVE  Gone'
<1>0. /\ Types' /\ Known' /\ InvoicesKept /\ PaymentsKept /\ Created
      /\ discipline' = discipline /\ (req' = req \/ \E w \in Workers : Moves(w))
  BY TypesStep, KnownStep, KeptStep, CreatedStep, RequestMoves
<1>1. failures' = 0 => failures = 0
  BY FailuresStay
<1>2. SUFFICES ASSUME discipline = "invoice", failures' = 0, failures = 0 PROVE Gone'
  BY <1>0, <1>1 DEF Gone
<1>3. /\ \A w \in Workers : ~Free(w) /\ invoice[req[w].invoice].removed => req[w].at = "invoice.payments"
      /\ \A p \in Payments : /\ Exists(payment[p]) /\ ~payment[p].removed
                             /\ invoice[payment[p].invoice].removed
           => \E w \in Workers : req[w].at = "invoice.payments" /\ req[w].invoice = payment[p].invoice
  BY <1>2 DEF Gone
<1>4. \A v \in Workers : ~Free(v)' => req'[v].invoice \in Invoices
  <2>1. \A v \in Workers : req'[v] \in Requests
    BY <1>0 DEF Types
  <2> QED BY <2>1 DEF Requests, Idle, Free
<1>5. ASSUME NEW v \in Workers, ~Free(v)', invoice'[req'[v].invoice].removed
      PROVE  req'[v].at = "invoice.payments"
  <2>1. CASE ~invoice[req'[v].invoice].removed
    <3>1. PICK w \in Workers : InvoiceRemove(w, req'[v].invoice)
      BY <1>4, <1>5, <2>1, RemovedBy
    <3>2. \A u \in Workers : req'[u] = IF u = w THEN [at |-> "invoice.payments", invoice |-> req'[v].invoice]
                                       ELSE req[u]
      BY <3>1, Frame DEF InvoiceRemove
    <3>3. OnInvoice(req'[v].invoice) = {}
      BY <1>2, <3>1 DEF InvoiceRemove, Admitted
    <3> QED BY <1>5, <3>2, <3>3 DEF OnInvoice, Free
  <2>2. CASE invoice[req'[v].invoice].removed
    <3>1. CASE req'[v] = req[v]
      BY <1>3, <1>5, <2>2, <3>1 DEF Free
    <3>2. CASE GoesOn(v)
      BY <1>3, <2>2, <3>2 DEF GoesOn, OfPayment, Free
    <3>3. CASE Arrives(v)
      <4>1. /\ req'[v].payment \in Payments
            /\ Exists(payment[req'[v].payment]) /\ ~payment[req'[v].payment].removed
            /\ payment[req'[v].payment].invoice = req'[v].invoice
        <5>1. req'[v].at \in OfPayment \ {"create.insert"} /\ req'[v] \in Requests
          BY <1>0, <2>2, <3>3 DEF Arrives, OfPayment, Types
        <5>2. req'[v].payment \in Payments
          BY <5>1 DEF Requests, Idle, OfPayment, Creating, Updating, Removing
        <5> QED BY <2>2, <3>3, <5>1, <5>2 DEF Arrives
      <4>2. OnInvoice(req'[v].invoice) # {}
        BY <1>3, <2>2, <4>1 DEF OnInvoice, Free
      <4> QED BY <1>2, <3>3, <4>2 DEF Arrives
    <3> QED BY <1>0, <1>5, <3>1, <3>2, <3>3 DEF Moves, Free, Idle
  <2> QED BY <2>1, <2>2
<1>6. ASSUME NEW p \in Payments, Exists(payment'[p]), ~payment'[p].removed,
             invoice'[payment'[p].invoice].removed
      PROVE  \E w \in Workers : req'[w].at = "invoice.payments" /\ req'[w].invoice = payment'[p].invoice
  <2>0. payment'[p].invoice \in Invoices
    <3>1. payment'[p] \in PaymentDoc
      BY <1>0, <1>6 DEF Types, Exists
    <3> QED BY <3>1 DEF PaymentDoc
  <2>1. CASE ~invoice[payment'[p].invoice].removed
    <3>1. PICK w \in Workers : InvoiceRemove(w, payment'[p].invoice)
      BY <1>6, <2>0, <2>1, RemovedBy
    <3>2. req'[w] = [at |-> "invoice.payments", invoice |-> payment'[p].invoice]
      BY <3>1, Frame DEF InvoiceRemove
    <3> QED BY <3>2
  <2>2. CASE invoice[payment'[p].invoice].removed /\ ~Exists(payment[p])
    <3>1. PICK w \in Workers : /\ req[w].at = "create.insert" /\ payment'[p].invoice = req[w].invoice
      BY <1>0, <1>6, <2>2 DEF Created
    <3> QED BY <1>3, <2>2, <3>1 DEF Free
  <2>3. CASE invoice[payment'[p].invoice].removed /\ Exists(payment[p])
    <3>1. payment'[p].invoice = payment[p].invoice /\ ~payment[p].removed
      BY <1>0, <1>6, <2>3 DEF PaymentsKept
    <3>2. PICK w \in Workers : req[w].at = "invoice.payments" /\ req[w].invoice = payment[p].invoice
      BY <1>3, <2>3, <3>1
    <3>3. CASE InvoiceRemovePayments(w)
      <4>1. payment[p] \in PaymentDoc /\ p \in LivePayments(req[w].invoice)
        BY <2>3, <3>1, <3>2, Docs DEF LivePayments
      <4>2. payment'[p].removed
        BY <3>3, <4>1 DEF InvoiceRemovePayments, PaymentDoc
      <4> QED BY <1>6, <4>2
    <3>4. CASE req'[w] = req[w]
      BY <3>1, <3>2, <3>4
    <3> QED BY <1>2, <3>2, <3>3, <3>4, TakesAlong
  <2> QED BY <2>1, <2>2, <2>3
<1> QED BY <1>5, <1>6 DEF Gone, Exists, Free

-----------------------------------------------------------------------------
(* One request per payment and no failure: the list names the payments.     *)

Lives(p, i) == Exists(payment[p]) /\ ~payment[p].removed /\ payment[p].invoice = i

\* Request w has written payment p and not yet the list of its invoice i.
Pending(w, p, i) ==
  req[w].at \in {"create.credit", "remove.credit"} /\ req[w].payment = p /\ req[w].invoice = i

ListedAt(i) ==
  /\ \A w \in Workers, p \in Payments : Pending(w, p, i) => (Lives(p, i) <=> req[w].at = "create.credit")
  /\ \A p \in Payments : (\A w \in Workers : ~Pending(w, p, i)) => (p \in invoice[i].list <=> Lives(p, i))

Listed ==
  discipline \in {"invoice", "payment"} /\ failures = 0 =>
    \A i \in Invoices : ~invoice[i].removed => ListedAt(i)

LEMMA ListedAtStep ==
  ASSUME Types, Known, OnePerPayment, [Next]_vars, failures' = failures,
         NEW i \in Invoices, ~invoice[i].removed, ListedAt(i)
  PROVE  ListedAt(i)'
<1>0. /\ \A w \in Workers : req[w] \in Requests
      /\ invoice[i] \in InvoiceDoc /\ Exists(invoice[i])
  BY Docs DEF Types
<1>1. ASSUME invoice'[i].list = invoice[i].list,
             \A p \in Payments : Lives(p, i)' <=> Lives(p, i),
             \A w \in Workers : \/ req'[w] = req[w]
                                \/ /\ req[w].at \notin {"create.credit", "remove.credit"}
                                   /\ req'[w].at \notin {"create.credit", "remove.credit"}
      PROVE  ListedAt(i)'
  BY <1>1 DEF ListedAt, Pending
<1>2. ASSUME payment' = payment PROVE \A p \in Payments : Lives(p, i)' <=> Lives(p, i)
  BY <1>2 DEF Lives, Exists
<1>3. ASSUME NEW j \in Invoices, NEW total \in Totals, InvoiceCreate(j, total) PROVE ListedAt(i)'
  <2>1. invoice'[i] = invoice[i] /\ req' = req /\ payment' = payment
    BY <1>0, <1>3 DEF InvoiceCreate, Types
  <2> QED BY <1>1, <1>2, <2>1
<1>4. ASSUME NEW w \in Workers, Arrive(w) PROVE ListedAt(i)'
  <2>1. payment' = payment
    BY <1>4 DEF Arrive, InvoiceUpdate, InvoiceRemove, PaymentCreate, PaymentUpdate, PaymentRemove
  <2>2. invoice'[i].list = invoice[i].list
    <3>1. ASSUME NEW j \in Invoices, InvoiceRemove(w, j) PROVE invoice'[i].list = invoice[i].list
      BY <1>0, <3>1 DEF InvoiceRemove, Types, InvoiceDoc
    <3> QED BY <1>4, <3>1 DEF Arrive, InvoiceUpdate, PaymentCreate, PaymentUpdate, PaymentRemove
  <2>3. Free(w) /\ \E x : Goto(w, x) /\ x.at \notin {"create.credit", "remove.credit"}
    <3>1. ASSUME NEW x, Goto(w, x), x.at \notin {"create.credit", "remove.credit"}
          PROVE  \E y : Goto(w, y) /\ y.at \notin {"create.credit", "remove.credit"}
      BY <3>1
    <3>2. Free(w)
      BY <1>4 DEF Arrive, InvoiceUpdate, InvoiceRemove, PaymentCreate, PaymentUpdate, PaymentRemove, Admitted
    <3>3. ASSUME NEW j \in Invoices, NEW total \in Totals, InvoiceUpdate(w, j, total)
          PROVE  \E y : Goto(w, y) /\ y.at \notin {"create.credit", "remove.credit"}
      BY <3>1, <3>3 DEF InvoiceUpdate
    <3>4. ASSUME NEW j \in Invoices, InvoiceRemove(w, j)
          PROVE  \E y : Goto(w, y) /\ y.at \notin {"create.credit", "remove.credit"}
      BY <3>1, <3>4 DEF InvoiceRemove
    <3>5. ASSUME NEW j \in Invoices, NEW p \in Payments, NEW a \in Amounts, PaymentCreate(w, j, p, a)
          PROVE  \E y : Goto(w, y) /\ y.at \notin {"create.credit", "remove.credit"}
      BY <3>1, <3>5 DEF PaymentCreate
    <3>6. ASSUME NEW p \in Payments, NEW a \in Amounts, PaymentUpdate(w, p, a)
          PROVE  \E y : Goto(w, y) /\ y.at \notin {"create.credit", "remove.credit"}
      BY <3>1, <3>6 DEF PaymentUpdate
    <3>7. ASSUME NEW p \in Payments, PaymentRemove(w, p)
          PROVE  \E y : Goto(w, y) /\ y.at \notin {"create.credit", "remove.credit"}
      BY <3>1, <3>7 DEF PaymentRemove
    <3> QED BY <1>4, <3>2, <3>3, <3>4, <3>5, <3>6, <3>7 DEF Arrive
  <2>4. \A v \in Workers : \/ req'[v] = req[v]
                           \/ /\ req[v].at \notin {"create.credit", "remove.credit"}
                              /\ req'[v].at \notin {"create.credit", "remove.credit"}
    BY <2>3, Frame DEF Free
  <2> QED BY <1>1, <1>2, <2>1, <2>2, <2>4
<1>5. ASSUME NEW w \in Workers, Proceed(w) PROVE ListedAt(i)'
  <2>0. ~Free(w) /\ req[w].invoice \in Invoices
    BY <1>5, ProceedBusy, Locals
  <2>1. ASSUME NEW x, Goto(w, x), req[w].at \notin {"create.credit", "remove.credit"},
               x.at \notin {"create.credit", "remove.credit"}
        PROVE  \A v \in Workers : \/ req'[v] = req[v]
                                  \/ /\ req[v].at \notin {"create.credit", "remove.credit"}
                                     /\ req'[v].at \notin {"create.credit", "remove.credit"}
    BY <2>1, Frame
  <2>2. CASE InvoiceUpdateWrite(w)
    <3>1. invoice'[i].list = invoice[i].list
      BY <1>0, <2>0, <2>2 DEF InvoiceUpdateWrite, Types, InvoiceDoc
    <3> QED BY <1>1, <1>2, <2>1, <2>2, <3>1 DEF InvoiceUpdateWrite, Answer, At, Idle
  <2>3. CASE InvoiceRemovePayments(w)
    <3>1. req[w].invoice # i
      BY <2>3 DEF InvoiceRemovePayments, At, Known
    <3>2. \A p \in Payments : payment'[p] = payment[p] \/ p \in LivePayments(req[w].invoice)
      BY <2>3 DEF InvoiceRemovePayments
    <3>3. ASSUME NEW p \in Payments PROVE Lives(p, i)' <=> Lives(p, i)
      <4>1. CASE payment'[p] = payment[p]
        BY <4>1 DEF Lives, Exists
      <4>2. CASE p \in LivePayments(req[w].invoice)
        <5>1. payment'[p].invoice = payment[p].invoice /\ payment[p].invoice # i
          BY <3>1, <4>2, KeptStep DEF LivePayments, PaymentsKept
        <5> QED BY <5>1 DEF Lives
      <4> QED BY <3>2, <4>1, <4>2
    <3> QED BY <1>1, <2>1, <2>3, <3>3 DEF InvoiceRemovePayments, Answer, At, Idle
  <2>4. CASE UpdateRead(w) \/ RemoveRead(w)
    BY <1>1, <1>2, <2>1, <2>4 DEF UpdateRead, RemoveRead, Answer, At, Idle
  <2>5. CASE UpdateWrite(w)
    <3>1. req[w].payment \in Payments /\ payment[req[w].payment] \in PaymentDoc
      BY <2>5, Locals, Docs DEF UpdateWrite, At, OfPayment, Known
    <3>2. \A p \in Payments : \/ payment'[p] = payment[p]
                              \/ /\ Exists(payment'[p]) /\ Exists(payment[p])
                                 /\ payment'[p].removed = payment[p].removed
                                 /\ payment'[p].invoice = payment[p].invoice
      BY <2>5, <3>1, KeptStep, Docs DEF UpdateWrite, PaymentsKept, Types, PaymentDoc
    <3>3. \A p \in Payments : Lives(p, i)' <=> Lives(p, i)
      BY <3>2 DEF Lives, Exists
    <3>4. [req[w] EXCEPT !.at = "update.credit"].at = "update.credit"
      BY <1>0, <2>5 DEF UpdateWrite, At, Requests, Idle
    <3> QED BY <1>1, <2>1, <2>5, <3>3, <3>4 DEF UpdateWrite, Answer, Continue, At, Idle
  <2>6. CASE UpdateCredit(w)
    <3>1. invoice'[i].list = invoice[i].list
      BY <1>0, <2>0, <2>6 DEF UpdateCredit, AddCredit, Types, InvoiceDoc
    <3> QED BY <1>1, <1>2, <2>1, <2>6, <3>1 DEF UpdateCredit, Answer, At, Idle
  <2>7. CASE PaymentInsert(w) \/ RemoveWrite(w)
    <3>0. PICK q \in Payments, j \in Invoices : q = req[w].payment /\ j = req[w].invoice
      BY <2>0, <2>7, Locals DEF PaymentInsert, RemoveWrite, At, OfPayment
    <3>1. req[w].at \in OfPayment /\ req[w].at \notin {"create.credit", "remove.credit"}
      BY <2>7 DEF PaymentInsert, RemoveWrite, At, OfPayment
    <3>2. /\ \A v \in Workers \ {w} : req'[v] = req[v]
          /\ req'[w].payment = q /\ req'[w].invoice = j
          /\ req'[w].at = IF PaymentInsert(w) THEN "create.credit" ELSE "remove.credit"
      BY <1>0, <2>7, <3>0, Frame DEF PaymentInsert, RemoveWrite, Continue, At, Requests, Idle
    <3>3. \A v \in Workers \ {w} : req[v].at \in OfPayment => req[v].payment # q
      BY <3>0, <3>1 DEF OnePerPayment
    <3>4. /\ invoice' = invoice
          /\ \A p \in Payments \ {q} : payment'[p] = payment[p]
      BY <2>7, <3>0 DEF PaymentInsert, RemoveWrite, Types
    <3>5. /\ Lives(q, i)' => i = j /\ PaymentInsert(w)
          /\ Lives(q, i) => i = j
          /\ i = j /\ PaymentInsert(w) => Lives(q, i)'
      <4>1. CASE PaymentInsert(w)
        <5>1. payment'[q] = [removed |-> FALSE, invoice |-> j, amount |-> req[w].delta]
          BY <3>0, <4>1 DEF PaymentInsert, Types
        <5>2. ~Exists(payment[q])
          BY <3>0, <4>1 DEF PaymentInsert, At, Known
        <5>3. payment'[q] # None /\ ~payment'[q].removed /\ payment'[q].invoice = j
          BY <5>1 DEF None
        <5> QED BY <4>1, <5>2, <5>3 DEF Lives, Exists
      <4>2. CASE RemoveWrite(w)
        <5>1. payment[q] \in PaymentDoc /\ payment[q].invoice = j
          BY <3>0, <4>2, Docs DEF RemoveWrite, At, Known, OfPayment
        <5>2. payment'[q].removed
          BY <3>0, <4>2, <5>1 DEF RemoveWrite, Types, PaymentDoc
        <5>3. ~PaymentInsert(w)
          BY <4>2 DEF PaymentInsert, RemoveWrite, At
        <5> QED BY <5>1, <5>2, <5>3 DEF Lives
      <4> QED BY <2>7, <4>1, <4>2
    <3>6. \A p \in Payments \ {q} : Lives(p, i)' <=> Lives(p, i)
      BY <3>4 DEF Lives, Exists
    <3>7. \A v \in Workers \ {w}, p \in Payments : Pending(v, p, i)' <=> Pending(v, p, i)
      BY <3>2 DEF Pending
    <3>8. /\ \A p \in Payments : ~Pending(w, p, i)
          /\ \A p \in Payments : Pending(w, p, i)' <=> p = q /\ i = j
          /\ \A v \in Workers \ {w} : ~Pending(v, q, i)
      BY <3>0, <3>1, <3>2, <3>3 DEF Pending, OfPayment
    <3>9. ASSUME NEW v \in Workers, NEW p \in Payments, Pending(v, p, i)'
          PROVE  Lives(p, i)' <=> req'[v].at = "create.credit"
      <4>1. CASE v = w
        BY <3>2, <3>5, <3>8, <3>9, <4>1
      <4>2. CASE v # w
        BY <3>2, <3>6, <3>7, <3>8, <3>9, <4>2 DEF ListedAt
      <4> QED BY <4>1, <4>2
    <3>10. ASSUME NEW p \in Payments, \A v \in Workers : ~Pending(v, p, i)'
           PROVE  p \in invoice'[i].list <=> Lives(p, i)'
      <4>1. \A v \in Workers : ~Pending(v, p, i)
        BY <3>7, <3>8, <3>10
      <4>2. p \in invoice[i].list <=> Lives(p, i)
        BY <4>1 DEF ListedAt
      <4>3. CASE p = q
        BY <3>4, <3>5, <3>8, <3>10, <4>2, <4>3
      <4> QED BY <3>4, <3>6, <4>2, <4>3
    <3> QED BY <3>9, <3>10 DEF ListedAt
  <2>8. CASE PaymentCredit(w) \/ RemoveCredit(w)
    <3> DEFINE q == req[w].payment
               j == req[w].invoice
    <3>1. q \in Payments /\ req[w].at \in OfPayment
      BY <2>8, Locals DEF PaymentCredit, RemoveCredit, At, OfPayment
    <3>2. \A v \in Workers : req'[v] = IF v = w THEN Idle ELSE req[v]
      BY <2>8, Frame DEF PaymentCredit, RemoveCredit, Answer
    <3>3. /\ Pending(w, q, j)
          /\ \A v \in Workers \ {w} : req[v].at \in OfPayment => req[v].payment # q
      BY <2>8, <3>1 DEF PaymentCredit, RemoveCredit, At, Pending, OnePerPayment
    <3>4. \A v \in Workers, p \in Payments : Pending(v, p, i)' <=> v # w /\ Pending(v, p, i)
      BY <3>2 DEF Pending, Idle
    <3>5. \A p \in Payments : Lives(p, i)' <=> Lives(p, i)
      BY <1>2, <2>8 DEF PaymentCredit, RemoveCredit
    <3>6. \A p \in Payments : p # q \/ i # j => (p \in invoice'[i].list <=> p \in invoice[i].list)
      BY <1>0, <2>0, <2>8 DEF PaymentCredit, RemoveCredit, Types, InvoiceDoc
    <3>7. i = j => (q \in invoice'[i].list <=> req[w].at = "create.credit")
      BY <1>0, <2>0, <2>8 DEF PaymentCredit, RemoveCredit, At, Types, InvoiceDoc
    <3>8. ASSUME NEW v \in Workers, NEW p \in Payments, Pending(v, p, i)'
          PROVE  Lives(p, i)' <=> req'[v].at = "create.credit"
      BY <3>2, <3>4, <3>5, <3>8 DEF ListedAt
    <3>9. ASSUME NEW p \in Payments, \A v \in Workers : ~Pending(v, p, i)'
          PROVE  p \in invoice'[i].list <=> Lives(p, i)'
      <4>1. CASE p = q /\ i = j
        BY <3>1, <3>3, <3>5, <3>7, <4>1 DEF ListedAt
      <4>2. CASE p # q \/ i # j
        <5>1. \A v \in Workers : ~Pending(v, p, i)
          BY <3>4, <3>9, <4>2 DEF Pending
        <5> QED BY <3>5, <3>6, <4>2, <5>1 DEF ListedAt
      <4> QED BY <4>1, <4>2
    <3> QED BY <3>8, <3>9 DEF ListedAt
  <2> QED BY <1>5, <2>2, <2>3, <2>4, <2>5, <2>6, <2>7, <2>8 DEF Proceed
<1>6. CASE UNCHANGED vars
  BY <1>1, <1>2, <1>6 DEF vars
<1>7. ASSUME NEW w \in Workers, Fail(w) PROVE FALSE
  <2>1. failures \in Int /\ failures' = failures + 1
    BY <1>7, LedgerAssumption DEF Fail, Types
  <2> QED BY <2>1
<1> QED BY <1>3, <1>4, <1>5, <1>6, <1>7 DEF Next

LEMMA ListedStep ==
  ASSUME Types, Known, Alone, Listed, [Next]_vars
  PROVE  Listed'
<1>1. SUFFICES ASSUME discipline' \in {"invoice", "payment"}, failures' = 0,
                      NEW i \in Invoices, ~invoice'[i].removed
               PROVE  ListedAt(i)'
  BY DEF Listed
<1>2. discipline' = discipline /\ failures' = failures /\ failures = 0 /\ OnePerPayment
  BY <1>1, RequestMoves, FailuresStay DEF Alone
<1>3. CASE Exists(invoice[i])
  <2>1. ~invoice[i].removed
    BY <1>1, <1>3, KeptStep DEF InvoicesKept
  <2> QED BY <1>1, <1>2, <2>1, ListedAtStep DEF Listed
<1>4. CASE ~Exists(invoice[i])
  <2>0. invoice[i] = None /\ invoice'[i] # invoice[i]
    BY <1>1, <1>4 DEF Exists, None
  <2>1. ASSUME NEW w \in Workers, Arrive(w) PROVE FALSE
    <3>1. ASSUME NEW j \in Invoices, InvoiceRemove(w, j) PROVE FALSE
      BY <1>4, <2>0, <3>1, Docs DEF InvoiceRemove, Types
    <3> QED BY <2>0, <2>1, <3>1 DEF Arrive, InvoiceUpdate, PaymentCreate, PaymentUpdate, PaymentRemove
  <2>2. ASSUME NEW w \in Workers, Proceed(w) PROVE FALSE
    <3>1. req[w].invoice # i
      BY <1>4, <2>2, ProceedBusy DEF Known
    <3> QED BY <2>0, <2>2, <3>1
            DEF Proceed, InvoiceUpdateWrite, InvoiceRemovePayments, PaymentInsert, PaymentCredit, UpdateRead,
                UpdateWrite, UpdateCredit, AddCredit, RemoveRead, RemoveWrite, RemoveCredit, Types
  <2>3. PICK j \in Invoices, total \in Totals : InvoiceCreate(j, total)
    BY <2>0, <2>1, <2>2 DEF Next, vars, Fail
  <2>4. /\ invoice'[i].list = {} /\ payment' = payment /\ req' = req
        /\ \A p \in Payments : ~Lives(p, i)
        /\ \A w \in Workers, p \in Payments : ~Pending(w, p, i)
    BY <1>4, <2>0, <2>3 DEF InvoiceCreate, Types, Known, Lives, Pending, Free
  <2>5. /\ \A p \in Payments : ~Lives(p, i)'
        /\ \A w \in Workers, p \in Payments : ~Pending(w, p, i)'
    BY <2>4 DEF Lives, Pending, Exists
  <2> QED BY <2>4, <2>5 DEF ListedAt
<1> QED BY <1>3, <1>4

-----------------------------------------------------------------------------
LedgerInv == Types /\ Known /\ Alone /\ Statused /\ Gone /\ Listed

LEMMA LedgerInit == Init => LedgerInv
<1> SUFFICES ASSUME Init PROVE LedgerInv
  OBVIOUS
<1>1. /\ \A w \in Workers : req[w] = Idle
      /\ \A i \in Invoices : invoice[i] = None
      /\ \A p \in Payments : payment[p] = None
  BY DEF Init
<1>2. Known
  BY <1>1 DEF Known, Free, Idle, Exists, OfPayment
<1>3. Alone
  BY <1>1 DEF Alone, OnePerInvoice, OnePerPayment, Free, Idle, OfPayment
<1>4. Statused
  BY <1>1 DEF Statused, Promises, Idle, Exists, Creating, Updating, Removing
<1>5. Gone
  BY <1>1 DEF Gone, Free, Idle, Exists
<1>6. Listed
  BY <1>1 DEF Listed, None
<1> QED BY <1>2, <1>3, <1>4, <1>5, <1>6, LedgerInitTypes DEF LedgerInv

\* In every reachable state the documents and requests have their types and work on
\* documents that exist, and each discipline of the users gives what it should.
THEOREM LedgerInductive == Spec => []LedgerInv
<1>1. LedgerInv /\ [Next]_vars => LedgerInv'
  BY TypesStep, KnownStep, AloneStep, StatusedStep, GoneStep, ListedStep DEF LedgerInv
<1> QED BY LedgerInit, <1>1, PTL DEF Spec

\* What a request works on exists, for any number of requests and failures.
THEOREM LedgerTypeCorrect == Spec => []LedgerTypeOK
<1>1. ASSUME Types, Known PROVE LedgerTypeOK
  <2>1. \A w \in Workers : /\ req[w].at \in Points
                           /\ req[w].at \notin {"idle", "invoice.write", "invoice.payments", "create.insert"}
                                => req[w].at \in OfPayment \ {"create.insert"}
    BY <1>1, Locals DEF Points, OfPayment
  <2> QED BY <1>1, <2>1 DEF Types, Known, LedgerTypeOK
<1> QED BY LedgerInductive, <1>1, PTL DEF LedgerInv

\* ListsLivePayments: paymentController's $push and $pull keep the list of an
\* invoice exact, however requests about different payments overlap.
THEOREM ListExact == Spec => []ListsLivePayments
<1>1. ASSUME Types, Known, Listed PROVE ListsLivePayments
  <2>1. ASSUME discipline \in {"invoice", "payment"}, failures = 0, NEW i \in Invoices, Settled(i)
        PROVE  invoice[i].list = LivePayments(i)
    <3>1. ListedAt(i) /\ invoice[i] \in InvoiceDoc
      BY <1>1, <2>1, Docs DEF Settled, Listed
    <3>2. \A p \in Payments : p \in invoice[i].list <=> Lives(p, i)
      BY <2>1, <3>1 DEF ListedAt, Pending, Settled, OnInvoice, Free
    <3>3. invoice[i].list \subseteq Payments
      BY <3>1 DEF InvoiceDoc
    <3> QED BY <3>2, <3>3 DEF LivePayments, Lives
  <2> QED BY <2>1 DEF ListsLivePayments
<1> QED BY LedgerInductive, <1>1, PTL DEF LedgerInv

\* StatusAgrees: the status that the handlers $set is the one that the total and
\* the credit call for.
THEOREM StatusFollows == Spec => []StatusAgrees
<1>1. ASSUME Types, Statused PROVE StatusAgrees
  BY <1>1, Docs DEF StatusAgrees, Statused, Settled
<1> QED BY LedgerInductive, <1>1, PTL DEF LedgerInv

\* RemovedTogether: no payment survives its invoice (invoiceController/remove.js).
THEOREM PaymentsFollow == Spec => []RemovedTogether
<1>1. ASSUME Types, Gone PROVE RemovedTogether
  <2>1. ASSUME discipline = "invoice", failures = 0, NEW i \in Invoices, invoice[i].removed,
               OnInvoice(i) = {}, NEW p \in LivePayments(i)
        PROVE  FALSE
    <3>1. PICK w \in Workers : req[w].at = "invoice.payments" /\ req[w].invoice = i
      BY <1>1, <2>1 DEF Gone, LivePayments
    <3> QED BY <2>1, <3>1 DEF OnInvoice, Free
  <2> QED BY <2>1 DEF RemovedTogether
<1> QED BY LedgerInductive, <1>1, PTL DEF LedgerInv

\* NeverOverpaid: no write lifts the credit above the total, since what a handler
\* compared is still so when it writes.
THEOREM CreditWithinTotal == Spec => NeverOverpaid
<1>1. ASSUME LedgerInv, [Next]_vars
      PROVE  discipline = "invoice" => \A i \in Invoices : PaysAtMost(i)
  <2>1. ASSUME discipline = "invoice", NEW i \in Invoices, Exists(invoice[i]) PROVE PaysAtMost(i)
    <3>1. Exists(invoice'[i])
      BY <1>1, <2>1, KeptStep DEF InvoicesKept, LedgerInv
    <3> QED BY <1>1, <2>1, <3>1, RightStep DEF Right, PaysAtMost, LedgerInv
  <2> QED BY <2>1 DEF PaysAtMost
<1> QED BY LedgerInductive, <1>1, PTL DEF Spec, NeverOverpaid

-----------------------------------------------------------------------------
(* Sums over a finite set: what MapThenSumSet computes does not depend on   *)
(* the order in which it picks the elements.                                *)

\* Nonempty sets of subsets of a finite set have a minimal element: the induction that
\* the lemmas on sums use.
LEMMA FiniteMin ==
  ASSUME NEW S, IsFiniteSet(S), NEW B \in SUBSET SUBSET S, B # {}
  PROVE  \E T \in B : \A U \in B : U \subseteq T => U = T
<1> DEFINE R == {ss \in Nat \X Nat : ss[1] < ss[2]}
           N == {Cardinality(T) : T \in B}
<1>1. IsWellFoundedOn(R, Nat)
  BY NatLessThanWellFounded DEF OpToRel
<1>2. \A T \in B : IsFiniteSet(T) /\ Cardinality(T) \in Nat
  BY FS_Subset, FS_CardinalityType
<1>3. N \subseteq Nat /\ N # {}
  BY <1>2
<1>4. PICK n \in N : \A m \in N : ~(<<m, n>> \in R)
  <2> HIDE DEF R, N
  <2> QED BY <1>1, <1>3, WFMin
<1>5. PICK T \in B : n = Cardinality(T)
  OBVIOUS
<1>6. ASSUME NEW U \in B, U \subseteq T, U # T PROVE FALSE
  <2>1. Cardinality(U) < Cardinality(T)
    BY <1>2, <1>6, FS_Subset
  <2>2. Cardinality(U) \in N /\ <<Cardinality(U), n>> \in R
    BY <1>2, <1>5, <2>1
  <2> QED BY <1>4, <2>2
<1> QED BY <1>6

\* Adds(f, S, g): g gives the sum of f over each subset of S.
Some(T) == CHOOSE x \in T : TRUE

Adds(f, S, g) ==
  g = [T \in SUBSET S |-> IF T = {} THEN 0 ELSE f[Some(T)] + g[T \ {Some(T)}]]

Partial(f, S) == CHOOSE g : Adds(f, S, g)
Total(f, S)   == Partial(f, S)[S]

LEMMA SomeIn == ASSUME NEW T, T # {} PROVE Some(T) \in T
  BY DEF Some

LEMMA AddsAt ==
  ASSUME NEW f, NEW S, NEW g, Adds(f, S, g), NEW T \in SUBSET S
  PROVE  g[T] = IF T = {} THEN 0 ELSE f[Some(T)] + g[T \ {Some(T)}]
<1> DEFINE G(U) == IF U = {} THEN 0 ELSE f[Some(U)] + g[U \ {Some(U)}]
<1>1. g = [U \in SUBSET S |-> G(U)]
  BY DEF Adds
<1> HIDE DEF G
<1>2. g[T] = G(T)
  BY <1>1
<1> QED BY <1>2 DEF G

\* The sum over T does not depend on the set that T is taken from, nor on what f is
\* outside T.
LEMMA AddsAgree ==
  ASSUME NEW S, NEW R, NEW f, NEW h, NEW g, NEW k, Adds(f, S, g), Adds(h, R, k),
         NEW T, IsFiniteSet(T), T \subseteq S, T \subseteq R, \A x \in T : f[x] = h[x]
  PROVE  g[T] = k[T]
<1> DEFINE B == {U \in SUBSET T : g[U] # k[U]}
<1>1. SUFFICES ASSUME B # {} PROVE FALSE
  OBVIOUS
<1>2. PICK U \in B : \A V \in B : V \subseteq U => V = U
  <2>1. B \in SUBSET SUBSET T
    OBVIOUS
  <2> HIDE DEF B
  <2> QED BY <1>1, <2>1, FiniteMin
<1>3. U \in SUBSET S /\ U \in SUBSET R /\ U \in SUBSET T /\ g[U] # k[U]
  OBVIOUS
<1>4. U # {}
  BY <1>3, AddsAt
<1>5. Some(U) \in U
  BY <1>4, SomeIn
<1>6. g[U \ {Some(U)}] = k[U \ {Some(U)}]
  BY <1>2, <1>3, <1>5
<1>7. g[U] = f[Some(U)] + g[U \ {Some(U)}] /\ k[U] = h[Some(U)] + k[U \ {Some(U)}]
  BY <1>3, <1>4, AddsAt
<1> QED BY <1>3, <1>5, <1>6, <1>7

\* The function that adds up exists, although it is defined in terms of itself.
LEMMA AddsExists ==
  ASSUME NEW S, IsFiniteSet(S), NEW f
  PROVE  Adds(f, S, Partial(f, S))
<1> DEFINE B == {T \in SUBSET S : ~Adds(f, T, Partial(f, T))}
<1>1. SUFFICES ASSUME B # {} PROVE FALSE
  OBVIOUS
<1>2. PICK T \in B : \A V \in B : V \subseteq T => V = T
  <2>1. B \in SUBSET SUBSET S
    OBVIOUS
  <2> HIDE DEF B
  <2> QED BY <1>1, <2>1, FiniteMin
<1>3. T \in SUBSET S /\ ~Adds(f, T, Partial(f, T))
  OBVIOUS
<1>4. ASSUME NEW V \in SUBSET T, V # T PROVE Adds(f, V, Partial(f, V)) /\ IsFiniteSet(V)
  BY <1>2, <1>3, <1>4, FS_Subset
<1> HIDE DEF B
<1> DEFINE P(V) == Partial(f, V)[V]
           G(V) == IF V = T THEN (IF T = {} THEN 0 ELSE f[Some(T)] + P(T \ {Some(T)}))
                   ELSE P(V)
           g == [V \in SUBSET T |-> G(V)]
           H(V) == IF V = {} THEN 0 ELSE f[Some(V)] + g[V \ {Some(V)}]
<1>5. ASSUME NEW V \in SUBSET T PROVE G(V) = H(V)
  <2>0. \A U \in SUBSET T : g[U] = G(U)
    OBVIOUS
  <2> HIDE DEF g, P
  <2>1. CASE V = {} /\ V = T
    BY <2>1
  <2>2. CASE V = {} /\ V # T
    <3>1. Partial(f, V)[V] = 0
      BY <1>4, <2>2, AddsAt
    <3> QED BY <2>2, <3>1 DEF P
  <2>3. CASE V # {} /\ V = T
    <3>1. V \ {Some(V)} \in SUBSET T /\ V \ {Some(V)} # T
      BY <2>3, SomeIn
    <3>2. g[V \ {Some(V)}] = P(V \ {Some(V)})
      BY <2>0, <3>1
    <3> QED BY <2>3, <3>2
  <2>4. CASE V # {} /\ V # T
    <3> DEFINE U == V \ {Some(V)}
    <3>1. Some(V) \in V /\ U \in SUBSET V /\ U \in SUBSET T /\ U # T
      BY <2>4, SomeIn
    <3>2. Partial(f, V)[V] = f[Some(V)] + Partial(f, V)[U]
      BY <1>4, <2>4, AddsAt
    <3>3. Adds(f, V, Partial(f, V)) /\ Adds(f, U, Partial(f, U)) /\ IsFiniteSet(U)
      BY <1>4, <2>4, <3>1
    <3>4. Partial(f, V)[U] = Partial(f, U)[U]
      <4> HIDE DEF U
      <4> QED BY <3>1, <3>3, AddsAgree
    <3>5. g[U] = Partial(f, U)[U]
      BY <2>0, <3>1 DEF P
    <3> QED BY <2>4, <3>2, <3>4, <3>5 DEF P
  <2> QED BY <2>1, <2>2, <2>3, <2>4
<1>6. Adds(f, T, g)
  <2>1. g = [V \in SUBSET T |-> H(V)]
    <3> HIDE DEF G, H
    <3> QED BY <1>5
  <2> QED BY <2>1 DEF Adds
<1>7. Adds(f, T, Partial(f, T))
  <2> HIDE DEF g
  <2> QED BY <1>6 DEF Partial
<1> QED BY <1>3, <1>7

LEMMA AddsType ==
  ASSUME NEW S, IsFiniteSet(S), NEW f \in [S -> Int], NEW g, Adds(f, S, g), NEW T \in SUBSET S
  PROVE  g[T] \in Int
<1> DEFINE B == {U \in SUBSET S : g[U] \notin Int}
<1>1. SUFFICES ASSUME B # {} PROVE FALSE
  OBVIOUS
<1>2. PICK U \in B : \A V \in B : V \subseteq U => V = U
  <2>1. B \in SUBSET SUBSET S
    OBVIOUS
  <2> HIDE DEF B
  <2> QED BY <1>1, <2>1, FiniteMin
<1>3. U \in SUBSET S /\ g[U] \notin Int
  OBVIOUS
<1>4. U # {}
  <2> SUFFICES ASSUME U = {} PROVE FALSE
    OBVIOUS
  <2>1. g[U] = 0
    BY <1>3, AddsAt
  <2> QED BY <1>3, <2>1
<1>5. Some(U) \in U /\ f[Some(U)] \in Int
  BY <1>3, <1>4, SomeIn
<1>6. g[U \ {Some(U)}] \in Int
  BY <1>2, <1>3, <1>5
<1>7. g[U] = f[Some(U)] + g[U \ {Some(U)}]
  BY <1>3, <1>4, AddsAt
<1> QED BY <1>3, <1>5, <1>6, <1>7

\* Any element may be added last.
LEMMA AddsAny ==
  ASSUME NEW S, IsFiniteSet(S), NEW f \in [S -> Int], NEW g, Adds(f, S, g),
         NEW T \in SUBSET S, NEW x \in T
  PROVE  g[T] = f[x] + g[T \ {x}]
<1> DEFINE B == {U \in SUBSET S : \E y \in U : g[U] # f[y] + g[U \ {y}]}
<1>1. SUFFICES ASSUME B # {} PROVE FALSE
  OBVIOUS
<1>2. PICK U \in B : \A V \in B : V \subseteq U => V = U
  <2>1. B \in SUBSET SUBSET S
    OBVIOUS
  <2> HIDE DEF B
  <2> QED BY <1>1, <2>1, FiniteMin
<1>3. PICK y \in U : g[U] # f[y] + g[U \ {y}]
  OBVIOUS
<1> DEFINE c == Some(U)
<1>4. U \in SUBSET S /\ c \in U
  BY SomeIn
<1>5. g[U] = f[c] + g[U \ {c}]
  BY <1>4, AddsAt
<1>6. c # y
  BY <1>3, <1>5
<1>7. \A V \in SUBSET U : \A z \in V : V # U => g[V] = f[z] + g[V \ {z}]
  BY <1>2
<1> HIDE DEF B, c
<1>8. g[U \ {c}] = f[y] + g[(U \ {c}) \ {y}]
  BY <1>4, <1>6, <1>7
<1>9. g[U \ {y}] = f[c] + g[(U \ {y}) \ {c}]
  BY <1>4, <1>6, <1>7
<1>10. (U \ {c}) \ {y} = (U \ {y}) \ {c}
  OBVIOUS
<1>11. g[(U \ {c}) \ {y}] \in Int /\ f[y] \in Int /\ f[c] \in Int
  BY <1>4, AddsType
<1>12. g[U] = f[c] + (f[y] + g[(U \ {c}) \ {y}])
  BY <1>5, <1>8
<1>13. f[y] + g[U \ {y}] = f[y] + (f[c] + g[(U \ {c}) \ {y}])
  BY <1>9, <1>10
<1>14. \A a, b, n \in Int : a + (b + n) = b + (a + n)
  OBVIOUS
<1>15. f[c] + (f[y] + g[(U \ {c}) \ {y}]) = f[y] + (f[c] + g[(U \ {c}) \ {y}])
  BY <1>11, <1>14
<1> QED BY <1>3, <1>12, <1>13, <1>15

LEMMA TotalType ==
  ASSUME NEW S, IsFiniteSet(S), NEW f \in [S -> Int]
  PROVE  Total(f, S) \in Int
BY AddsExists, AddsType DEF Total

\* One term changes.
LEMMA TotalChange ==
  ASSUME NEW S, IsFiniteSet(S), NEW f \in [S -> Int], NEW h \in [S -> Int], NEW x \in S,
         \A y \in S \ {x} : h[y] = f[y]
  PROVE  Total(h, S) = Total(f, S) + (h[x] - f[x])
<1> DEFINE g == Partial(f, S)
           k == Partial(h, S)
<1>1. Adds(f, S, g) /\ Adds(h, S, k)
  BY AddsExists
<1> HIDE DEF g, k
<1>2. g[S] = f[x] + g[S \ {x}] /\ k[S] = h[x] + k[S \ {x}]
  BY <1>1, AddsAny
<1>3. g[S \ {x}] = k[S \ {x}]
  <2>1. IsFiniteSet(S \ {x})
    BY FS_Subset
  <2> QED BY <1>1, <2>1, AddsAgree
<1>4. g[S \ {x}] \in Int /\ f[x] \in Int /\ h[x] \in Int
  BY <1>1, AddsType
<1> QED BY <1>2, <1>3, <1>4 DEF Total, g, k

\* Terms that are zero may be left out.
LEMMA TotalOver ==
  ASSUME NEW S, IsFiniteSet(S), NEW f \in [S -> Int], NEW T \in SUBSET S,
         \A x \in S \ T : f[x] = 0, NEW h, \A x \in T : h[x] = f[x], NEW k, Adds(h, T, k)
  PROVE  Total(f, S) = k[T]
<1> DEFINE g == Partial(f, S)
           B == {U \in SUBSET S : T \subseteq U /\ g[U] # g[T]}
<1>1. Adds(f, S, g)
  BY AddsExists
<1>2. g[T] = k[T]
  <2>1. IsFiniteSet(T)
    BY FS_Subset
  <2> HIDE DEF g
  <2> QED BY <1>1, <2>1, AddsAgree
<1>3. B = {}
  <2>1. SUFFICES ASSUME B # {} PROVE FALSE
    OBVIOUS
  <2>2. PICK U \in B : \A V \in B : V \subseteq U => V = U
    <3>1. B \in SUBSET SUBSET S
      OBVIOUS
    <3> HIDE DEF B
    <3> QED BY <2>1, <3>1, FiniteMin
  <2> HIDE DEF g
  <2>3. U \in SUBSET S /\ T \subseteq U /\ g[U] # g[T]
    OBVIOUS
  <2>4. PICK x \in U : x \notin T
    BY <2>3
  <2>5. g[U \ {x}] = g[T]
    BY <2>2, <2>3, <2>4
  <2>6. g[U] = f[x] + g[U \ {x}] /\ f[x] = 0
    BY <1>1, <2>3, <2>4, AddsAny
  <2>7. g[U \ {x}] \in Int
    BY <1>1, <2>3, AddsType
  <2> QED BY <2>3, <2>5, <2>6, <2>7
<1> QED BY <1>2, <1>3 DEF Total

LEMMA TotalZero ==
  ASSUME NEW S, IsFiniteSet(S)
  PROVE  Total([x \in S |-> 0], S) = 0
<1> DEFINE f == [x \in S |-> 0]
           k == Partial(f, {})
<1>1. Adds(f, {}, k)
  BY AddsExists, FS_EmptySet
<1>2. k[{}] = 0
  <2> HIDE DEF k
  <2> QED BY <1>1, AddsAt
<1>3. f \in [S -> Int] /\ \A x \in S : f[x] = 0
  OBVIOUS
<1> HIDE DEF f, k
<1>4. Total(f, S) = k[{}]
  BY <1>1, <1>3, TotalOver
<1> QED BY <1>2, <1>4 DEF f

LEMMA HasLargest ==
  \A S : IsFiniteSet(S) /\ S # {} /\ S \subseteq Int => \E x \in S : \A y \in S : x >= y
<1>1. ASSUME NEW S, IsFiniteSet(S), S # {}, S \subseteq Int,
             \A x \in S : \E y \in S : ~(x >= y)
      PROVE  FALSE
  <2> DEFINE B == {T \in SUBSET S : T # {} /\ \A x \in T : \E y \in T : ~(x >= y)}
  <2>1. B \in SUBSET SUBSET S
    OBVIOUS
  <2>2. B # {}
    BY <1>1
  <2>3. IsFiniteSet(S)
    BY <1>1
  <2>4. PICK T \in B : \A U \in B : U \subseteq T => U = T
    <3> HIDE DEF B
    <3> QED BY <2>1, <2>2, <2>3, FiniteMin
  <2>5. T \in SUBSET S /\ T # {} /\ \A x \in T : \E y \in T : ~(x >= y)
    OBVIOUS
  <2>6. PICK a \in T : TRUE
    BY <2>5
  <2>7. T \ {a} # {} /\ T \subseteq Int
    BY <1>1, <2>5, <2>6
  <2>8. PICK m \in T \ {a} : \A y \in T \ {a} : m >= y
    <3>1. T \ {a} \in SUBSET S /\ T \ {a} \subseteq T /\ T \ {a} # T
      BY <2>5, <2>6
    <3>2. T \ {a} \notin B
      <4> HIDE DEF B
      <4> QED BY <2>4, <3>1
    <3> QED BY <2>7, <3>1, <3>2
  <2>9. CASE a >= m
    <3>1. \A y \in T : a >= y
      BY <2>6, <2>7, <2>8, <2>9
    <3> QED BY <2>5, <2>6, <3>1
  <2>10. CASE ~(a >= m)
    <3>1. \A y \in T : m >= y
      BY <2>6, <2>7, <2>8, <2>10
    <3> QED BY <2>5, <2>8, <3>1
  <2> QED BY <2>9, <2>10
<1> QED BY <1>1

-----------------------------------------------------------------------------
(* Users who coordinate: the credit is the sum of the payments, up to what  *)
(* is under way and what failed.                                            *)

LEMMA LargestAmount == MaxAmount \in Nat /\ \A a \in Amounts : a \in Nat /\ a <= MaxAmount
<1>1. Amounts \subseteq Nat /\ \E x \in Amounts : \A y \in Amounts : x >= y
  <2>1. Amounts \subseteq Nat /\ Amounts \subseteq Int
    BY LedgerAssumption
  <2>2. IsFiniteSet(Amounts) /\ Amounts # {}
    BY FiniteLedger
  <2> QED BY <2>1, <2>2, HasLargest
<1>2. MaxAmount \in Amounts /\ \A y \in Amounts : MaxAmount >= y
  BY <1>1 DEF MaxAmount, Max
<1> QED BY <1>1, <1>2

\* What a request still has to add to the credit of i, and what a payment adds to
\* what was paid to i.
Crediting == {"create.credit", "update.credit", "remove.credit"}

Owes(r, i) == IF r.at \in Crediting /\ r.invoice = i THEN r.delta ELSE 0
Pays(d, i) == IF d # None /\ ~d.removed /\ d.invoice = i THEN d.amount ELSE 0

OwedTo(i) == Total([w \in Workers |-> Owes(req[w], i)], Workers)
PaidTo(i) == Total([p \in Payments |-> Pays(payment[p], i)], Payments)
Drift(i)  == invoice[i].credit + OwedTo(i) - PaidTo(i)

Within(x, n) == x <= n /\ 0 - x <= n

LEMMA OwesType == ASSUME NEW r \in Requests, NEW i PROVE Owes(r, i) \in Int
<1>0. Amounts \subseteq Int
  BY Numbers
<1>1. ASSUME r.at \in Crediting PROVE r.delta \in Int
  <2>1. CASE r \in [at : Creating, invoice : Invoices, payment : Payments, delta : Amounts,
                    status : Statuses]
    BY <1>0, <2>1
  <2>2. CASE r \in [at : Updating, invoice : Invoices, payment : Payments, amount : Amounts,
                    delta : Int, status : Statuses]
    BY <2>2
  <2>3. CASE r \in [at : Removing, invoice : Invoices, payment : Payments, delta : Int,
                    status : Statuses]
    BY <2>3
  <2> QED BY <1>1, <2>1, <2>2, <2>3 DEF Requests, Crediting, Idle
<1> QED BY <1>1 DEF Owes

LEMMA PaysType == ASSUME NEW d \in PaymentDoc \cup {None}, NEW i PROVE Pays(d, i) \in Int
<1>1. Amounts \subseteq Int
  BY Numbers
<1>2. d # None => d.amount \in Int
  BY <1>1 DEF PaymentDoc
<1> QED BY <1>2 DEF Pays

LEMMA SumsType ==
  ASSUME Types, NEW i
  PROVE  OwedTo(i) \in Int /\ PaidTo(i) \in Int
<1>1. [w \in Workers |-> Owes(req[w], i)] \in [Workers -> Int]
  BY OwesType DEF Types
<1>2. [p \in Payments |-> Pays(payment[p], i)] \in [Payments -> Int]
  BY PaysType DEF Types
<1> QED BY <1>1, <1>2, TotalType, FiniteLedger DEF OwedTo, PaidTo

LEMMA OwedMoves ==
  ASSUME Types, Types', NEW i, NEW w \in Workers,
         \A v \in Workers \ {w} : Owes(req'[v], i) = Owes(req[v], i)
  PROVE  OwedTo(i)' = OwedTo(i) + (Owes(req'[w], i) - Owes(req[w], i))
<1> DEFINE f == [v \in Workers |-> Owes(req[v], i)]
           h == [v \in Workers |-> Owes(req'[v], i)]
<1>1. /\ f \in [Workers -> Int] /\ h \in [Workers -> Int]
      /\ h[w] = Owes(req'[w], i) /\ f[w] = Owes(req[w], i)
      /\ \A v \in Workers \ {w} : h[v] = f[v]
  BY OwesType DEF Types
<1>2. OwedTo(i)' = Total(h, Workers) /\ OwedTo(i) = Total(f, Workers)
  BY DEF OwedTo
<1> HIDE DEF f, h
<1>3. Total(h, Workers) = Total(f, Workers) + (h[w] - f[w])
  BY <1>1, FiniteLedger, TotalChange
<1> QED BY <1>1, <1>2, <1>3

LEMMA PaidMoves ==
  ASSUME Types, Types', NEW i, NEW q \in Payments,
         \A p \in Payments \ {q} : Pays(payment'[p], i) = Pays(payment[p], i)
  PROVE  PaidTo(i)' = PaidTo(i) + (Pays(payment'[q], i) - Pays(payment[q], i))
<1> DEFINE f == [p \in Payments |-> Pays(payment[p], i)]
           h == [p \in Payments |-> Pays(payment'[p], i)]
<1>1. /\ f \in [Payments -> Int] /\ h \in [Payments -> Int]
      /\ h[q] = Pays(payment'[q], i) /\ f[q] = Pays(payment[q], i)
      /\ \A p \in Payments \ {q} : h[p] = f[p]
  BY PaysType DEF Types
<1>2. PaidTo(i)' = Total(h, Payments) /\ PaidTo(i) = Total(f, Payments)
  BY DEF PaidTo
<1> HIDE DEF f, h
<1>3. Total(h, Payments) = Total(f, Payments) + (h[q] - f[q])
  BY <1>1, FiniteLedger, TotalChange
<1> QED BY <1>1, <1>2, <1>3

LEMMA PaidSame ==
  ASSUME NEW i, \A p \in Payments : Pays(payment'[p], i) = Pays(payment[p], i)
  PROVE  PaidTo(i)' = PaidTo(i)
<1> DEFINE f == [p \in Payments |-> Pays(payment[p], i)]
           h == [p \in Payments |-> Pays(payment'[p], i)]
<1>1. f = h
  OBVIOUS
<1>2. PaidTo(i)' = Total(h, Payments) /\ PaidTo(i) = Total(f, Payments)
  BY DEF PaidTo
<1> HIDE DEF f, h
<1> QED BY <1>1, <1>2

LEMMA OwedSame ==
  ASSUME NEW i, \A w \in Workers : Owes(req'[w], i) = Owes(req[w], i)
  PROVE  OwedTo(i)' = OwedTo(i)
<1> DEFINE f == [w \in Workers |-> Owes(req[w], i)]
           h == [w \in Workers |-> Owes(req'[w], i)]
<1>1. f = h
  OBVIOUS
<1>2. OwedTo(i)' = Total(h, Workers) /\ OwedTo(i) = Total(f, Workers)
  BY DEF OwedTo
<1> HIDE DEF f, h
<1> QED BY <1>1, <1>2

\* A state in which nothing is owed by requests, or nothing was paid.
LEMMA NothingOwed ==
  ASSUME NEW i, \A w \in Workers : Owes(req[w], i) = 0
  PROVE  OwedTo(i) = 0
<1>1. [w \in Workers |-> Owes(req[w], i)] = [w \in Workers |-> 0]
  OBVIOUS
<1> QED BY <1>1, FiniteLedger, TotalZero DEF OwedTo

LEMMA NothingPaid ==
  ASSUME NEW i, \A p \in Payments : Pays(payment[p], i) = 0
  PROVE  PaidTo(i) = 0
<1>1. [p \in Payments |-> Pays(payment[p], i)] = [p \in Payments |-> 0]
  OBVIOUS
<1> QED BY <1>1, FiniteLedger, TotalZero DEF PaidTo

\* The same sums as MapThenSumSet computes them.
LEMMA PaidIsSum ==
  ASSUME Types, NEW i
  PROVE  SumOfPayments(i) = PaidTo(i)
<1> DEFINE L == LivePayments(i)
           h == [p \in Payments |-> payment[p].amount]
           f == [p \in Payments |-> Pays(payment[p], i)]
           Step(g) == [s \in SUBSET L |->
             IF s = {} THEN 0 ELSE payment[CHOOSE x \in s : TRUE].amount + g[s \ {CHOOSE x \in s : TRUE}]]
           sums == CHOOSE g : g = Step(g)
<1>1. SumOfPayments(i) = sums[L]
  BY DEF SumOfPayments, MapThenSumSet, MapThenFoldSet
<1>2. L \subseteq Payments /\ IsFiniteSet(L) /\ L \in SUBSET Payments
  <2>1. L \subseteq Payments
    BY DEF LivePayments
  <2> QED BY <2>1, FiniteLedger, FS_Subset
<1>3. ASSUME NEW g PROVE g = Step(g) <=> Adds(h, L, g)
  <2>1. ASSUME NEW s \in SUBSET L, s # {}
        PROVE  payment[CHOOSE x \in s : TRUE].amount = h[Some(s)]
    <3>1. Some(s) \in Payments
      BY <1>2, <2>1, SomeIn
    <3> QED BY <3>1 DEF Some
  <2>2. Step(g) = [s \in SUBSET L |-> IF s = {} THEN 0 ELSE h[Some(s)] + g[s \ {Some(s)}]]
    <3> HIDE DEF h, L
    <3> QED BY <2>1 DEF Some
  <2> QED BY <2>2 DEF Adds
<1>4. Adds(h, L, sums)
  <2>1. Adds(h, L, Partial(h, L))
    BY <1>2, AddsExists
  <2> HIDE DEF h, L, Step
  <2>2. Partial(h, L) = Step(Partial(h, L))
    BY <1>3, <2>1
  <2>3. sums = Step(sums)
    BY <2>2
  <2> QED BY <1>3, <2>3
<1>5. f \in [Payments -> Int]
  BY PaysType DEF Types
<1>6. \A p \in Payments \ L : f[p] = 0
  BY DEF LivePayments, Pays, Exists
<1>7. \A p \in L : h[p] = f[p]
  BY DEF LivePayments, Pays, Exists
<1>8. PaidTo(i) = Total(f, Payments)
  BY DEF PaidTo
<1> HIDE DEF L, h, f, sums
<1>9. Total(f, Payments) = sums[L]
  BY <1>2, <1>4, <1>5, <1>6, <1>7, FiniteLedger, TotalOver
<1> QED BY <1>1, <1>8, <1>9

-----------------------------------------------------------------------------
(* What a request will add is the difference it makes to its payment.       *)

Midway == {"update.read", "update.write", "remove.read", "remove.write"}

ExactFor(w) ==
  /\ req[w].at \in {"update.read", "update.write"} =>
       req[w].delta = req[w].amount - payment[req[w].payment].amount
  /\ req[w].at \in {"remove.read", "remove.write"} =>
       req[w].delta = 0 - payment[req[w].payment].amount
  /\ req[w].at \in Midway => ~payment[req[w].payment].removed \/ invoice[req[w].invoice].removed
  /\ req[w].at \in Crediting => Within(req[w].delta, MaxAmount)

Exact == discipline \in {"invoice", "payment"} => \A w \in Workers : ExactFor(w)

LEMMA PaymentSteady ==
  ASSUME Types, Known, OnePerPayment, [Next]_vars, NEW v \in Workers,
         req[v].at \in Midway, req'[v] = req[v]
  PROVE  /\ payment'[req[v].payment].amount = payment[req[v].payment].amount
         /\ \/ payment'[req[v].payment].removed = payment[req[v].payment].removed
            \/ invoice[req[v].invoice].removed
<1>1. req[v].at \in OfPayment /\ req[v].at # "create.insert"
  BY DEF Midway, OfPayment
<1>2. PICK q \in Payments : q = req[v].payment
  BY <1>1, Locals
<1>3. payment[q] \in PaymentDoc /\ payment[q].invoice = req[v].invoice
  BY <1>1, <1>2, Docs DEF Known
<1>4. ASSUME payment'[q] = payment[q] \/ (invoice[req[v].invoice].removed
                                          /\ payment'[q] = [payment[q] EXCEPT !.removed = TRUE])
      PROVE  /\ payment'[q].amount = payment[q].amount
             /\ payment'[q].removed = payment[q].removed \/ invoice[req[v].invoice].removed
  BY <1>3, <1>4 DEF PaymentDoc
<1>5. ASSUME NEW w \in Workers, Proceed(w)
      PROVE  payment'[q] = payment[q] \/ (invoice[req[v].invoice].removed
                                          /\ payment'[q] = [payment[q] EXCEPT !.removed = TRUE])
  <2>1. CASE InvoiceRemovePayments(w)
    <3>1. payment'[q] = payment[q] \/ (q \in LivePayments(req[w].invoice)
                                       /\ payment'[q] = [payment[q] EXCEPT !.removed = TRUE])
      BY <2>1 DEF InvoiceRemovePayments
    <3>2. q \in LivePayments(req[w].invoice) => invoice[req[v].invoice].removed
      BY <1>3, <2>1 DEF InvoiceRemovePayments, At, Known, LivePayments
    <3> QED BY <3>1, <3>2
  <2>2. ASSUME PaymentInsert(w) \/ UpdateWrite(w) \/ RemoveWrite(w), payment' # payment
        PROVE  payment'[q] = payment[q]
    <3>1. req[w].at \in OfPayment /\ req[w].payment \in Payments /\ req[w] \in Requests
      BY <2>2, Locals DEF PaymentInsert, UpdateWrite, RemoveWrite, At, OfPayment, Types
    <3>2. v # w
      <4>1. CASE PaymentInsert(w)
        BY <4>1 DEF PaymentInsert, At, Midway
      <4>2. CASE UpdateWrite(w) \/ RemoveWrite(w)
        <5>1. req'[w].at \in {"update.credit", "remove.credit"}
          BY <2>2, <3>1, <4>2, Frame DEF UpdateWrite, RemoveWrite, Continue, At, Requests, Idle
        <5> QED BY <5>1 DEF Midway
      <4> QED BY <2>2, <4>1, <4>2
    <3>3. req[w].payment # q
      BY <1>1, <1>2, <3>1, <3>2 DEF OnePerPayment
    <3> QED BY <2>2, <3>1, <3>3 DEF PaymentInsert, UpdateWrite, RemoveWrite, Types
  <2>3. payment' = payment \/ InvoiceRemovePayments(w) \/ PaymentInsert(w) \/ UpdateWrite(w)
        \/ RemoveWrite(w)
    BY <1>5 DEF Proceed, InvoiceUpdateWrite, PaymentCredit, UpdateRead, UpdateCredit, RemoveRead,
                RemoveCredit
  <2> QED BY <2>1, <2>2, <2>3
<1>6. payment' = payment \/ \E w \in Workers : Proceed(w)
  BY DEF Next, vars, InvoiceCreate, Fail, Arrive, InvoiceUpdate, InvoiceRemove, PaymentCreate,
         PaymentUpdate, PaymentRemove
<1> QED BY <1>2, <1>4, <1>5, <1>6

LEMMA AmountsWithin ==
  /\ \A a \in Amounts : Within(a, MaxAmount) /\ Within(0 - a, MaxAmount)
  /\ \A a, b \in Amounts : Within(a - b, MaxAmount)
  BY LargestAmount DEF Within

LEMMA ExactMade ==
  ASSUME Types, Known, [Next]_vars, NEW w \in Workers, ExactFor(w), req'[w] # req[w]
  PROVE  ExactFor(w)'
<1>0. req[w] \in Requests
  BY DEF Types
<1>1. ASSUME NEW x, Goto(w, x), x.at \notin Midway, x.at \notin Crediting PROVE ExactFor(w)'
  BY <1>1, Frame DEF ExactFor, Midway
<1>2. ASSUME Answer(w) PROVE ExactFor(w)'
  BY <1>1, <1>2 DEF Answer, Idle, Midway, Crediting
<1>3. ASSUME Arrive(w) PROVE ExactFor(w)'
  <2>1. ASSUME NEW i \in Invoices, NEW total \in Totals, InvoiceUpdate(w, i, total)
        PROVE  ExactFor(w)'
    BY <1>1, <2>1 DEF InvoiceUpdate, Midway, Crediting
  <2>2. ASSUME NEW i \in Invoices, InvoiceRemove(w, i) PROVE ExactFor(w)'
    BY <1>1, <2>2 DEF InvoiceRemove, Midway, Crediting
  <2>3. ASSUME NEW i \in Invoices, NEW p \in Payments, NEW a \in Amounts, PaymentCreate(w, i, p, a)
        PROVE  ExactFor(w)'
    BY <1>1, <2>3 DEF PaymentCreate, Midway, Crediting
  <2>4. ASSUME NEW p \in Payments, NEW a \in Amounts, PaymentUpdate(w, p, a) PROVE ExactFor(w)'
    <3>1. req'[w] = [at |-> "update.read", invoice |-> payment[p].invoice, payment |-> p,
                     amount |-> a, delta |-> a - payment[p].amount]
      BY <2>4, Frame DEF PaymentUpdate
    <3> QED BY <2>4, <3>1 DEF PaymentUpdate, ExactFor, Crediting
  <2>5. ASSUME NEW p \in Payments, PaymentRemove(w, p) PROVE ExactFor(w)'
    <3>1. req'[w] = [at |-> "remove.read", invoice |-> payment[p].invoice, payment |-> p,
                     delta |-> 0 - payment[p].amount]
      BY <2>5, Frame DEF PaymentRemove
    <3> QED BY <2>5, <3>1 DEF PaymentRemove, ExactFor, Crediting
  <2> QED BY <1>3, <2>1, <2>2, <2>3, <2>4, <2>5 DEF Arrive
<1>4. ASSUME Proceed(w) PROVE ExactFor(w)'
  <2>1. CASE PaymentInsert(w)
    <3>1. req'[w].at = "create.credit" /\ req'[w].delta = req[w].delta /\ req[w].delta \in Amounts
      BY <1>0, <2>1, Frame, Locals DEF PaymentInsert, Continue, At, Requests, Idle, Creating
    <3> QED BY <3>1, AmountsWithin DEF ExactFor, Midway
  <2>2. CASE UpdateRead(w)
    <3>1. Answer(w) \/ /\ req'[w].at = "update.write" /\ req'[w].payment = req[w].payment
                       /\ req'[w].invoice = req[w].invoice /\ req'[w].delta = req[w].delta
                       /\ req'[w].amount = req[w].amount
      BY <2>2, Frame DEF UpdateRead
    <3> QED BY <1>2, <2>2, <3>1 DEF UpdateRead, At, ExactFor, Midway, Crediting
  <2>3. CASE RemoveRead(w)
    <3>1. /\ req'[w].at = "remove.write" /\ req'[w].payment = req[w].payment
          /\ req'[w].invoice = req[w].invoice /\ req'[w].delta = req[w].delta
      BY <2>3, Frame DEF RemoveRead
    <3> QED BY <2>3, <3>1 DEF RemoveRead, At, ExactFor, Midway, Crediting
  <2>4. CASE (UpdateWrite(w) /\ ~Answer(w)) \/ RemoveWrite(w)
    <3>1. /\ req'[w].at \in {"update.credit", "remove.credit"} /\ req'[w].delta = req[w].delta
          /\ req[w].at \in {"update.write", "remove.write"}
      BY <1>0, <2>4, Frame DEF UpdateWrite, RemoveWrite, Continue, At, Requests, Idle
    <3>2. /\ req[w].payment \in Payments /\ payment[req[w].payment] \in PaymentDoc
          /\ req[w].at = "update.write" => req[w].amount \in Amounts
      BY <3>1, Locals, Docs DEF OfPayment, Updating, Known
    <3>3. payment[req[w].payment].amount \in Amounts
      BY <3>2 DEF PaymentDoc
    <3>4. Within(req[w].delta, MaxAmount)
      BY <3>1, <3>2, <3>3, AmountsWithin DEF ExactFor
    <3> QED BY <3>1, <3>4 DEF ExactFor, Midway
  <2>5. \/ Answer(w) \/ PaymentInsert(w) \/ UpdateRead(w) \/ RemoveRead(w)
        \/ (UpdateWrite(w) /\ ~Answer(w)) \/ RemoveWrite(w)
    BY <1>4 DEF Proceed, InvoiceUpdateWrite, InvoiceRemovePayments, PaymentCredit, UpdateCredit,
                RemoveCredit
  <2> QED BY <1>2, <2>1, <2>2, <2>3, <2>4, <2>5
<1>5. Arrive(w) \/ Proceed(w) \/ Answer(w)
  <2>1. ASSUME NEW v \in Workers, Arrive(v) \/ Proceed(v) \/ Fail(v) PROVE v = w
    <3>1. \E x : Goto(v, x)
      <4>1. CASE Arrive(v)
        BY <4>1 DEF Arrive, InvoiceUpdate, InvoiceRemove, PaymentCreate, PaymentUpdate, PaymentRemove
      <4>2. CASE Proceed(v) \/ Fail(v)
        BY <4>2 DEF Proceed, InvoiceUpdateWrite, InvoiceRemovePayments, PaymentInsert, PaymentCredit,
                    UpdateRead, UpdateWrite, UpdateCredit, RemoveRead, RemoveWrite, RemoveCredit, Fail,
                    Answer, Continue
      <4> QED BY <2>1, <4>1, <4>2
    <3> QED BY <3>1, Frame
  <2>2. \E v \in Workers : Arrive(v) \/ Proceed(v) \/ Fail(v)
    BY DEF Next, vars, InvoiceCreate
  <2> QED BY <2>1, <2>2 DEF Fail
<1> QED BY <1>2, <1>3, <1>4, <1>5

LEMMA ExactStep ==
  ASSUME Types, Known, Alone, Exact, [Next]_vars
  PROVE  Exact'
<1>1. discipline' = discipline
  BY RequestMoves
<1>2. ASSUME discipline \in {"invoice", "payment"}, NEW w \in Workers PROVE ExactFor(w)'
  <2>1. OnePerPayment /\ ExactFor(w)
    BY <1>2 DEF Alone, Exact
  <2>2. CASE req'[w] = req[w] /\ req[w].at \in Midway
    <3>1. invoice[req[w].invoice].removed => invoice'[req[w].invoice].removed
      <4>1. req[w].invoice \in Invoices /\ Exists(invoice[req[w].invoice])
        BY <2>2, Locals DEF Midway, Free, Known
      <4> QED BY <4>1, KeptStep DEF InvoicesKept
    <3> QED BY <2>1, <2>2, <3>1, PaymentSteady DEF ExactFor, Midway, Crediting
  <2>3. CASE req'[w] = req[w] /\ req[w].at \notin Midway
    BY <2>1, <2>3 DEF ExactFor, Midway
  <2> QED BY <2>1, <2>2, <2>3, ExactMade
<1> QED BY <1>1, <1>2 DEF Exact

-----------------------------------------------------------------------------
(* What is credited is what was paid, up to what is under way and what      *)
(* failed.                                                                  *)

Credited ==
  discipline \in {"invoice", "payment"} =>
    \A i \in Invoices : ~invoice[i].removed => Within(Drift(i), failures * MaxAmount)

LEMMA DriftMoves ==
  ASSUME Types, Types', NEW i \in Invoices, invoice[i] \in InvoiceDoc, invoice'[i] \in InvoiceDoc,
         NEW w \in Workers, NEW x, Goto(w, x)
  PROVE  /\ Drift(i) \in Int /\ Drift(i)' \in Int
         /\ Owes(x, i) \in Int /\ Owes(req[w], i) \in Int
         /\ invoice[i].credit \in Int /\ invoice'[i].credit \in Int
         /\ OwedTo(i)' = OwedTo(i) + (Owes(x, i) - Owes(req[w], i))
         /\ PaidTo(i)' = PaidTo(i)
              => Drift(i)' = Drift(i) + (invoice'[i].credit - invoice[i].credit)
                               + (Owes(x, i) - Owes(req[w], i))
         /\ \A q \in Payments :
              (\A p \in Payments \ {q} : payment'[p] = payment[p])
              /\ invoice'[i].credit = invoice[i].credit
              /\ Owes(x, i) - Owes(req[w], i) = Pays(payment'[q], i) - Pays(payment[q], i)
                => Drift(i)' = Drift(i)
<1>1. invoice[i].credit \in Int /\ invoice'[i].credit \in Int
  BY DEF InvoiceDoc
<1>2. OwedTo(i) \in Int /\ PaidTo(i) \in Int
  BY SumsType
<1>3. req'[w] = x /\ \A v \in Workers \ {w} : req'[v] = req[v]
  BY Frame
<1>4. req[w] \in Requests /\ req'[w] \in Requests
  BY DEF Types
<1>5. Owes(x, i) \in Int /\ Owes(req[w], i) \in Int
  BY <1>3, <1>4, OwesType
<1>6. OwedTo(i)' = OwedTo(i) + (Owes(x, i) - Owes(req[w], i))
  BY <1>3, OwedMoves
<1>7. \A q \in Payments : Pays(payment'[q], i) \in Int /\ Pays(payment[q], i) \in Int
  BY PaysType DEF Types
<1>8. ASSUME NEW q \in Payments, \A p \in Payments \ {q} : payment'[p] = payment[p]
      PROVE  PaidTo(i)' = PaidTo(i) + (Pays(payment'[q], i) - Pays(payment[q], i))
  BY <1>8, PaidMoves
<1>9. /\ Drift(i) = invoice[i].credit + OwedTo(i) - PaidTo(i)
      /\ Drift(i)' = invoice'[i].credit + OwedTo(i)' - PaidTo(i)'
  BY DEF Drift
<1> DEFINE dO == Owes(x, i) - Owes(req[w], i)
<1>10. dO \in Int
  BY <1>5
<1> HIDE DEF dO
<1>11. ASSUME PaidTo(i)' = PaidTo(i)
       PROVE  Drift(i)' = Drift(i) + (invoice'[i].credit - invoice[i].credit) + dO
  <2>1. OwedTo(i)' = OwedTo(i) + dO
    BY <1>6 DEF dO
  <2> QED BY <1>1, <1>2, <1>9, <1>10, <1>11, <2>1
<1>12. ASSUME NEW q \in Payments, \A p \in Payments \ {q} : payment'[p] = payment[p],
              invoice'[i].credit = invoice[i].credit,
              dO = Pays(payment'[q], i) - Pays(payment[q], i)
       PROVE  Drift(i)' = Drift(i)
  <2>1. OwedTo(i)' = OwedTo(i) + dO
    BY <1>6 DEF dO
  <2>2. PaidTo(i)' = PaidTo(i) + dO
    BY <1>8, <1>12
  <2> QED BY <1>1, <1>2, <1>9, <1>10, <1>12, <2>1, <2>2
<1>13. Drift(i) \in Int
  BY <1>1, <1>2, <1>9
<1>14. Drift(i)' \in Int
  <2>1. OwedTo(i)' \in Int /\ PaidTo(i)' \in Int
    <3>1. OwedTo(i)' \in Int
      BY <1>2, <1>5, <1>6
    <3>2. PaidTo(i)' \in Int
      <4>1. [p \in Payments |-> Pays(payment'[p], i)] \in [Payments -> Int]
        BY <1>7
      <4>2. PaidTo(i)' = Total([p \in Payments |-> Pays(payment'[p], i)], Payments)
        BY DEF PaidTo
      <4> QED BY <4>1, <4>2, TotalType, FiniteLedger
    <3> QED BY <3>1, <3>2
  <2> QED BY <1>1, <1>9, <2>1
<1> QED BY <1>1, <1>5, <1>6, <1>11, <1>12, <1>13, <1>14 DEF dO

\* The drift of an invoice that exists changes only when a request fails, by what it
\* still had to add.
LEMMA DriftStays ==
  ASSUME Types, Types', Known, OnePerPayment, \A v \in Workers : ExactFor(v),
         NEW i \in Invoices, invoice[i] \in InvoiceDoc, invoice'[i] \in InvoiceDoc,
         ~invoice[i].removed, ~invoice'[i].removed, NEW w \in Workers, Arrive(w) \/ Proceed(w)
  PROVE  Drift(i)' = Drift(i)
<1>0. /\ req[w] \in Requests /\ Owes(Idle, i) = 0
      /\ \A j \in Invoices : invoice[j] \in InvoiceDoc \cup {None}
  BY DEF Types, Owes, Idle, Crediting
<1>1. ASSUME NEW x, Goto(w, x), Owes(x, i) = Owes(req[w], i), PaidTo(i)' = PaidTo(i),
             invoice'[i].credit = invoice[i].credit
      PROVE  Drift(i)' = Drift(i)
  <2>1. /\ Drift(i)' = Drift(i) + (invoice'[i].credit - invoice[i].credit)
                         + (Owes(x, i) - Owes(req[w], i))
        /\ Drift(i) \in Int /\ Owes(x, i) \in Int /\ invoice[i].credit \in Int
    BY <1>1, DriftMoves
  <2> QED BY <1>1, <2>1
<1>2. ASSUME NEW x, Goto(w, x), x.at \notin Crediting, req[w].at \notin Crediting,
             PaidTo(i)' = PaidTo(i), invoice'[i].credit = invoice[i].credit
      PROVE  Drift(i)' = Drift(i)
  BY <1>1, <1>2 DEF Owes
<1>3. payment' = payment => PaidTo(i)' = PaidTo(i)
  BY PaidSame
<1>4. CASE Arrive(w)
  <2>1. payment' = payment /\ req[w].at \notin Crediting
    BY <1>4 DEF Arrive, InvoiceUpdate, InvoiceRemove, PaymentCreate, PaymentUpdate, PaymentRemove,
                Admitted, Free, Crediting
  <2>2. invoice'[i].credit = invoice[i].credit
    <3>1. ASSUME NEW j \in Invoices, InvoiceRemove(w, j) PROVE invoice'[i].credit = invoice[i].credit
      BY <3>1 DEF InvoiceRemove, Types, InvoiceDoc
    <3> QED BY <1>4, <3>1 DEF Arrive, InvoiceUpdate, PaymentCreate, PaymentUpdate, PaymentRemove
  <2>3. \E x : Goto(w, x) /\ x.at \notin Crediting
    <3>1. ASSUME NEW j \in Invoices, NEW total \in Totals, InvoiceUpdate(w, j, total)
          PROVE  \E x : Goto(w, x) /\ x.at \notin Crediting
      BY <3>1 DEF InvoiceUpdate, Crediting
    <3>2. ASSUME NEW j \in Invoices, InvoiceRemove(w, j)
          PROVE  \E x : Goto(w, x) /\ x.at \notin Crediting
      BY <3>2 DEF InvoiceRemove, Crediting
    <3>3. ASSUME NEW j \in Invoices, NEW p \in Payments, NEW a \in Amounts, PaymentCreate(w, j, p, a)
          PROVE  \E x : Goto(w, x) /\ x.at \notin Crediting
      BY <3>3 DEF PaymentCreate, Crediting
    <3>4. ASSUME NEW p \in Payments, NEW a \in Amounts, PaymentUpdate(w, p, a)
          PROVE  \E x : Goto(w, x) /\ x.at \notin Crediting
      BY <3>4 DEF PaymentUpdate, Crediting
    <3>5. ASSUME NEW p \in Payments, PaymentRemove(w, p)
          PROVE  \E x : Goto(w, x) /\ x.at \notin Crediting
      BY <3>5 DEF PaymentRemove, Crediting
    <3> QED BY <1>4, <3>1, <3>2, <3>3, <3>4, <3>5 DEF Arrive
  <2> QED BY <1>2, <1>3, <2>1, <2>2, <2>3
<1>5. CASE Proceed(w)
  <2>0. ~Free(w) /\ req[w].invoice \in Invoices
    BY <1>5, ProceedBusy, Locals
  <2>1. CASE InvoiceUpdateWrite(w)
    <3>1. invoice'[i].credit = invoice[i].credit
      BY <1>0, <2>0, <2>1 DEF InvoiceUpdateWrite, Types, InvoiceDoc
    <3> QED BY <1>2, <1>3, <2>1, <3>1 DEF InvoiceUpdateWrite, Answer, At, Idle, Crediting
  <2>2. CASE InvoiceRemovePayments(w)
    <3>1. req[w].invoice # i
      BY <2>2 DEF InvoiceRemovePayments, At, Known
    <3>2. \A p \in Payments : payment'[p] = payment[p] \/ (p \in LivePayments(req[w].invoice)
                                  /\ payment'[p] = [payment[p] EXCEPT !.removed = TRUE])
      BY <2>2 DEF InvoiceRemovePayments
    <3>3. ASSUME NEW p \in LivePayments(req[w].invoice),
                 payment'[p] = [payment[p] EXCEPT !.removed = TRUE]
          PROVE  Pays(payment'[p], i) = Pays(payment[p], i)
      BY <3>1, <3>3 DEF LivePayments, Pays
    <3>4. PaidTo(i)' = PaidTo(i)
      BY <3>2, <3>3, PaidSame
    <3> QED BY <1>2, <2>2, <3>4 DEF InvoiceRemovePayments, Answer, At, Idle, Crediting
  <2>3. CASE UpdateRead(w) \/ RemoveRead(w)
    BY <1>2, <1>3, <2>3 DEF UpdateRead, RemoveRead, Answer, At, Idle, Crediting
  <2>4. CASE PaymentInsert(w)
    <3> DEFINE x == [req[w] EXCEPT !.at = "create.credit"]
    <3>0. PICK q \in Payments : q = req[w].payment
      BY <2>4, Locals DEF PaymentInsert, At, OfPayment
    <3>1. Owes(x, i) = (IF req[w].invoice = i THEN req[w].delta ELSE 0) /\ Owes(req[w], i) = 0
      BY <1>0, <2>4 DEF PaymentInsert, At, Owes, Crediting, Requests, Idle
    <3>2. payment[q] = None /\ None # [removed |-> FALSE, invoice |-> req[w].invoice,
                                       amount |-> req[w].delta]
      BY <2>4, <3>0 DEF PaymentInsert, At, Known, Exists, None
    <3>3. payment'[q] = [removed |-> FALSE, invoice |-> req[w].invoice, amount |-> req[w].delta]
      BY <2>4, <3>0 DEF PaymentInsert, Types
    <3>4. /\ Pays(payment'[q], i) = (IF req[w].invoice = i THEN req[w].delta ELSE 0)
          /\ Pays(payment[q], i) = 0
      BY <3>2, <3>3 DEF Pays
    <3>5. /\ \A p \in Payments \ {q} : payment'[p] = payment[p]
          /\ Goto(w, x) /\ invoice' = invoice
      BY <2>4, <3>0 DEF PaymentInsert, Types, Continue
    <3> HIDE DEF x
    <3> QED BY <3>1, <3>4, <3>5, DriftMoves
  <2>5. CASE UpdateWrite(w) /\ payment[req[w].payment].removed
    BY <1>2, <1>3, <2>5 DEF UpdateWrite, Answer, At, Idle, Crediting
  <2>6. CASE UpdateWrite(w) /\ ~payment[req[w].payment].removed
    <3> DEFINE x == [req[w] EXCEPT !.at = "update.credit"]
    <3>0. PICK q \in Payments : q = req[w].payment
      BY <2>6, Locals DEF UpdateWrite, At, OfPayment
    <3>1. Owes(x, i) = (IF req[w].invoice = i THEN req[w].delta ELSE 0) /\ Owes(req[w], i) = 0
      BY <1>0, <2>6 DEF UpdateWrite, At, Owes, Crediting, Requests, Idle
    <3>2. /\ payment[q] \in PaymentDoc /\ payment[q].invoice = req[w].invoice /\ payment[q] # None
          /\ ~payment[q].removed /\ req[w].amount \in Amounts
      BY <2>6, <3>0, Docs, Locals DEF UpdateWrite, At, Known, OfPayment, Updating, Exists
    <3>3. payment'[q] = [payment[q] EXCEPT !.amount = req[w].amount]
      BY <2>6, <3>0 DEF UpdateWrite, Types
    <3>4. payment'[q] \in PaymentDoc /\ payment'[q] # None
      BY <3>2, <3>3, DocWritten, NoneIsNoDoc
    <3>5. /\ Pays(payment'[q], i) = (IF req[w].invoice = i THEN req[w].amount ELSE 0)
          /\ Pays(payment[q], i) = (IF req[w].invoice = i THEN payment[q].amount ELSE 0)
      BY <3>2, <3>3, <3>4 DEF Pays, PaymentDoc
    <3>6. req[w].delta = req[w].amount - payment[q].amount
      BY <2>6, <3>0 DEF UpdateWrite, At, ExactFor
    <3>7. /\ \A p \in Payments \ {q} : payment'[p] = payment[p]
          /\ Goto(w, x) /\ invoice' = invoice
      BY <2>6, <3>0 DEF UpdateWrite, Types, Continue
    <3>8. req[w].amount \in Int /\ payment[q].amount \in Int
      BY <3>2, Numbers DEF PaymentDoc
    <3>9. Owes(x, i) - Owes(req[w], i) = Pays(payment'[q], i) - Pays(payment[q], i)
      <4>1. CASE req[w].invoice = i
        BY <3>1, <3>5, <3>6, <3>8, <4>1
      <4>2. CASE req[w].invoice # i
        BY <3>1, <3>5, <4>2
      <4> QED BY <4>1, <4>2
    <3> HIDE DEF x
    <3> QED BY <3>7, <3>9, DriftMoves
  <2>7. CASE RemoveWrite(w)
    <3> DEFINE x == [req[w] EXCEPT !.at = "remove.credit"]
    <3>0. PICK q \in Payments : q = req[w].payment
      BY <2>7, Locals DEF RemoveWrite, At, OfPayment
    <3>1. Owes(x, i) = (IF req[w].invoice = i THEN req[w].delta ELSE 0) /\ Owes(req[w], i) = 0
      BY <1>0, <2>7 DEF RemoveWrite, At, Owes, Crediting, Requests, Idle
    <3>2. /\ payment[q] \in PaymentDoc /\ payment[q].invoice = req[w].invoice /\ payment[q] # None
      BY <2>7, <3>0, Docs DEF RemoveWrite, At, Known, OfPayment, Exists
    <3>3. payment'[q].removed
      BY <2>7, <3>0, <3>2 DEF RemoveWrite, Types, PaymentDoc
    <3>4. req[w].invoice = i => ~payment[q].removed
      BY <2>7, <3>0 DEF RemoveWrite, At, ExactFor, Midway
    <3>5. /\ Pays(payment'[q], i) = 0
          /\ Pays(payment[q], i) = (IF req[w].invoice = i THEN payment[q].amount ELSE 0)
      BY <3>2, <3>3, <3>4 DEF Pays
    <3>6. req[w].delta = 0 - payment[q].amount
      BY <2>7, <3>0 DEF RemoveWrite, At, ExactFor
    <3>7. /\ \A p \in Payments \ {q} : payment'[p] = payment[p]
          /\ Goto(w, x) /\ invoice' = invoice
      BY <2>7, <3>0 DEF RemoveWrite, Types, Continue
    <3>8. payment[q].amount \in Int
      BY <3>2, Numbers DEF PaymentDoc
    <3>9. Owes(x, i) - Owes(req[w], i) = Pays(payment'[q], i) - Pays(payment[q], i)
      <4>1. CASE req[w].invoice = i
        BY <3>1, <3>5, <3>6, <3>8, <4>1
      <4>2. CASE req[w].invoice # i
        BY <3>1, <3>5, <4>2
      <4> QED BY <4>1, <4>2
    <3> HIDE DEF x
    <3> QED BY <3>7, <3>9, DriftMoves
  <2>8. CASE PaymentCredit(w) \/ UpdateCredit(w) \/ RemoveCredit(w)
    <3>1. Goto(w, Idle) /\ payment' = payment /\ req[w].at \in Crediting
      BY <2>8 DEF PaymentCredit, UpdateCredit, RemoveCredit, Answer, At, Crediting
    <3>2. CASE req[w].invoice = i
      <4>1. invoice'[i].credit = invoice[i].credit + req[w].delta
        BY <2>8, <3>2 DEF PaymentCredit, UpdateCredit, RemoveCredit, AddCredit, Types, InvoiceDoc
      <4>2. Owes(req[w], i) = req[w].delta
        BY <3>1, <3>2 DEF Owes
      <4>3. /\ Drift(i)' = Drift(i) + (invoice'[i].credit - invoice[i].credit)
                             + (Owes(Idle, i) - Owes(req[w], i))
            /\ Drift(i) \in Int /\ Owes(req[w], i) \in Int /\ invoice[i].credit \in Int
        BY <1>3, <3>1, DriftMoves
      <4> QED BY <1>0, <4>1, <4>2, <4>3
    <3>3. CASE req[w].invoice # i
      <4>1. invoice'[i].credit = invoice[i].credit
        BY <2>0, <2>8, <3>3 DEF PaymentCredit, UpdateCredit, RemoveCredit, AddCredit, Types, InvoiceDoc
      <4>2. Owes(req[w], i) = 0
        BY <3>3 DEF Owes
      <4> QED BY <1>0, <1>1, <1>3, <3>1, <4>1, <4>2
    <3> QED BY <3>2, <3>3
  <2> QED BY <1>5, <2>1, <2>2, <2>3, <2>4, <2>5, <2>6, <2>7, <2>8 DEF Proceed
<1> QED BY <1>4, <1>5

LEMMA CreditedStep ==
  ASSUME Types, Known, Alone, Exact, Credited, [Next]_vars
  PROVE  Credited'
<1>0. Types' /\ discipline' = discipline /\ MaxAmount \in Nat /\ failures \in Nat
  BY TypesStep, RequestMoves, LargestAmount, LedgerAssumption DEF Types
<1>1. SUFFICES ASSUME discipline \in {"invoice", "payment"}, NEW i \in Invoices, ~invoice'[i].removed
               PROVE  Within(Drift(i), failures * MaxAmount)'
  BY <1>0 DEF Credited
<1>2. OnePerPayment /\ \A w \in Workers : ExactFor(w)
  BY <1>1 DEF Alone, Exact
<1>3. invoice'[i] \in InvoiceDoc
  <2>1. invoice'[i] \in InvoiceDoc \cup {None} /\ None.removed = TRUE
    BY <1>0 DEF Types, None
  <2> QED BY <1>1, <2>1
<1>4. ASSUME Exists(invoice[i]) PROVE Within(Drift(i), failures * MaxAmount)'
  <2>1. invoice[i] \in InvoiceDoc /\ ~invoice[i].removed
    BY <1>1, <1>4, Docs, KeptStep DEF InvoicesKept
  <2>2. Within(Drift(i), failures * MaxAmount)
    BY <1>1, <2>1 DEF Credited
  <2>3. ASSUME Drift(i)' = Drift(i), failures' = failures
        PROVE  Within(Drift(i), failures * MaxAmount)'
    BY <2>2, <2>3 DEF Within
  <2>4. CASE UNCHANGED vars
    <3>1. OwedTo(i)' = OwedTo(i) /\ PaidTo(i)' = PaidTo(i)
      BY <2>4, OwedSame, PaidSame DEF vars
    <3> QED BY <2>3, <2>4, <3>1 DEF vars, Drift
  <2>5. ASSUME NEW j \in Invoices, NEW total \in Totals, InvoiceCreate(j, total)
        PROVE  Within(Drift(i), failures * MaxAmount)'
    <3>1. OwedTo(i)' = OwedTo(i) /\ PaidTo(i)' = PaidTo(i)
      BY <2>5, OwedSame, PaidSame DEF InvoiceCreate
    <3>2. invoice'[i] = invoice[i] /\ failures' = failures
      BY <1>4, <2>5 DEF InvoiceCreate, Types
    <3> QED BY <2>3, <3>1, <3>2 DEF Drift
  <2>6. ASSUME NEW w \in Workers, Arrive(w) \/ Proceed(w)
        PROVE  Within(Drift(i), failures * MaxAmount)'
    <3>1. Drift(i)' = Drift(i)
      BY <1>0, <1>1, <1>2, <1>3, <2>1, <2>6, DriftStays
    <3>2. failures' = failures
      BY <2>6 DEF Arrive, InvoiceUpdate, InvoiceRemove, PaymentCreate, PaymentUpdate, PaymentRemove,
                  Proceed, InvoiceUpdateWrite, InvoiceRemovePayments, PaymentInsert, PaymentCredit,
                  UpdateRead, UpdateWrite, UpdateCredit, RemoveRead, RemoveWrite, RemoveCredit
    <3> QED BY <2>3, <3>1, <3>2
  <2>7. ASSUME NEW w \in Workers, Fail(w) PROVE Within(Drift(i), failures * MaxAmount)'
    <3>1. Goto(w, Idle) /\ payment' = payment /\ invoice' = invoice /\ failures' = failures + 1
      BY <2>7 DEF Fail, Answer
    <3>2. PaidTo(i)' = PaidTo(i)
      BY <3>1, PaidSame
    <3> DEFINE d == Owes(req[w], i)
               M == MaxAmount
    <3>3. /\ Drift(i)' = Drift(i) + (invoice'[i].credit - invoice[i].credit) + (Owes(Idle, i) - d)
          /\ Drift(i) \in Int /\ d \in Int /\ invoice[i].credit \in Int
      BY <1>0, <1>3, <2>1, <3>1, <3>2, DriftMoves
    <3>4. Owes(Idle, i) = 0
      BY DEF Owes, Idle, Crediting
    <3>5. Drift(i)' = Drift(i) - d
      BY <3>1, <3>3, <3>4
    <3>6. Within(d, M)
      <4>1. CASE req[w].at \in Crediting
        <5>1. Within(req[w].delta, M) /\ Within(0, M)
          BY <1>0, <1>2, <4>1 DEF ExactFor, Within
        <5> QED BY <5>1 DEF Owes
      <4>2. CASE req[w].at \notin Crediting
        BY <1>0, <4>2 DEF Owes, Within
      <4> QED BY <4>1, <4>2
    <3>7. (failures + 1) * M = failures * M + M /\ failures * M \in Nat
      BY <1>0
    <3> HIDE DEF d, M
    <3>8. Within(Drift(i) - d, (failures + 1) * M)
      <4>1. Within(Drift(i), failures * M)
        BY <2>2 DEF M
      <4>2. ASSUME NEW a \in Int, NEW b \in Int, NEW m \in Int, NEW n \in Int, Within(a, n), Within(b, m)
            PROVE  Within(a - b, n + m)
        BY <4>2 DEF Within
      <4> QED BY <1>0, <3>3, <3>6, <3>7, <4>1, <4>2 DEF M
    <3> QED BY <3>1, <3>5, <3>8 DEF Within, M
  <2> QED BY <2>4, <2>5, <2>6, <2>7 DEF Next
<1>5. ASSUME ~Exists(invoice[i]) PROVE Within(Drift(i), failures * MaxAmount)'
  <2>1. PICK total \in Totals : InvoiceCreate(i, total)
    <3>0. invoice[i] = None /\ invoice'[i] # invoice[i]
      BY <1>1, <1>5 DEF Exists, None
    <3>1. ASSUME NEW w \in Workers, Arrive(w) PROVE FALSE
      <4>1. ASSUME NEW j \in Invoices, InvoiceRemove(w, j) PROVE FALSE
        BY <1>5, <3>0, <4>1, Docs DEF InvoiceRemove, Types
      <4> QED BY <3>0, <3>1, <4>1
              DEF Arrive, InvoiceUpdate, PaymentCreate, PaymentUpdate, PaymentRemove
    <3>2. ASSUME NEW w \in Workers, Proceed(w) PROVE FALSE
      <4>1. req[w].invoice # i
        BY <1>5, <3>2, ProceedBusy DEF Known
      <4> QED BY <3>0, <3>2, <4>1
              DEF Proceed, InvoiceUpdateWrite, InvoiceRemovePayments, PaymentInsert, PaymentCredit,
                  UpdateRead, UpdateWrite, UpdateCredit, AddCredit, RemoveRead, RemoveWrite,
                  RemoveCredit, Types
    <3>3. PICK j \in Invoices, total \in Totals : InvoiceCreate(j, total)
      BY <3>0, <3>1, <3>2 DEF Next, vars, Fail
    <3>4. j = i
      BY <3>0, <3>3 DEF InvoiceCreate, Types
    <3> QED BY <3>3, <3>4
  <2>2. /\ invoice'[i].credit = 0 /\ payment' = payment /\ req' = req /\ failures' = failures
    BY <2>1 DEF InvoiceCreate, Types
  <2>3. \A w \in Workers : Owes(req[w], i) = 0
    BY <1>5 DEF Known, Owes, Free, Crediting
  <2>4. \A p \in Payments : Pays(payment[p], i) = 0
    BY <1>5 DEF Known, Pays, Exists
  <2>5. OwedTo(i) = 0 /\ PaidTo(i) = 0
    BY <2>3, <2>4, NothingOwed, NothingPaid
  <2>6. OwedTo(i)' = 0 /\ PaidTo(i)' = 0
    BY <2>2, <2>5, OwedSame, PaidSame
  <2>7. Drift(i)' = 0
    BY <2>2, <2>6 DEF Drift
  <2>8. failures * MaxAmount \in Nat
    BY <1>0
  <2> QED BY <2>2, <2>7, <2>8 DEF Within
<1> QED BY <1>4, <1>5

LEMMA CreditInit == Init => Exact /\ Credited
<1> SUFFICES ASSUME Init PROVE Exact /\ Credited
  OBVIOUS
<1>1. /\ \A w \in Workers : req[w] = Idle
      /\ \A i \in Invoices : invoice[i] = None
  BY DEF Init
<1>2. Exact
  BY <1>1 DEF Exact, ExactFor, Idle, Midway, Crediting
<1>3. Credited
  BY <1>1 DEF Credited, None
<1> QED BY <1>2, <1>3

\* The credit of an invoice, with what the requests under way will still add, is the
\* sum of its payments, up to one amount for every request that failed.
THEOREM CreditInductive == Spec => [](LedgerInv /\ Exact /\ Credited)
<1>1. LedgerInv /\ Exact /\ Credited /\ [Next]_vars => (Exact /\ Credited)'
  BY ExactStep, CreditedStep DEF LedgerInv
<1> QED BY LedgerInductive, CreditInit, <1>1, PTL DEF Spec

\* CreditIsSum: what the handlers $inc an invoice by adds up to its payments, when
\* users coordinate and no request is under way.
THEOREM CreditFollows == Spec => []CreditIsSum
<1>1. ASSUME LedgerInv, Credited PROVE CreditIsSum
  <2>1. ASSUME discipline \in {"invoice", "payment"}, NEW i \in Invoices, Settled(i)
        PROVE  Within(invoice[i].credit - SumOfPayments(i), failures * MaxAmount)
    <3>1. Types
      BY <1>1 DEF LedgerInv
    <3>2. \A w \in Workers : Owes(req[w], i) = 0
      BY <2>1 DEF Settled, OnInvoice, Owes, Free, Crediting
    <3>3. OwedTo(i) = 0 /\ SumOfPayments(i) = PaidTo(i) /\ PaidTo(i) \in Int
      BY <3>1, <3>2, NothingOwed, PaidIsSum, SumsType
    <3>4. invoice[i].credit \in Int
      BY <2>1, <3>1, Docs DEF Settled, InvoiceDoc
    <3>5. Within(Drift(i), failures * MaxAmount)
      BY <1>1, <2>1 DEF Credited, Settled
    <3>6. Drift(i) = invoice[i].credit - SumOfPayments(i)
      BY <3>3, <3>4 DEF Drift
    <3> QED BY <3>5, <3>6
  <2> QED BY <2>1 DEF CreditIsSum, Within
<1> QED BY CreditInductive, <1>1, PTL
=============================================================================
