--------------------------- MODULE BillingProofs ---------------------------
(***************************************************************************)
(* Proofs about Billing for any number of payers, screens, plans, years,   *)
(* payments and failures.  Two facts carry the rest.  Numbering: a serial  *)
(* is at most the number of invoices when it is inserted, because it was   *)
(* counted earlier and no invoice is ever deleted.  Losses: a payment      *)
(* about to lose its invoice (a doomed screen) lost it to one invoice that *)
(* was inserted since it counted, and an insertion dooms at most the other *)
(* screens.                                                                *)
(***************************************************************************)
EXTENDS Billing, FiniteSetTheorems, TLAPS

\* The screens whose number was taken after they counted.
Doomed == {s \in Screens : At(s, "invoice.create") /\ Taken(pay[s].year, pay[s].serial)}

Numbering ==
  /\ IsFiniteSet(invoices)
  /\ \A i \in invoices : 1 <= i.serial /\ i.serial <= Cardinality(invoices)
  /\ \A i, j \in invoices : i.year = j.year /\ i.serial = j.serial => i = j
  /\ \A s \in Screens : At(s, "invoice.create")
       => 1 <= pay[s].serial /\ pay[s].serial <= Cardinality(invoices) + 1

\* A payment belongs to the payer of the screen that waits for it, and a
\* parent's screen subscribes after an invoice of the parent.
Ownership ==
  /\ \A s \in Screens : \A k \in Handled(s) : payments[k].payer = PayerOf[s]
  /\ \A s \in Screens : At(s, "subscribe")
       => /\ PayerOf[s] \in Parents
          /\ \E i \in invoices : payments[i.payment].payer = PayerOf[s]

Losses ==
  Cardinality(Uninvoiced) + Cardinality(Doomed)
    <= (Cardinality(Screens) - 1) * Cardinality(invoices) + failures

\* The inductive invariant.
BInv ==
  /\ BillingTypeOK
  /\ InvoicedOnce
  /\ Numbering
  /\ Ownership
  /\ SubscribedHasInvoice
  /\ Losses

-----------------------------------------------------------------------------
\* Which records a request can be at each point, and what they hold.
LEMMA PayAt ==
  ASSUME pay \in [Screens -> Payment], NEW s \in Screens
  PROVE  /\ At(s, "payment.create") => pay[s].plan \in Plans
         /\ At(s, "invoice.count") => pay[s].payment \in Id
         /\ At(s, "invoice.create") => /\ pay[s].payment \in Id
                                       /\ pay[s].year \in 1 .. Years
                                       /\ pay[s].serial \in Nat
         /\ At(s, "subscribe") => pay[s].plan \in Plans
  BY DEF Payment, Ready, Tapped, Inserted, Numbered, Subscriber, At

\* The invoices inserted and the payments handled are among the rows.
LEMMA RowsOf ==
  ASSUME BillingTypeOK
  PROVE  /\ Len(payments) \in Nat
         /\ DOMAIN payments = 1 .. Len(payments)
         /\ \A i \in invoices : i.payment \in DOMAIN payments /\ i.payment \in Id
         /\ \A s \in Screens : Handled(s) \subseteq DOMAIN payments
  <1>1. payments \in Seq(Row)
    BY DEF BillingTypeOK
  <1>2. Len(payments) \in Nat /\ DOMAIN payments = 1 .. Len(payments)
    BY <1>1
  <1>3. \A i \in invoices : i.payment \in DOMAIN payments /\ i.payment \in Id
    BY DEF BillingTypeOK, Invoiced, Invoice
  <1>4. \A s \in Screens : Handled(s) \subseteq DOMAIN payments
    BY DEF BillingTypeOK, InFlight
  <1>5. QED
    BY <1>2, <1>3, <1>4

\* The first invariant of a day without payments.
LEMMA InitBInv == Init => BInv
  <1> SUFFICES ASSUME Init PROVE BInv
    OBVIOUS
  <1>1. Invoiced = {} /\ InFlight = {} /\ Uninvoiced = {} /\ Doomed = {}
    BY DEF Init, Invoiced, InFlight, Handled, Ready, Uninvoiced, Doomed, At
  <1>2. BillingTypeOK
    <2>1. year \in 1 .. Years /\ payments \in Seq(Row) /\ Len(payments) <= MaxPayments
          /\ invoices \in SUBSET Invoice /\ failures \in Nat
      BY BillingAssumption DEF Init
    <2>2. /\ subscription \in [Parents -> Plans \cup {NoPlan}]
          /\ selected \in [Screens -> Plans \cup {NoPlan}]
          /\ pay \in [Screens -> Payment]
          /\ \A s \in Screens : At(s, "ready")
      BY DEF Init, Ready, Payment, At
    <2>3. QED
      BY <1>1, <2>1, <2>2 DEF BillingTypeOK
  <1>3. InvoicedOnce
    BY <1>1 DEF Init, InvoicedOnce, Handled, Ready
  <1>4. Cardinality({}) = 0 /\ IsFiniteSet({})
    BY FS_EmptySet
  <1>5. Numbering
    BY <1>4 DEF Init, Numbering, At, Ready
  <1>6. Ownership /\ SubscribedHasInvoice
    BY DEF Init, Ownership, SubscribedHasInvoice, Handled, At, Ready
  <1>7. Cardinality(Screens) \in Nat
    BY FiniteScreens, FS_CardinalityType
  <1>8. Losses
    BY <1>1, <1>4, <1>7 DEF Losses, Init
  <1>9. QED
    BY <1>2, <1>3, <1>5, <1>6, <1>8 DEF BInv

-----------------------------------------------------------------------------
\* The steps that change the requests, with the record each leaves behind.
LEMMA Moves ==
  ASSUME BillingTypeOK, NEW s \in Screens, NEW r \in Payment, Goto(s, r)
  PROVE  /\ pay' \in [Screens -> Payment]
         /\ pay'[s] = r
         /\ \A t \in Screens : t # s => pay'[t] = pay[t] /\ Handled(t)' = Handled(t)
  BY DEF BillingTypeOK, Goto, Handled

\* The payments in flight change by those of the screen that moves.
LEMMA InFlightMoves ==
  ASSUME BillingTypeOK, InvoicedOnce, NEW s \in Screens, NEW r \in Payment, Goto(s, r)
  PROVE  InFlight' = (InFlight \ Handled(s)) \cup Handled(s)'
  <1>1. \A t \in Screens : t # s => Handled(t)' = Handled(t) /\ Handled(t) \cap Handled(s) = {}
    BY Moves DEF InvoicedOnce
  <1>2. QED
    BY <1>1 DEF InFlight

\* What each statement leaves in the request.
LEMMA Records ==
  ASSUME BillingTypeOK, NEW s \in Screens
  PROVE  /\ Ready \in Payment /\ Handled(s) \subseteq Id
         /\ selected[s] # NoPlan => [at |-> "payment.create", plan |-> selected[s]] \in Payment
         /\ Len(payments) < MaxPayments
              => [at |-> "invoice.count", payment |-> Len(payments) + 1] \in Payment
         /\ IsFiniteSet(invoices) /\ At(s, "invoice.count")
              => [at |-> "invoice.create", payment |-> pay[s].payment, year |-> year,
                  serial |-> Cardinality(invoices) + 1] \in Payment
  <1>1. Ready \in Payment
    BY DEF Payment
  <1>2. Handled(s) \subseteq Id
    BY PayAt DEF BillingTypeOK, Handled, At
  <1>3. selected[s] # NoPlan => [at |-> "payment.create", plan |-> selected[s]] \in Payment
    BY DEF BillingTypeOK, Payment, Tapped
  <1>4. ASSUME Len(payments) < MaxPayments
        PROVE  [at |-> "invoice.count", payment |-> Len(payments) + 1] \in Payment
    <2>1. Len(payments) + 1 \in Id
      BY <1>4, RowsOf, BillingAssumption DEF Id
    <2>2. QED
      BY <2>1 DEF Payment, Inserted
  <1>5. ASSUME IsFiniteSet(invoices), At(s, "invoice.count")
        PROVE  [at |-> "invoice.create", payment |-> pay[s].payment, year |-> year,
                serial |-> Cardinality(invoices) + 1] \in Payment
    <2>1. Cardinality(invoices) + 1 \in Nat
      BY <1>5, FS_CardinalityType
    <2>2. pay[s].payment \in Id /\ year \in 1 .. Years
      BY <1>5, PayAt DEF BillingTypeOK
    <2>3. QED
      BY <2>1, <2>2 DEF Payment, Numbered
  <1>6. QED
    BY <1>1, <1>2, <1>3, <1>4, <1>5


\* A step in which the payment goes on to an invoice, or loses it.
Insert(s)   == InvoiceCreate(s) /\ ~Taken(pay[s].year, pay[s].serial)
Collide(s)  == InvoiceCreate(s) /\ Taken(pay[s].year, pay[s].serial)

\* An inserted invoice is followed by a subscription or by nothing.
LEMMA InsertMoves ==
  ASSUME BillingTypeOK, NEW s \in Screens, Insert(s)
  PROVE  /\ \E r \in Payment : Goto(s, r)
         /\ pay'[s].at \in {"ready", "subscribe"}
         /\ pay'[s].at = "subscribe" => PayerOf[s] \in Parents
         /\ Handled(s) = {pay[s].payment}
         /\ Handled(s)' = {}
         /\ pay[s].payment \in Id /\ pay[s].year \in 1 .. Years /\ pay[s].serial \in Nat
         /\ invoices' = invoices \cup {[year |-> pay[s].year, serial |-> pay[s].serial,
                                        payment |-> pay[s].payment]}
         /\ UNCHANGED <<year, payments, subscription, selected, failures>>
  <1>1. At(s, "invoice.create") /\ Confirmed(s)
        /\ UNCHANGED <<year, payments, subscription, selected, failures>>
    BY DEF Insert, InvoiceCreate
  <1>2. /\ pay[s].payment \in Id /\ pay[s].year \in 1 .. Years /\ pay[s].serial \in Nat
        /\ Handled(s) = {pay[s].payment}
    BY <1>1, PayAt DEF BillingTypeOK, Handled, At
  <1>3. selected[s] \in Plans
    BY <1>1 DEF BillingTypeOK, At
  <1>4. [at |-> "subscribe", plan |-> selected[s]] \in Payment /\ Ready \in Payment
    BY <1>3 DEF Payment, Subscriber
  <1>5. \E r \in Payment : Goto(s, r) /\ r.at \in {"ready", "subscribe"}
                           /\ (r.at = "subscribe" => PayerOf[s] \in Parents)
    <2>1. CASE PayerOf[s] \in Parents
      BY <1>1, <1>4, <2>1 DEF Confirmed
    <2>2. CASE PayerOf[s] \notin Parents
      BY <1>1, <1>4, <2>2 DEF Confirmed, Ready
    <2>3. QED
      BY <2>1, <2>2
  <1>6. /\ pay'[s].at \in {"ready", "subscribe"}
        /\ pay'[s].at = "subscribe" => PayerOf[s] \in Parents
    BY <1>5, Moves
  <1>7. Handled(s)' = {}
    BY <1>6 DEF Handled
  <1>8. QED
    BY <1>1, <1>2, <1>5, <1>6, <1>7 DEF Insert, InvoiceCreate

\* Every other step of a screen, with the record it leaves and what it
\* changes besides.
LEMMA ScreenMoves ==
  ASSUME BillingTypeOK, IsFiniteSet(invoices), NEW s \in Screens
  PROVE  /\ Pay(s) => \E r \in Payment : Goto(s, r) /\ r.at = "payment.create"
         /\ PaymentCreate(s) => Goto(s, [at |-> "invoice.count", payment |-> Len(payments) + 1])
                                /\ [at |-> "invoice.count", payment |-> Len(payments) + 1] \in Payment
         /\ InvoiceCount(s) => \E r \in Payment :
                                 /\ Goto(s, r) /\ r.at = "invoice.create"
                                 /\ r.payment = pay[s].payment /\ r.year = year
                                 /\ r.serial = Cardinality(invoices) + 1
         /\ Collide(s) \/ SubscribeWrite(s) \/ Fail(s) => Goto(s, Ready) /\ Ready \in Payment
  <1>1. ASSUME Pay(s) PROVE \E r \in Payment : Goto(s, r) /\ r.at = "payment.create"
    BY <1>1, Records DEF Pay
  <1>2. ASSUME PaymentCreate(s)
        PROVE Goto(s, [at |-> "invoice.count", payment |-> Len(payments) + 1])
              /\ [at |-> "invoice.count", payment |-> Len(payments) + 1] \in Payment
    BY <1>2, Records DEF PaymentCreate
  <1>3. ASSUME InvoiceCount(s)
        PROVE \E r \in Payment : /\ Goto(s, r) /\ r.at = "invoice.create"
                                 /\ r.payment = pay[s].payment /\ r.year = year
                                 /\ r.serial = Cardinality(invoices) + 1
    BY <1>3, Records DEF InvoiceCount
  <1>4. ASSUME Collide(s) \/ SubscribeWrite(s) \/ Fail(s) PROVE Goto(s, Ready) /\ Ready \in Payment
    BY <1>4, Records DEF Collide, InvoiceCreate, SubscribeWrite, Fail
  <1>5. QED
    BY <1>1, <1>2, <1>3, <1>4

\* The steps of the specification, one by one.
LEMMA Steps ==
  ASSUME Next
  PROVE  \/ NewYear
         \/ \E s \in Screens : Pay(s) \/ PaymentCreate(s) \/ InvoiceCount(s) \/ Insert(s)
                               \/ Collide(s) \/ SubscribeWrite(s) \/ Fail(s)
         \/ \E s \in Screens, plan \in Plans : Select(s, plan)
  BY DEF Next, Serve, Insert, Collide

-----------------------------------------------------------------------------
\* Every step keeps the types of tables, screens and requests.
LEMMA TypeStep ==
  ASSUME BillingTypeOK, InvoicedOnce, IsFiniteSet(invoices), Next
  PROVE  BillingTypeOK'
  <1>0. /\ year \in 1 .. Years /\ payments \in Seq(Row) /\ Len(payments) <= MaxPayments
        /\ invoices \in SUBSET Invoice /\ subscription \in [Parents -> Plans \cup {NoPlan}]
        /\ selected \in [Screens -> Plans \cup {NoPlan}] /\ pay \in [Screens -> Payment]
        /\ \A s \in Screens : At(s, "ready") \/ selected[s] \in Plans
        /\ failures \in Nat /\ Invoiced \cup InFlight \subseteq DOMAIN payments
    BY DEF BillingTypeOK
  <1>1. CASE NewYear
    <2>1. year' \in 1 .. Years
      BY <1>0, <1>1, BillingAssumption DEF NewYear
    <2>2. QED
      BY <1>0, <1>1, <2>1 DEF NewYear, BillingTypeOK, At, Invoiced, InFlight, Handled
  <1>2. ASSUME NEW s \in Screens, NEW plan \in Plans, Select(s, plan)
        PROVE  BillingTypeOK'
    BY <1>0, <1>2 DEF Select, BillingTypeOK, At, Invoiced, InFlight, Handled
  <1>3. ASSUME NEW s \in Screens, Pay(s)
        PROVE  BillingTypeOK'
    <2>1. PICK r \in Payment : Goto(s, r) /\ r.at = "payment.create"
      BY <1>3, ScreenMoves
    <2>2. Handled(s)' = {}
      BY <2>1, Moves DEF Handled
    <2>3. InFlight' \subseteq InFlight /\ Invoiced' = Invoiced
      BY <1>3, <2>1, <2>2, InFlightMoves DEF Pay, Invoiced
    <2>4. \A t \in Screens : At(t, "ready")' \/ selected'[t] \in Plans
      BY <1>0, <1>3, <2>1, Moves DEF Pay, At
    <2>5. QED
      BY <1>0, <1>3, <2>1, <2>3, <2>4, Moves DEF Pay, BillingTypeOK
  <1>4. ASSUME NEW s \in Screens, PaymentCreate(s)
        PROVE  BillingTypeOK'
    <2>1. DEFINE k == Len(payments) + 1
    <2>2. PICK r \in Payment : Goto(s, r) /\ r = [at |-> "invoice.count", payment |-> k]
      BY <1>4, ScreenMoves
    <2>3. Handled(s)' = {k}
      BY <2>2, Moves DEF Handled
    <2>4. [payer |-> PayerOf[s], plan |-> pay[s].plan] \in Row
      BY <1>0, <1>4, PayAt, BillingAssumption DEF PaymentCreate, Row, Payers
    <2>5. /\ payments' \in Seq(Row) /\ Len(payments') <= MaxPayments
          /\ DOMAIN payments' = DOMAIN payments \cup {k}
      BY <1>0, <1>4, <2>4, BillingAssumption DEF PaymentCreate
    <2>6. InFlight' \subseteq InFlight \cup {k} /\ Invoiced' = Invoiced
      BY <1>4, <2>2, <2>3, InFlightMoves DEF PaymentCreate, Invoiced
    <2>7. \A t \in Screens : At(t, "ready")' \/ selected'[t] \in Plans
      BY <1>0, <1>4, <2>2, Moves DEF PaymentCreate, At
    <2>8. QED
      BY <1>0, <1>4, <2>2, <2>5, <2>6, <2>7, Moves DEF PaymentCreate, BillingTypeOK
  <1>5. ASSUME NEW s \in Screens, InvoiceCount(s)
        PROVE  BillingTypeOK'
    <2>1. PICK r \in Payment : Goto(s, r) /\ r.at = "invoice.create" /\ r.payment = pay[s].payment
      BY <1>5, ScreenMoves
    <2>2. Handled(s)' = Handled(s) /\ Handled(s) \subseteq InFlight
      BY <1>5, <2>1, Moves DEF Handled, InvoiceCount, At, InFlight
    <2>3. InFlight' = InFlight /\ Invoiced' = Invoiced
      BY <1>5, <2>1, <2>2, InFlightMoves DEF InvoiceCount, Invoiced
    <2>4. \A t \in Screens : At(t, "ready")' \/ selected'[t] \in Plans
      BY <1>0, <1>5, <2>1, Moves DEF InvoiceCount, At
    <2>5. QED
      BY <1>0, <1>5, <2>1, <2>3, <2>4, Moves DEF InvoiceCount, BillingTypeOK
  <1>6. ASSUME NEW s \in Screens, Insert(s)
        PROVE  BillingTypeOK'
    <2>1. PICK r \in Payment : Goto(s, r)
      BY <1>6, InsertMoves
    <2>2. Handled(s) \subseteq InFlight /\ pay[s].payment \in InFlight
      BY <1>6, InsertMoves DEF InFlight
    <2>3. InFlight' \subseteq InFlight
      BY <1>6, <2>1, InsertMoves, InFlightMoves
    <2>4. invoices' \in SUBSET Invoice /\ Invoiced' = Invoiced \cup {pay[s].payment}
      <3>1. DEFINE i == [year |-> pay[s].year, serial |-> pay[s].serial,
                         payment |-> pay[s].payment]
      <3>2. invoices' = invoices \cup {i} /\ i \in Invoice /\ i.payment = pay[s].payment
        BY <1>6, InsertMoves DEF Invoice
      <3>3. QED
        BY <1>0, <3>2 DEF Invoiced
    <2>5. \A t \in Screens : At(t, "ready")' \/ selected'[t] \in Plans
      BY <1>0, <1>6, <2>1, Moves, InsertMoves DEF At, Insert, InvoiceCreate
    <2>6. QED
      BY <1>0, <1>6, <2>1, <2>2, <2>3, <2>4, <2>5, Moves, InsertMoves DEF BillingTypeOK
  <1>7. ASSUME NEW s \in Screens, Collide(s) \/ SubscribeWrite(s) \/ Fail(s)
        PROVE  BillingTypeOK'
    <2>1. Goto(s, Ready) /\ Ready \in Payment
      BY <1>7, ScreenMoves
    <2>2. Handled(s)' = {} /\ At(s, "ready")'
      BY <2>1, Moves DEF Handled, Ready, At
    <2>3. InFlight' \subseteq InFlight
      BY <2>1, <2>2, InFlightMoves
    <2>4. UNCHANGED <<year, payments, invoices, selected>> /\ Invoiced' = Invoiced
      BY <1>7 DEF Collide, InvoiceCreate, SubscribeWrite, Fail, Invoiced
    <2>5. \A t \in Screens : At(t, "ready")' \/ selected'[t] \in Plans
      BY <1>0, <2>1, <2>2, <2>4, Moves DEF At
    <2>6. failures' \in Nat
      BY <1>0, <1>7 DEF Collide, InvoiceCreate, SubscribeWrite, Fail
    <2>7. subscription' \in [Parents -> Plans \cup {NoPlan}]
      BY <1>0, <1>7, PayAt DEF Collide, InvoiceCreate, SubscribeWrite, Fail
    <2>8. QED
      BY <1>0, <2>1, <2>3, <2>4, <2>5, <2>6, <2>7, Moves DEF BillingTypeOK
  <1>8. QED
    BY <1>1, <1>2, <1>3, <1>4, <1>5, <1>6, <1>7, Steps

\* No step makes two requests hold a payment, or invoices one twice.
LEMMA OnceStep ==
  ASSUME BillingTypeOK, InvoicedOnce, IsFiniteSet(invoices), Next
  PROVE  InvoicedOnce'
  <1>1. CASE NewYear
    BY <1>1 DEF NewYear, InvoicedOnce, Handled, Invoiced, InFlight
  <1>2. ASSUME NEW s \in Screens, NEW plan \in Plans, Select(s, plan)
        PROVE  InvoicedOnce'
    BY <1>2 DEF Select, InvoicedOnce, Handled, Invoiced, InFlight
  <1>3. ASSUME NEW s \in Screens, NEW r \in Payment, Goto(s, r), invoices' = invoices,
               Handled(s)' \subseteq Handled(s)
        PROVE  InvoicedOnce'
    <2>1. \A t \in Screens : Handled(t)' \subseteq Handled(t)
      BY <1>3, Moves
    <2>2. InFlight' \subseteq InFlight /\ Invoiced' = Invoiced
      BY <1>3, <2>1 DEF InFlight, Invoiced
    <2>3. QED
      BY <1>3, <2>1, <2>2 DEF InvoicedOnce
  <1>4. ASSUME NEW s \in Screens, PaymentCreate(s)
        PROVE  InvoicedOnce'
    <2>1. DEFINE k == Len(payments) + 1
    <2>2. PICK r \in Payment : Goto(s, r) /\ r = [at |-> "invoice.count", payment |-> k]
      BY <1>4, ScreenMoves
    <2>3. Handled(s)' = {k} /\ \A t \in Screens : t # s => Handled(t)' = Handled(t)
      <3>1. Handled(s)' = {k}
        BY <2>2, Moves DEF Handled
      <3>2. \A t \in Screens : t # s => Handled(t)' = Handled(t)
        BY <2>2, Moves
      <3>3. QED
        BY <3>1, <3>2
    <2>4. k \notin DOMAIN payments
      BY RowsOf
    <2>5. /\ \A t \in Screens : k \notin Handled(t)
          /\ k \notin Invoiced
      BY <2>4, RowsOf DEF BillingTypeOK
    <2>6. invoices' = invoices /\ Invoiced' = Invoiced
      BY <1>4 DEF PaymentCreate, Invoiced
    <2>7. InFlight' \subseteq InFlight \cup {k}
      BY <2>2, <2>3, InFlightMoves
    <2>8. QED
      BY <2>3, <2>5, <2>6, <2>7 DEF InvoicedOnce
  <1>5. ASSUME NEW s \in Screens, Insert(s)
        PROVE  InvoicedOnce'
    <2>1. PICK r \in Payment : Goto(s, r)
      BY <1>5, InsertMoves
    <2>2. DEFINE i == [year |-> pay[s].year, serial |-> pay[s].serial,
                       payment |-> pay[s].payment]
    <2>3. invoices' = invoices \cup {i} /\ i.payment = pay[s].payment
      BY <1>5, InsertMoves
    <2>4. Handled(s) = {pay[s].payment} /\ Handled(s)' = {}
      BY <1>5, InsertMoves
    <2>5. pay[s].payment \in InFlight
      BY <2>4 DEF InFlight
    <2>6. pay[s].payment \notin Invoiced
      BY <2>5 DEF InvoicedOnce
    <2>7. Invoiced' = Invoiced \cup {pay[s].payment}
      BY <2>3 DEF Invoiced
    <2>8. InFlight' = InFlight \ {pay[s].payment}
      BY <2>1, <2>4, InFlightMoves
    <2>9. \A t \in Screens : Handled(t)' \subseteq Handled(t)
      BY <2>1, <2>4, Moves
    <2>10. \A a, b \in invoices' : a.payment = b.payment => a = b
      BY <2>3, <2>6 DEF InvoicedOnce, Invoiced
    <2>11. QED
      BY <2>7, <2>8, <2>9, <2>10 DEF InvoicedOnce
  <1>6. ASSUME NEW s \in Screens,
               Pay(s) \/ InvoiceCount(s) \/ Collide(s) \/ SubscribeWrite(s) \/ Fail(s)
        PROVE  InvoicedOnce'
    <2>1. invoices' = invoices
      BY <1>6 DEF Pay, InvoiceCount, Collide, InvoiceCreate, SubscribeWrite, Fail
    <2>2. \E r \in Payment : Goto(s, r) /\ (\/ r.at \in {"payment.create", "ready"}
                                            \/ /\ At(s, "invoice.count")
                                               /\ r.at = "invoice.create"
                                               /\ r.payment = pay[s].payment)
      <3>1. CASE Pay(s)
        BY <3>1, ScreenMoves
      <3>2. CASE InvoiceCount(s)
        BY <3>2, ScreenMoves DEF InvoiceCount
      <3>3. CASE Collide(s) \/ SubscribeWrite(s) \/ Fail(s)
        BY <3>3, ScreenMoves DEF Ready
      <3>4. QED
        BY <1>6, <3>1, <3>2, <3>3
    <2>3. PICK r \in Payment : Goto(s, r) /\ (\/ r.at \in {"payment.create", "ready"}
                                              \/ /\ At(s, "invoice.count")
                                                 /\ r.at = "invoice.create"
                                                 /\ r.payment = pay[s].payment)
      BY <2>2
    <2>4. Handled(s)' \subseteq Handled(s)
      BY <2>3, Moves DEF Handled, At
    <2>5. QED
      BY <1>3, <2>1, <2>3, <2>4
  <1>7. QED
    BY <1>1, <1>2, <1>4, <1>5, <1>6, Steps

\* The steps other than an insertion leave the invoices alone.
LEMMA InvoicesKept ==
  ASSUME Next
  PROVE  invoices' = invoices \/ \E s \in Screens : Insert(s)
  BY Steps DEF NewYear, Select, Pay, PaymentCreate, InvoiceCount, Insert, Collide,
               InvoiceCreate, SubscribeWrite, Fail

\* A new invoice counts one more.
LEMMA InsertCounts ==
  ASSUME BillingTypeOK, Numbering, NEW s \in Screens, Insert(s)
  PROVE  /\ IsFiniteSet(invoices')
         /\ Cardinality(invoices) \in Nat
         /\ Cardinality(invoices') = Cardinality(invoices) + 1
  <1>1. DEFINE i == [year |-> pay[s].year, serial |-> pay[s].serial, payment |-> pay[s].payment]
  <1>2. invoices' = invoices \cup {i} /\ i.year = pay[s].year /\ i.serial = pay[s].serial
    BY InsertMoves
  <1>3. i \notin invoices
    BY <1>2 DEF Insert, Taken
  <1>4. QED
    BY <1>2, <1>3, FS_AddElement, FS_CardinalityType DEF Numbering

\* Every serial is at most the number of invoices, and every number about to
\* be used at most the next one.
LEMMA NumberingStep ==
  ASSUME BillingTypeOK, InvoicedOnce, Numbering, Next
  PROVE  Numbering'
  <1>0. IsFiniteSet(invoices) /\ Cardinality(invoices) \in Nat
    BY FS_CardinalityType DEF Numbering
  <1>1. /\ IsFiniteSet(invoices')
        /\ Cardinality(invoices') \in Nat
        /\ Cardinality(invoices) <= Cardinality(invoices')
        /\ \A i \in invoices' : 1 <= i.serial /\ i.serial <= Cardinality(invoices')
        /\ \A i, j \in invoices' : i.year = j.year /\ i.serial = j.serial => i = j
    <2>1. CASE invoices' = invoices
      BY <1>0, <2>1 DEF Numbering
    <2>2. ASSUME NEW s \in Screens, Insert(s)
          PROVE <1>1!:
      <3>1. DEFINE i == [year |-> pay[s].year, serial |-> pay[s].serial,
                         payment |-> pay[s].payment]
      <3>2. invoices' = invoices \cup {i} /\ i.year = pay[s].year /\ i.serial = pay[s].serial
            /\ pay[s].serial \in Nat
        BY <2>2, InsertMoves
      <3>3. ~Taken(pay[s].year, pay[s].serial) /\ At(s, "invoice.create")
        BY <2>2 DEF Insert, InvoiceCreate
      <3>4. /\ IsFiniteSet(invoices') /\ Cardinality(invoices) \in Nat
            /\ Cardinality(invoices') = Cardinality(invoices) + 1
        BY <2>2, InsertCounts
      <3>5. \A j \in invoices : j.serial \in Nat
        BY DEF BillingTypeOK, Invoice
      <3>6. \A j \in invoices' : 1 <= j.serial /\ j.serial <= Cardinality(invoices')
        BY <3>2, <3>3, <3>4, <3>5 DEF Numbering
      <3>7. \A a, b \in invoices' : a.year = b.year /\ a.serial = b.serial => a = b
        BY <3>2, <3>3 DEF Numbering, Taken
      <3>8. QED
        BY <3>4, <3>6, <3>7
    <2>3. QED
      BY <2>1, <2>2, InvoicesKept
  <1>2. ASSUME NEW t \in Screens, At(t, "invoice.create")'
        PROVE  1 <= pay'[t].serial /\ pay'[t].serial <= Cardinality(invoices') + 1
    <2>1. CASE pay'[t] = pay[t]
      <3>1. pay[t].serial \in Nat
        BY <1>2, <2>1, PayAt DEF At, BillingTypeOK
      <3>2. QED
        BY <1>0, <1>1, <1>2, <2>1, <3>1 DEF At, Numbering
    <2>2. CASE pay'[t] # pay[t]
      <3>1. PICK s \in Screens : Pay(s) \/ PaymentCreate(s) \/ InvoiceCount(s) \/ Insert(s)
                                 \/ Collide(s) \/ SubscribeWrite(s) \/ Fail(s)
        BY <2>2, Steps DEF NewYear, Select
      <3>2. s = t
        BY <1>0, <2>2, <3>1, ScreenMoves, InsertMoves, Moves
      <3>3. InvoiceCount(t)
        <4>1. CASE Pay(t)
          BY <1>0, <1>2, <4>1, ScreenMoves, Moves DEF At
        <4>2. CASE PaymentCreate(t)
          <5>1. pay'[t] = [at |-> "invoice.count", payment |-> Len(payments) + 1]
            BY <1>0, <4>2, ScreenMoves, Moves
          <5>2. QED
            BY <1>2, <5>1 DEF At
        <4>3. CASE Insert(t)
          BY <1>2, <4>3, InsertMoves DEF At
        <4>4. CASE Collide(t) \/ SubscribeWrite(t) \/ Fail(t)
          BY <1>0, <1>2, <4>4, ScreenMoves, Moves DEF At, Ready
        <4>5. QED
          BY <3>1, <3>2, <4>1, <4>2, <4>3, <4>4
      <3>4. pay'[t].serial = Cardinality(invoices) + 1
        BY <1>0, <3>3, ScreenMoves, Moves
      <3>5. QED
        BY <1>0, <1>1, <3>4
    <2>3. QED
      BY <2>1, <2>2
  <1>3. QED
    BY <1>1, <1>2 DEF Numbering

\* A payment stays the payer's, an invoice stays, and a parent's screen goes
\* on to subscribe only with an invoice of the parent.
LEMMA OwnershipStep ==
  ASSUME BillingTypeOK, InvoicedOnce, Numbering, Ownership, Next
  PROVE  /\ Ownership'
         /\ \A i \in invoices : i \in invoices' /\ payments'[i.payment] = payments[i.payment]
  <1>0. IsFiniteSet(invoices)
    BY DEF Numbering
  <1>1. \A k \in DOMAIN payments : payments'[k] = payments[k]
    <2>1. payments' = payments \/ \E s \in Screens : PaymentCreate(s)
      BY Steps DEF NewYear, Select, Pay, InvoiceCount, Insert, Collide, InvoiceCreate,
                   SubscribeWrite, Fail
    <2>2. ASSUME NEW s \in Screens, PaymentCreate(s)
          PROVE  \A k \in DOMAIN payments : payments'[k] = payments[k]
      <3>1. payments \in Seq(Row) /\ [payer |-> PayerOf[s], plan |-> pay[s].plan] \in Row
        BY <2>2, PayAt, BillingAssumption DEF PaymentCreate, Row, Payers, BillingTypeOK
      <3>2. payments' = Append(payments, [payer |-> PayerOf[s], plan |-> pay[s].plan])
        BY <2>2 DEF PaymentCreate
      <3>3. QED
        BY <3>1, <3>2
    <2>3. QED
      BY <2>1, <2>2
  <1>2. \A i \in invoices : i \in invoices'
    BY InvoicesKept, InsertMoves
  <1>3. \A i \in invoices : i \in invoices' /\ payments'[i.payment] = payments[i.payment]
    BY <1>1, <1>2, RowsOf
  <1>4. \A t \in Screens : \A k \in Handled(t) : payments'[k].payer = PayerOf[t]
    BY <1>1, RowsOf DEF Ownership
  <1>5. ASSUME NEW t \in Screens, At(t, "subscribe")
        PROVE  /\ PayerOf[t] \in Parents
               /\ \E i \in invoices' : payments'[i.payment].payer = PayerOf[t]
    BY <1>3, <1>5 DEF Ownership
  <1>6. ASSUME NEW t \in Screens
        PROVE  /\ \A k \in Handled(t)' : payments'[k].payer = PayerOf[t]
               /\ At(t, "subscribe")'
                    => /\ PayerOf[t] \in Parents
                       /\ \E i \in invoices' : payments'[i.payment].payer = PayerOf[t]
    <2>1. CASE pay'[t] = pay[t]
      <3>1. Handled(t)' = Handled(t) /\ (At(t, "subscribe")' <=> At(t, "subscribe"))
        BY <2>1 DEF Handled, At
      <3>2. QED
        BY <1>4, <1>5, <3>1
    <2>2. CASE pay'[t] # pay[t]
      <3>1. PICK s \in Screens : Pay(s) \/ PaymentCreate(s) \/ InvoiceCount(s) \/ Insert(s)
                                 \/ Collide(s) \/ SubscribeWrite(s) \/ Fail(s)
        BY <2>2, Steps DEF NewYear, Select
      <3>2. s = t
        BY <1>0, <2>2, <3>1, ScreenMoves, InsertMoves, Moves
      <3>3. CASE Pay(t)
        <4>1. pay'[t].at = "payment.create"
          BY <1>0, <3>3, ScreenMoves, Moves
        <4>2. QED
          BY <4>1 DEF Handled, At
      <3>4. CASE PaymentCreate(t)
        <4>1. pay'[t] = [at |-> "invoice.count", payment |-> Len(payments) + 1]
          BY <1>0, <3>4, ScreenMoves, Moves
        <4>2. Handled(t)' = {Len(payments) + 1} /\ ~At(t, "subscribe")'
          BY <4>1 DEF Handled, At
        <4>3. payments \in Seq(Row) /\ [payer |-> PayerOf[t], plan |-> pay[t].plan] \in Row
          BY <3>4, PayAt, BillingAssumption DEF PaymentCreate, Row, Payers, BillingTypeOK
        <4>4. payments' = Append(payments, [payer |-> PayerOf[t], plan |-> pay[t].plan])
          BY <3>4 DEF PaymentCreate
        <4>5. payments'[Len(payments) + 1].payer = PayerOf[t]
          BY <4>3, <4>4
        <4>6. QED
          BY <4>2, <4>5
      <3>5. CASE InvoiceCount(t)
        <4>1. pay'[t].at = "invoice.create" /\ pay'[t].payment = pay[t].payment
          BY <1>0, <3>5, ScreenMoves, Moves
        <4>2. Handled(t)' = Handled(t) /\ ~At(t, "subscribe")'
          BY <3>5, <4>1 DEF Handled, At, InvoiceCount
        <4>3. QED
          BY <1>4, <4>2
      <3>6. CASE Insert(t)
        <4>1. DEFINE i == [year |-> pay[t].year, serial |-> pay[t].serial,
                           payment |-> pay[t].payment]
        <4>2. i \in invoices' /\ i.payment = pay[t].payment
          BY <3>6, InsertMoves
        <4>3. Handled(t) = {pay[t].payment} /\ Handled(t)' = {}
          BY <3>6, InsertMoves
        <4>4. payments'[i.payment].payer = PayerOf[t]
          BY <1>4, <4>2, <4>3
        <4>5. At(t, "subscribe")' => PayerOf[t] \in Parents
          BY <3>6, InsertMoves DEF At
        <4>6. QED
          BY <4>2, <4>3, <4>4, <4>5
      <3>7. CASE Collide(t) \/ SubscribeWrite(t) \/ Fail(t)
        <4>1. pay'[t] = Ready
          BY <1>0, <3>7, ScreenMoves, Moves
        <4>2. QED
          BY <4>1 DEF Handled, At, Ready
      <3>8. QED
        BY <3>1, <3>2, <3>3, <3>4, <3>5, <3>6, <3>7
    <2>3. QED
      BY <2>1, <2>2
  <1>7. QED
    BY <1>3, <1>6 DEF Ownership

\* A parent subscribes only after a payment was invoiced.
LEMMA SubscribedStep ==
  ASSUME BillingTypeOK, InvoicedOnce, Numbering, Ownership, SubscribedHasInvoice, Next
  PROVE  SubscribedHasInvoice'
  <1>1. \A i \in invoices : i \in invoices' /\ payments'[i.payment] = payments[i.payment]
    BY OwnershipStep
  <1>2. ASSUME NEW p \in Parents, subscription'[p] # NoPlan
        PROVE  \E i \in invoices : payments[i.payment].payer = p
    <2>1. CASE subscription'[p] = subscription[p]
      BY <1>2, <2>1 DEF SubscribedHasInvoice
    <2>2. CASE subscription'[p] # subscription[p]
      <3>1. PICK s \in Screens : SubscribeWrite(s)
        BY <2>2, Steps DEF NewYear, Select, Pay, PaymentCreate, InvoiceCount, Insert,
                           Collide, InvoiceCreate, Fail
      <3>2. PayerOf[s] = p
        BY <2>2, <3>1 DEF SubscribeWrite, BillingTypeOK
      <3>3. QED
        BY <3>1, <3>2 DEF SubscribeWrite, Ownership
    <2>3. QED
      BY <2>1, <2>2
  <1>3. QED
    BY <1>1, <1>2 DEF SubscribedHasInvoice

-----------------------------------------------------------------------------
\* The sets that Losses counts are finite.
FiniteCounts ==
  /\ IsFiniteSet(Uninvoiced) /\ Cardinality(Uninvoiced) \in Nat
  /\ IsFiniteSet(Doomed) /\ Cardinality(Doomed) \in Nat
  /\ Cardinality(Screens) \in Nat

\* Rows and screens are finitely many.
LEMMA Counts == BillingTypeOK => FiniteCounts
  <1> SUFFICES ASSUME BillingTypeOK PROVE FiniteCounts
    OBVIOUS
  <1>1. Uninvoiced \in SUBSET (1 .. Len(payments)) /\ Len(payments) \in Nat
    BY RowsOf DEF Uninvoiced
  <1>2. IsFiniteSet(1 .. Len(payments))
    BY <1>1, FS_Interval
  <1>3. Doomed \in SUBSET Screens
    BY DEF Doomed
  <1>4. IsFiniteSet(Uninvoiced)
    BY <1>1, <1>2, FS_Subset
  <1>5. IsFiniteSet(Doomed)
    BY <1>3, FiniteScreens, FS_Subset
  <1>6. QED
    BY <1>4, <1>5, FiniteScreens, FS_CardinalityType DEF FiniteCounts

\* A step that inserts no invoice dooms no screen, and saves the one that moves.
LEMMA DoomedKept ==
  ASSUME BillingTypeOK, Numbering, NEW s \in Screens,
         \/ Pay(s) \/ PaymentCreate(s) \/ InvoiceCount(s)
         \/ Collide(s) \/ SubscribeWrite(s) \/ Fail(s)
  PROVE  Doomed' \subseteq Doomed \ {s}
  <1>0. IsFiniteSet(invoices) /\ Cardinality(invoices) \in Nat
    BY FS_CardinalityType DEF Numbering
  <1>1. invoices' = invoices
    BY DEF Pay, PaymentCreate, InvoiceCount, Collide, InvoiceCreate, SubscribeWrite, Fail
  <1>2. \A t \in Screens : t # s => pay'[t] = pay[t]
    BY <1>0, ScreenMoves, Moves
  <1>3. s \notin Doomed'
    <2>1. CASE InvoiceCount(s)
      <3>1. pay'[s].serial = Cardinality(invoices) + 1
        BY <1>0, <2>1, ScreenMoves, Moves
      <3>2. \A i \in invoices : i.serial \in Nat /\ i.serial <= Cardinality(invoices)
        BY DEF Numbering, BillingTypeOK, Invoice
      <3>3. \A i \in invoices : i.serial # Cardinality(invoices) + 1
        BY <1>0, <3>2
      <3>4. QED
        BY <1>1, <3>1, <3>3 DEF Doomed, Taken
    <2>2. CASE Pay(s)
      <3>1. pay'[s].at = "payment.create"
        BY <1>0, <2>2, ScreenMoves, Moves
      <3>2. QED
        BY <3>1 DEF Doomed, At
    <2>3. CASE PaymentCreate(s)
      <3>1. pay'[s] = [at |-> "invoice.count", payment |-> Len(payments) + 1]
        BY <1>0, <2>3, ScreenMoves, Moves
      <3>2. QED
        BY <3>1 DEF Doomed, At
    <2>4. CASE Collide(s) \/ SubscribeWrite(s) \/ Fail(s)
      <3>1. pay'[s] = Ready
        BY <1>0, <2>4, ScreenMoves, Moves
      <3>2. QED
        BY <3>1 DEF Doomed, At, Ready
    <2>5. QED
      BY <2>1, <2>2, <2>3, <2>4
  <1>4. \A t \in Screens : t # s /\ t \in Doomed' => t \in Doomed
    BY <1>1, <1>2 DEF Doomed, At, Taken
  <1>5. QED
    BY <1>3, <1>4 DEF Doomed

\* A step of s that inserts no invoice leaves at most the payment that s
\* waited for without one.
LEMMA UninvoicedGrows ==
  ASSUME BillingTypeOK, InvoicedOnce, Numbering, NEW s \in Screens,
         \/ Pay(s) \/ PaymentCreate(s) \/ InvoiceCount(s)
         \/ Collide(s) \/ SubscribeWrite(s) \/ Fail(s)
  PROVE  /\ Uninvoiced' \subseteq Uninvoiced \cup Handled(s)
         /\ ~(Collide(s) \/ Fail(s)) => Uninvoiced' \subseteq Uninvoiced
  <1>0. IsFiniteSet(invoices) /\ Invoiced' = Invoiced
    BY DEF Numbering, Pay, PaymentCreate, InvoiceCount, Collide, InvoiceCreate,
           SubscribeWrite, Fail, Invoiced
  <1>1. \E r \in Payment : Goto(s, r)
    BY <1>0, ScreenMoves
  <1>2. InFlight' = (InFlight \ Handled(s)) \cup Handled(s)'
    BY <1>1, InFlightMoves
  <1>3. CASE Pay(s) \/ SubscribeWrite(s)
    <2>1. Handled(s) = {} /\ payments' = payments
      BY <1>3 DEF Pay, SubscribeWrite, Handled, At
    <2>2. QED
      BY <1>0, <1>2, <2>1 DEF Uninvoiced
  <1>4. CASE PaymentCreate(s)
    <2>1. Handled(s) = {}
      BY <1>4 DEF PaymentCreate, Handled, At
    <2>2. pay'[s] = [at |-> "invoice.count", payment |-> Len(payments) + 1]
      BY <1>0, <1>4, ScreenMoves, Moves
    <2>3. Handled(s)' = {Len(payments) + 1}
      BY <2>2 DEF Handled
    <2>4. DOMAIN payments' = DOMAIN payments \cup {Len(payments) + 1}
      <3>1. payments \in Seq(Row) /\ [payer |-> PayerOf[s], plan |-> pay[s].plan] \in Row
        BY <1>4, PayAt, BillingAssumption DEF PaymentCreate, Row, Payers, BillingTypeOK
      <3>2. payments' = Append(payments, [payer |-> PayerOf[s], plan |-> pay[s].plan])
        BY <1>4 DEF PaymentCreate
      <3>3. QED
        BY <3>1, <3>2
    <2>5. Uninvoiced' \subseteq Uninvoiced
      BY <1>0, <1>2, <2>1, <2>3, <2>4 DEF Uninvoiced
    <2>6. QED
      BY <2>5
  <1>5. CASE InvoiceCount(s)
    <2>1. pay'[s].at = "invoice.create" /\ pay'[s].payment = pay[s].payment
      BY <1>0, <1>5, ScreenMoves, Moves
    <2>2. Handled(s)' = Handled(s) /\ Handled(s) \subseteq InFlight /\ payments' = payments
      BY <1>5, <2>1 DEF Handled, At, InvoiceCount, InFlight
    <2>3. Uninvoiced' = Uninvoiced
      BY <1>0, <1>2, <2>2 DEF Uninvoiced
    <2>4. QED
      BY <2>3
  <1>6. CASE Collide(s) \/ Fail(s)
    <2>1. payments' = payments
      BY <1>6 DEF Collide, InvoiceCreate, Fail
    <2>2. QED
      BY <1>0, <1>2, <1>6, <2>1 DEF Uninvoiced
  <1>7. QED
    BY <1>3, <1>4, <1>5, <1>6

\* A payment loses its invoice to a failure, or to an invoice that was
\* inserted after it counted: Losses is kept.
LEMMA LossesStep ==
  ASSUME BillingTypeOK, BillingTypeOK', InvoicedOnce, Numbering, Losses, Next
  PROVE  Losses'
  <1>1. /\ IsFiniteSet(Uninvoiced) /\ Cardinality(Uninvoiced) \in Nat
        /\ IsFiniteSet(Doomed) /\ Cardinality(Doomed) \in Nat
        /\ Cardinality(Screens) \in Nat
    BY Counts DEF FiniteCounts
  <1>2. /\ IsFiniteSet(Uninvoiced') /\ Cardinality(Uninvoiced') \in Nat
        /\ IsFiniteSet(Doomed') /\ Cardinality(Doomed') \in Nat
    <2>1. BillingTypeOK' => FiniteCounts'
      BY Counts, PTL
    <2>2. QED
      BY <2>1 DEF FiniteCounts
  <1>3. Cardinality(invoices) \in Nat /\ failures \in Nat
    BY FS_CardinalityType DEF Numbering, BillingTypeOK
  <1>4. DEFINE K == (Cardinality(Screens) - 1) * Cardinality(invoices)
  <1>5. K \in Int /\ Cardinality(Uninvoiced) + Cardinality(Doomed) <= K + failures
    BY <1>1, <1>3 DEF Losses
  <1>6. CASE NewYear \/ \E s \in Screens, plan \in Plans : Select(s, plan)
    <2>1. UNCHANGED <<payments, invoices, pay, failures>>
      BY <1>6 DEF NewYear, Select
    <2>2. Uninvoiced' = Uninvoiced /\ Doomed' = Doomed
      BY <2>1 DEF Uninvoiced, Invoiced, InFlight, Handled, Doomed, At, Taken
    <2>3. QED
      BY <2>1, <2>2 DEF Losses
  <1>7. ASSUME NEW s \in Screens, Insert(s)
        PROVE  Losses'
    <2>1. /\ Cardinality(invoices') = Cardinality(invoices) + 1
          /\ UNCHANGED <<payments, failures>>
      BY <1>7, InsertCounts, InsertMoves
    <2>2. Doomed' \subseteq Screens \ {s}
      BY <1>7, InsertMoves DEF Doomed, At
    <2>3. IsFiniteSet(Screens \ {s}) /\ Cardinality(Screens \ {s}) = Cardinality(Screens) - 1
      BY FiniteScreens, FS_RemoveElement
    <2>4. Cardinality(Doomed') <= Cardinality(Screens) - 1
      BY <2>2, <2>3, FS_Subset
    <2>5. Handled(s) = {pay[s].payment} /\ Handled(s)' = {}
          /\ Invoiced' = Invoiced \cup {pay[s].payment}
      <3>1. DEFINE i == [year |-> pay[s].year, serial |-> pay[s].serial,
                         payment |-> pay[s].payment]
      <3>2. invoices' = invoices \cup {i} /\ i.payment = pay[s].payment
        BY <1>7, InsertMoves
      <3>3. Invoiced' = Invoiced \cup {pay[s].payment}
        BY <3>2 DEF Invoiced
      <3>4. QED
        BY <1>7, <3>3, InsertMoves
    <2>6. InFlight' = (InFlight \ Handled(s)) \cup Handled(s)'
      BY <1>7, InsertMoves, InFlightMoves
    <2>7. Uninvoiced' \subseteq Uninvoiced
      BY <2>1, <2>5, <2>6 DEF Uninvoiced
    <2>8. Cardinality(Uninvoiced') <= Cardinality(Uninvoiced)
      BY <1>1, <2>7, FS_Subset
    <2>9. (Cardinality(Screens) - 1) * Cardinality(invoices') = K + (Cardinality(Screens) - 1)
      BY <1>1, <1>3, <2>1
    <2>10. QED
      BY <1>1, <1>2, <1>3, <1>5, <2>1, <2>4, <2>8, <2>9 DEF Losses
  <1>8. ASSUME NEW s \in Screens,
               \/ Pay(s) \/ PaymentCreate(s) \/ InvoiceCount(s)
               \/ Collide(s) \/ SubscribeWrite(s) \/ Fail(s)
        PROVE  Losses'
    <2>1. Doomed' \subseteq Doomed \ {s}
      BY <1>8, DoomedKept
    <2>2. invoices' = invoices
      BY <1>8 DEF Pay, PaymentCreate, InvoiceCount, Collide, InvoiceCreate,
                  SubscribeWrite, Fail
    <2>3. Cardinality(Doomed') <= Cardinality(Doomed)
      BY <1>1, <2>1, FS_Subset
    <2>4. Uninvoiced' \subseteq Uninvoiced \cup Handled(s)
      BY <1>8, UninvoicedGrows
    <2>5. Cardinality(Uninvoiced') <= Cardinality(Uninvoiced) + 1
      <3>1. PICK k : Handled(s) \subseteq {k}
        BY DEF Handled
      <3>2. Uninvoiced' \in SUBSET (Uninvoiced \cup {k})
        BY <2>4, <3>1
      <3>3. /\ IsFiniteSet(Uninvoiced \cup {k})
            /\ Cardinality(Uninvoiced \cup {k}) <= Cardinality(Uninvoiced) + 1
        <4>1. /\ IsFiniteSet(Uninvoiced \cup {k})
              /\ Cardinality(Uninvoiced \cup {k}) =
                   IF k \in Uninvoiced THEN Cardinality(Uninvoiced) ELSE Cardinality(Uninvoiced) + 1
          BY <1>1, FS_AddElement
        <4>2. QED
          BY <1>1, <4>1
      <3>4. Cardinality(Uninvoiced') <= Cardinality(Uninvoiced \cup {k})
        BY <3>2, <3>3, FS_Subset
      <3>5. Cardinality(Uninvoiced \cup {k}) \in Nat
        BY <3>3, FS_CardinalityType
      <3>6. QED
        BY <1>1, <1>2, <3>3, <3>4, <3>5
    <2>6. CASE Fail(s)
      <3>1. failures' = failures + 1
        BY <2>6 DEF Fail
      <3>2. QED
        BY <1>1, <1>2, <1>3, <1>5, <2>2, <2>3, <2>5, <3>1 DEF Losses
    <2>7. CASE Collide(s)
      <3>1. failures' = failures /\ s \in Doomed
        BY <2>7 DEF Collide, InvoiceCreate, Doomed
      <3>2. IsFiniteSet(Doomed \ {s}) /\ Cardinality(Doomed \ {s}) = Cardinality(Doomed) - 1
        BY <1>1, <3>1, FS_RemoveElement
      <3>3. Cardinality(Doomed') <= Cardinality(Doomed) - 1
        BY <2>1, <3>2, FS_Subset
      <3>4. QED
        BY <1>1, <1>2, <1>3, <1>5, <2>2, <2>5, <3>1, <3>3 DEF Losses
    <2>8. CASE ~Fail(s) /\ ~Collide(s)
      <3>1. failures' = failures
        BY <1>8, <2>8 DEF Pay, PaymentCreate, InvoiceCount, SubscribeWrite
      <3>2. Uninvoiced' \subseteq Uninvoiced
        BY <1>8, <2>8, UninvoicedGrows
      <3>3. Cardinality(Uninvoiced') <= Cardinality(Uninvoiced)
        BY <1>1, <3>2, FS_Subset
      <3>4. QED
        BY <1>1, <1>2, <1>3, <1>5, <2>2, <2>3, <3>1, <3>3 DEF Losses
    <2>9. QED
      BY <2>6, <2>7, <2>8
  <1>9. QED
    BY <1>6, <1>7, <1>8, Steps

-----------------------------------------------------------------------------
\* Every step, and every stutter, keeps the inductive invariant.
LEMMA NextBInv == BInv /\ [Next]_vars => BInv'
  <1> SUFFICES ASSUME BInv, [Next]_vars PROVE BInv'
    OBVIOUS
  <1>1. CASE Next
    <2>1. BillingTypeOK'
      BY <1>1, TypeStep DEF BInv, Numbering
    <2>2. QED
      BY <1>1, <2>1, OnceStep, NumberingStep, OwnershipStep, SubscribedStep, LossesStep
         DEF BInv, Numbering
  <1>2. CASE UNCHANGED vars
    <2>1. UNCHANGED <<year, payments, invoices, subscription, selected, pay, failures>>
      BY <1>2 DEF vars
    <2>2. /\ \A s \in Screens : Handled(s)' = Handled(s)
          /\ Invoiced' = Invoiced /\ Doomed' = Doomed
      BY <2>1 DEF Handled, Invoiced, Doomed, At, Taken
    <2>3. InFlight' = InFlight
      BY <2>2 DEF InFlight
    <2>4. Uninvoiced' = Uninvoiced
      BY <2>1, <2>2, <2>3 DEF Uninvoiced
    <2>5. BillingTypeOK'
      BY <2>1, <2>2, <2>3 DEF BInv, BillingTypeOK, At
    <2>6. InvoicedOnce' /\ Losses'
      BY <2>1, <2>2, <2>3, <2>4 DEF BInv, InvoicedOnce, Losses
    <2>7. Numbering' /\ SubscribedHasInvoice'
      BY <2>1 DEF BInv, Numbering, SubscribedHasInvoice, At
    <2>8. Ownership'
      BY <2>1, <2>2 DEF BInv, Ownership, At
    <2>9. QED
      BY <2>5, <2>6, <2>7, <2>8 DEF BInv
  <1>3. QED
    BY <1>1, <1>2

\* Different serials, none above the number of invoices, leave no gap.
LEMMA NoGap == BillingTypeOK /\ Numbering => SerialsWithoutGap
  <1> SUFFICES ASSUME BillingTypeOK, Numbering, NEW y \in 1 .. Years,
                      \A i \in invoices : i.year = y
               PROVE  {i.serial : i \in invoices} = 1 .. Cardinality(invoices)
    BY DEF SerialsWithoutGap
  <1>1. DEFINE n == Cardinality(invoices)
               T == {i.serial : i \in invoices}
               f == [i \in invoices |-> i.serial]
  <1>2. IsFiniteSet(invoices) /\ n \in Nat
    BY FS_CardinalityType DEF Numbering
  <1>3. f \in Surjection(invoices, T)
    BY DEF Surjection
  <1>4. \A i, j \in invoices : i.serial = j.serial => i = j
    BY DEF Numbering
  <1>5. f \in Injection(invoices, T)
    BY <1>4 DEF Injection, IsInjective
  <1>6. Cardinality(T) = n
    BY <1>2, <1>3, <1>5, FS_Surjection
  <1>7. T \in SUBSET (1 .. n)
    BY <1>2 DEF Numbering, BillingTypeOK, Invoice
  <1>8. IsFiniteSet(1 .. n) /\ Cardinality(1 .. n) = n
    BY <1>2, FS_Interval
  <1>9. QED
    BY <1>6, <1>7, <1>8, FS_Subset

\* The inductive invariant holds in every behaviour.
THEOREM BillingInductive == Spec => []BInv
  BY InitBInv, NextBInv, PTL DEF Spec

\* Tables, screens and requests keep their types, whatever fails.
THEOREM BillingTypeCorrect == Spec => []BillingTypeOK
  <1>1. BInv => BillingTypeOK
    BY DEF BInv
  <1>2. QED
    BY <1>1, BillingInductive, PTL

\* However many payments race, and whatever fails, the serials within a year
\* are 1..n without a gap or a repeat (subscriptions.routes.ts:13-16).
THEOREM InvoicesSequential == Spec => []SerialsWithoutGap
  <1>1. BInv => SerialsWithoutGap
    BY NoGap DEF BInv
  <1>2. QED
    BY <1>1, BillingInductive, PTL

\* A confirmed payment has no invoice only after a failure or after an
\* invoice took its number; an invoice costs at most every other screen one
\* (subscriptions.routes.ts:87-89).
THEOREM LossesBounded == Spec => []UninvoicedBounded
  <1>1. BInv => UninvoicedBounded
    <2> SUFFICES ASSUME BInv PROVE UninvoicedBounded
      OBVIOUS
    <2>1. Cardinality(Uninvoiced) \in Nat /\ Cardinality(Doomed) \in Nat
          /\ Cardinality(Screens) \in Nat
      BY Counts DEF BInv, FiniteCounts
    <2>2. Cardinality(invoices) \in Nat /\ failures \in Nat
      BY FS_CardinalityType DEF BInv, Numbering, BillingTypeOK
    <2>3. (Cardinality(Screens) - 1) * Cardinality(invoices) \in Int
      BY <2>1, <2>2
    <2>4. QED
      BY <2>1, <2>2, <2>3 DEF BInv, Losses, UninvoicedBounded
  <1>2. QED
    BY <1>1, BillingInductive, PTL

\* A parent is subscribed only after one of the parent's payments was
\* invoiced, whatever fails and whatever the screens show by then
\* (subscription.tsx:58-63).
THEOREM SubscriptionsInvoiced == Spec => []SubscribedHasInvoice
  <1>1. BInv => SubscribedHasInvoice
    BY DEF BInv
  <1>2. QED
    BY <1>1, BillingInductive, PTL
=============================================================================
