# A TLA+ model of the Aman School and IDURAR ERP backends

The repository holds two programs. **Aman School** (`src/aman-school`) runs
school buses: an Express server over Prisma and PostgreSQL with a Socket.IO
gateway, a mobile and web application for supervisors, parents, schools, the
operations room and the owner, and shared packages. **IDURAR ERP**
(`src/backend`, `src/frontend`) is an Express and Mongoose server with a React
and Redux front end. Neither server uses a database transaction anywhere:
every `await` on the database is one atomic statement, and between two of them
any other request may run. Almost everything that is hard in this code comes
from that, from requests that fail half way, and from screens that act on an
answer after the state it described has changed. Aman School has no tests.

This directory models the parts where those questions matter most, checks them
with TLC on small instances, and proves its invariants with TLAPS for all
values of the constants.

## Inventory

| component | state | operations | model |
|---|---|---|---|
| Trip lifecycle and boarding | `Trip`, `TripEvent`, `Bus.gpsActive`, `Bus.supervisorId` | `trips.routes.ts`; `PUT /buses/:id`, `/gps-active` | `Trip`, `GpsFlag`, `Journey`, `TripProtocol`, `TripProofs` |
| Not-collected escalation | `Alert`, the supervisor's screens and timer | `not-collected`, `collected`, alerts `acknowledge`, `resolve` | `Escalation`, `EscalationProofs` |
| Payments, invoices, parent subscriptions | `Payment`, `Invoice`, `User.subscriptionTier`, two payment screens | `POST /payments`, `POST /parents/:id/subscription` | `Billing`, `BillingProofs` |
| ERP invoices and payments | collections `Invoice`, `Payment` | create, update, delete of both | `ErpLedger`, `ErpLedgerProofs` |
| Sessions | `OtpCode`, `RefreshToken`, `User` (a parent's row); on the phone the session in memory and in SecureStore | send and verify OTP, refresh, logout; `store/session.ts`, `onUnauthorized`, support sessions | `Requests`, `Sessions`, `PhoneSession`, `SessionsProofs` |
| Staffing and fleet | `Bus.outOfService`, `Bus.supervisorId`, `Bus.driverId` | end service, out of service | `Trip` (what trips read) |
| School subscription lifecycle, settings | `School.subscriptionStatus` and its dates, `PlatformSettings.data` | lazy transitions on read, owner's writes, policy merge | `Lifecycle`, `BackendProofs` |
| Live tracking | `Bus.current*`, `realGpsLastSeenAt`, `Trip.simStopIndex`, the phone's watch | `report:location`, simulator tick | `Tracking`, `BackendProofs` |
| Enrolment | `Student`, `StudentParentLink`, `RouteStop`, the import screen | create, import, link, replacement of a route's stops | `Enrolment`, `EnrolmentProofs` |
| Emergency SOS | `Alert` | the SOS route | appends one row |
| Owner and partner administration | `School`, the admin's `User`, `Partner`, `PartnerTier`, `Package`, flags, promotions | onboarding, tiers of partners, single-row edits | `Onboarding`, `Partners`, `BackendProofs` |
| Notifications, consent, support, regulator, sysadmin | their tables | reads, single-row writes | not modelled |
| Tenant scoping and roles | none (claims of the request) | the routers a request passes | `Routing` |
| Other screens | navigation, query caches | rendering | not modelled |
| ERP sessions | `AdminPassword.loggedSessions`, `resetToken`; in the browser the slice `auth`, `localStorage`, the header of axios | login, logout, reset, profile, the check of a token | `ErpSessions`, `Erp`, `ErpProofs` |
| ERP generic CRUD, settings | any collection | one statement per request | `CrudModule` (create, list, update, delete of a customer) |
| ERP front-end store | Redux slices, the context and forms of a screen | thunks without request ids | `CrudModule`, `Erp`, `ErpProofs` (slice `crud`) |
| PDF, mail, currencies, locale, setup | files, mail | output | not modelled |

### How the parts interact, what is hard, what makes each correct

*Trip.* A supervisor's phone calls `start`, `board`, `alight` and `end`; the
owner's or school's screens call `assign-supervisor` and `PUT /buses/:id`; the
ops room calls `collected`. They share the rows of the trip and of its bus.
`start` makes three or four statements (trip, for an evening trip a morning
trip of the bus, trip update, bus update); `end` makes four; a boarding makes a
check and an insert. Hard: two requests between each other's statements, a
failure between the trip's and the bus's update, duplicates that no unique
constraint stops. Correct when: a trip is started once and ended once, with a
supervisor and a duration; an evening trip follows a morning trip; nobody gets
off who did not get on, or is recorded off and then on again; nobody is left on
a completed trip; the parent's view of the day agrees with the supervisor's;
the bus's GPS flag follows its trips, whatever put it astray before.

*Escalation.* `verify-pickup` asks who collects the student. A "no" calls
`not-collected` at once and shows the waiting screen; the waiting screen calls
the same route again when its timer reaches the deadline; its button calls
`collected`. The ops room acknowledges and resolves. Hard: the answer arrives
when another screen is shown; an answer is lost; the timer calls only once;
the server deduplicates by trip and not by student, since the alert row has no
student column. Correct when: nobody waits without the ops room being able to
know, a screen that keeps waiting does escalate, and alerts do not pile up.

*Billing.* The payment screens call `POST /payments`, which inserts a confirmed
payment, counts the invoices and inserts one with the next number; the
parent's screen then calls `POST /parents/:id/subscription`. Hard: two payments
count the same number, a failure after the first statement, a change of year, a
card tapped while the payment is under way. Correct when: invoice numbers have
no gap and no repeat, every payment is invoiced, and only somebody who paid is
subscribed.

*ERP ledger.* Invoices carry `credit`, `paymentStatus` and the list of payments,
maintained by the payment handlers with `$inc`, `$set`, `$push`, `$pull` from
values read before. Hard: lost updates of what is `$set`, increments that must
add up, a payment removed or edited twice at once, a handler that stops
between the payment and the invoice. Correct when: the credit is the sum of
the payments, the status follows from it, the list names the payments, and
the credit does not exceed the total.

*Sessions.* A one-time code and a refresh token are tickets to a session. A
verification reads the user's newest codes and marks the one that matches as
consumed; `refresh` reads the token's row and marks it as revoked; both then
look the account up and insert the row of a new token. Hard: two requests that
send one ticket both pass the check before either marks it; a request that
fails after the mark leaves a used ticket and no session. Correct when one
ticket gives one session, up to the requests that overlap.

*The session on a phone.* The app keeps its session in memory and on disk; a
support session of the owner is in memory only, over a backup of the owner's. Each
write to disk is answered later, and only then does memory follow; any answer with
status 401 ends the support session or signs out. Hard: two answers in the order
nobody expected, the app ended between disk and memory, a login below a support
session. Correct when a restart comes back to the user who was there, a support
session always shows the banner that ends it, and its 401 does not sign the owner
out.

*Onboarding and partners.* A school and its admin are inserted by two statements,
after checks that other requests do not wait for. A partner's tier is written from
rows that were read before. Correct when a school lacks an admin only for a failed
request, and when the partner ends up in a tier that the schools call for.

*Staffing and fleet.* Ending a supervisor's service and taking a bus out of
service check that no trip is active and then write; a trip may start between.
No handler that starts or runs a trip looks at `outOfService`, so nothing in the
code depends on the order.

*School lifecycle and settings.* Each read of a school may write a transition
(active to grace period, grace period to restricted or suspended) decided from
the row and the policy it read, while the owner sets the status, saves another
policy, or drops the policy by saving the other settings. Correct when no school
is restricted before a grace period of some policy is over, and when a lapsed
school does lose its access although no scheduler runs.

*Live tracking.* The simulator and a phone both write a bus's position; the
simulator backs off for 20 s after a real one, but looks at the mark before it
computes and writes. `setInterval` does not wait for the tick before. Correct
when a fresh real position is overwritten by no more than the ticks in progress,
and when a simulated bus arrives, whatever a restart left in its rows.

*Enrolment.* Codes are numbered by a count of the students; an import is a loop
of four to six statements a row; the route of a bus is replaced by a delete and
an insert; a parent may sign up, or link the student, at any of these points. The
import screen keeps its rows after an error, and its button starts over at the
first row, even when only the answer was lost and the server still imports.
Correct when codes stay dense and unique, a row is enrolled once up to the
failures, no more imported students lack a parent than requests failed, a
student has one family up to the requests that overlap, and a route keeps stops.

*Routing.* All routers are mounted at the root, so a request runs through the
blanket middleware of every router before its own. Correct when nobody a route
admits is turned away on the way.

*ERP front-end store.* The customer screen is a table, a side panel and a dialog
over one Redux slice. A call carries no id: its answer is written into the slice
whatever has been clicked since, and effects react to the slice, some of them in
components that are mounted only later. The id that a button acts on is read from
the slice too. Correct when every button acts on the record its dialog or form
shows, and when the table catches up with the server after the last answer.

*ERP sessions.* The server keeps the list of tokens that are logged in; the browser
keeps its token in the slice, in `localStorage` and in the header of axios, and a
logout empties the first two before it asks the server and puts them back when that
fails. Any answer may say that the token is no longer good, which empties the storage
and redirects the page. Correct when a page that shows the application holds on to
something that the next refusal can take away, so that nobody is shut in.

`PROJECT.json` lists the hazards one by one at their lines, with the properties
that cover them.

## Plan

1. **Trip** with the abstract `Journey` and `TripProtocol`, and **GpsFlag** on top
   of it: built, checked, proved.
2. **Escalation**, which composes `Trip` with the phone and the ops room:
   built, checked, proved.
3. **Billing**: built, checked, proved.
4. **ErpLedger**: built, checked, proved.
5. **Requests**, then **Sessions**, **Enrolment**, **Lifecycle**,
   **Tracking**, **Onboarding** and **Partners**, which extend it, and
   **PhoneSession**; **Backend** composes them: built, checked, proved.
6. **Routing**: built and checked.
7. **CrudModule**, composed with **ErpLedger** by **Erp**: built, checked,
   proved.
8. **ErpSessions**, the third area of **Erp**: built, checked, proved.

Modules still to write: the slice `erp` and its screens, and the search of the
customer panel, whose answers may overtake each other.

Every invariant and every action property that a run checks has its theorem; what is
left to the runs are the liveness properties. Theorems worth adding: that the guards of
`AreasKeep` can be dropped, since an area that is not used stays as it began, and the
types of `Routing`'s tables, which are finite anyway.

## The modules

Definitions whose names end in `_Mutant`, and `Tick_Late` and
`RemoveCredit_Unlisted`, are deliberate mistakes in one definition of the model
each. No specification uses them; they are there to confirm that each checked
property can fail.

### Trip

A *worker* is one request being served. `req[w].at` names the statement the
handler will execute next; the other fields are the local variables of the
handler that are still used (`seen` is the supervisor that `start` read,
`boarded` the list that `end` read). A first statement that rejects changes
nothing, so it is a guard; a later one that rejects frees the worker.

| code | actions |
|---|---|
| `POST assign-supervisor` | `Assign`, `AssignWrite` |
| `POST start` | `Start`, `StartMorning`, `StartWrite`, `StartGps` |
| `POST board`, `manual-board` | `Board`, `ManualBoard`, `BoardCreate` |
| `POST alight` | `Alight`, `AlightCheck`, `AlightCreate` |
| `POST not-collected` | `NotCollected`, `NotCollectedCreate` |
| `PUT collected` | `Collected`, `CollectedCheck`, `CollectedCreate`, `CollectedFind`, `CollectedResolve` |
| `PUT end` | `End`, `EndRead`, `EndWrite`, `EndGps` |
| `PUT /buses/:id/gps-active`, `PUT /buses/:id` | `SetGps`, `EditBus` |
| a rejected promise, a restart | `Fail` |

`status`, `supervisor`, `startedAt`, `endedAt`, `gpsActive` and `busSupervisor`
are columns; `boardRows` and `alightRows` count the `TripEvent` rows of a
student on a trip; `lastEvent` is the row that `GET /students/:id/today-status`
orders first; `alerts` are the `student_not_collected` rows. `Ops` restricts the
routes clients call, so that an instance can leave some out.

Abstractions: timestamps are only set or not set. The load of a trip and the
first check after it are one step unless a write of another request could fall
between them and matter. A Prisma read with `include` is one step. A student's bus
is constant. Exception rows, ratings and SOS alerts are appended and read by
nothing here. The seed's trips are scheduled; its one completed trip is left
out, since no handler looks at completed trips except to reject. A cancelled
trip comes only from an edit of the database, as no route cancels one. A
request that was lost before it arrived, or repeated by its client, is a
request that never comes, or one more request.

### GpsFlag

The steps of `Trip` with two history variables about `Bus.gpsActive`, which `start` and
`end` write in their last statement. `crossed` names the buses whose starts and ends
have overlapped since the bus was last at rest (no start or end at work, no trip
active). `doubtful` names those whose flag may be wrong: the crossed ones; those where
a start or an end failed with the update of the bus still to come; and those whose flag
`PUT /buses/:id/gps-active` changed. An answered start or end of a bus that is not
crossed takes it out of `doubtful`. `Remember` computes both after every step of
`Trip` and restricts none. `GpsFollowsTrips` says that a flag that is not doubtful is
set exactly while a trip of the bus is active, with `GpsAfterAnswer` for the flag while
the update is still to come. It says it for buses with one trip in each shift, as in
the seed: of two morning trips, the end of one clears the flag that the start of the
other has set.

### Journey and TripProtocol

`Journey` is what the events promise to a parent: each student on each trip is
waiting, then aboard, then off. `TripProtocol` is what the routes promise when
each is a single atomic operation. `Trip` maps to them by `Place`, which reads a
student's place off the two sets of rows the way `end` does, and by
`GpsAfterAnswer`, which takes the bus's flag to be what the request in flight
is about to write.

### Escalation

Extends `Trip` by `phone[t]` (the screen of the trip's supervisor with the state
of the waiting screen's timer) and `caller[w]` (the phone call that a request
serves). The actions of the phone are `OpenVerify`, `Back`, `Confirm`, `Reject`,
`Tick`, `Escalate`, `Collect`; those of the ops room `Acknowledge`, `Resolve`,
`CollectElsewhere`. `Serve` is a statement of a request; if it was the last,
`Success` does what the mutation's `onSuccess` does, to whatever screen is shown
by then, or the answer is lost. `ServeError` fails the request: the phone does
nothing with an error. `AlreadyOpen` is the early answer of `not-collected` when
the trip has an open alert. Between `EscInit` and the trip's end everybody is
aboard; boarding and ending are `Trip`'s subject. The deadline is counted in
ticks.

### Billing

`pay[s]` is the point screen `s` has reached: the tap, the three statements of
`POST /payments` (`PaymentCreate`, `InvoiceCount`, `InvoiceCreate`), the
subscription (`SubscribeWrite`). `Pay` and `Select` are the taps; a card can be
tapped while the payment is under way, and the plan subscribed to is the one
selected when the subscription is sent, since `onSuccess` runs in the closure of
the last render. `NewYear` moves the server's clock. `Fail` ends a request after
any of its statements.

An invoice row has no payment column: the field `payment` of the model's row is
history, the payment whose handler inserted it. Payment dates and prices are
left out. So is the school screen's message that its payment awaits review,
although the server confirms it at once; a connection lost before the answer is
approximated by a second screen of the same payer. Payments that the seed
inserts without an invoice are left out, and so are the parents it inserts
already subscribed: parents here are those the OTP login or an import creates,
who start without a subscription.

### ErpLedger

`invoice` and `payment` are the two collections; `removed` is the soft delete.
Each handler is one action per statement: `PaymentCreate`, `PaymentInsert`,
`PaymentCredit`; `PaymentUpdate`, `UpdateRead`, `UpdateWrite`, `UpdateCredit`;
`PaymentRemove`, `RemoveRead`, `RemoveWrite`, `RemoveCredit`; `InvoiceCreate`;
`InvoiceUpdate`, `InvoiceUpdateWrite`; `InvoiceRemove`,
`InvoiceRemovePayments`. `UpdateRead` is the second query that autopopulates the
invoice of a payment. `discipline` says how the users coordinate: one request
per invoice at a time, one per payment at a time, or not at all. It does not
model code; it states the hypothesis of each property, since most of them are
false when two users work on the same payment.

Amounts are positive whole cents, as `calculate` rounds to cents; `remove.js`
subtracts without rounding, which is a hazard that this abstraction cannot show.
Discounts are left out, because the Joi schema rejects a body that has one.
`last_invoice_number` is incremented without being awaited and read by nothing
in these handlers.

### Requests

The requests that one Express process serves at once, shared by the next six
modules: `req[w]` is a request as in `Trip`, `Continue` moves it to its next
statement, `Succeed` and `Fail` end it, and `Crash` is a statement that throws
anywhere; nothing is rolled back. `MaxFailures` bounds the latter.

### Sessions

| code | actions |
|---|---|
| `POST /auth/request-otp`, the sysadmin's login | `RequestCode`, `CreateParent`, `IssueCode` |
| `POST /auth/verify-otp` | `CheckCode`, `ConsumeCode`, `Mint` |
| PIN and password logins | `SignIn`, `Mint` |
| `POST /auth/refresh` | `CheckToken`, `RevokeToken`, `Mint` |
| `POST /auth/logout` | `Logout` |
| ten minutes, thirty days | `Expire` |

`codes` and `tokens` are the two tables in the order of insertion; `accounts` are
the parents' rows of `User`, whose unique `phone` decides between two first
requests. A request that presents a ticket keeps it as `with`, and the row it
mints carries it as `origin`, which is history: the source stores none. The
lookup of the account between the mark and the insert finds the row, since no
route deletes a user, and is part of the step before. Access tokens are not
stored and are left out; so are hashes, and the difference between a wrong and a
missing code.

### Enrolment

| code | actions |
|---|---|
| `POST /schools/:id/students` | `Enrol`, `EnrolCreate` |
| the import screen | `PickFile`, `Confirm`, `LoseAnswer` |
| `POST /schools/:id/students/import` | `Confirm`, then per row `CountStudents`, `ImportStudent`, `FindParent`, `CreateAccount`, `LinkRow`, `RowDone` |
| `POST /buses/:id/route` | `DeleteStops`, `CreateStops` |
| `POST /parents/students/link` | `Link`, `LinkWrite` |
| a first one-time code | `SignUp` |

A student is its serial, since the code is unique and its other parts are
constant. `sheet` is the state of the import screen together with what became of
the stops that its preview resolved: `stale` when a replacement has deleted them,
which breaks the foreign key of the rows to come. `awaited` holds the request
whose answer the button waits for; a lost answer empties it, and the request
goes on. `lists` counts how many lists of stops a route consists of. `Reject` is an
error that a constraint causes. Every row of the sheet names a stop, and nobody
picks the file again while the server still imports it.

### Lifecycle

| code | actions |
|---|---|
| `GET /schools/:id` (`applySubscriptionLifecycle`) | `OpenSchool`, `ReadPolicy`, `GraceWrite`, `CutWrite` |
| `PUT /schools/:id/status` | `SetStatus` |
| `PUT /subscriptions/lifecycle-policy` | `SavePolicy`, `PolicyWrite` |
| `PUT /owner/platform-settings` | `SaveSettings` |
| the server's clock | `NextDay` |

One school that was onboarded with an end date. The owner's screen offers
`active` and `suspended`. The settings screen sends four other settings and the
route replaces the row, so saving it drops the policy.

### Tracking

| code | actions |
|---|---|
| a tick of `simulator.ts` | `TickRead`, `TickDecide`, `TickMove`, `TickAdvance`, `TickFail` |
| `report:location` of `gateway.ts` | `Report`, `ReportWrite`, `ReportMark` |
| 20 s without a report | `Stale` |
| start and end of the trip | `StartTrip`, `EndTrip` |
| a restart | `Restart` |

`tick[t]` is a tick in progress, with its local variables, as `req[w]` is a
request. A position is the stop the simulator heads for with the ticks it takes
from there; a real position is `Leg` ticks from any stop. `overwritten` is history.

### Onboarding

| code | actions |
|---|---|
| `POST /owner/schools/onboard` | `Onboard`, `CheckEmail`, `CreateSchool`, `CreateAdmin` |
| `POST /owner/schools/register` | `RegisterSchool`, `CreateSchool`, `CreateAdmin` |

`schools` and `admins` are the rows that matter of two tables, with their unique
columns: a school's slug and license, an admin's address. A refusal before anything
was written is `Refuse`; `Fail` leaves the school without its admin. `RegisterSchool`
checks nothing and knows no license. Packages, partners and cycles are constant
columns. No route deletes a school or gives one an admin later.

### Partners

| code | actions |
|---|---|
| `GET /owner/partners` (`applyAutoTierUpgrades`) | `OpenPartners`, `ReadPartner`, `ReadTiers`, `Upgrade` |
| `PUT /owner/partner-tiers/:id` | `EditTier` |
| `PUT /schools/:id/status`, onboarding, the lapse of a subscription | `SetActive` |

One partner, whom the upgrade is switched on for. The two reads of `Promise.all` are
executed in either order. `Eligible` is a set, since the database orders tiers with
equal minima as it likes. The commission is left out.

### PhoneSession

`session`, `backup` and `hydrated` are the store of `store/session.ts`, `disk` is
SecureStore, `store` its calls that the app waits for, `call[c]` a call of the
backend. `apart` is history: SecureStore could not be read, or somebody signed in over
a support session.

| code | actions |
|---|---|
| `hydrate`; the system ends the app | `Hydrate`, `AppEnds` |
| `setSession`, `clear`: the call of SecureStore, its failure, what follows the `await` | `StoreExecutes`, `StoreFails`, `StoreAnswers` |
| a login screen | `SendLogin`, `LoginSucceeds` |
| the owner's support screen with `startImpersonation` | `AskSupport`, `SupportOpens` |
| any other call, its answer | `LoadData`, `Returns` |
| status 401 and `onUnauthorized` | `Refused` |
| the banner's button and timer | `BannerEnds` |
| the logout buttons | `SignOut` |
| an access token's hour is over | `Expires` |

A token is the user or the support session it was issued for; a login makes the
user's good again. The app never uses its refresh token and revokes none when it
signs out, so neither is in the model. The role-guarded layouts only choose the
screen.

### Backend

`Backend` composes the seven modules over one `req`: six are served by the same
process, and `PhoneSession` is the app of one of its clients. They write no column of
each other's tables, with two exceptions. An account which a one-time code creates is
found by an import, for which `Enrolment` has `SignUp`; a school that is onboarded, or
whose status changes, counts for its partner, for which `Partners` has `SetActive`. A
behaviour therefore has the traffic of one `area`; steps of two areas interleaved
would only repeat each other's states. The liveness properties and their fairness are
stated here.

### Routing

The list `Mounted` is the order of `app.use` in `server.ts`, `Blanket` what each
router's `router.use(requireRole(...))` lets through. A request is a role and a
route; `Pass` hands it to the next router, `Handle` and `Forbid` answer it.

As the run shows, `regulatorRouter` stops every request for a router behind it
(operations, owner, partner, subscriptions, sysadmin) unless it comes from a
regulator, whom those routers then reject. `Billing`, the ops room of
`Escalation`, the settings and the policy of `Lifecycle`, `Onboarding`, `Partners`
and the support sessions of `PhoneSession` are behind it; these modules model the routers as they are written.

### CrudModule

`client` is the collection on the server; `store` the slice; `screen` the page,
what is mounted and shown, and the record the form and the dialog hold; `call[c]`
a request of the browser, sent or served, whose answer has not been handled.

| code | actions |
|---|---|
| `CrudModule` mounts and unmounts | `Enter`, `Leave` |
| `DataTable`: filter, pages and refresh, add, menu | `Filter`, `AddNewItem`, `HandleRead`, `HandleEdit`, `HandleDelete` |
| the panel: delete, edit, cancel, collapse | `RemoveItem`, `EditItem`, `CancelEdit`, `CollapsePanel`, `CollapseBox` |
| `SearchItem` | `OnSelect` |
| `CreateForm`, `UpdateForm`, `DeleteModal`: their buttons | `SubmitCreate`, `SubmitUpdate`, `HandleOk`, `HandleCancel` |
| `paginatedList`, `create`, `update`, `remove` of `createCRUDController` | `ServeList`, `ServeCreate`, `ServeUpdate`, `ServeDelete` |
| the thunks' dispatch, the reducer, the effects it triggers | `ListAnswer`, `FormAnswer`, `DeleteAnswer`, `CallFails` |

A row of a table is the document as it is or as it was before a write (`current`,
`old`). `recent` is history: the lists asked for since the last write was answered,
while they are in flight, and `"table"` once the table shows one of them. A list asked
for before that write takes `"table"` out again if it is answered later, and a write
whose success no mounted effect saw leaves `recent` empty.

Abstractions: a dispatch and the effects it causes are one step. The loading flags
are left out, since they stop a mouse and not the Enter key. What is covered by
the panel or the dialog, or drawn with opacity 0, is not pressed. All customers fit
on one page, so a page of the table is one more filter. The search is the record
that is chosen from it. A refusal by the server, its failure and a lost answer are
one action, which may fall before or after the write.

### ErpSessions

`password` is the row of one administrator, `links` the mails that were sent.
`page[t]` is the document in a tab: what it shows (`login`, the application before
its first request, the application), `settings`, without which the application is a
loader, `header`, `leaving` when a redirect is under way and `logout` when it has led
to the page of that name. `storage` is shared by the tabs. `fetch[c]` is a call:
sent, past the check of its token, or answered.

| code | actions |
|---|---|
| the forms of `/login`, `/resetpassword`, `/forgetpassword` | `SubmitLogin`, `SubmitReset`, `SubmitForget` |
| `ErpApp` mounts; its screens and the profile | `Mount`, `UseScreen` |
| the page `/logout` | `Logout` |
| the document is replaced | `Reload` |
| `isValidAuthToken` | `IsValidAuthToken` |
| `login.js`, `authUser.js`; `resetPassword.js` | `CheckPassword`, `CheckLink`, `PushToken` |
| `logout.js`; `forgetPassword.js`; any other handler | `ServeLogout`, `ForgetPassword`, `ServeScreen` |
| the answer in `errorHandler.js` and the thunks of `redux/auth` | `PageHears`, `FetchFails` |
| 24 hours, 365 days | `Expires` |

`auth` in the storage is a token that it names, or one of the two things a logout
that fails puts back: the whole of what was stored where the user should be, which
has no token (`tokenless`), or, if nothing was stored, the user `null`, on which
`includeToken` throws before it sends anything.

Abstractions: one administrator, who is enabled; passwords and hashes; the query
parameters of a call. Nobody clicks on a page that is being replaced, though it hears
the answers that arrive before it is. A call of a screen stands for all of them; what
they do in the screens is the business of `CrudModule`. The forms let one call
through at a time, except that of a forgotten password, as their button loads.

### Erp

A behaviour of `Erp` has the traffic of one `area`: the ledger on the server, the
customer screen with its collection, or logging in and out. They share no
collection and no slice.

### MC modules

`MCTrip`, `MCEscalation`, `MCBilling`, `MCErp` and `MCBackend` name the model values,
define the function-valued constants and the symmetry sets. Symmetry is used
for safety only; the runs with a liveness property have none.

## The runs

| run | instance | checks |
|---|---|---|
| `trip_concurrent` | one bus, a morning and an evening trip, a student, a supervisor, two requests at once, failures, flags set by hand | `TypeOK`, `StartedHasSupervisor`, `EveningAfterMorning`, `EndConfirmsSeen`, `DuplicatesBounded`, `TodayStatusAgrees`, `GpsFollowsTrips`, `JourneySpec` |
| `trip_serial` | the same bus, two students, two supervisors, every route, one request at a time, failures | `ProtocolSpec` |
| `end_blocked` | two requests at once, no failure | violates `EndBlockedUntilExits` |
| `escalation` | one student, two requests, three alerts, deadline of two ticks, failures and lost answers | `EscTypeOK`, `OpenAlertsBounded`, `WaitingIsReported`, `ExitBeforeResolve`, `WaitingEscalates` |
| `escalation_lost` | two students, no failure | violates `EscalationNamesStudent` |
| `billing` | a parent with two screens, a school with one, two plans, two years, three payments, one failure | `BillingTypeOK`, `SerialsWithoutGap`, `UninvoicedBounded` |
| `billing_invoice` | the same without failures | violates `EveryPaymentInvoiced` |
| `erp_ledger` | one invoice, two payments, amounts 1 and 2, totals 0, 1 and 3, two requests, one failure, both coordinated disciplines; two customers, one of which exists, a filter, two calls; one tab, two tokens, one mail, two calls | `ErpTypeOK`, `CreditIsSum`, `ListsLivePayments`, `StatusAgrees`, `RemovedTogether`, `NeverOverpaid`, `ActsOnWhatIsShown`, `TableCatchesUp`, `RefusalLeadsOut` |
| `backend` | two requests at once in each area, one failure; a parent, a member of staff, two codes, two tokens; a sheet of two siblings' rows, three families, two serials; a subscription that ends on day 1 of 5, grace periods of 1, 2 (default) and 3 days; three stops, two ticks at once; two slugs, a license, two addresses; a partner with two schools, two tiers with minima 0 and 2; an owner and a parent on a phone, two calls, one support session, two calls of SecureStore | `BackendTypeOK`, `UsedOnce`, `SerialsDense`, `CopiesBounded`, `StrandedBounded`, `FamilyBounded`, `StopsWhole`, `CutAfterGrace`, `RealPositionHolds`, `LapsedSchoolsAreCut`, `BusArrives`, `OrphansBounded`, `RestartKeepsUser`, `PartnerFindsTier` |
| `routing` | every role and every router | violates `RolesReachTheirRoutes` |
| `sources_fight` | one tick and one report at once, no failure | violates `SourcesNeverFight` |
| `phone_signed_out` | an owner and a parent, two calls, one support session | violates `OwnerStaysSignedIn` |

### What they show

*What overlapping and failing requests cannot break on a trip.* A started
trip has a supervisor, the evening guard holds for trips that were ever started
(not for the present status of the morning trip: a `start` that read `scheduled`
before can reopen it), `end` has confirmed every student it saw, and a student's
place only moves forward even when duplicates are in the table. The parent's view
of a student and the end's view agree, but for a student whose second board row of a
trip lands after the exit. The GPS flag follows the trips of the bus again from the
first start or end that is answered and that no other one of the bus overlaps, whatever
failed or was set by hand before it. A start does write the supervisor it has read over
an assignment made in between, and no document promises that it does not.

*What a patient client gets.* With one request at a time the handlers implement
`TripProtocol`, also when a statement fails: a bus update that is lost looks like a
call of `gps-active`.

*Escalation.* The waiting screen is shown only after an alert of the trip is in
the table, open alerts never outnumber the requests served at once, the alert is
resolved after the student's exit is recorded, and a waiting screen that stays open has called.

*Billing.* Within a year, serials are `1..n` however payments race. A payment
loses its invoice only to a failure or to a race, and each race has a winner:
at most one payment per other screen is lost for each invoice. A parent is
subscribed only after a payment of that parent was invoiced.

*ERP.* As long as no two requests work on the same payment at once, the credit
settles at the sum of the payments, up to one amount for each request that
failed half way, and the list is exact. The status, which is `$set` from a
credit read before, needs more: one request per invoice at a time. So does the
bound by the total.

*Sessions.* A code or a refresh token that is sent again and again gives no
more sessions than requests are served at once: with two, one of them twice, the
race the code allows; later requests find the mark.

*Enrolment.* The serials in use are `1..n` through every race and failure, so a
count is always a free code. A row of a sheet is enrolled once, and once more
for each request that failed or whose answer was lost. A failed request leaves
at most one imported student without a parent. A student's parents, together
with those about to be added, are no more than the requests at once: the import
and a parent who links by code can each add one. A route is without stops only
during a replacement or after one that failed.

*School lifecycle.* No stale read, renewal or edit of the policy restricts a
school before its end date and some grace period are over, and a lapsed school
that is opened now and then is cut for good unless the owner keeps
reactivating it.

*Live tracking.* At most one simulated position per tick in progress is written
over a fresh real one. A simulated bus that is left alone arrives and stays,
from whatever state reports, overlapping ticks and restarts left it in.

*Onboarding.* A school has no admin only while a request is about to insert one, or
for a request that failed: a statement that threw, or an address that another request
took since the check. `owner.routes.ts:58` calls the wizard atomic. After such a
failure the school stays, active and without an admin, and the wizard cannot be sent
again for it, as its slug and license are taken.

*Partners.* Once schools and tiers stay as they are, whoever opens the list of partners
now and then brings the partner to a tier that they call for, whatever older requests
still write. Two things the comment of `applyAutoTierUpgrades` might suggest are not so:
a tier's new commission does not reach the partners who are in it already, and a partner
who is below every minimum keeps the tier of before.

*The session on a phone.* When no call of SecureStore is in progress, a restart comes
back to the session in memory, or to the one below the support session, whatever
logins, logouts and refusals overlapped. The exceptions are named by `apart`. Somebody
who signs in over a support session leaves the owner's backup in place
(`session.ts:49-52`), so that its end, or the next 401, puts the owner's session back
into memory while the disk has the other: the phone comes back as somebody else after
a restart.

*The customer screen.* Whatever answers arrive while it is used, the dialog
deletes the record it names, the form saves the record whose values it shows, and
the panel's buttons have a record. This rests on which buttons a layer covers and
on effects that close what an answer has made out of date. The table may show an
older answer for good: if a list from before the last write is answered after those
from after it, if these fail, or if nobody saw the write succeed. Otherwise, in whatever
order the lists asked for since are answered, it shows what the server has.

*The ERP's sessions.* In a browser with one tab, whatever logins, logouts, resets,
saved profiles, expired tokens and lost answers overlap, a page that shows the
application has something stored that names a user. So the next refusal redirects it,
and a reload does not end in the loader for good. Three things the model shows are
not excluded, and no document of the repository excludes them:

* with a second tab the property fails. The tabs share the storage but not the slice:
  a refused call of one tab empties the storage and leaves the other in the
  application with nothing stored, where a refusal without `isLogout` redirects
  nobody; and if that tab then logs out and the call fails, it stores the user
  `null`, after which every call throws in `includeToken` and every reload shows the
  loader, until the storage is cleared by hand;
* a logout that fails logs the page in again as a user without a token, whose next
  call is refused as malformed and redirects;
* the answer to a saved profile that arrives after a logout, or after another login,
  logs the page in as the token the profile was saved with.

### Findings

Six statements of the repository are false of the code; each has a run.

* `EndBlockedUntilExits`: `trips.routes.ts:271` says the end of a trip is blocked
  until every boarded student's exit is confirmed. A board that falls between
  the read of the events and the update of the trip is not looked at.
* `EscalationNamesStudent`: the waiting screen says the case was escalated to the
  ops room, but an open alert of the trip for another student absorbs the call.
* `EveryPaymentInvoiced`: `subscriptions.routes.ts:86` says every confirmed
  payment produces an invoice. Of two that count at the same time, one is
  refused its number by the unique column after its payment was confirmed.
* `RolesReachTheirRoutes`: `server.ts:57` says the order of the routers keeps a
  blanket role check from rejecting requests for later routers. `regulatorRouter`
  has such a check itself.
* `SourcesNeverFight`: `gateway.ts:11` says the simulator backs off so that the
  two sources never fight. It looks at the mark before it writes.
* `OwnerStaysSignedIn`: `api.ts:9` says that the 401 of an expired support session
  falls back to the owner's own session. The handler looks at the session of the moment:
  of two calls that are refused the first restores the owner and the second signs the
  owner out.

`paymentController/create.js` announces a max amount, which two simultaneous payments
can exceed together; `NeverOverpaid` holds under one request per invoice only.

### Bounds

Two workers are the smallest number with an interleaving, and every race of
these handlers is between a read and a write of one request and a write of
another. The theorems hold for any number.
One bus with both shifts makes the evening guard meaningful; trips of different
buses share no row. `AlertIds` bounds the alerts that are ever inserted; three
allow an alert to be inserted after one was resolved while a third is about to
be. In the two trip runs the one id is enough to report and resolve, and the
routes an instance leaves out of `Ops` are in the other trip run. Two screens of one payer and a
third of another allow a race within and across payers, and three payments let
one of them follow a race. Two years let the clock turn once. Total 0 is an
invoice that is paid at once, total 1 one that a single amount overpays, total 3
one that takes several payments; two payments of one invoice race for what is
left of it, and one of them can follow the other. One failure is enough to strand each statement
of each handler; `CreditIsSum` is stated for any number.

A bound on ids or payments only disables the insert that needs one more:
`NotCollected` waits for an unused alert, `PaymentCreate` for room in the table.
`CHECK_DEADLOCK FALSE` is set where that, or the end of all work, leaves nothing
to do. `WaitingEscalates` names that case explicitly (`UnusedAlerts = {}`).

In `backend`, two requests give each race of `Sessions`, `Enrolment` and `Lifecycle`,
and two ticks the overlap of `Tracking`; the proofs cover any number. `Newest` is
1 instead of 5, so that a second code pushes the first one out. A sysadmin who
needs a code takes the path of a parent with an account, so `TwoFactor` is empty in the
run, where one more user would not fit; `SessionsPerTicket` is proved for any.
Two rows with one new phone let the second row find the account that the first
created; two registered families race for a student. Two students are enough
for an import, its repetition, and a collision; `CountStudents` and `Enrol` wait
when the table is full. Day 5 comes after every grace period, which
`LifecycleAssumption` requires. Two slugs and two addresses let requests collide in one
and not in the other; the owner may set both tiers to the same minimum, or to one no
school meets, and 2 stands for the 5 of the seed. Two calls of the backend let one
answer find the session of the other ended; two calls of SecureStore let a login and a
logout overlap; one support session expires before or after the banner ends it. Two customers let a button act on the wrong one,
a filter that finds only one of them lets a table show less than there is, and two
calls let one answer overtake another. Two tokens let a login follow a logout, two
calls let an answer to the one arrive in the other's time, one mail lets a link be
used, used again, and used late. Three stops have an index that advances and one
that does not.

### Fairness

The `escalation` and `backend` runs have liveness properties. In the first, `Fairness` assumes

* weak fairness of `Serve(w)`: the server goes on with a request it has begun
  (Node runs the continuation of an `await` that is settled);
* weak fairness of `Tick(t)`: `setInterval` fires while its screen is mounted;
* strong fairness of `Escalate` by some worker: the effect runs when the timer
  has reached the deadline. It is strong because the number of workers is a
  bound of the model: the real server never refuses the request for lack of
  one, so other traffic cannot keep the call out for ever.

In the second, `Fairness` assumes weak fairness of requests, reports and ticks that
have begun and of `setInterval`, weak fairness of `NextDay`, and, for
`LapsedSchoolsAreCut`, strong fairness of `OpenSchool` by some worker: a screen of
the school is opened again and again, and the server refuses none for lack of a
worker; and the same of `OpenPartners` for `PartnerFindsTier`. The first also assumes
that the owner stops setting the school active, the second that schools and tiers
cease to change. `BusArrives` assumes that, from some point on, the trip is active, no
report arrives, and ticks do not overlap; two ticks that keep overlapping could set
the index back and forth. None assumes that statements succeed: failures are
bounded, and the run lets them fall anywhere.

Nothing is assumed of the people in the first run: the supervisor may leave the screen, nobody
has to collect the student, the ops room need not look. Nor is a statement
assumed to succeed. The violation runs use specifications without fairness and
are counterexamples to safety properties.

## The proofs

The eight modules ending in `Proofs` are checked by TLAPS for all values of the
constants that satisfy the named assumptions: `TripAssumption` (the foreign keys
are total, a shift is morning or evening, null is no user), `FiniteWorkers`,
`DeadlineAssumption`, `BillingAssumption`, `FiniteScreens`, `RequestsAssumption`
(finitely many workers, at least one), `SessionsAssumption`, `EnrolmentAssumption`,
`LifecycleAssumption`, `NoPolicyAssumption`, `TrackingAssumption`,
`OnboardingAssumption`, `PartnersAssumption`, `PhoneAssumption`, `CrudAssumption`,
`LoginsAssumption`, `LedgerAssumption` and `FiniteLedger` (payments, workers and amounts
are finite sets, over which sums and the largest amount are taken).
TLC evaluates these assumptions in the runs.

| module | proves about |
|---|---|
| `TripProofs` | `Trip`, its refinement of `Journey` and `TripProtocol`, and `GpsFlag` |
| `EscalationProofs` | `Escalation`, on top of `TripProofs` |
| `BillingProofs` | `Billing` |
| `SessionsProofs` | `Sessions`, `PhoneSession` |
| `EnrolmentProofs` | `Enrolment` |
| `BackendProofs` | `Lifecycle`, `Onboarding`, `Tracking`, `Partners`, and `Backend` |
| `ErpLedgerProofs` | `ErpLedger` |
| `ErpProofs` | `CrudModule`, `ErpSessions`, and `Erp` |

**Trip.** `Inductive` proves that `IInv` holds in every reachable state. It is the
conjunction of `TypeOK`, `StartedHasSupervisor`, `EveningAfterMorning`,
`EndConfirmsSeen` and `DuplicatesBounded` with three strengthenings:

* `ResolvesAnAlert`: the alert a request is about to resolve is a row, without
  which `CollectedResolve` would break the type of `alerts`;
* `ExitAfterBoarding`: an exit row, and a request about to insert one, has a
  board row; without it, an exit could take a student from waiting to off;
* `TripLife`: a request on its way to `end.write` works on a trip that is active
  or completed, and one on its way to `start.write` on a trip that is not
  cancelled. `CompletedHasDuration` and `CancelledStaysCancelled` need it, as
  both writes are by id and look at no status.

`EveningAfterMorning` and `EndConfirmsSeen` speak of the requests that have
passed their check as well as of the rows, which is what makes them inductive:
what was true at the check cannot be undone, since timestamps are never cleared
and events never deleted. `DuplicatesBounded` counts the rows together with the
requests about to insert one; a check succeeds only when there is no row, so it
can only add a request, and an insert turns a request into a row.

From `IInv` follow `TypeCorrect`, `ReportHasDuration`, `SupervisedAfterStart`,
`EveningGuard`, `EndGuard`, `RowsBounded`, the action property
`CancelledForGood`, and `JourneyRefined`: the handlers implement `Journey`, with
the concurrent duplicates as stuttering steps. `OneRowWhenSerial` is the case of
one worker. `TodayStatusRight` is `TodayStatusAgrees` for any number of requests: by
`ExitAfterBoarding`, a board row that lands after an exit is a second one.

*One client that waits for each answer* (`Workers = {client}`, the hypothesis of the
theorem below; with two, the findings show that it fails). `SerialInv` adds
`NothingStale` to `IInv`: what a request has read before its next statement is still so.
A start about to write still finds a scheduled trip and, in the evening, a morning trip
that is done; a board or an exit about to be inserted still finds no row; an end about
to write still finds nobody aboard. `ProtocolRefined` maps
each statement to a step of `TripProtocol` or a stutter: the write of `start` and of
`end` is the atomic step, with the flag of the bus that the next statement will write
(`GpsAfterAnswer`) taken ahead. A bus update that fails leaves the old flag, which the
protocol allows as a call of `PUT /buses/:id/gps-active`; so it holds whether or not
statements fail.

*The flag of the bus* (`GpsFlagRight`, which is `GpsFollowsTrips`) is proved of `GpsSpec` for any
number of requests, with failures and flags set by hand; `HistoryAdds` says that its
behaviours are those of `Spec`. `GpsInv` speaks of each bus that is not crossed by itself
(`Clear`): no two requests serve it; what the one that does has read is still so
(`Fresh`), and if it is about to write the flag, it writes what is right; while an
evening trip is active the morning trips are over (`EveningLast`), so that the bus has
one active trip at a time (`OneActive`) and its end leaves none. `Settled` is the flag
itself: if no request is about to write it, it is right. A failure or a call of
`gps-active` may break `Settled`, not `Clear`, and the next statement that writes the
flag restores it (`ClearFlag`). A bus that was crossed is clear again as soon as it is
at rest, because then there is nothing for `Clear` to say.

**Escalation.** `EscInductive` proves `EscInv`. The steps of the server are those of
`Trip`, and `TripPart` lets the lemmas of `TripProofs` speak of them here; `TablesStep`
says what all of them keep: types, alerts that are never deleted, exits that are never
undone. New is `CallsInFlight`, which ties a call of a phone to the request that serves it: a
call of `collected` is at a statement of `collected` for the same trip and student, and
past the exit only once there is an exit row. From it `ExitFirst` follows at once, and
`WaitingReported`: the screen is shown only by an answer of the server, which came after
the insert or found an open alert. `AlertsBounded` counts the open alerts of a trip with
the requests about to insert one, as `RowsBounded` does for rows; it needs that the open
alerts are a finite set, which is in the invariant as the ids are not bounded.

**Billing.** `BillingInductive` proves `BInv`: `BillingTypeOK`, `InvoicedOnce`,
`Numbering` (the serials inserted are `1..n` and a request holds a serial of at
most `n + 1`), `Ownership` (a request's payment belongs to the payer of its
screen, and a screen that subscribes has an invoice), `SubscribedHasInvoice` and
`Losses`. The last is the argument for `UninvoicedBounded`: a request whose
number another has taken is *doomed*. When an invoice is inserted, at most the
other screens become doomed, and no other step dooms a request, because a count
taken later is larger than every serial. So the payments that have lost their
invoice, those doomed to, and those of failed requests are bounded by the
invoices times the other screens plus the failures. `BillingTypeCorrect`,
`InvoicesSequential`, `LossesBounded` and `SubscriptionsInvoiced` follow.

**Sessions.** `SessionsInductive` adds to the types `HeldExists`, that a ticket a
request holds is a row of its table, and `MarkedFirst`, that there is no session
from a ticket and no request about to mint one before the ticket was marked. The
argument for `UsedOnce` (theorem `SessionsPerTicket`) is a count of the sessions
and of the requests that use a ticket. A check adds a request, but only for a
ticket that is not marked, so that there are no sessions and all that count are
requests, at most one per worker; `Mint` turns a request into a session; no other
step adds to either.

**Enrolment.** `EnrolmentInductive` has, besides the types and `SerialsDense`:

* `LocalsExist`: a serial a request holds is in use or the next one, and the
  students an import works on are rows;
* `CopiesPromised`: for each row, the copies that exist, the imports that have
  not passed the row, and the button if it can start another, are together at
  most one more than the failures. A failed request gives its promise back to
  the button, and pays for it by the failure;
* `StopsWhole` and `StrandedBounded`, which are inductive: a student is stranded
  only by a step that fails;
* `FamilyFinite`: a student's parents and applicants are a finite set. It grows
  only while there is no parent, when it is an image of the requests.

`LinkingStep` says once what each step does to a student's row, so that
`StrandedBounded` and `FamilyBounded` do not repeat the case analysis.
`CodesSequential`, `ImportedOnce`, `StrandedByFailure`, `FamiliesSmall` and
`StopsReplaced` follow.

**Lifecycle.** `LifecycleInductive` adds `GraceGranted`: a grace date that is stored,
or about to be, is a whole grace period after the end of the subscription, and a
request about to cut saw one pass. `CutsAreDue` is `CutAfterGrace`.

**Tracking.** `TrackingInductive` adds `PastTheCheck`: while the mark is fresh, the
positions overwritten and the ticks that have passed the check are together at
most the ticks there are. `OverwritesBounded` is `RealPositionHolds`.

**Onboarding.** `OnboardingInductive` adds `SchoolFirst` to `OrphansBounded`: a request
that is about to make an admin has made the school. `BusyElsewhere`, `Founds`, `Staffs` and
`GivesUp` say once the four things a step can do to its request; the schools without an
admin for whom no request is still at work grow by at most one in `GivesUp`, which counts
a failure, and in no other. `OrphansByFailure` is `OrphansBounded`.

**The session on a phone.** `PhoneInductive` proves `PhoneInv`, which follows the queue of
SecureStore: its calls are executed in their order (`InOrder`), the disk holds what the
latest one executed has written (`Latest`), and as long as none was executed it still
holds the session in memory or below the support session (`DiskAgrees`). A backup exists
only over a support session, unless somebody signed in meanwhile (`apart`), so that
`startImpersonation` never saves a session that is not the owner's. The lemma for each
way to change the queue (an operation is added, executed, failed, answered) is proved for
any length of it. `RestartIsSafe` is `RestartKeepsUser`; `BannerIsShown` says that
a support session always has the backup the banner ends it with (`BannerTells`).

**Customer screen.** `CrudInductive` proves `CrudInv`, which has two parts besides
the types. `Shown` is `ActsOnWhatIsShown` with what it rests on: the dialog is open only
before its deletion is answered and on a page that was entered, a panel only after
the drawer was opened, and the answer of a form has left its record behind.
`CaughtUp` says of every list asked for since the last write was answered, in the
slice or in an answer on its way, that its rows are as the server has them, unless a
write is on its way back. That is why the order of these lists does not matter.
`ButtonsActOnShown` and `TableConverges` follow.

**ERP ledger.** `LedgerInductive` proves `LedgerInv`, six parts that each rest on the
ones before:

* `Types`, `LedgerTypeOK` with the documents and requests spelled out;
* `Known`: what a request works on exists, and a payment that is being created is
  known to the request that creates it only;
* `Alone`: the discipline keeps the requests on one invoice, or on one payment,
  apart. `Moves` says once what a step does to its request, so that this and the
  parts below do not repeat the case analysis;
* `Statused`: where one request at a time works on an invoice, the stored status is
  the one its credit calls for *in every state*, not only at rest. It carries the
  promise of each request: the status it computed is still right, because nobody
  else writes the invoice (`InvoiceSteady`); what a creation or an update is about to
  add fits in the total, and a removal only lowers the credit;
* `Gone`: a request that works on a removed invoice is the removal on its way to the
  payments, and a live payment of a removed invoice waits for one;
* `Listed`: where one request at a time works on a payment, the invoice's list
  differs from its live payments only by payments whose request is between the
  write of the payment and the write of the invoice.

`LedgerTypeCorrect`, `StatusFollows` and `CreditWithinTotal` (for `StatusAgrees` and
`NeverOverpaid`), `PaymentsFollow` (for `RemovedTogether`) and `ListExact` (for
`ListsLivePayments`) follow. Without the hypothesis
`NeverOverpaid` is false, as two simultaneous payments show.

*The credit* (`CreditIsSum`). MapThenSumSet adds up by taking elements out one by one, in
the order CHOOSE gives. The lemmas on sums first show that this order does not matter:
`FiniteMin`, that a nonempty set of subsets of a finite set has a minimal member, takes
the place of an induction, and from it follow that the function that adds up exists
(`AddsExists`), that any element may be added last (`AddsAny`), that a sum changes by
what one term changes (`TotalChange`), and that terms that are zero may be left out
(`TotalOver`). `PaidIsSum` says that these are the sums of the model.
Then `CreditInductive` adds two parts to `LedgerInv`:

* `Exact`: a request holds as `delta` the difference it is about to make to its payment,
  which nobody else changes in between, except that the removal of the invoice may take
  the payment along;
* `Credited`: the credit of an invoice, plus what requests that have written their
  payment still owe it, less the sum of its payments, is within one amount for each
  failure. No step of a request changes that difference (`DriftStays`): writing the payment
  changes what is owed and what was paid by the same amount, `$inc` moves it from what is
  owed to the credit. A failure drops what one request owed, at most one amount.

`CreditFollows` is the case of an invoice no request is at work on.

**ERP sessions.** `LoginsTypeCorrect` proves `LoginsTypeOK` for any number of tabs. It needs
that the stored password is one, and `Authenticated`: a call that has passed the check of
its token was sent with a token. `OneTabLeadsOut` proves `RefusalLeadsOut` for a browser with one tab
(`Tabs = {A}`): besides the property, `OneTabInv` says that the user `null` is never stored, and that a
logout on its way keeps a user to put back if it fails. Two tabs share the storage
but not the slice, and the logout of one empties what the other shows; the run has one
tab for the same reason.

**The areas together.** The theorems from **Sessions** to **The session on a phone** are
about the specification of each module (`SessionsSpec`, `EnrolmentSpec`, ...), those of the ERP
about `Spec` of `ErpLedger`, `CrudSpec` and `SessionsSpecification`. `AreasServed` shows that a
behaviour of `Backend` obeys the specification of the area it uses, `AreasTogether` that one of
`Erp` obeys all three. So `AreasKeep` and `ErpKeeps` state the properties of the composed
processes, and `BackendTypeCorrect` and `ErpTypeCorrect` their types, with
`PartnersTypeCorrect` for the one area that has no other invariant.

**Only model-checked.** Liveness under fairness (`WaitingEscalates`,
`LapsedSchoolsAreCut`, `BusArrives`, `PartnerFindsTier`) and anything that mentions `ENABLED` are
outside TLAPS. No safety property of a passing run is left out. Two are proved under
the hypothesis their run has too: one client (`ProtocolSpec`) and one tab
(`RefusalLeadsOut`). The users' discipline is in the statement
of the ledger's properties themselves.

## Running the checks

`tlc -config X.cfg M` with the module `M` that `PROJECT.json` names for the run:
`backend` with `MCBackend`, `routing` with `Routing`, `sources_fight` with
`Tracking`, `phone_signed_out` with `PhoneSession`, `erp_ledger` with `MCErp`, the others with the MC module of their name. `tlapm M.tla` for each
module ending in `Proofs`.

## Not modelled

At the commit that is modelled, `src/frontend/src/router/routes.jsx` builds elements of
`Quote`, `PaymentMode` and `Taxes`, which it does not import, so the module that lists
the pages of the application throws when it is loaded. `CrudModule` and `ErpSessions`
model the pages as their own code has them, with the route table that lists them.

Routes that only read, the comparison of a request's claims with the school of
a row (the models start from requests that passed it), socket emits (they
change no state of the server), wording, dates and prices. Of the components:

* emergency SOS, support, consent, exception and rating routes append one row
  that no handler reads back;
* packages, promotions, commissions, refunds and leads of the owner and the partner,
  ERP settings and the ERP's generic CRUD are one statement per request: there is no
  protocol on the server to check, and the screen that drives the last is `CrudModule`.
  In two places a read precedes the write, feature flags (`owner.routes.ts:421`) and
  the settings row (`subscriptions.routes.ts:211`); both lose an update whenever two
  people save at once, and no property of the code depends on it;
* the watch of `useLiveLocationReporter.ts`, which is never removed if the screen is left
  while it is being set up; the server ignores its reports once the trip is over;
* the slices `erp`, `settings` and `adavancedCrud` of the ERP's store. The slice
  `erp` repeats the reducer of `crud` for screens that are pages of their own;
* out of service, drivers and maintenance dates are written and only displayed;
* mobile, web and ERP screens other than the ones named above render and
  navigate;
* PDF, mail, currencies, locale, setup, the translation and country tables, and
  the documentation generators hold no state. They, and the screens, are most of
  the implementation's lines.
