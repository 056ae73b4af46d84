----------------------------- MODULE Lifecycle -----------------------------
(***************************************************************************)
(* The subscription of a school that was onboarded with an end date, and   *)
(* the policy the owner configures for what follows it                     *)
(* (routes/schools.routes.ts, routes/subscriptions.routes.ts,              *)
(* routes/owner.routes.ts).  No scheduler runs: whoever opens the school   *)
(* brings its status up to date, one transition at a time, in three        *)
(* statements: read the school, read the policy, write the status.         *)
(*                                                                         *)
(* Of the settings row only the policy is kept.  No route moves the end of *)
(* a school's subscription; the owner can set its status to active again.  *)
(* The routes that write the settings row are modelled as their routers    *)
(* declare them, although module Routing shows who reaches them.           *)
(***************************************************************************)
EXTENDS Requests

CONSTANTS
  LastDay,      \* bound: the days that pass
  EndsOn,       \* School.subscriptionEndsAt
  GraceDays,    \* the lengths of a grace period the owner saves
  DefaultDays,  \* 7: the length when there is no policy
  NoPolicy, NoDate

ASSUME LifecycleAssumption ==
  /\ EndsOn \in Nat /\ LastDay \in Nat
  /\ DefaultDays \in Nat /\ GraceDays \subseteq Nat
  /\ \A d \in GraceDays \cup {DefaultDays} : EndsOn + d < LastDay
  /\ NoDate \notin Nat

Cuts     == {"restricted", "suspended"}
Policies == [days : GraceDays, action : Cuts]
DefaultPolicy == [days |-> DefaultDays, action |-> "restricted"]

ASSUME NoPolicyAssumption == NoPolicy \notin Policies

VARIABLES
  today,      \* the server's clock
  status,     \* School.subscriptionStatus
  graceEnds,  \* School.gracePeriodEndsAt
  policy      \* PlatformSettings.data.subscriptionLifecyclePolicy

lifecycleVars == <<today, status, graceEnds, policy>>
schoolVars    == <<status, graceEnds>>

LifecycleInit ==
  /\ today = 0
  /\ status = "active" /\ graceEnds = NoDate
  /\ policy = NoPolicy

InForce == IF policy = NoPolicy THEN DefaultPolicy ELSE policy

-----------------------------------------------------------------------------
(* GET /schools/:id.                                                        *)

GraceOver_Mutant == status = "grace_period" /\ graceEnds # NoDate

Lapsed    == status = "active" /\ today > EndsOn
GraceOver == status = "grace_period" /\ graceEnds # NoDate /\ today > graceEnds

OpenSchool(w) ==
  /\ Free(w)
  /\ \/ Lapsed    /\ Continue(w, [at |-> "grace-policy"])
     \/ GraceOver /\ Continue(w, [at |-> "cut-policy"])
  /\ UNCHANGED lifecycleVars

ReadPolicy(w) ==
  /\ \/ /\ At(w, "grace-policy")
        /\ Continue(w, [at |-> "grace-write", until |-> EndsOn + InForce.days])
     \/ /\ At(w, "cut-policy")
        /\ Continue(w, [at |-> "cut-write", to |-> InForce.action])
  /\ UNCHANGED lifecycleVars

\* Both writes are by id and look at no status.
GraceWrite_Mutant(w) ==
  /\ At(w, "grace-write")
  /\ status' = "grace_period"
  /\ Succeed(w)
  /\ UNCHANGED <<today, graceEnds, policy>>

GraceWrite(w) ==
  /\ At(w, "grace-write")
  /\ status' = "grace_period" /\ graceEnds' = req[w].until
  /\ Succeed(w)
  /\ UNCHANGED <<today, policy>>

CutWrite(w) ==
  /\ At(w, "cut-write")
  /\ status' = req[w].to
  /\ Succeed(w)
  /\ UNCHANGED <<today, graceEnds, policy>>

-----------------------------------------------------------------------------
(* The owner.                                                               *)

\* PUT /schools/:id/status: one write; the screen has a button for each value.
SetStatus(s) ==
  /\ status' = s
  /\ UNCHANGED <<today, graceEnds, policy, req, failures>>

\* PUT /subscriptions/lifecycle-policy merges the policy into the row.
SavePolicy(w, p) ==
  /\ Free(w)
  /\ Continue(w, [at |-> "policy-write", policy |-> p])
  /\ UNCHANGED lifecycleVars

PolicyWrite(w) ==
  /\ At(w, "policy-write")
  /\ policy' = req[w].policy
  /\ Succeed(w)
  /\ UNCHANGED <<today, schoolVars>>

\* PUT /owner/platform-settings replaces the row by what the settings screen
\* sends, and the screen sends four other settings.
SaveSettings ==
  /\ policy' = NoPolicy
  /\ UNCHANGED <<today, schoolVars, req, failures>>

NextDay ==
  /\ today < LastDay
  /\ today' = today + 1
  /\ UNCHANGED <<schoolVars, policy, req, failures>>

ServeLifecycle(w) == ReadPolicy(w) \/ GraceWrite(w) \/ CutWrite(w) \/ PolicyWrite(w)

LifecycleStep(w) ==
  \/ OpenSchool(w) \/ ServeLifecycle(w)
  \/ \E p \in Policies : SavePolicy(w, p)
  \/ Crash(w) /\ UNCHANGED lifecycleVars

LifecycleNext ==
  \/ \E w \in Workers : LifecycleStep(w)
  \/ \E s \in {"active", "suspended"} : SetStatus(s)
  \/ SaveSettings \/ NextDay

LifecycleSpec ==
  RequestsInit /\ LifecycleInit /\ [][LifecycleNext]_<<lifecycleVars, req, failures>>

-----------------------------------------------------------------------------
LifecycleReqs ==
  {Idle} \cup [at : {"grace-policy", "cut-policy"}] \cup [at : {"grace-write"}, until : Nat]
    \cup [at : {"cut-write"}, to : Cuts] \cup [at : {"policy-write"}, policy : Policies]

\* Every column holds a value of its type, and so do the handlers' locals.
LifecycleTypeOK ==
  /\ today \in 0..LastDay
  /\ status \in {"active", "grace_period"} \cup Cuts
  /\ graceEnds \in Nat \cup {NoDate}
  /\ policy \in Policies \cup {NoPolicy}
  /\ req \in [Workers -> LifecycleReqs]
  /\ failures \in Nat

\* A school is never restricted, which only a read does, before its
\* subscription and the shortest grace period of any policy are over, whatever
\* stale reads, renewals and edits of the policy come in between: both writes of
\* applySubscriptionLifecycle (schools.routes.ts:31 and 38) store what was
\* decided from a row that may have changed twice since.
CutAfterGrace ==
  status = "restricted" =>
    \E d \in GraceDays \cup {DefaultDays} : today > EndsOn + d
=============================================================================
