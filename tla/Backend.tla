------------------------------ MODULE Backend ------------------------------
(***************************************************************************)
(* Six areas of the Aman School backend that are served by the same        *)
(* process -- signing in, enrolment, the subscriptions of schools, live    *)
(* tracking, onboarding and the tiers of partners -- and the session that  *)
(* the app of one of its clients keeps.  They write no column of each      *)
(* other's tables, so a behaviour has the traffic of one area, which is    *)
(* chosen at the start: with the traffic of two, the steps of one change   *)
(* nothing the other reads.                                                *)
(*                                                                         *)
(* The exceptions are modelled on both sides.  An account that a one-time  *)
(* code creates is one that an import finds: Enrolment!SignUp stands for   *)
(* it.  A school that is onboarded, or whose status changes, counts for    *)
(* the tier of its partner: Partners!SetActive stands for that.            *)
(***************************************************************************)
EXTENDS Sessions, Enrolment, Lifecycle, Tracking, Onboarding, Partners, PhoneSession

VARIABLE area   \* the area the clients use

Areas == {"sessions", "enrolment", "lifecycle", "tracking", "onboarding", "partners", "phone"}

vars == <<area, req, failures, sessionVars, enrolmentVars, lifecycleVars, trackingVars,
          onboardingVars, partnersVars, phoneVars>>

Init ==
  /\ area \in Areas
  /\ RequestsInit
  /\ SessionsInit /\ EnrolmentInit /\ LifecycleInit /\ TrackingInit
  /\ OnboardingInit /\ PartnersInit /\ PhoneInit

In(a) == area = a /\ UNCHANGED area

Others(a) ==
  /\ IF a = "sessions"  THEN TRUE ELSE UNCHANGED sessionVars
  /\ IF a = "enrolment" THEN TRUE ELSE UNCHANGED enrolmentVars
  /\ IF a = "lifecycle" THEN TRUE ELSE UNCHANGED lifecycleVars
  /\ IF a = "tracking"  THEN TRUE ELSE UNCHANGED trackingVars
  /\ IF a = "onboarding" THEN TRUE ELSE UNCHANGED onboardingVars
  /\ IF a = "partners"  THEN TRUE ELSE UNCHANGED partnersVars
  /\ IF a = "phone"     THEN UNCHANGED <<req, failures>> ELSE UNCHANGED phoneVars

Next ==
  \/ In("sessions")  /\ SessionsNext  /\ Others("sessions")
  \/ In("enrolment") /\ EnrolmentNext /\ Others("enrolment")
  \/ In("lifecycle") /\ LifecycleNext /\ Others("lifecycle")
  \/ In("tracking")  /\ TrackingNext  /\ Others("tracking")
  \/ In("onboarding") /\ OnboardingNext /\ Others("onboarding")
  \/ In("partners")  /\ PartnersNext  /\ Others("partners")
  \/ In("phone")     /\ PhoneNext     /\ Others("phone")

Spec == Init /\ [][Next]_vars

-----------------------------------------------------------------------------
Within(a, A) == In(a) /\ A /\ Others(a)

\* The server goes on with a request or a tick that it has begun, setInterval
\* fires, days pass, and somebody opens the school, and the list of partners,
\* again and again.  The last two are strong, since the number of workers is a
\* bound of the model: the real server refuses no request for lack of one.
Fairness ==
  /\ \A w \in Workers :
       /\ WF_vars(Within("lifecycle", ServeLifecycle(w)))
       /\ WF_vars(Within("tracking", ServeReport(w)))
       /\ WF_vars(Within("partners", ServePartners(w)))
  /\ \A t \in Ticks : WF_vars(Within("tracking", TrackingTick(t)))
  /\ WF_vars(Within("lifecycle", NextDay))
  /\ SF_vars(Within("lifecycle", \E w \in Workers : OpenSchool(w)))
  /\ SF_vars(Within("partners", \E w \in Workers : OpenPartners(w)))

FairSpec == Spec /\ Fairness

-----------------------------------------------------------------------------
\* The tables and the requests of the area in use keep their types.
BackendTypeOK ==
  CASE area = "sessions"  -> SessionsTypeOK
    [] area = "enrolment" -> EnrolmentTypeOK
    [] area = "lifecycle" -> LifecycleTypeOK
    [] area = "tracking"  -> TrackingTypeOK
    [] area = "onboarding" -> OnboardingTypeOK
    [] area = "partners"  -> PartnersTypeOK
    [] area = "phone"     -> PhoneTypeOK

\* A school whose subscription is over loses its access for good, unless the
\* owner sets it active again and again, although no scheduler runs: opening it
\* is enough (schools.routes.ts:19-41), and no stale write of a concurrent read
\* keeps it in its grace period.
LapsedSchoolsAreCut ==
  area = "lifecycle" /\ <>[][~SetStatus("active")]_status => <>[](status \in Cuts)

\* A simulated bus that is left alone reaches the last stop and stays there,
\* whatever reports, overlapping ticks and restarts between the two writes of a
\* tick have left in its rows (simulator.ts:71-77).
BusArrives == area = "tracking" /\ <>[]Undisturbed => <>[](position = LastStop)

\* "promote/demote every auto-upgrade partner based on their current count of
\* active schools" (owner.routes.ts:198): once schools and tiers stay as they
\* are, the partner is in a tier that these call for and remains there,
\* whatever requests that read older rows still write.
PartnerFindsTier ==
  area = "partners" /\ <>[][FALSE]_<<active, least>>
    => <>[](LET best == Eligible(Cardinality(active), least)
            IN  best = {} \/ tierId \in best)
=============================================================================
