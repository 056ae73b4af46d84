----------------------------- MODULE Onboarding -----------------------------
(***************************************************************************)
(* How a school comes to the platform: the five-step wizard, submitted as  *)
(* one call, and the registration it replaced (routes/owner.routes.ts).    *)
(* Both insert the school and then the account of its admin, in two        *)
(* statements; the wizard checks the license number and the address of the *)
(* admin first.                                                            *)
(*                                                                         *)
(* School.slug, School.licenseNumber and User.email are unique in the      *)
(* database.  Packages, partners and contract cycles are left out; no      *)
(* route deletes a school, or gives one an admin later.                    *)
(***************************************************************************)
EXTENDS Requests

CONSTANTS
  Slugs,      \* the identifiers of schools
  Licenses,   \* license numbers; a school may come without one
  NoLicense,
  Emails      \* the addresses of admins

ASSUME OnboardingAssumption ==
  IsFiniteSet(Slugs) /\ IsFiniteSet(Emails) /\ NoLicense \notin Licenses

VARIABLES
  schools,  \* the rows of table School
  admins    \* the rows of table User with role school_admin

onboardingVars == <<schools, admins>>

OnboardingInit == schools = {} /\ admins = {}

SlugTaken(x)    == \E s \in schools : s.slug = x
LicenseTaken(l) == l # NoLicense /\ \E s \in schools : s.license = l
EmailTaken(e)   == \E a \in admins : a.email = e

Forms == [slug : Slugs, license : Licenses \cup {NoLicense}, email : Emails]

\* Answered 400, or 500 before anything was written.
Refuse(w) == Succeed(w) /\ UNCHANGED onboardingVars

-----------------------------------------------------------------------------
\* POST /owner/schools/onboard, up to the answer about the license number.
Onboard(w, form) ==
  /\ Free(w)
  /\ ~LicenseTaken(form.license)
  /\ Continue(w, [at |-> "check-email", form |-> form])
  /\ UNCHANGED onboardingVars

CheckEmail(w) ==
  /\ At(w, "check-email")
  /\ IF EmailTaken(req[w].form.email) THEN Refuse(w)
     ELSE /\ Continue(w, [at |-> "create-school", form |-> req[w].form])
          /\ UNCHANGED onboardingVars

\* POST /owner/schools/register checks nothing and knows no license number.
RegisterSchool(w, form) ==
  /\ Free(w)
  /\ form.license = NoLicense
  /\ Continue(w, [at |-> "create-school", form |-> form])
  /\ UNCHANGED onboardingVars

CreateSchool(w) ==
  /\ At(w, "create-school")
  /\ LET form == req[w].form IN
     IF SlugTaken(form.slug) \/ LicenseTaken(form.license) THEN Refuse(w)
     ELSE /\ schools' = schools \cup {[slug |-> form.slug, license |-> form.license]}
          /\ Continue(w, [at |-> "create-admin", form |-> form])
          /\ UNCHANGED admins

CreateAdmin_Mutant(w) ==  \* as createMany with skipDuplicates
  /\ At(w, "create-admin")
  /\ LET form == req[w].form IN
     admins' = IF EmailTaken(form.email) THEN admins
               ELSE admins \cup {[email |-> form.email, school |-> form.slug]}
  /\ Succeed(w)
  /\ UNCHANGED schools

\* The address may be taken by now: the request fails and the school stays.
CreateAdmin(w) ==
  /\ At(w, "create-admin")
  /\ LET form == req[w].form IN
     IF EmailTaken(form.email) THEN Fail(w) /\ UNCHANGED admins
     ELSE /\ admins' = admins \cup {[email |-> form.email, school |-> form.slug]}
          /\ Succeed(w)
  /\ UNCHANGED schools

ServeOnboarding(w) == CheckEmail(w) \/ CreateSchool(w) \/ CreateAdmin(w)

OnboardingNext ==
  \E w \in Workers :
    \/ \E form \in Forms : Onboard(w, form) \/ RegisterSchool(w, form)
    \/ ServeOnboarding(w)
    \/ Crash(w) /\ UNCHANGED onboardingVars

OnboardingSpec ==
  RequestsInit /\ OnboardingInit /\ [][OnboardingNext]_<<onboardingVars, req, failures>>

-----------------------------------------------------------------------------
OnboardingReqs ==
  {Idle} \cup [at : {"check-email", "create-school", "create-admin"}, form : Forms]

\* Every row has its columns, and every handler the form it was sent.
OnboardingTypeOK ==
  /\ schools \subseteq [slug : Slugs, license : Licenses \cup {NoLicense}]
  /\ admins \subseteq [email : Emails, school : Slugs]
  /\ req \in [Workers -> OnboardingReqs]
  /\ failures \in Nat

Launching(x) == \E w \in Workers : At(w, "create-admin") /\ req[w].form.slug = x
Orphans      == {s.slug : s \in schools} \ {a.school : a \in admins}

\* "provisions school + admin + subscription atomically" (owner.routes.ts:58), as
\* far as the code ensures it: a school is without an admin only while it is
\* being onboarded, or for a request that failed of its own, and no two requests
\* are about to make the admin of one school.
OrphansBounded ==
  /\ Cardinality({x \in Orphans : ~Launching(x)}) <= failures
  /\ \A w, v \in Workers :
       At(w, "create-admin") /\ At(v, "create-admin") /\ req[w].form.slug = req[v].form.slug
         => w = v
=============================================================================
