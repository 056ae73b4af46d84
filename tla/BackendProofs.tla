--------------------------- MODULE BackendProofs ---------------------------
(***************************************************************************)
(* Proofs about four areas of the Aman School backend -- the subscription  *)
(* of a school, onboarding, the simulated bus and the tiers of partners -- *)
(* and about the process that serves all seven: each area's own            *)
(* specification is what a behaviour of Backend with its traffic obeys, so *)
(* what is proved of an area (here, in SessionsProofs and in               *)
(* EnrolmentProofs) holds in Backend.                                      *)
(***************************************************************************)
EXTENDS Backend, SessionsProofs, EnrolmentProofs

-----------------------------------------------------------------------------
(* The subscription of a school: any number of concurrent requests, any     *)
(* calendar and any policies.                                               *)

lVars == <<lifecycleVars, req, failures>>

\* A day by which some policy's grace period has run its length.
Granted(day) == \E d \in GraceDays \cup {DefaultDays} : day >= EndsOn + d
Over         == \E d \in GraceDays \cup {DefaultDays} : today > EndsOn + d

\* What is stored, or about to be, grants at least one of the grace periods, and
\* whoever is about to cut the school off has seen one end.
GraceGranted ==
  /\ graceEnds # NoDate => Granted(graceEnds)
  /\ \A w \in Workers :
       /\ At(w, "grace-write") => Granted(req[w].until)
       /\ At(w, "cut-policy") \/ At(w, "cut-write") => Over

LifecycleInv == LifecycleTypeOK /\ GraceGranted /\ CutAfterGrace

\* The policy in force is a length from the constants and one of the two cuts.
LEMMA InForceType ==
  policy \in Policies \cup {NoPolicy} =>
    InForce.days \in GraceDays \cup {DefaultDays} /\ InForce.action \in Cuts
  BY DEF InForce, Policies, DefaultPolicy, Cuts

\* In a well-typed state it grants one of the grace periods.
LEMMA InForceGrants ==
  ASSUME LifecycleTypeOK
  PROVE  /\ EndsOn + InForce.days \in Nat /\ Granted(EndsOn + InForce.days)
         /\ InForce.action \in Cuts
<1>1. policy \in Policies \cup {NoPolicy}
  BY DEF LifecycleTypeOK
<1>2. InForce.action \in Cuts
  BY <1>1, InForceType
<1>3. PICK d \in GraceDays \cup {DefaultDays} : d = InForce.days
  BY <1>1, InForceType
<1>4. EndsOn + d \in Nat /\ EndsOn + d >= EndsOn + d
  BY LifecycleAssumption
<1> QED BY <1>2, <1>3, <1>4 DEF Granted

\* The calendar and the policies start well typed, with the school active.
LEMMA LifecycleInit0 == RequestsInit /\ LifecycleInit => LifecycleInv
  BY LifecycleAssumption, RequestsAssumption
  DEF RequestsInit, LifecycleInit, LifecycleInv, LifecycleTypeOK, LifecycleReqs,
      GraceGranted, CutAfterGrace, At, Idle

\* Every step keeps the types of rows and of handlers' locals.
LEMMA LifecycleTypeStep ==
  ASSUME LifecycleTypeOK, [LifecycleNext]_lVars
  PROVE  LifecycleTypeOK'
<1>0. EndsOn + InForce.days \in Nat /\ InForce.action \in Cuts
  BY InForceGrants
<1> USE LifecycleAssumption, RequestsAssumption DEF LifecycleTypeOK
<1>1. ASSUME NEW w \in Workers, OpenSchool(w) PROVE LifecycleTypeOK'
  BY <1>1 DEF OpenSchool, Continue, Goto, LifecycleReqs, lifecycleVars
<1>2. ASSUME NEW w \in Workers, ReadPolicy(w) PROVE LifecycleTypeOK'
  <2> QED BY <1>0, <1>2 DEF ReadPolicy, Continue, Goto, LifecycleReqs, lifecycleVars
<1>3. ASSUME NEW w \in Workers, GraceWrite(w) PROVE LifecycleTypeOK'
  <2>1. req[w].until \in Nat
    BY <1>3 DEF GraceWrite, At, LifecycleReqs, Idle
  <2> QED BY <1>3, <2>1 DEF GraceWrite, Succeed, Goto, LifecycleReqs, Idle
<1>4. ASSUME NEW w \in Workers, CutWrite(w) PROVE LifecycleTypeOK'
  <2>1. req[w].to \in Cuts
    BY <1>4 DEF CutWrite, At, LifecycleReqs, Idle
  <2> QED BY <1>4, <2>1 DEF CutWrite, Succeed, Goto, LifecycleReqs, Idle
<1>5. ASSUME NEW w \in Workers, PolicyWrite(w) PROVE LifecycleTypeOK'
  <2>1. req[w].policy \in Policies
    BY <1>5 DEF PolicyWrite, At, LifecycleReqs, Idle
  <2> QED BY <1>5, <2>1 DEF PolicyWrite, Succeed, Goto, LifecycleReqs, Idle, schoolVars
<1>6. ASSUME NEW w \in Workers, NEW p \in Policies, SavePolicy(w, p) PROVE LifecycleTypeOK'
  BY <1>6 DEF SavePolicy, Continue, Goto, LifecycleReqs, lifecycleVars
<1>7. ASSUME NEW w \in Workers, Crash(w), UNCHANGED lifecycleVars PROVE LifecycleTypeOK'
  BY <1>7 DEF Crash, Fail, Goto, LifecycleReqs, lifecycleVars
<1>8. ASSUME NEW s \in {"active", "suspended"}, SetStatus(s) PROVE LifecycleTypeOK'
  BY <1>8 DEF SetStatus, Cuts
<1>9. ASSUME SaveSettings \/ NextDay \/ UNCHANGED lVars PROVE LifecycleTypeOK'
  BY <1>9 DEF SaveSettings, NextDay, schoolVars, lVars, lifecycleVars
<1> QED BY <1>1, <1>2, <1>3, <1>4, <1>5, <1>6, <1>7, <1>8, <1>9
    DEF LifecycleNext, LifecycleStep, ServeLifecycle

\* No step stores a date that grants less, cuts early or turns the clock back.
LEMMA LifecycleStepInv ==
  ASSUME LifecycleInv, [LifecycleNext]_lVars
  PROVE  LifecycleInv'
<1> USE LifecycleAssumption, RequestsAssumption
<1>0. LifecycleTypeOK /\ LifecycleTypeOK' /\ GraceGranted /\ CutAfterGrace
  BY LifecycleTypeStep DEF LifecycleInv
<1>a. today' = today \/ today' = today + 1
  BY DEF LifecycleNext, LifecycleStep, ServeLifecycle, OpenSchool, ReadPolicy, GraceWrite,
     CutWrite, PolicyWrite, SavePolicy, SetStatus, SaveSettings, NextDay, lVars,
     lifecycleVars, schoolVars
<1>t. today \in Nat /\ (Over => Over') /\ \A w \in Workers : req[w] \in LifecycleReqs
  BY <1>0, <1>a DEF LifecycleTypeOK, Over
<1> SUFFICES (GraceGranted /\ CutAfterGrace)'
  BY <1>0 DEF LifecycleInv
<1>1. ASSUME NEW w \in Workers, OpenSchool(w) PROVE (GraceGranted /\ CutAfterGrace)'
  <2>1. GraceOver => Over
    <3> SUFFICES ASSUME GraceOver PROVE Over
      OBVIOUS
    <3>1. PICK d \in GraceDays \cup {DefaultDays} : graceEnds >= EndsOn + d
      <4>1. graceEnds # NoDate
        BY DEF GraceOver
      <4> QED BY <1>0, <4>1, Zenon DEF GraceGranted, Granted
    <3>2. graceEnds \in Nat /\ d \in Nat /\ today > graceEnds
      BY <1>0 DEF GraceOver, LifecycleTypeOK
    <3> QED BY <3>1, <3>2, <1>t DEF Over
  <2>2. \A v \in Workers : \/ req'[v] = req[v]
                            \/ req'[v] = [at |-> "grace-policy"]
                            \/ (req'[v] = [at |-> "cut-policy"] /\ Over)
    <3>1. \/ req' = [req EXCEPT ![w] = [at |-> "grace-policy"]]
          \/ (req' = [req EXCEPT ![w] = [at |-> "cut-policy"]] /\ Over)
      BY <1>1, <2>1 DEF OpenSchool, Continue, Goto
    <3>2. req \in [Workers -> LifecycleReqs]
      BY <1>0 DEF LifecycleTypeOK
    <3>3. CASE req' = [req EXCEPT ![w] = [at |-> "grace-policy"]]
      BY <3>2, <3>3
    <3>4. CASE req' = [req EXCEPT ![w] = [at |-> "cut-policy"]] /\ Over
      BY <3>2, <3>4
    <3> QED BY <3>1, <3>3, <3>4
  <2>3. UNCHANGED lifecycleVars /\ (Over => Over')
    BY <1>1 DEF OpenSchool, Over, lifecycleVars
  <2>4. CutAfterGrace'
    BY <1>0, <2>3 DEF CutAfterGrace, lifecycleVars
  <2>5. (graceEnds # NoDate => Granted(graceEnds))'
    BY <1>0, <2>3 DEF GraceGranted, Granted, lifecycleVars
  <2>6. ASSUME NEW v \in Workers
        PROVE  /\ (At(v, "grace-write") => Granted(req[v].until))'
               /\ (At(v, "cut-policy") \/ At(v, "cut-write") => Over)'
    <3>1. CASE req'[v] = req[v]
      BY <1>0, <2>3, <3>1 DEF GraceGranted, At, Granted, lifecycleVars
    <3>2. CASE req'[v] = [at |-> "grace-policy"]
      BY <3>2 DEF At
    <3>3. CASE req'[v] = [at |-> "cut-policy"] /\ Over
      BY <2>3, <3>3 DEF At
    <3> QED BY <2>2, <3>1, <3>2, <3>3
  <2> QED BY <2>4, <2>5, <2>6 DEF GraceGranted
<1>2. ASSUME NEW w \in Workers, ReadPolicy(w) PROVE (GraceGranted /\ CutAfterGrace)'
  <2>1. Granted(EndsOn + InForce.days)
    BY <1>0, InForceGrants
  <2>2. req'[w].at = "grace-write" => Granted(req'[w].until)
    BY <1>0, <1>2, <2>1 DEF ReadPolicy, Continue, Goto, LifecycleTypeOK
  <2>3. req'[w].at = "cut-write" => Over
    BY <1>0, <1>2 DEF ReadPolicy, Continue, Goto, LifecycleTypeOK, GraceGranted, At
  <2> QED BY <1>0, <1>2, <1>t, <2>2, <2>3
    DEF ReadPolicy, Continue, Goto, At, GraceGranted, CutAfterGrace, Over, Granted,
        LifecycleTypeOK, lifecycleVars
<1>3. ASSUME NEW w \in Workers, GraceWrite(w) PROVE (GraceGranted /\ CutAfterGrace)'
  BY <1>0, <1>3, <1>t
  DEF GraceWrite, Succeed, Goto, At, Idle, GraceGranted, CutAfterGrace, Over, Granted,
      LifecycleTypeOK
<1>4. ASSUME NEW w \in Workers, CutWrite(w) PROVE (GraceGranted /\ CutAfterGrace)'
  BY <1>0, <1>4, <1>t
  DEF CutWrite, Succeed, Goto, At, Idle, GraceGranted, CutAfterGrace, Over, Granted,
      LifecycleTypeOK
<1>5. ASSUME NEW w \in Workers, PolicyWrite(w) PROVE (GraceGranted /\ CutAfterGrace)'
  BY <1>0, <1>5, <1>t
  DEF PolicyWrite, Succeed, Goto, At, Idle, GraceGranted, CutAfterGrace, Over, Granted,
      LifecycleTypeOK, schoolVars
<1>6. ASSUME NEW w \in Workers, NEW p \in Policies, SavePolicy(w, p)
      PROVE  (GraceGranted /\ CutAfterGrace)'
  BY <1>0, <1>6, <1>t
  DEF SavePolicy, Continue, Goto, At, GraceGranted, CutAfterGrace, Over, Granted,
      LifecycleTypeOK, lifecycleVars
<1>7. ASSUME NEW w \in Workers, Crash(w), UNCHANGED lifecycleVars
      PROVE  (GraceGranted /\ CutAfterGrace)'
  BY <1>0, <1>7, <1>t
  DEF Crash, Fail, Goto, At, Idle, GraceGranted, CutAfterGrace, Over, Granted,
      LifecycleTypeOK, lifecycleVars
<1>8. ASSUME NEW s \in {"active", "suspended"}, SetStatus(s)
      PROVE  (GraceGranted /\ CutAfterGrace)'
  BY <1>0, <1>8, <1>t DEF SetStatus, At, GraceGranted, CutAfterGrace, Over, Granted
<1>9. ASSUME SaveSettings \/ NextDay \/ UNCHANGED lVars
      PROVE  (GraceGranted /\ CutAfterGrace)'
  BY <1>0, <1>9, <1>t
  DEF SaveSettings, NextDay, At, GraceGranted, CutAfterGrace, Over, Granted, schoolVars,
      lVars, lifecycleVars, LifecycleTypeOK
<1> QED BY <1>1, <1>2, <1>3, <1>4, <1>5, <1>6, <1>7, <1>8, <1>9
    DEF LifecycleNext, LifecycleStep, ServeLifecycle

\* The inductive invariant of the school's subscription.
THEOREM LifecycleInductive == LifecycleSpec => []LifecycleInv
  BY LifecycleInit0, LifecycleStepInv, PTL DEF LifecycleSpec, lVars

\* A school is restricted only after its subscription and a whole grace period,
\* whatever stale reads, renewals and edits of the policy overlap
\* (schools.routes.ts:31 and 38).
THEOREM CutsAreDue == LifecycleSpec => [](LifecycleTypeOK /\ CutAfterGrace)
  BY LifecycleInductive, PTL DEF LifecycleInv

-----------------------------------------------------------------------------
oVars == <<onboardingVars, req, failures>>

\* A request makes the admin of a school that it has created.
SchoolFirst == \A w \in Workers : At(w, "create-admin") => SlugTaken(req[w].form.slug)

\* The schools whose admin no request is about to make.
Forsaken == {x \in Orphans : ~Launching(x)}

OnboardingInv == OnboardingTypeOK /\ SchoolFirst /\ OrphansBounded

\* The four ways in which a step replaces the request of w by r.
BusyElsewhere(w, r) ==
  /\ ~At(w, "create-admin") /\ r.at # "create-admin"
  /\ UNCHANGED onboardingVars /\ failures' \in {failures, failures + 1}
Founds(w, r) ==
  /\ At(w, "create-school") /\ r = [at |-> "create-admin", form |-> req[w].form]
  /\ ~SlugTaken(req[w].form.slug)
  /\ \E l \in Licenses \cup {NoLicense} :
       schools' = schools \cup {[slug |-> req[w].form.slug, license |-> l]}
  /\ UNCHANGED <<admins, failures>>
Staffs(w, r) ==
  /\ At(w, "create-admin") /\ r = Idle
  /\ admins' = admins \cup {[email |-> req[w].form.email, school |-> req[w].form.slug]}
  /\ UNCHANGED <<schools, failures>>
GivesUp(w, r) ==
  /\ At(w, "create-admin") /\ r = Idle
  /\ UNCHANGED onboardingVars /\ failures' = failures + 1

Replaces(w, r) ==
  /\ req' = [req EXCEPT ![w] = r]
  /\ BusyElsewhere(w, r) \/ Founds(w, r) \/ Staffs(w, r) \/ GivesUp(w, r)

\* Every step is one of these.
LEMMA OnboardingMoves ==
  ASSUME OnboardingTypeOK, [OnboardingNext]_oVars
  PROVE  UNCHANGED oVars \/ \E w \in Workers, r \in OnboardingReqs : Replaces(w, r)
<1>0. Idle \in OnboardingReqs /\ Idle.at # "create-admin"
      /\ \A w \in Workers : req[w] \in OnboardingReqs
  BY DEF OnboardingTypeOK, OnboardingReqs, Idle
<1>1. ASSUME NEW w \in Workers, NEW form \in Forms, Onboard(w, form) \/ RegisterSchool(w, form)
      PROVE  \E r \in OnboardingReqs : Replaces(w, r)
  <2>1. \/ req' = [req EXCEPT ![w] = [at |-> "check-email", form |-> form]]
        \/ req' = [req EXCEPT ![w] = [at |-> "create-school", form |-> form]]
    BY <1>1 DEF Onboard, RegisterSchool, Continue, Goto
  <2>2. ~At(w, "create-admin") /\ UNCHANGED <<onboardingVars, failures>>
    BY <1>1 DEF Onboard, RegisterSchool, Continue, Free, At, Idle
  <2>3. ASSUME NEW s \in {"check-email", "create-school"},
               req' = [req EXCEPT ![w] = [at |-> s, form |-> form]]
        PROVE  Replaces(w, [at |-> s, form |-> form])
    BY <2>2, <2>3 DEF Replaces, BusyElsewhere, onboardingVars
  <2>4. \A s \in {"check-email", "create-school"} : [at |-> s, form |-> form] \in OnboardingReqs
    BY DEF OnboardingReqs
  <2> QED BY <2>1, <2>3, <2>4
<1>2. ASSUME NEW w \in Workers, CheckEmail(w)
      PROVE  \E r \in OnboardingReqs : Replaces(w, r)
  <2>1. req[w].form \in Forms
    BY <1>0, <1>2 DEF CheckEmail, At, OnboardingReqs, Idle
  <2>2. \/ req' = [req EXCEPT ![w] = Idle]
        \/ req' = [req EXCEPT ![w] = [at |-> "create-school", form |-> req[w].form]]
    BY <1>2 DEF CheckEmail, Refuse, Succeed, Continue, Goto
  <2>3. ~At(w, "create-admin") /\ UNCHANGED <<onboardingVars, failures>>
    BY <1>2 DEF CheckEmail, Refuse, Succeed, Continue, At
  <2> DEFINE r == [at |-> "create-school", form |-> req[w].form]
  <2>4. r \in OnboardingReqs /\ r.at # "create-admin"
    BY <2>1 DEF OnboardingReqs
  <2>5. Replaces(w, Idle) \/ Replaces(w, r)
    BY <1>0, <2>2, <2>3, <2>4 DEF Replaces, BusyElsewhere, onboardingVars
  <2> QED BY <1>0, <2>4, <2>5
<1>3. ASSUME NEW w \in Workers, CreateSchool(w)
      PROVE  \E r \in OnboardingReqs : Replaces(w, r)
  <2>1. req[w].form \in Forms /\ At(w, "create-school") /\ ~At(w, "create-admin")
    BY <1>0, <1>3 DEF CreateSchool, At, OnboardingReqs, Idle
  <2>2. CASE Refuse(w)
    BY <2>1, <2>2, <1>0 DEF Refuse, Succeed, Goto, Replaces, BusyElsewhere
  <2>3. CASE ~Refuse(w)
    <3> DEFINE r == [at |-> "create-admin", form |-> req[w].form]
    <3>1. /\ ~SlugTaken(req[w].form.slug) /\ req' = [req EXCEPT ![w] = r]
          /\ schools' = schools \cup
               {[slug |-> req[w].form.slug, license |-> req[w].form.license]}
          /\ UNCHANGED <<admins, failures>>
      BY <1>3, <2>3 DEF CreateSchool, Continue, Goto
    <3>2. r \in OnboardingReqs /\ req[w].form.license \in Licenses \cup {NoLicense}
      BY <2>1 DEF OnboardingReqs, Forms
    <3> QED BY <3>1, <3>2, <2>1 DEF Replaces, Founds
  <2> QED BY <2>2, <2>3
<1>4. ASSUME NEW w \in Workers, CreateAdmin(w)
      PROVE  \E r \in OnboardingReqs : Replaces(w, r)
  <2>1. Replaces(w, Idle)
    BY <1>4 DEF CreateAdmin, Fail, Succeed, Goto, Replaces, Staffs, GivesUp, onboardingVars
  <2> QED BY <2>1, <1>0
<1>5. ASSUME NEW w \in Workers, Crash(w), UNCHANGED onboardingVars
      PROVE  \E r \in OnboardingReqs : Replaces(w, r)
  <2>1. Replaces(w, Idle)
    BY <1>0, <1>5 DEF Crash, Fail, Goto, Replaces, GivesUp, BusyElsewhere
  <2> QED BY <2>1, <1>0
<1> QED
  BY <1>1, <1>2, <1>3, <1>4, <1>5 DEF OnboardingNext, ServeOnboarding

\* Rows and requests keep their types.
LEMMA OnboardingTypeStep ==
  ASSUME OnboardingTypeOK, [OnboardingNext]_oVars
  PROVE  OnboardingTypeOK'
<1>1. CASE UNCHANGED oVars
  BY <1>1 DEF OnboardingTypeOK, oVars, onboardingVars
<1>2. ASSUME NEW w \in Workers, NEW r \in OnboardingReqs, Replaces(w, r)
      PROVE  OnboardingTypeOK'
  <2>1. At(w, "create-school") \/ At(w, "create-admin") => req[w].form \in Forms
    BY DEF OnboardingTypeOK, OnboardingReqs, At, Idle
  <2>2. req' \in [Workers -> OnboardingReqs] /\ failures' \in Nat
    BY <1>2 DEF Replaces, OnboardingTypeOK, BusyElsewhere, Founds, Staffs, GivesUp
  <2>3. schools' \subseteq [slug : Slugs, license : Licenses \cup {NoLicense}]
    BY <1>2, <2>1 DEF Replaces, OnboardingTypeOK, BusyElsewhere, Founds, Staffs, GivesUp,
       onboardingVars, Forms
  <2>4. admins' \subseteq [email : Emails, school : Slugs]
    BY <1>2, <2>1 DEF Replaces, OnboardingTypeOK, BusyElsewhere, Founds, Staffs, GivesUp,
       onboardingVars, Forms
  <2> QED BY <2>2, <2>3, <2>4 DEF OnboardingTypeOK
<1> QED BY <1>1, <1>2, OnboardingMoves

\* A school appears with the request that makes its admin, which is then the only one.
LEMMA SchoolFirstStep ==
  ASSUME OnboardingTypeOK, SchoolFirst, OrphansBounded, [OnboardingNext]_oVars
  PROVE  /\ SchoolFirst'
         /\ \A w, v \in Workers :
              (At(w, "create-admin") /\ At(v, "create-admin")
                 /\ req[w].form.slug = req[v].form.slug)' => w = v
<1>1. CASE UNCHANGED oVars
  BY <1>1 DEF SchoolFirst, OrphansBounded, At, SlugTaken, oVars, onboardingVars
<1>2. ASSUME NEW u \in Workers, NEW r \in OnboardingReqs, Replaces(u, r)
      PROVE  /\ SchoolFirst'
             /\ \A w, v \in Workers :
                  (At(w, "create-admin") /\ At(v, "create-admin")
                     /\ req[w].form.slug = req[v].form.slug)' => w = v
  <2>1. \A w \in Workers : req'[w] = IF w = u THEN r ELSE req[w]
    BY <1>2 DEF Replaces, OnboardingTypeOK
  <2>2. \A x : SlugTaken(x) => SlugTaken(x)'
    BY <1>2 DEF Replaces, BusyElsewhere, Founds, Staffs, GivesUp, SlugTaken, onboardingVars
  <2>3. r.at = "create-admin" => Founds(u, r)
    BY <1>2 DEF Replaces, BusyElsewhere, Staffs, GivesUp, Idle
  <2>4. ASSUME NEW x, Founds(u, r), x = r.form.slug
        PROVE  ~SlugTaken(x) /\ SlugTaken(x)'
    <3>1. x = req[u].form.slug
      BY <2>4 DEF Founds
    <3>2. PICK l : schools' = schools \cup {[slug |-> x, license |-> l]}
      BY <2>4, <3>1 DEF Founds
    <3>3. [slug |-> x, license |-> l].slug = x
      OBVIOUS
    <3> QED BY <2>4, <3>1, <3>2, <3>3 DEF Founds, SlugTaken
  <2>5. SchoolFirst'
    BY <2>1, <2>2, <2>3, <2>4 DEF SchoolFirst, At
  <2>6. ASSUME NEW w \in Workers, NEW v \in Workers, w # v,
               At(w, "create-admin")', At(v, "create-admin")',
               (req[w].form.slug = req[v].form.slug)'
        PROVE  FALSE
    <3>1. CASE w = u
      BY <3>1, <2>1, <2>3, <2>4, <2>6 DEF SchoolFirst, At
    <3>2. CASE v = u
      BY <3>2, <2>1, <2>3, <2>4, <2>6 DEF SchoolFirst, At
    <3>3. CASE w # u /\ v # u
      BY <3>3, <2>1, <2>6 DEF OrphansBounded, At
    <3> QED BY <3>1, <3>2, <3>3
  <2> QED BY <2>5, <2>6
<1> QED BY <1>1, <1>2, OnboardingMoves

\* A step forsakes a school only if it fails, and then one.
LEMMA ForsakenStep ==
  ASSUME OnboardingTypeOK, [OnboardingNext]_oVars
  PROVE  \/ Forsaken' \subseteq Forsaken /\ failures' \in {failures, failures + 1}
         \/ (\E x : Forsaken' \subseteq Forsaken \cup {x}) /\ failures' = failures + 1
<1>1. CASE UNCHANGED oVars
  <2>1. Forsaken' = Forsaken /\ failures' = failures
    BY <1>1 DEF Forsaken, Orphans, Launching, At, oVars, onboardingVars
  <2> QED BY <2>1
<1>2. ASSUME NEW u \in Workers, NEW r \in OnboardingReqs, Replaces(u, r)
      PROVE  \/ Forsaken' \subseteq Forsaken /\ failures' \in {failures, failures + 1}
             \/ (\E x : Forsaken' \subseteq Forsaken \cup {x}) /\ failures' = failures + 1
  <2>1. \A w \in Workers : req'[w] = IF w = u THEN r ELSE req[w]
    BY <1>2 DEF Replaces, OnboardingTypeOK
  <2>2. ASSUME NEW x PROVE Launching(x) =>
                             Launching(x)' \/ (At(u, "create-admin") /\ x = req[u].form.slug)
    BY <2>1 DEF Launching, At
  <2>3. CASE BusyElsewhere(u, r)
    <3>1. Orphans' = Orphans
      BY <2>3 DEF BusyElsewhere, Orphans, onboardingVars
    <3> QED BY <2>2, <2>3, <3>1 DEF BusyElsewhere, Forsaken
  <2>4. CASE Founds(u, r)
    <3>1. \A x \in Orphans' : x \in Orphans \/ x = req[u].form.slug
      BY <2>4 DEF Founds, Orphans
    <3>2. ~At(u, "create-admin") /\ \A x : x = req[u].form.slug => Launching(x)'
      BY <2>1, <2>4 DEF Founds, Launching, At
    <3>3. Forsaken' \subseteq Forsaken
      BY <2>2, <3>1, <3>2 DEF Forsaken
    <3> QED BY <2>4, <3>3 DEF Founds
  <2>5. CASE Staffs(u, r)
    <3> DEFINE a == [email |-> req[u].form.email, school |-> req[u].form.slug]
    <3>1. schools' = schools /\ admins' = admins \cup {a} /\ a.school = req[u].form.slug
      BY <2>5 DEF Staffs
    <3>2. {b.school : b \in admins'} = {b.school : b \in admins} \cup {a.school}
      BY <3>1
    <3>3. Orphans' = Orphans \ {req[u].form.slug}
      BY <3>1, <3>2 DEF Orphans
    <3>4. Forsaken' \subseteq Forsaken
      BY <2>2, <3>3 DEF Forsaken
    <3> QED BY <2>5, <3>4 DEF Staffs
  <2>6. CASE GivesUp(u, r)
    <3>1. Orphans' = Orphans
      BY <2>6 DEF GivesUp, Orphans, onboardingVars
    <3>2. Forsaken' \subseteq Forsaken \cup {req[u].form.slug}
      BY <2>2, <3>1 DEF Forsaken
    <3> QED BY <2>6, <3>2 DEF GivesUp
  <2> QED BY <1>2, <2>3, <2>4, <2>5, <2>6 DEF Replaces
<1> QED BY <1>1, <1>2, OnboardingMoves

\* The invariant of onboarding is inductive.
LEMMA OnboardingStepInv ==
  ASSUME OnboardingInv, [OnboardingNext]_oVars
  PROVE  OnboardingInv'
<1>1. OnboardingTypeOK /\ OnboardingTypeOK' /\ SchoolFirst /\ OrphansBounded
  BY OnboardingTypeStep DEF OnboardingInv
<1>2. /\ SchoolFirst'
      /\ \A w, v \in Workers :
           (At(w, "create-admin") /\ At(v, "create-admin")
              /\ req[w].form.slug = req[v].form.slug)' => w = v
  BY <1>1, SchoolFirstStep
<1>3. Forsaken \subseteq Slugs /\ IsFiniteSet(Forsaken) /\ Cardinality(Forsaken) \in Nat
  <2>1. Forsaken \subseteq Slugs
    BY <1>1 DEF Forsaken, Orphans, OnboardingTypeOK
  <2> QED BY <2>1, OnboardingAssumption, FS_Subset, FS_CardinalityType
<1>4. Cardinality(Forsaken) <= failures /\ failures \in Nat
  BY <1>1 DEF OrphansBounded, Forsaken, OnboardingTypeOK
<1>5. Cardinality(Forsaken') <= failures'
  <2>1. CASE Forsaken' \subseteq Forsaken /\ failures' \in {failures, failures + 1}
    <3>1. Cardinality(Forsaken') <= Cardinality(Forsaken) /\ Cardinality(Forsaken') \in Nat
      BY <1>3, <2>1, FS_Subset, FS_CardinalityType
    <3> QED BY <1>3, <1>4, <2>1, <3>1
  <2>2. ASSUME NEW x, Forsaken' \subseteq Forsaken \cup {x}, failures' = failures + 1
        PROVE  Cardinality(Forsaken') <= failures'
    <3>1. /\ IsFiniteSet(Forsaken \cup {x})
          /\ Cardinality(Forsaken \cup {x}) <= Cardinality(Forsaken) + 1
          /\ Cardinality(Forsaken \cup {x}) \in Nat
      BY <1>3, FS_AddElement, FS_CardinalityType
    <3>2. Cardinality(Forsaken') <= Cardinality(Forsaken \cup {x})
          /\ Cardinality(Forsaken') \in Nat
      BY <2>2, <3>1, FS_Subset, FS_CardinalityType
    <3> QED BY <1>3, <1>4, <2>2, <3>1, <3>2
  <2> QED BY <1>1, <2>1, <2>2, ForsakenStep
<1>6. OrphansBounded'
  BY <1>2, <1>5 DEF OrphansBounded, Forsaken
<1> QED BY <1>1, <1>2, <1>6 DEF OnboardingInv

\* It holds in every reachable state: types, and a school before its admin.
THEOREM OnboardingInductive == OnboardingSpec => []OnboardingInv
<1>1. RequestsInit /\ OnboardingInit => OnboardingInv
  <2> SUFFICES ASSUME RequestsInit, OnboardingInit PROVE OnboardingInv
    OBVIOUS
  <2>1. OnboardingTypeOK /\ \A w \in Workers : req[w] = Idle
    BY DEF RequestsInit, OnboardingInit, OnboardingTypeOK, OnboardingReqs
  <2>2. {x \in Orphans : ~Launching(x)} = {}
    BY DEF OnboardingInit, Orphans
  <2>3. OrphansBounded
    BY <2>1, <2>2, FS_EmptySet DEF OrphansBounded, RequestsInit, At, Idle
  <2> QED BY <2>1, <2>3 DEF OnboardingInv, SchoolFirst, At, Idle
<1>2. OnboardingInv /\ [OnboardingNext]_oVars => OnboardingInv'
  BY OnboardingStepInv
<1> QED BY <1>1, <1>2, PTL DEF OnboardingSpec, oVars

\* owner.routes.ts:58: schools without an admin never outnumber the requests that
\* failed, but for those whose admin is about to be inserted.
THEOREM OrphansByFailure == OnboardingSpec => []OrphansBounded
<1>1. OnboardingInv => OrphansBounded
  BY DEF OnboardingInv
<1> QED BY <1>1, OnboardingInductive, PTL

-----------------------------------------------------------------------------
(* The simulated bus: any number of overlapping ticks, any route and any    *)
(* number of reports at once.                                               *)

tVars == <<trackingVars, req, failures>>

\* The ticks that have passed the check and have not written the bus yet.
Movers == {t \in Ticks : tick[t].at = "move"}

\* While the phone is heard, no tick joins the movers, and each of them
\* overwrites once.
PastTheCheck == fresh => overwritten + Cardinality(Movers) <= Cardinality(Ticks)

TrackingInv == TrackingTypeOK /\ PastTheCheck

\* The arithmetic of a move stays within the route and the leg.
LEMMA MoveType ==
  ASSUME NEW r, r.index \in Nat, r.from \in Positions
  PROVE  Move(r) \in [at : {"move"}, to : Positions, advance : BOOLEAN, index : Nat]
<1> DEFINE index == IF r.index <= Stops - 2 THEN r.index ELSE Stops - 2
           left  == TicksTo(r.from, index + 1)
           there == left <= 1
<1>1. index \in Nat /\ index + 1 \in Nat
  BY TrackingAssumption
<1>2. left \in 0..Leg
  BY TrackingAssumption DEF TicksTo, Positions
<1>3. (IF there THEN 0 ELSE left - 1) \in 0..Leg
  BY <1>2, TrackingAssumption
<1>4. Toward(index + 1, IF there THEN 0 ELSE left - 1) \in Positions
  BY <1>1, <1>3 DEF Toward, Positions
<1> HIDE DEF index, left, there
<1>5. Move(r) = [at |-> "move", to |-> Toward(index + 1, IF there THEN 0 ELSE left - 1),
                 advance |-> (there /\ index < Stops - 2), index |-> index + 1]
  BY DEF Move, index, left, there
<1> QED BY <1>1, <1>4, <1>5 DEF there

\* The sets of ticks are finite.
LEMMA TicksFinite ==
  ASSUME NEW S, S \subseteq Ticks
  PROVE  IsFiniteSet(S) /\ Cardinality(S) \in Nat /\ Cardinality(S) <= Cardinality(Ticks)
                        /\ Cardinality(Ticks) \in Nat
  BY TrackingAssumption, FS_Subset, FS_CardinalityType

LEMMA TrackingInit0 == RequestsInit /\ TrackingInit => TrackingInv
<1> SUFFICES ASSUME RequestsInit, TrackingInit PROVE TrackingInv
  OBVIOUS
<1>1. Elsewhere \in Positions
  BY TrackingAssumption DEF Elsewhere, Toward, Positions
<1> QED BY <1>1, RequestsAssumption
    DEF RequestsInit, TrackingInit, TrackingInv, TrackingTypeOK, PastTheCheck, TickStates, Idle

\* Every step keeps the types of the rows, of the ticks and of the requests.
LEMMA TrackingTypeStep ==
  ASSUME TrackingTypeOK, [TrackingNext]_tVars
  PROVE  TrackingTypeOK'
<1> USE TrackingAssumption, RequestsAssumption
<1>0. Elsewhere \in Positions /\ Idle \in TickStates
  BY DEF Elsewhere, Toward, Positions, TickStates
<1>1. ASSUME NEW t \in Ticks, TickRead(t) PROVE TrackingTypeOK'
  <2>1. [at |-> "decide", index |-> simStopIndex, from |-> position] \in TickStates
    BY DEF TrackingTypeOK, TickStates
  <2> QED BY <1>1, <2>1 DEF TickRead, TickGoto, busVars, TrackingTypeOK
<1>2. ASSUME NEW t \in Ticks, TickDecide(t) PROVE TrackingTypeOK'
  <2>1. tick[t].index \in Nat /\ tick[t].from \in Positions
    BY <1>2 DEF TickDecide, TrackingTypeOK, TickStates, Idle
  <2>2. Move(tick[t]) \in TickStates
    BY <2>1, MoveType DEF TickStates
  <2> QED BY <1>0, <1>2, <2>2 DEF TickDecide, TickGoto, busVars, TrackingTypeOK
<1>3. ASSUME NEW t \in Ticks, TickMove(t) PROVE TrackingTypeOK'
  <2>1. tick[t].index \in Nat /\ tick[t].to \in Positions
    BY <1>3 DEF TickMove, TrackingTypeOK, TickStates, Idle
  <2>2. [at |-> "advance", index |-> tick[t].index] \in TickStates
    BY <2>1 DEF TickStates
  <2> QED BY <1>0, <1>3, <2>1, <2>2 DEF TickMove, TickGoto, TrackingTypeOK
<1>4. ASSUME NEW t \in Ticks, TickAdvance(t) PROVE TrackingTypeOK'
  <2>1. tick[t].index \in Nat
    BY <1>4 DEF TickAdvance, TrackingTypeOK, TickStates, Idle
  <2> QED BY <1>0, <1>4, <2>1 DEF TickAdvance, TickGoto, TrackingTypeOK
<1>5. ASSUME NEW t \in Ticks, TickFail(t) PROVE TrackingTypeOK'
  BY <1>0, <1>5 DEF TickFail, TickGoto, busVars, TrackingTypeOK
<1>6. ASSUME NEW w \in Workers, Report(w) PROVE TrackingTypeOK'
  BY <1>6 DEF Report, Continue, Goto, trackingVars, TrackingTypeOK
<1>7. ASSUME NEW w \in Workers, ReportWrite(w) PROVE TrackingTypeOK'
  BY <1>0, <1>7 DEF ReportWrite, Continue, Goto, TrackingTypeOK
<1>8. ASSUME NEW w \in Workers, ReportMark(w) PROVE TrackingTypeOK'
  BY <1>8 DEF ReportMark, Succeed, Goto, TrackingTypeOK
<1>9. ASSUME NEW w \in Workers, Crash(w), UNCHANGED trackingVars PROVE TrackingTypeOK'
  BY <1>9 DEF Crash, Fail, Goto, trackingVars, TrackingTypeOK
<1>10. ASSUME Stale PROVE TrackingTypeOK'
  BY <1>10 DEF Stale, TrackingTypeOK
<1>11. ASSUME StartTrip \/ EndTrip PROVE TrackingTypeOK'
  BY <1>11 DEF StartTrip, EndTrip, busVars, TrackingTypeOK
<1>12. ASSUME Restart PROVE TrackingTypeOK'
  BY <1>0, <1>12 DEF Restart, TrackingTypeOK
<1>13. ASSUME UNCHANGED tVars PROVE TrackingTypeOK'
  BY <1>13 DEF tVars, trackingVars, TrackingTypeOK
<1> QED BY <1>1, <1>2, <1>3, <1>4, <1>5, <1>6, <1>7, <1>8, <1>9, <1>10, <1>11, <1>12,
       <1>13
    DEF TrackingNext, TrackingTick, ServeReport

\* Only a tick whose check found no mark becomes a mover, and a mover overwrites
\* when it leaves.
LEMMA PastTheCheckStep ==
  ASSUME TrackingTypeOK, PastTheCheck, [TrackingNext]_tVars
  PROVE  PastTheCheck'
<1> USE TrackingAssumption
<1>0. tick \in [Ticks -> TickStates] /\ overwritten \in Nat /\ Movers \subseteq Ticks
  BY DEF TrackingTypeOK, Movers
<1>1. ASSUME NEW t \in Ticks, TickRead(t) PROVE PastTheCheck'
  <2>1. Movers' = Movers
    BY <1>0, <1>1 DEF TickRead, TickGoto, Movers, Idle
  <2> QED BY <1>1, <2>1 DEF TickRead, PastTheCheck, busVars
<1>2. ASSUME NEW t \in Ticks, TickDecide(t) PROVE PastTheCheck'
  <2>1. CASE ~fresh
    BY <1>2, <2>1 DEF TickDecide, PastTheCheck
  <2>2. CASE fresh
    <3>1. Movers' = Movers
      BY <1>0, <1>2, <2>2 DEF TickDecide, TickGoto, Movers, Idle
    <3> QED BY <1>2, <3>1 DEF TickDecide, PastTheCheck, busVars
  <2> QED BY <2>1, <2>2
<1>3. ASSUME NEW t \in Ticks, TickMove(t) PROVE PastTheCheck'
  <2>1. t \in Movers /\ Movers' = Movers \ {t}
    BY <1>0, <1>3 DEF TickMove, TickGoto, Movers, Idle
  <2>2. Cardinality(Movers') = Cardinality(Movers) - 1 /\ Cardinality(Movers) \in Nat
        /\ Cardinality(Ticks) \in Nat
    BY <1>0, <2>1, TicksFinite, FS_RemoveElement
  <2> QED BY <1>0, <1>3, <2>2 DEF TickMove, PastTheCheck
<1>4. ASSUME NEW t \in Ticks, TickAdvance(t) \/ TickFail(t) PROVE PastTheCheck'
  <2>1. Movers' \subseteq Movers
    BY <1>0, <1>4 DEF TickAdvance, TickFail, TickGoto, Movers, Idle
  <2>2. /\ Cardinality(Movers') <= Cardinality(Movers)
        /\ Cardinality(Movers') \in Nat /\ Cardinality(Movers) \in Nat
        /\ Cardinality(Ticks) \in Nat
    BY <1>0, <2>1, TicksFinite, FS_Subset
  <2>3. UNCHANGED <<fresh, overwritten>>
    BY <1>4 DEF TickAdvance, TickFail, busVars
  <2> QED BY <1>0, <2>2, <2>3 DEF PastTheCheck
<1>5. ASSUME NEW w \in Workers, ReportMark(w) PROVE PastTheCheck'
  <2>1. overwritten' = 0 /\ Movers' = Movers
    BY <1>5 DEF ReportMark, Movers
  <2> QED BY <1>0, <2>1, TicksFinite DEF PastTheCheck
<1>6. ASSUME UNCHANGED <<fresh, overwritten, tick>> PROVE PastTheCheck'
  BY <1>6 DEF PastTheCheck, Movers
<1>7. ASSUME Stale \/ Restart PROVE PastTheCheck'
  BY <1>7 DEF Stale, Restart, PastTheCheck
<1>8. ASSUME NEW w \in Workers,
             Report(w) \/ ReportWrite(w) \/ (Crash(w) /\ UNCHANGED trackingVars)
      PROVE  PastTheCheck'
  BY <1>6, <1>8 DEF Report, ReportWrite, trackingVars
<1>9. ASSUME StartTrip \/ EndTrip \/ UNCHANGED tVars PROVE PastTheCheck'
  BY <1>6, <1>9 DEF StartTrip, EndTrip, tVars, trackingVars, busVars
<1> QED BY <1>1, <1>2, <1>3, <1>4, <1>5, <1>7, <1>8, <1>9
    DEF TrackingNext, TrackingTick, ServeReport

\* The inductive invariant of live tracking.
THEOREM TrackingInductive == TrackingSpec => []TrackingInv
<1>1. TrackingInv /\ [TrackingNext]_tVars => TrackingInv'
  BY TrackingTypeStep, PastTheCheckStep DEF TrackingInv
<1> QED BY <1>1, TrackingInit0, PTL DEF TrackingSpec, tVars

\* After a report was marked and until the mark is stale, at most one simulated
\* position per tick is written over it (simulator.ts:42 and 71).
THEOREM OverwritesBounded == TrackingSpec => [](TrackingTypeOK /\ RealPositionHolds)
<1>1. TrackingInv => RealPositionHolds
  <2> SUFFICES ASSUME TrackingInv, fresh PROVE overwritten <= Cardinality(Ticks)
    BY DEF RealPositionHolds
  <2>1. Movers \subseteq Ticks
    BY DEF Movers
  <2>2. Cardinality(Movers) \in Nat /\ Cardinality(Ticks) \in Nat /\ overwritten \in Nat
    BY <2>1, TicksFinite DEF TrackingInv, TrackingTypeOK
  <2> QED BY <2>2 DEF TrackingInv, PastTheCheck
<1>2. TrackingInv => TrackingTypeOK
  BY DEF TrackingInv
<1> QED BY <1>1, <1>2, TrackingInductive, PTL

-----------------------------------------------------------------------------
(* The tier of a partner: any number of schools, tiers and requests.        *)

pVars == <<partnersVars, req, failures>>

\* The number of active schools is one that a request may have read.
LEMMA ActiveCounted ==
  ASSUME active \subseteq Clients
  PROVE  Cardinality(active) \in 0..Cardinality(Clients)
BY PartnersAssumption, FS_Subset, FS_CardinalityType

\* A request that reads the two tables.
Lists == [at : {"list"}, seen : {Unread} \cup PartnerSeen, least : {Unread} \cup TierRows]

LEMMA ReadLocals ==
  ASSUME PartnersTypeOK, NEW w \in Workers, At(w, "list")
  PROVE  /\ req[w] \in Lists
         /\ req[w] = [at |-> "list", seen |-> req[w].seen, least |-> req[w].least]
BY DEF PartnersTypeOK, At, Idle, Lists

\* The tables start well typed, and every step keeps them so.
LEMMA PartnersTypeStep ==
  ASSUME PartnersTypeOK, [PartnersNext]_pVars
  PROVE  PartnersTypeOK'
<1> USE DEF Lists
<1>0. /\ active \subseteq Clients /\ least \in TierRows /\ tierId \in Tiers \cup {NoTier}
      /\ req \in [Workers -> {Idle} \cup Lists] /\ failures \in Nat
  BY DEF PartnersTypeOK
<1>1. ASSUME NEW w \in Workers, OpenPartners(w) PROVE PartnersTypeOK'
  <2>1. [at |-> "list", seen |-> Unread, least |-> Unread] \in Lists
    OBVIOUS
  <2> QED BY <1>0, <1>1, <2>1 DEF OpenPartners, Continue, Goto, partnersVars, PartnersTypeOK
<1>2. ASSUME NEW w \in Workers, ReadPartner(w) PROVE PartnersTypeOK'
  <2>1. [active |-> Cardinality(active), tier |-> tierId] \in PartnerSeen
    BY <1>0, ActiveCounted DEF PartnerSeen
  <2>2. [req[w] EXCEPT !.seen = [active |-> Cardinality(active), tier |-> tierId]] \in Lists
    BY <1>2, <2>1, ReadLocals DEF ReadPartner
  <2> QED BY <1>0, <1>2, <2>2 DEF ReadPartner, Continue, Goto, partnersVars, PartnersTypeOK
<1>3. ASSUME NEW w \in Workers, ReadTiers(w) PROVE PartnersTypeOK'
  <2>1. [req[w] EXCEPT !.least = least] \in Lists
    BY <1>0, <1>3, ReadLocals DEF ReadTiers
  <2> QED BY <1>0, <1>3, <2>1 DEF ReadTiers, Continue, Goto, partnersVars, PartnersTypeOK
<1>4. ASSUME NEW w \in Workers, Upgrade(w) PROVE PartnersTypeOK'
  <2>1. tierId' \in Tiers \cup {NoTier}
    BY <1>0, <1>4 DEF Upgrade, Eligible
  <2> QED BY <1>0, <1>4, <2>1 DEF Upgrade, Succeed, Goto, PartnersTypeOK
<1>5. ASSUME NEW w \in Workers, Crash(w), UNCHANGED partnersVars PROVE PartnersTypeOK'
  BY <1>0, <1>5 DEF Crash, Fail, Goto, partnersVars, PartnersTypeOK
<1>6. ASSUME NEW s \in Clients, NEW on \in BOOLEAN, SetActive(s, on) PROVE PartnersTypeOK'
  <2>1. active' \subseteq Clients
    BY <1>0, <1>6 DEF SetActive
  <2> QED BY <1>0, <1>6, <2>1 DEF SetActive, PartnersTypeOK
<1>7. ASSUME NEW t \in Tiers, NEW n \in Minima, EditTier(t, n) PROVE PartnersTypeOK'
  BY <1>0, <1>7 DEF EditTier, TierRows, PartnersTypeOK
<1>8. CASE UNCHANGED pVars
  BY <1>0, <1>8 DEF pVars, partnersVars, PartnersTypeOK
<1> QED BY <1>1, <1>2, <1>3, <1>4, <1>5, <1>6, <1>7, <1>8 DEF PartnersNext, ServePartners

\* The partner stands in a tier there is, or in none, and every request decides by
\* numbers that the tables have held (owner.routes.ts:198-230).
THEOREM PartnersTypeCorrect == PartnersSpec => []PartnersTypeOK
<1>1. RequestsInit /\ PartnersInit => PartnersTypeOK
  BY PartnersAssumption DEF RequestsInit, PartnersInit, PartnersTypeOK, TierRows
<1> QED BY <1>1, PartnersTypeStep, PTL DEF PartnersSpec, pVars

-----------------------------------------------------------------------------
(* The process that serves every area.                                      *)

\* A behaviour keeps its area.
LEMMA AreaKept ==
  Spec => /\ (area = "sessions" => [](area = "sessions"))
          /\ (area = "enrolment" => [](area = "enrolment"))
          /\ (area = "lifecycle" => [](area = "lifecycle"))
          /\ (area = "tracking" => [](area = "tracking"))
          /\ (area = "onboarding" => [](area = "onboarding"))
          /\ (area = "partners" => [](area = "partners"))
          /\ (area = "phone" => [](area = "phone"))
<1>1. area = "sessions" /\ [Next]_vars => (area = "sessions")'
  BY DEF Next, In, vars
<1>2. area = "enrolment" /\ [Next]_vars => (area = "enrolment")'
  BY DEF Next, In, vars
<1>3. area = "lifecycle" /\ [Next]_vars => (area = "lifecycle")'
  BY DEF Next, In, vars
<1>4. area = "tracking" /\ [Next]_vars => (area = "tracking")'
  BY DEF Next, In, vars
<1>5. area = "onboarding" /\ [Next]_vars => (area = "onboarding")'
  BY DEF Next, In, vars
<1>6. area = "partners" /\ [Next]_vars => (area = "partners")'
  BY DEF Next, In, vars
<1>7. area = "phone" /\ [Next]_vars => (area = "phone")'
  BY DEF Next, In, vars
<1> QED BY <1>1, <1>2, <1>3, <1>4, <1>5, <1>6, <1>7, PTL DEF Spec

\* The traffic of an area obeys the specification of that area: in Backend each of
\* the seven areas is what its own module says, and keeps what is proved of it.
THEOREM AreasServed ==
  Spec => /\ (area = "sessions" => SessionsSpec)
          /\ (area = "enrolment" => EnrolmentSpec)
          /\ (area = "lifecycle" => LifecycleSpec)
          /\ (area = "tracking" => TrackingSpec)
          /\ (area = "onboarding" => OnboardingSpec)
          /\ (area = "partners" => PartnersSpec)
          /\ (area = "phone" => PhoneSpec)
<1>0. Init => /\ RequestsInit
              /\ SessionsInit /\ EnrolmentInit /\ LifecycleInit /\ TrackingInit
              /\ OnboardingInit /\ PartnersInit /\ PhoneInit
  BY DEF Init
<1>1. Spec => (area = "sessions" => SessionsSpec)
  <2>1. area = "sessions" /\ [Next]_vars => [SessionsNext]_sVars
    BY DEF Next, In, Others, vars, sVars
  <2> QED BY <1>0, <2>1, AreaKept, PTL DEF Spec, SessionsSpec, sVars
<1>2. Spec => (area = "enrolment" => EnrolmentSpec)
  <2>1. area = "enrolment" /\ [Next]_vars => [EnrolmentNext]_eVars
    BY DEF Next, In, Others, vars, eVars
  <2> QED BY <1>0, <2>1, AreaKept, PTL DEF Spec, EnrolmentSpec, eVars
<1>3. Spec => (area = "lifecycle" => LifecycleSpec)
  <2>1. area = "lifecycle" /\ [Next]_vars => [LifecycleNext]_lVars
    BY DEF Next, In, Others, vars, lVars
  <2> QED BY <1>0, <2>1, AreaKept, PTL DEF Spec, LifecycleSpec, lVars
<1>4. Spec => (area = "tracking" => TrackingSpec)
  <2>1. area = "tracking" /\ [Next]_vars => [TrackingNext]_tVars
    BY DEF Next, In, Others, vars, tVars
  <2> QED BY <1>0, <2>1, AreaKept, PTL DEF Spec, TrackingSpec, tVars
<1>5. Spec => (area = "onboarding" => OnboardingSpec)
  <2>1. area = "onboarding" /\ [Next]_vars => [OnboardingNext]_oVars
    BY DEF Next, In, Others, vars, oVars
  <2> QED BY <1>0, <2>1, AreaKept, PTL DEF Spec, OnboardingSpec, oVars
<1>6. Spec => (area = "partners" => PartnersSpec)
  <2>1. area = "partners" /\ [Next]_vars => [PartnersNext]_pVars
    BY DEF Next, In, Others, vars, pVars
  <2> QED BY <1>0, <2>1, AreaKept, PTL DEF Spec, PartnersSpec, pVars
<1>7. Spec => (area = "phone" => PhoneSpec)
  <2>1. area = "phone" /\ [Next]_vars => [PhoneNext]_phoneVars
    BY DEF Next, In, Others, vars
  <2> QED BY <1>0, <2>1, AreaKept, PTL DEF Spec, PhoneSpec
<1> QED BY <1>1, <1>2, <1>3, <1>4, <1>5, <1>6, <1>7, PTL

\* The tables, the requests and the phone's session of the area in use keep their
\* types in the process that serves every area.
THEOREM BackendTypeCorrect == Spec => []BackendTypeOK
<1>0. Init => \/ area = "sessions"
              \/ area = "enrolment"
              \/ area = "lifecycle"
              \/ area = "tracking"
              \/ area = "onboarding"
              \/ area = "partners"
              \/ area = "phone"
  BY DEF Init, Areas
<1>8. (OnboardingInv => OnboardingTypeOK) /\ (PhoneInv => PhoneTypeOK)
  BY DEF OnboardingInv, PhoneInv
<1>1. Spec /\ area = "sessions" => []BackendTypeOK
  <2>1. area = "sessions" /\ SessionsTypeOK => BackendTypeOK
    BY DEF BackendTypeOK
  <2> QED BY <2>1, AreaKept, AreasServed, SessionsPerTicket, PTL
<1>2. Spec /\ area = "enrolment" => []BackendTypeOK
  <2>1. area = "enrolment" /\ EnrolmentTypeOK => BackendTypeOK
    BY DEF BackendTypeOK
  <2> QED BY <2>1, AreaKept, AreasServed, CodesSequential, PTL
<1>3. Spec /\ area = "lifecycle" => []BackendTypeOK
  <2>1. area = "lifecycle" /\ LifecycleTypeOK => BackendTypeOK
    BY DEF BackendTypeOK
  <2> QED BY <2>1, AreaKept, AreasServed, CutsAreDue, PTL
<1>4. Spec /\ area = "tracking" => []BackendTypeOK
  <2>1. area = "tracking" /\ TrackingTypeOK => BackendTypeOK
    BY DEF BackendTypeOK
  <2> QED BY <2>1, AreaKept, AreasServed, OverwritesBounded, PTL
<1>5. Spec /\ area = "onboarding" => []BackendTypeOK
  <2>1. area = "onboarding" /\ OnboardingTypeOK => BackendTypeOK
    BY DEF BackendTypeOK
  <2> QED BY <1>8, <2>1, AreaKept, AreasServed, OnboardingInductive, PTL
<1>6. Spec /\ area = "partners" => []BackendTypeOK
  <2>1. area = "partners" /\ PartnersTypeOK => BackendTypeOK
    BY DEF BackendTypeOK
  <2> QED BY <2>1, AreaKept, AreasServed, PartnersTypeCorrect, PTL
<1>7. Spec /\ area = "phone" => []BackendTypeOK
  <2>1. area = "phone" /\ PhoneTypeOK => BackendTypeOK
    BY DEF BackendTypeOK
  <2> QED BY <1>8, <2>1, AreaKept, AreasServed, PhoneInductive, PTL
<1> QED BY <1>0, <1>1, <1>2, <1>3, <1>4, <1>5, <1>6, <1>7, PTL DEF Spec

\* What is proved of an area holds of the process that serves them all: one-time codes
\* and refresh tokens, student codes and imports, the routes' stops, the cuts of
\* schools, the simulator's overwrites, onboarding, and the phone's session.
THEOREM AreasKeep ==
  Spec => [](/\ area = "sessions" => UsedOnce
             /\ area = "enrolment" => /\ SerialsDense /\ CopiesBounded /\ StrandedBounded
                                      /\ FamilyBounded /\ StopsWhole
             /\ area = "lifecycle" => CutAfterGrace
             /\ area = "tracking" => RealPositionHolds
             /\ area = "onboarding" => OrphansBounded
             /\ area = "phone" => RestartKeepsUser /\ BannerTells)
<1>1. Spec => [](area = "sessions" => UsedOnce)
  <2>1. ~(area = "sessions") /\ [Next]_vars => (~(area = "sessions"))'
    BY DEF Next, In, vars
  <2> QED BY <2>1, AreaKept, AreasServed, SessionsPerTicket, PTL DEF Spec
<1>2. Spec => [](area = "enrolment" => /\ SerialsDense /\ CopiesBounded /\ StrandedBounded
                                       /\ FamilyBounded /\ StopsWhole)
  <2>1. ~(area = "enrolment") /\ [Next]_vars => (~(area = "enrolment"))'
    BY DEF Next, In, vars
  <2> QED BY <2>1, AreaKept, AreasServed, CodesSequential, ImportedOnce, StrandedByFailure,
             FamiliesSmall, StopsReplaced, PTL DEF Spec
<1>3. Spec => [](area = "lifecycle" => CutAfterGrace)
  <2>1. ~(area = "lifecycle") /\ [Next]_vars => (~(area = "lifecycle"))'
    BY DEF Next, In, vars
  <2> QED BY <2>1, AreaKept, AreasServed, CutsAreDue, PTL DEF Spec
<1>4. Spec => [](area = "tracking" => RealPositionHolds)
  <2>1. ~(area = "tracking") /\ [Next]_vars => (~(area = "tracking"))'
    BY DEF Next, In, vars
  <2> QED BY <2>1, AreaKept, AreasServed, OverwritesBounded, PTL DEF Spec
<1>5. Spec => [](area = "onboarding" => OrphansBounded)
  <2>1. ~(area = "onboarding") /\ [Next]_vars => (~(area = "onboarding"))'
    BY DEF Next, In, vars
  <2> QED BY <2>1, AreaKept, AreasServed, OrphansByFailure, PTL DEF Spec
<1>6. Spec => [](area = "phone" => RestartKeepsUser /\ BannerTells)
  <2>1. ~(area = "phone") /\ [Next]_vars => (~(area = "phone"))'
    BY DEF Next, In, vars
  <2> QED BY <2>1, AreaKept, AreasServed, RestartIsSafe, BannerIsShown, PTL DEF Spec
<1> QED BY <1>1, <1>2, <1>3, <1>4, <1>5, <1>6, PTL
=============================================================================
