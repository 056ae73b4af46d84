------------------------------ MODULE Partners ------------------------------
(***************************************************************************)
(* The tier of a partner who brings schools to the platform                *)
(* (routes/owner.routes.ts).  No scheduler runs: whoever opens the list of *)
(* partners moves them to the tier that their active schools call for, in  *)
(* three statements: read the partners with their schools and read the     *)
(* tiers, at the same time, then write the tier.  The commission that is   *)
(* written with it, of the partner or of the tier, is read by no route     *)
(* that decides anything and is left out.                                  *)
(*                                                                         *)
(* One partner.  A school becomes active by its onboarding or by the       *)
(* owner's button, and stops being so by the button or when its            *)
(* subscription lapses (module Lifecycle).                                 *)
(***************************************************************************)
EXTENDS Requests

CONSTANTS
  Clients,    \* the schools of the partner
  Tiers,      \* the rows of table PartnerTier, which no route adds to
  Minima,     \* bound: the values of minActiveSchools
  Seed,       \* the tiers at the start
  NoTier,     \* tierId = null
  Unread

ASSUME PartnersAssumption ==
  /\ IsFiniteSet(Clients)
  /\ NoTier \notin Tiers
  /\ Minima \subseteq Nat
  /\ Seed \in [Tiers -> Minima]
  /\ Unread \notin [Tiers -> Minima]
  /\ Unread \notin [active : Nat, tier : Tiers \cup {NoTier}]

VARIABLES
  active,   \* the schools with subscriptionStatus "active"
  least,    \* minActiveSchools of each tier
  tierId    \* of the partner

partnersVars == <<active, least, tierId>>

PartnersInit ==
  /\ active = {}
  /\ least = Seed
  /\ tierId = NoTier

\* The first tier, in descending order of its least number of schools, that n
\* schools are enough for.  The database orders equal numbers as it likes.
Eligible(n, ls) ==
  LET met == {t \in Tiers : n >= ls[t]}
  IN  {t \in met : \A u \in met : ls[u] <= ls[t]}

-----------------------------------------------------------------------------
(* GET /owner/partners.                                                     *)

OpenPartners(w) ==
  /\ Free(w)
  /\ Continue(w, [at |-> "list", seen |-> Unread, least |-> Unread])
  /\ UNCHANGED partnersVars

ReadPartner(w) ==
  /\ At(w, "list") /\ req[w].seen = Unread
  /\ Continue(w, [req[w] EXCEPT !.seen = [active |-> Cardinality(active), tier |-> tierId]])
  /\ UNCHANGED partnersVars

ReadTiers(w) ==
  /\ At(w, "list") /\ req[w].least = Unread
  /\ Continue(w, [req[w] EXCEPT !.least = least])
  /\ UNCHANGED partnersVars

Read(w) == At(w, "list") /\ req[w].seen # Unread /\ req[w].least # Unread

Upgrade_Mutant(w) ==  \* never out of a tier
  /\ Read(w)
  /\ LET best == Eligible(req[w].seen.active, req[w].least) IN
     \/ /\ req[w].seen.tier = NoTier
        /\ tierId' \in best
     \/ /\ best = {} \/ req[w].seen.tier # NoTier
        /\ UNCHANGED tierId
  /\ Succeed(w)
  /\ UNCHANGED <<active, least>>

\* Nobody is moved who is in the tier already, or has too few schools for any.
Upgrade(w) ==
  /\ Read(w)
  /\ LET best == Eligible(req[w].seen.active, req[w].least) IN
     \/ /\ req[w].seen.tier \notin best
        /\ tierId' \in best
     \/ /\ best = {} \/ req[w].seen.tier \in best
        /\ UNCHANGED tierId
  /\ Succeed(w)
  /\ UNCHANGED <<active, least>>

-----------------------------------------------------------------------------
(* The owner, and the subscriptions of the schools: one statement each.     *)

SetActive(s, on) ==
  /\ active' = IF on THEN active \cup {s} ELSE active \ {s}
  /\ UNCHANGED <<least, tierId, req, failures>>

\* PUT /owner/partner-tiers/:id.
EditTier(t, n) ==
  /\ least' = [least EXCEPT ![t] = n]
  /\ UNCHANGED <<active, tierId, req, failures>>

ServePartners(w) == ReadPartner(w) \/ ReadTiers(w) \/ Upgrade(w)

PartnersNext ==
  \/ \E w \in Workers :
       OpenPartners(w) \/ ServePartners(w) \/ (Crash(w) /\ UNCHANGED partnersVars)
  \/ \E s \in Clients, on \in BOOLEAN : SetActive(s, on)
  \/ \E t \in Tiers, n \in Minima : EditTier(t, n)

PartnersSpec ==
  RequestsInit /\ PartnersInit /\ [][PartnersNext]_<<partnersVars, req, failures>>

-----------------------------------------------------------------------------
TierRows    == [Tiers -> Minima]
PartnerSeen == [active : 0..Cardinality(Clients), tier : Tiers \cup {NoTier}]

\* Every column holds a value of its type, and so do the handlers' locals.
PartnersTypeOK ==
  /\ active \subseteq Clients
  /\ least \in TierRows
  /\ tierId \in Tiers \cup {NoTier}
  /\ req \in [Workers -> {Idle} \cup
       [at : {"list"}, seen : {Unread} \cup PartnerSeen, least : {Unread} \cup TierRows]]
  /\ failures \in Nat
=============================================================================
