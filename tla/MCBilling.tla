----------------------------- MODULE MCBilling -----------------------------
(* Two screens of one parent and one screen of a school.                    *)
EXTENDS Billing, TLC

CONSTANTS amina, noor, phone, tablet, office, basic, full

MCPayerOf == (phone :> amina) @@ (tablet :> amina) @@ (office :> noor)

\* The parent's screens are alike, and so are the plans: no definition names
\* one of them.
Symmetric == Permutations({phone, tablet}) \cup Permutations({basic, full})
=============================================================================
