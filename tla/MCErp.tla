------------------------------- MODULE MCErp -------------------------------
(* One invoice with two interchangeable payments; two customers, one of     *)
(* which exists from the start and is all that the filter finds; one tab    *)
(* that is logged in twice.  The areas share nothing, so one set of names   *)
(* serves for the requests of all three, and one for payments and tokens.   *)
EXTENDS Erp, TLC

CONSTANTS p1, p2, w1, w2, r1, r2, A

FilterFinds == {{r1}}

Symmetric == Permutations(Payments) \cup Permutations(Workers)
=============================================================================
