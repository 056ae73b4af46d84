----------------------------- MODULE MCBackend -----------------------------
(* Two requests at once in each area.                                       *)
EXTENDS Backend, TLC

CONSTANTS w1, w2, amal, bilal, warda, sami, t1, t2,
          x1, x2, l1, mail1, mail2, silver, gold, own, par, c1, c2

\* Two siblings: one new parent is named in both rows of the sheet.
MCPhone == <<amal, amal>>

\* As in prisma/seed.ts, with 2 for 5: silver is for everybody.
MCSeed == (silver :> 0) @@ (gold :> 2)
=============================================================================
