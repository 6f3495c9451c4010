------------------------------ MODULE MCAccess ------------------------------
(***************************************************************************)
(* An owner and a second user who is given the whole budget or some of its *)
(* two departments; two budgets, so that one can be copied from the other, *)
(* or be given its tools by a library.  The first is seeded with an account*)
(* and its line and two tools; an account of the other department, a line, *)
(* an actual, a receipt and two tools can be put in.  Four calls that count*)
(* are a budget, a membership and two edits under a live channel, or two   *)
(* budgets and a library that is saved from one and applied to the other.  *)
(***************************************************************************)
EXTENDS Access, TLC

CONSTANTS ann, bob, cast, crew, acc1, acc2, line1, line2, bill, fis, g1, g2, h1, h2, r1, r2

MCCategoryOf == (acc1 :> cast) @@ (acc2 :> crew)
MCAccountOf == (line1 :> acc1) @@ (line2 :> acc2) @@ (bill :> acc1)
MCNameOf == (g1 :> "days") @@ (h1 :> "days") @@ (g2 :> "sgk") @@ (h2 :> "sgk")
MCSeedOf == (r1 :> {acc1, line1, g1, g2}) @@ (r2 :> {})
=============================================================================
