--------------------------- MODULE MCClientStore ---------------------------
(***************************************************************************)
(* Two budgets, so that a refresh can outlive the budget it is for, two    *)
(* edits and three refreshes: that of openBudget and one per edit.  One    *)
(* part of the view: the parts of a refresh are served apart and set       *)
(* together, and the properties speak of each part by itself.  The second  *)
(* instance has one budget and two parts.                                  *)
(***************************************************************************)
EXTENDS ClientStore

CONSTANTS b1, b2, topsheet, tree
=============================================================================
