-------------------------- MODULE MCPurchaseOrders --------------------------
(***************************************************************************)
(* Three uuids and up to seven ops a host: enough for orders to be added,  *)
(* approved, half converted, converted again, deleted and others added.    *)
(***************************************************************************)
EXTENDS PurchaseOrders, TLC

CONSTANTS u1, u2, u3

MCStamp == WallTime \X (0 .. 6) \X Host

Symmetry == Permutations(Uuid)
=============================================================================
