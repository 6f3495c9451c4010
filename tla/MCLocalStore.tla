---------------------------- MODULE MCLocalStore ----------------------------
(***************************************************************************)
(* One line, of the base snapshot, with a field register and a             *)
(* register-less rest.  Two authors, the wall clock jumping between two    *)
(* milliseconds, counters up to 1, three confirmed edits of a base, resets *)
(* that store one more base or stop before they do.                        *)
(***************************************************************************)
EXTENDS LocalStore

CONSTANTS line, rate, rest

MCWallTime == {1, 2}
MCStamp == MCWallTime \X (0 .. 1) \X Author
MCTagsOf == [e \in Entity |-> {rate}]
=============================================================================
