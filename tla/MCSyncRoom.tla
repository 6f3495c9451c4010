----------------------------- MODULE MCSyncRoom -----------------------------
(***************************************************************************)
(* A peer and the REST endpoints edit one line of the base snapshot and its*)
(* one field register.  Three ops in all, and a channel of two messages:   *)
(* enough to remove a line, make an edit wait for it and insert it again,  *)
(* and for a slow receiver to miss an op.                                  *)
(***************************************************************************)
EXTENDS SyncRoom

CONSTANTS line, rate

MCWallTime == {1, 2}
MCStamp == MCWallTime \X {0, 1} \X (Peer \union {Server})
MCTagsOf == [e \in Entity |-> {rate}]
=============================================================================
