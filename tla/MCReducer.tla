----------------------------- MODULE MCReducer -----------------------------
(***************************************************************************)
(* Two replicas, a line that ops insert and a line of the base snapshot,   *)
(* each with one field register and a register-less rest of the payload.   *)
(* (An entity without field registers, such as a purchase order, behaves   *)
(* as that rest does.)  Four timestamps: enough for insert, edit, removal  *)
(* and re-insert of one entity, in every order of arrival.                 *)
(***************************************************************************)
EXTENDS Reducer, TLC

CONSTANTS line, baseLine, rate, rest

\* Two authors in one millisecond, then each of them again.
MCStamp == {<<1, 0, 1>>, <<1, 0, 2>>, <<1, 1, 1>>, <<2, 0, 2>>}

MCTagsOf == [e \in Entity |-> {rate}]

\* The replicas start alike and run the same code.
Symmetry == Permutations(Replica)
=============================================================================
