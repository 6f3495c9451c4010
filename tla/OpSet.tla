------------------------------- MODULE OpSet -------------------------------
(***************************************************************************)
(* What the reducer promises (ops/mod.rs, "Convergence guarantee"): the    *)
(* budget a replica shows is a function of the set of ops it has seen.     *)
(***************************************************************************)
EXTENDS Merge

CONSTANT Replica

VARIABLES
  seen,     \* the ops each replica has seen
  budget    \* the budget it shows

Init ==
  /\ seen = [r \in Replica |-> {}]
  /\ budget = [r \in Replica |-> Merged({})]

See(r, op) ==
  /\ seen' = [seen EXCEPT ![r] = @ \union {op}]
  /\ budget' = [budget EXCEPT ![r] = Merged(seen'[r])]

Next == \E r \in Replica, op \in Op : See(r, op)

Spec == Init /\ [][Next]_<<seen, budget>>
=============================================================================
