------------------------------ MODULE Reducer ------------------------------
(***************************************************************************)
(* Replicas of one budget.  Each runs the reducer on the ops it submits    *)
(* itself, at once, and on the ops of the others, in any order, any number *)
(* of times: Document::apply as the desktop app, the server and a syncing  *)
(* client call it.                                                         *)
(***************************************************************************)
EXTENDS Merge

CONSTANT Replica

VARIABLES
  issued,   \* every op submitted anywhere
  doc       \* the document of each replica

vars == <<issued, doc>>

Init ==
  /\ issued = {}
  /\ doc = [r \in Replica |-> NewDocument]

\* Replica r makes an edit: a new op, applied to its own document first.
Submit(r, op) ==
  /\ op \notin issued
  /\ issued' = issued \union {op}
  /\ doc' = [doc EXCEPT ![r] = Apply(@, op)]

\* Replica r receives an op, possibly one it has already applied.
Deliver(r, op) ==
  /\ op \in issued
  /\ doc' = [doc EXCEPT ![r] = Apply(@, op)]
  /\ UNCHANGED issued

Next ==
  \E r \in Replica :
    \/ \E op \in Op : Disciplined(issued \union {op}) /\ Submit(r, op)
    \/ \E op \in issued : Deliver(r, op)

Spec == Init /\ [][Next]_vars

----------------------------------------------------------------------------
\* The ops that remove_then_resurrect_converges (tests/ops_merge.rs) is about:
\* an entity's first op is an insert, as callers promise, and it is inserted
\* again only after a removal.
Resurrections(A) ==
  /\ UniqueHlcs(A)
  /\ \A o \in A :
       \/ \E i \in Inserts(A, o.ent) : Before(i.hlc, o.hlc)
       \/ o.kind = "insert"
  /\ \A i, j \in A :
       i.kind = "insert" /\ j \in Inserts(A, i.ent) /\ Before(i.hlc, j.hlc) =>
         \E x \in ExistenceOps(A, i.ent) :
           x.kind = "remove" /\ Before(i.hlc, x.hlc) /\ Before(x.hlc, j.hlc)

ResurrectionNext ==
  \E r \in Replica :
    \/ \E op \in Op : Resurrections(issued \union {op}) /\ Submit(r, op)
    \/ \E op \in issued : Deliver(r, op)

ResurrectionSpec == Init /\ [][ResurrectionNext]_vars

----------------------------------------------------------------------------
TypeOK ==
  /\ issued \subseteq Op
  /\ doc \in [Replica -> DocumentType]

\* Every document shows exactly what its set of applied ops stands for, however
\* they arrived: no edit is dropped by a buffer, an eviction, a removal or a
\* re-insert, and none that lost comes back (ops/mod.rs, "reordering across the
\* network can't drop edits").
ShowsMergedOps == \A r \in Replica : Budget(doc[r]) = Merged(doc[r].applied)

\* Two replicas that have seen the same ops show the same budget (ops/mod.rs,
\* ADR 0002: "the materialized Budget is independent of application order").
Converged ==
  \A r, s \in Replica :
    doc[r].applied = doc[s].applied => Budget(doc[r]) = Budget(doc[s])

\* A field op waits only for an absent entity, and no two wait for one field:
\* the buffer stays within one op per field (ops/mod.rs, buffer).
BufferBounded ==
  \A r \in Replica, e \in Entity :
    LET s == doc[r].state[e]
    IN  /\ s.pending # {} => ~ s.present
        /\ \A o, p \in s.pending : o.tag = p.tag => o = p

\* While a replica has an entity, each field register holds the timestamp of the
\* very op whose value the field shows, so an equal or older write cannot change
\* it and a later one must (ops/mod.rs, "Per-field registers").
RegisterNamesWriter ==
  \A r \in Replica, e \in Entity :
    LET s == doc[r].state[e]
    IN  s.present =>
          \A t \in TagsOf[e] : IF s.cell[t] = BaseValue
                               THEN s.reg[t] = NoHlc
                               ELSE s.reg[t] = s.cell[t].hlc

\* The reducer implements the promise of OpSet.
Promise == INSTANCE OpSet WITH
  seen <- [r \in Replica |-> doc[r].applied],
  budget <- [r \in Replica |-> Budget(doc[r])]

ImplementsOpSet == Promise!Spec
=============================================================================
