----------------------------- MODULE MergeProofs ------------------------------
(***************************************************************************)
(* What timestamps, the reducer and the merge of a set of ops promise,     *)
(* whoever runs the reducer: the lemmas the proofs about replicas, rooms   *)
(* and the local store rest on.  EntityInv relates the state of one entity *)
(* to the set of ops applied, in any order; OrderedInv does so for ops     *)
(* applied in the order of their timestamps; the lemmas on ReplayOnto say  *)
(* what replaying a log does.                                              *)
(***************************************************************************)
EXTENDS Merge, TLAPS, WellFoundedInduction

----------------------------------------------------------------------------
(***************************************************************************)
(* Timestamps and clocks.                                                  *)
(***************************************************************************)
\* Before is a strict total order on timestamps (hlc.rs, `impl Ord for Hlc`).
LEMMA BeforeIrreflexive == \A h \in Timestamp : ~ Before(h, h)
  BY DEF Before, Timestamp, Wall, Counter, Node

LEMMA BeforeTransitive ==
  \A f, g, h \in Timestamp : Before(f, g) /\ Before(g, h) => Before(f, h)
  BY DEF Before, Timestamp, Wall, Counter, Node

LEMMA BeforeTotal ==
  \A g, h \in Timestamp : Before(g, h) \/ Before(h, g) \/ g = h
  BY DEF Before, Timestamp, Wall, Counter, Node

LEMMA BeforeOrSameTransitive ==
  \A f, g, h \in Timestamp :
    /\ BeforeOrSame(f, g) /\ BeforeOrSame(g, h) => BeforeOrSame(f, h)
    /\ BeforeOrSame(f, g) /\ Before(g, h) => Before(f, h)
    /\ Before(f, g) /\ BeforeOrSame(g, h) => Before(f, h)
  BY BeforeTransitive DEF BeforeOrSame

LEMMA NotBefore ==
  \A g, h \in Timestamp : ~ Before(g, h) <=> BeforeOrSame(h, g)
  BY BeforeTotal, BeforeIrreflexive, BeforeTransitive DEF BeforeOrSame

LEMMA NoHlcIsTimestamp == NoHlc \in Timestamp
  BY DEF NoHlc, Timestamp

\* A local event is stamped after everything the clock emitted or observed,
\* whatever the physical clock says, backwards jumps included (hlc.rs, tick).
THEOREM TickExceedsLast ==
  ASSUME NEW last \in Timestamp, NEW node \in Nat, NEW physical \in Nat
  PROVE  /\ Tick(last, node, physical) \in Timestamp
         /\ Before(last, Tick(last, node, physical))
         /\ Before(NoHlc, Tick(last, node, physical))
  BY DEF Tick, Before, Timestamp, Wall, Counter, Node, Larger, NextCounter, NoHlc

\* Observing a remote timestamp yields one after both histories (observe).
THEOREM ObserveExceedsBoth ==
  ASSUME NEW last \in Timestamp, NEW node \in Nat, NEW remote \in Timestamp,
         NEW physical \in Nat
  PROVE  /\ Observe(last, node, remote, physical) \in Timestamp
         /\ Before(last, Observe(last, node, remote, physical))
         /\ Before(remote, Observe(last, node, remote, physical))
  BY DEF Observe, Before, Timestamp, Wall, Counter, Node, Larger, NextCounter

----------------------------------------------------------------------------
(***************************************************************************)
(* Ops and what Highest chooses of them.                                   *)
(***************************************************************************)
LEMMA OpFields ==
  ASSUME NEW o \in Op
  PROVE  /\ o.hlc \in Timestamp /\ o.hlc \in Stamp
         /\ o.ent \in Entity
         /\ o.kind \in {"insert", "remove", "set"}
         /\ Before(NoHlc, o.hlc)
         /\ o.kind = "set" => o \in FieldOp /\ o.tag \in Tag /\ o.tag \in TagsOf[o.ent]
  BY StampAssumption DEF Op, ExistenceOp, FieldOp

\* An op that every other op of a set precedes is the one Highest chooses.
LEMMA HighestIs ==
  ASSUME NEW S \in SUBSET Op, NEW o \in S,
         \A p \in S : p = o \/ Before(p.hlc, o.hlc)
  PROVE  Highest(S) = o
<1>1. \A p \in S : BeforeOrSame(p.hlc, o.hlc)
  BY DEF BeforeOrSame
<1>2. ASSUME NEW q \in S, \A p \in S : BeforeOrSame(p.hlc, q.hlc)
      PROVE  q = o
  <2>1. o.hlc \in Timestamp /\ q.hlc \in Timestamp
    BY OpFields
  <2>2. BeforeOrSame(o.hlc, q.hlc)
    BY <1>2
  <2>3. ~ Before(q.hlc, o.hlc)
    BY <2>1, <2>2, BeforeIrreflexive, BeforeTransitive DEF BeforeOrSame
  <2> QED BY <2>3
<1> QED BY <1>1, <1>2 DEF Highest

(***************************************************************************)
(* The inductive invariant: s is the state of entity e once the ops A have *)
(* been applied, in some order.                                            *)
(***************************************************************************)

\* The existence register names the last insert or removal, which decides.
ExistsInv(A, s, e) ==
  LET E == ExistenceOps(A, e)
  IN  \/ E = {} /\ s.exists = NoHlc /\ (s.present <=> e \in Base)
      \/ \E o \in E : /\ s.exists = o.hlc
                      /\ \A p \in E : BeforeOrSame(p.hlc, o.hlc)
                      /\ s.present <=> o.kind = "insert"

\* A field of a present entity holds the last op that wrote it.
CellInv(A, s, e, t) ==
  LET W == Inserts(A, e) \union Edits(A, e, t)
  IN  s.present =>
        \/ W = {} /\ s.cell[t] = BaseValue /\ s.reg[t] = NoHlc
        \/ /\ s.cell[t] \in W
           /\ \A p \in W : BeforeOrSame(p.hlc, s.cell[t].hlc)
           /\ t \in TagsOf[e] => s.reg[t] = s.cell[t].hlc

\* What waits are applied edits of an absent entity, one per field.
PendingInv(A, s, e) ==
  /\ s.pending # {} => ~ s.present
  /\ \A p \in s.pending : p \in Edits(A, e, p.tag)
  /\ \A p, q \in s.pending : p.tag = q.tag => p = q

\* The entity has been in the base or in an applied insert: a later insert of
\* it post-dates every edit.
HadEntity(A, e) == e \in Base \/ Inserts(A, e) # {}

\* Every applied edit of an entity that was never here is either older than its
\* last removal or superseded by an edit that waits.
AbsentInv(A, s, e, t) ==
  ~ s.present =>
    \/ HadEntity(A, e)
    \/ \A x \in Edits(A, e, t) :
         \/ BeforeOrSame(x.hlc, s.exists)
         \/ \E p \in s.pending : p.tag = t /\ BeforeOrSame(x.hlc, p.hlc)

\* A register holds the timestamp of an op that claimed it; an edit claims one
\* only where the entity has been.
RegInv(A, s, e, t) ==
  \/ s.reg[t] = NoHlc
  \/ \E i \in Inserts(A, e) : s.reg[t] = i.hlc
  \/ HadEntity(A, e) /\ \E x \in Edits(A, e, t) : s.reg[t] = x.hlc

EntityInv(A, s, e) ==
  /\ ExistsInv(A, s, e)
  /\ PendingInv(A, s, e)
  /\ \A t \in Tag : CellInv(A, s, e, t) /\ AbsentInv(A, s, e, t) /\ RegInv(A, s, e, t)

DocumentInv(d) ==
  /\ d \in DocumentType
  /\ \A e \in Entity : EntityInv(d.applied, d.state[e], e)

----------------------------------------------------------------------------
LEMMA EntityFacts ==
  ASSUME NEW A \in SUBSET Op, NEW e \in Entity, NEW s \in EntityState,
         EntityInv(A, s, e)
  PROVE  /\ s.exists \in Timestamp
         /\ \A t \in Tag : s.reg[t] \in Timestamp
         /\ s.present => HadEntity(A, e)
<1>1. s.exists \in Timestamp /\ \A t \in Tag : s.reg[t] \in Timestamp
  BY StampAssumption, NoHlcIsTimestamp DEF EntityState
<1>2. s.present => HadEntity(A, e)
  BY DEF EntityInv, ExistsInv, HadEntity, Inserts, ExistenceOps
<1> QED BY <1>1, <1>2

LEMMA EditFields ==
  ASSUME NEW A \in SUBSET Op, NEW e, NEW t, NEW x \in Edits(A, e, t)
  PROVE  /\ x \in Op /\ x \in A /\ x.kind = "set" /\ x.ent = e /\ x.tag = t
         /\ t \in Tag /\ t \in TagsOf[e] /\ x \in FieldOp
         /\ x.hlc \in Timestamp /\ x.hlc \in Stamp
  BY OpFields DEF Edits

LEMMA PendingFields ==
  ASSUME NEW A \in SUBSET Op, NEW e \in Entity, NEW s \in EntityState,
         EntityInv(A, s, e), NEW p \in s.pending
  PROVE  p \in Edits(A, e, p.tag) /\ p \in Op /\ p.hlc \in Timestamp /\ p.tag \in TagsOf[e]
<1>1. p \in Edits(A, e, p.tag)
  BY DEF EntityInv, PendingInv
<1> QED BY <1>1, EditFields

\* No insert or removal post-dates the existence register.
LEMMA ExistenceOpsPrecede ==
  ASSUME NEW A \in SUBSET Op, NEW e \in Entity, NEW s \in EntityState,
         EntityInv(A, s, e), NEW i \in ExistenceOps(A, e) \union Inserts(A, e)
  PROVE  /\ i \in Op /\ i.hlc \in Timestamp
         /\ BeforeOrSame(i.hlc, s.exists)
         /\ \A h \in Timestamp : Before(s.exists, h) => Before(i.hlc, h)
<1>1. i \in ExistenceOps(A, e) /\ i \in Op /\ i.hlc \in Timestamp
  BY OpFields DEF ExistenceOps, Inserts
<1>2. BeforeOrSame(i.hlc, s.exists)
  BY <1>1 DEF EntityInv, ExistsInv
<1>3. s.exists \in Timestamp
  BY EntityFacts
<1> QED BY <1>1, <1>2, <1>3, BeforeOrSameTransitive

\* Ops on other entities do not concern e.
LEMMA OtherEntity ==
  ASSUME NEW A \in SUBSET Op, NEW e \in Entity, NEW s \in EntityState,
         EntityInv(A, s, e), NEW op \in Op, op.ent # e
  PROVE  EntityInv(A \union {op}, s, e)
<1>1. /\ Inserts(A \union {op}, e) = Inserts(A, e)
      /\ ExistenceOps(A \union {op}, e) = ExistenceOps(A, e)
      /\ \A t : Edits(A \union {op}, e, t) = Edits(A, e, t)
  BY DEF Inserts, ExistenceOps, Edits
<1>2. ExistsInv(A \union {op}, s, e)
  BY <1>1 DEF EntityInv, ExistsInv
<1>3. PendingInv(A \union {op}, s, e)
  BY <1>1 DEF EntityInv, PendingInv
<1>4. ASSUME NEW t \in Tag PROVE CellInv(A \union {op}, s, e, t)
  <2>1. CellInv(A, s, e, t)
    BY DEF EntityInv
  <2> QED BY <1>1, <2>1 DEF CellInv
<1>5. ASSUME NEW t \in Tag
      PROVE  AbsentInv(A \union {op}, s, e, t) /\ RegInv(A \union {op}, s, e, t)
  <2>1. AbsentInv(A, s, e, t) /\ RegInv(A, s, e, t)
    BY DEF EntityInv
  <2>2. HadEntity(A \union {op}, e) <=> HadEntity(A, e)
    BY <1>1 DEF HadEntity
  <2>3. AbsentInv(A \union {op}, s, e, t)
    BY <1>1, <2>1, <2>2 DEF AbsentInv
  <2>4. RegInv(A \union {op}, s, e, t)
    BY <1>1, <2>1, <2>2 DEF RegInv
  <2> QED BY <2>3, <2>4
<1> QED BY <1>2, <1>3, <1>4, <1>5 DEF EntityInv

\* Where the entity has been, a winning insert post-dates every edit.
LEMMA ReinsertLast ==
  ASSUME NEW A \in SUBSET Op, NEW e \in Entity, NEW s \in EntityState,
         EntityInv(A, s, e), NEW op \in Op, op.ent = e, op.kind = "insert",
         Disciplined(A \union {op}), HadEntity(A, e), Before(s.exists, op.hlc),
         NEW t, NEW x \in Edits(A, e, t)
  PROVE  Before(x.hlc, op.hlc)
<1>1. op.hlc \in Timestamp /\ x.hlc \in Timestamp
  BY EditFields, OpFields
<1>2. x \in A \union {op} /\ x.kind = "set" /\ x.ent = e /\ x # op
  BY DEF Edits
<1>3. x.hlc # op.hlc
  BY <1>2 DEF Disciplined, UniqueHlcs
<1>4. ASSUME Before(op.hlc, x.hlc) PROVE FALSE
  <2>1. e \notin Base /\ \A j \in Inserts(A \union {op}, e) : BeforeOrSame(op.hlc, j.hlc)
    BY <1>2, <1>4 DEF Disciplined, ReinsertsPostdateEdits
  <2>2. PICK i \in Inserts(A, e) : TRUE
    BY <2>1 DEF HadEntity
  <2>3. i.hlc \in Timestamp /\ Before(i.hlc, op.hlc)
    BY <1>1, ExistenceOpsPrecede
  <2>4. BeforeOrSame(op.hlc, i.hlc)
    BY <2>1 DEF Inserts
  <2> QED BY <1>1, <2>3, <2>4, NotBefore
<1> QED BY <1>1, <1>3, <1>4, BeforeTotal

----------------------------------------------------------------------------
\* An insert that wins the existence register.
LEMMA InsertWins ==
  ASSUME NEW A \in SUBSET Op, NEW e \in Entity, NEW s \in EntityState,
         EntityInv(A, s, e), NEW op \in Op, op.ent = e, op.kind = "insert",
         Disciplined(A \union {op}), Before(s.exists, op.hlc)
  PROVE  Insert(s, op) \in EntityState /\ EntityInv(A \union {op}, Insert(s, op), e)
<1> DEFINE claimed == SeededRegisters(s, op)
           filled  == [present |-> TRUE, cell |-> [t \in Tag |-> op], exists |-> op.hlc,
                       reg |-> claimed, pending |-> s.pending]
           winners(t) == Winners(filled, t)
           c == Insert(s, op)
<1>1. op.hlc \in Timestamp /\ op.hlc \in Stamp
  BY OpFields
<1>2. c = [present |-> TRUE,
           cell    |-> [t \in Tag |-> IF winners(t) = {} THEN op ELSE Highest(winners(t))],
           exists  |-> op.hlc,
           reg     |-> [t \in Tag |-> IF winners(t) = {} THEN claimed[t]
                                      ELSE Highest(winners(t)).hlc],
           pending |-> {}]
  <2>1. c = FlushPending(filled)
    BY DEF Insert, Wins
  <2>2. \A t \in Tag : filled.cell[t] = op
    OBVIOUS
  <2> HIDE DEF claimed
  <2> QED BY <2>1, <2>2 DEF FlushPending
<1>3. \A t \in Tag : claimed[t] = IF t \in TagsOf[e] /\ Before(s.reg[t], op.hlc)
                                  THEN op.hlc ELSE s.reg[t]
  BY DEF SeededRegisters, Wins
<1>4. \A t \in Tag : winners(t) = {o \in s.pending : o.tag = t /\ Before(claimed[t], o.hlc)}
  BY DEF Winners, Wins
<1> HIDE DEF claimed, winners, c
\* Every register of the entity is older than the insert, which claims it.
<1>5. ASSUME NEW t \in TagsOf[e], t \in Tag
      PROVE  claimed[t] = op.hlc
  <2>1. s.reg[t] = NoHlc \/ Before(s.reg[t], op.hlc)
    <3>1. CASE \E i \in Inserts(A, e) : s.reg[t] = i.hlc
      <4>1. PICK i \in Inserts(A, e) : s.reg[t] = i.hlc
        BY <3>1
      <4> QED BY <1>1, <4>1, ExistenceOpsPrecede
    <3>2. CASE HadEntity(A, e) /\ \E x \in Edits(A, e, t) : s.reg[t] = x.hlc
      BY <3>2, ReinsertLast
    <3> QED BY <1>5, <3>1, <3>2 DEF EntityInv, RegInv
  <2> QED BY <1>3, <1>5, <2>1, OpFields
<1>6. ASSUME NEW t \in Tag, NEW p \in winners(t)
      PROVE  /\ Highest(winners(t)) = p
             /\ p \in Edits(A, e, t) /\ p \in Op /\ p \in s.pending /\ t \in TagsOf[e]
             /\ Before(op.hlc, p.hlc)
             /\ ~ HadEntity(A, e)
  <2>1. p \in s.pending /\ p.tag = t /\ p \in Edits(A, e, t) /\ p \in Op /\ t \in TagsOf[e]
    <3>1. p \in s.pending /\ p.tag = t
      BY <1>4, <1>6
    <3> QED BY <3>1, PendingFields
  <2>2. \A q \in winners(t) : q = p
    BY <1>4, <2>1 DEF EntityInv, PendingInv
  <2>3. winners(t) \in SUBSET Op
    BY <2>1, <2>2
  <2>4. Highest(winners(t)) = p
    BY <2>2, <2>3, HighestIs
  <2>5. Before(op.hlc, p.hlc)
    BY <1>4, <1>5, <2>1
  <2>6. ~ HadEntity(A, e)
    BY <1>1, <2>1, <2>5, ReinsertLast, OpFields, NotBefore DEF BeforeOrSame
  <2> QED BY <2>1, <2>4, <2>5, <2>6
<1>7. c \in EntityState
  <2>1. \A t \in Tag : (IF winners(t) = {} THEN op ELSE Highest(winners(t))) \in Writer
    BY <1>6 DEF Writer
  <2>2. \A t \in Tag : (IF winners(t) = {} THEN claimed[t] ELSE Highest(winners(t)).hlc)
                          \in Stamp \union {NoHlc}
    BY <1>1, <1>3, <1>6, OpFields DEF EntityState
  <2> QED BY <1>1, <1>2, <2>1, <2>2 DEF EntityState
<1>8. EntityInv(A \union {op}, c, e)
  <2> DEFINE B == A \union {op}
             I == Inserts(A, e)
  <2>1. /\ c.exists = op.hlc /\ c.present /\ c.pending = {}
        /\ \A t \in Tag : IF winners(t) = {}
                         THEN c.cell[t] = op /\ c.reg[t] = claimed[t]
                         ELSE /\ c.cell[t] = Highest(winners(t))
                              /\ c.reg[t] = Highest(winners(t)).hlc
    BY <1>2
  <2>2. /\ Inserts(B, e) = I \union {op}
        /\ ExistenceOps(B, e) = ExistenceOps(A, e) \union {op}
        /\ \A t : Edits(B, e, t) = Edits(A, e, t)
    BY DEF Inserts, ExistenceOps, Edits
  <2> HIDE DEF B
  <2>3. /\ \A i \in ExistenceOps(A, e) : Before(i.hlc, op.hlc)
        /\ \A i \in I : Before(i.hlc, op.hlc)
    BY <1>1, ExistenceOpsPrecede
  <2>4. ExistsInv(B, c, e)
    BY <2>1, <2>2, <2>3 DEF ExistsInv, BeforeOrSame
  <2>5. PendingInv(B, c, e)
    BY <2>1 DEF PendingInv
  <2>6. HadEntity(B, e)
    BY <2>2 DEF HadEntity
  <2>7. ASSUME NEW t \in Tag
        PROVE  CellInv(B, c, e, t) /\ AbsentInv(B, c, e, t) /\ RegInv(B, c, e, t)
    <3> DEFINE W == I \union {op} \union Edits(A, e, t)
    <3>1. CASE winners(t) = {}
      <4>1. c.cell[t] = op /\ c.reg[t] = claimed[t]
        BY <2>1, <3>1
      <4>2. ASSUME NEW x \in Edits(A, e, t) PROVE BeforeOrSame(x.hlc, op.hlc)
        <5>1. x \in Op /\ x.hlc \in Timestamp /\ t \in TagsOf[e]
          BY EditFields
        <5>2. CASE HadEntity(A, e)
          BY <5>2, ReinsertLast DEF BeforeOrSame
        <5>3. CASE BeforeOrSame(x.hlc, s.exists)
          <6>1. s.exists \in Timestamp
            BY EntityFacts
          <6> QED BY <1>1, <5>1, <5>3, <6>1, BeforeOrSameTransitive DEF BeforeOrSame
        <5>4. CASE \E p \in s.pending : p.tag = t /\ BeforeOrSame(x.hlc, p.hlc)
          <6>1. PICK p \in s.pending : p.tag = t /\ BeforeOrSame(x.hlc, p.hlc)
            BY <5>4
          <6>2. p.hlc \in Timestamp /\ ~ Before(op.hlc, p.hlc)
            <7>1. p.hlc \in Timestamp
              BY PendingFields
            <7>2. claimed[t] = op.hlc
              BY <1>5, <5>1
            <7> QED BY <1>4, <3>1, <6>1, <7>1, <7>2
          <6> QED BY <1>1, <5>1, <6>1, <6>2, NotBefore, BeforeOrSameTransitive
        <5>5. CASE s.present
          BY <5>2, <5>5, EntityFacts
        <5> QED BY <5>2, <5>3, <5>4, <5>5 DEF EntityInv, AbsentInv
      <4>3. \A x \in W : BeforeOrSame(x.hlc, op.hlc)
        BY <2>3, <4>2 DEF BeforeOrSame
      <4>4. CellInv(B, c, e, t)
        BY <1>5, <2>1, <2>2, <4>1, <4>3 DEF CellInv
      <4>5. RegInv(B, c, e, t)
        BY <1>3, <2>2, <2>6, <4>1 DEF RegInv, EntityInv
      <4> QED BY <2>1, <4>4, <4>5 DEF AbsentInv
    <3>2. CASE winners(t) # {}
      <4>1. PICK p \in winners(t) : TRUE
        BY <3>2
      <4>2. /\ c.cell[t] = p /\ c.reg[t] = p.hlc
            /\ p \in Edits(A, e, t) /\ p \in Op /\ p.hlc \in Timestamp
            /\ Before(op.hlc, p.hlc) /\ ~ HadEntity(A, e) /\ p \in s.pending /\ p.tag = t
        BY <1>4, <1>6, <2>1, <3>2, <4>1, OpFields
      <4>3. ASSUME NEW x \in Edits(A, e, t) PROVE BeforeOrSame(x.hlc, p.hlc)
        <5>1. x \in Op /\ x.hlc \in Timestamp
          BY EditFields
        <5>2. CASE BeforeOrSame(x.hlc, s.exists)
          <6>1. s.exists \in Timestamp
            BY EntityFacts
          <6>2. Before(x.hlc, op.hlc)
            BY <1>1, <5>1, <5>2, <6>1, BeforeOrSameTransitive
          <6> QED BY <1>1, <4>2, <5>1, <6>2, BeforeTransitive DEF BeforeOrSame
        <5>3. CASE \E q \in s.pending : q.tag = t /\ BeforeOrSame(x.hlc, q.hlc)
          BY <4>2, <5>3 DEF EntityInv, PendingInv
        <5> QED BY <4>2, <5>2, <5>3, EntityFacts DEF EntityInv, AbsentInv
      <4>4. \A x \in W : BeforeOrSame(x.hlc, p.hlc)
        <5>1. \A x \in I : x.hlc \in Timestamp
          BY ExistenceOpsPrecede
        <5> QED BY <1>1, <2>3, <4>2, <4>3, <5>1, BeforeTransitive DEF BeforeOrSame
      <4>5. CellInv(B, c, e, t)
        BY <2>1, <2>2, <4>2, <4>4 DEF CellInv
      <4>6. RegInv(B, c, e, t)
        BY <2>2, <2>6, <4>2 DEF RegInv
      <4> QED BY <2>1, <4>5, <4>6 DEF AbsentInv
    <3> QED BY <3>1, <3>2
  <2> QED BY <2>4, <2>5, <2>7 DEF EntityInv, B
<1> QED BY <1>7, <1>8 DEF c

\* An insert or removal that loses the existence register changes nothing.
LEMMA ExistenceOpLoses ==
  ASSUME NEW A \in SUBSET Op, NEW e \in Entity, NEW s \in EntityState,
         EntityInv(A, s, e), NEW op \in Op, op.ent = e, op.kind # "set",
         ~ Before(s.exists, op.hlc)
  PROVE  EntityInv(A \union {op}, s, e)
<1> DEFINE B == A \union {op}
<1>1. /\ op.hlc \in Timestamp /\ s.exists \in Timestamp /\ Before(NoHlc, op.hlc)
      /\ BeforeOrSame(op.hlc, s.exists)
  BY OpFields, EntityFacts, NotBefore
<1>2. PICK o \in ExistenceOps(A, e) :
        /\ s.exists = o.hlc
        /\ \A p \in ExistenceOps(A, e) : BeforeOrSame(p.hlc, o.hlc)
        /\ s.present <=> o.kind = "insert"
  BY <1>1 DEF EntityInv, ExistsInv
<1>3. /\ ExistenceOps(B, e) = ExistenceOps(A, e) \union {op}
      /\ Inserts(A, e) \subseteq Inserts(B, e) /\ Inserts(B, e) \subseteq Inserts(A, e) \union {op}
      /\ \A t : Edits(B, e, t) = Edits(A, e, t)
  BY DEF ExistenceOps, Inserts, Edits
<1> HIDE DEF B
<1>4. ExistsInv(B, s, e)
  BY <1>1, <1>2, <1>3 DEF ExistsInv
<1>5. PendingInv(B, s, e)
  BY <1>3 DEF EntityInv, PendingInv
<1>6. HadEntity(A, e) => HadEntity(B, e)
  BY <1>3 DEF HadEntity
<1>7. ASSUME NEW t \in Tag PROVE CellInv(B, s, e, t)
  <2>1. SUFFICES ASSUME s.present PROVE CellInv(B, s, e, t)
    BY DEF CellInv
  <2>2. o \in Inserts(A, e)
    BY <1>2, <2>1 DEF ExistenceOps, Inserts
  <2>3. /\ s.cell[t] \in Inserts(A, e) \union Edits(A, e, t)
        /\ \A p \in Inserts(A, e) \union Edits(A, e, t) : BeforeOrSame(p.hlc, s.cell[t].hlc)
        /\ t \in TagsOf[e] => s.reg[t] = s.cell[t].hlc
    BY <2>1, <2>2 DEF EntityInv, CellInv
  <2>4. BeforeOrSame(o.hlc, s.cell[t].hlc) /\ s.cell[t].hlc \in Timestamp
    <3>1. \A p \in Inserts(A, e) \union Edits(A, e, t) : p.hlc \in Timestamp
      BY OpFields DEF Inserts, Edits
    <3> QED BY <2>2, <2>3, <3>1
  <2>5. BeforeOrSame(op.hlc, s.cell[t].hlc)
    BY <1>1, <1>2, <2>4, BeforeOrSameTransitive
  <2> QED BY <1>3, <2>3, <2>5 DEF CellInv
<1>8. ASSUME NEW t \in Tag PROVE AbsentInv(B, s, e, t) /\ RegInv(B, s, e, t)
  BY <1>3, <1>6 DEF EntityInv, AbsentInv, RegInv
<1> QED BY <1>4, <1>5, <1>7, <1>8 DEF EntityInv, B

\* A removal that wins the existence register.
LEMMA RemoveWins ==
  ASSUME NEW A \in SUBSET Op, NEW e \in Entity, NEW s \in EntityState,
         EntityInv(A, s, e), NEW op \in Op, op.ent = e, op.kind = "remove",
         Before(s.exists, op.hlc)
  PROVE  Remove(s, op) \in EntityState /\ EntityInv(A \union {op}, Remove(s, op), e)
<1> DEFINE B == A \union {op}
           c == Remove(s, op)
<1>1. op.hlc \in Timestamp /\ op.hlc \in Stamp /\ s.exists \in Timestamp
  BY OpFields, EntityFacts
<1>2. c = [present |-> FALSE, cell |-> [t \in Tag |-> NoValue], exists |-> op.hlc,
           reg |-> s.reg, pending |-> {o \in s.pending : Before(op.hlc, o.hlc)}]
  BY DEF Remove, Wins
<1>3. /\ ExistenceOps(B, e) = ExistenceOps(A, e) \union {op}
      /\ Inserts(B, e) = Inserts(A, e)
      /\ \A t : Edits(B, e, t) = Edits(A, e, t)
  BY DEF ExistenceOps, Inserts, Edits
<1> HIDE DEF B, c
<1>4. c \in EntityState
  BY <1>1, <1>2 DEF EntityState, Writer
<1>5. ExistsInv(B, c, e)
  <2>1. \A p \in ExistenceOps(A, e) : BeforeOrSame(p.hlc, op.hlc)
    BY <1>1, ExistenceOpsPrecede DEF BeforeOrSame
  <2> QED BY <1>2, <1>3, <2>1 DEF ExistsInv, BeforeOrSame
<1>6. PendingInv(B, c, e)
  BY <1>2, <1>3 DEF EntityInv, PendingInv
<1>7. ASSUME NEW t \in Tag, ~ HadEntity(A, e), NEW x \in Edits(A, e, t)
      PROVE  \/ BeforeOrSame(x.hlc, op.hlc)
             \/ \E p \in c.pending : p.tag = t /\ BeforeOrSame(x.hlc, p.hlc)
  <2>1. x.hlc \in Timestamp
    BY EditFields
  <2>2. ~ s.present
    BY <1>7, EntityFacts
  <2>3. CASE BeforeOrSame(x.hlc, s.exists)
    BY <1>1, <2>1, <2>3, BeforeOrSameTransitive DEF BeforeOrSame
  <2>4. CASE \E p \in s.pending : p.tag = t /\ BeforeOrSame(x.hlc, p.hlc)
    <3>1. PICK p \in s.pending : p.tag = t /\ BeforeOrSame(x.hlc, p.hlc)
      BY <2>4
    <3>2. p.hlc \in Timestamp
      BY PendingFields
    <3>3. CASE Before(op.hlc, p.hlc)
      BY <1>2, <3>1, <3>3
    <3>4. CASE ~ Before(op.hlc, p.hlc)
      BY <1>1, <2>1, <3>1, <3>2, <3>4, NotBefore, BeforeOrSameTransitive
    <3> QED BY <3>3, <3>4
  <2> QED BY <1>7, <2>2, <2>3, <2>4 DEF EntityInv, AbsentInv
<1>8. ASSUME NEW t \in Tag
      PROVE  CellInv(B, c, e, t) /\ AbsentInv(B, c, e, t) /\ RegInv(B, c, e, t)
  <2>1. CellInv(B, c, e, t)
    BY <1>2 DEF CellInv
  <2>2. AbsentInv(B, c, e, t)
    BY <1>2, <1>3, <1>7 DEF AbsentInv, HadEntity
  <2>3. RegInv(B, c, e, t)
    BY <1>2, <1>3 DEF EntityInv, RegInv, HadEntity
  <2> QED BY <2>1, <2>2, <2>3
<1> QED BY <1>4, <1>5, <1>6, <1>8 DEF EntityInv, B, c

\* A field edit that finds its entity absent waits, or the one that waits for
\* the same field is later.
LEMMA EditWaits ==
  ASSUME NEW A \in SUBSET Op, NEW e \in Entity, NEW s \in EntityState,
         EntityInv(A, s, e), NEW op \in Op, op.ent = e, op.kind = "set", ~ s.present
  PROVE  Buffer(s, op) \in EntityState /\ EntityInv(A \union {op}, Buffer(s, op), e)
<1> DEFINE B == A \union {op}
           c == Buffer(s, op)
           later == \E o \in s.pending : o.tag = op.tag /\ ~ Before(o.hlc, op.hlc)
<1>1. op.hlc \in Timestamp /\ op \in FieldOp /\ op.tag \in Tag
  BY OpFields
<1>2. /\ c \in EntityState
      /\ c.present = s.present /\ c.exists = s.exists /\ c.reg = s.reg
      /\ c.pending = IF later THEN s.pending
                     ELSE {o \in s.pending : o.tag # op.tag} \union {op}
  BY <1>1 DEF Buffer, EntityState
<1>3. /\ ExistenceOps(B, e) = ExistenceOps(A, e)
      /\ Inserts(B, e) = Inserts(A, e)
      /\ \A t : Edits(B, e, t) =
           IF t = op.tag THEN Edits(A, e, t) \union {op} ELSE Edits(A, e, t)
  BY DEF ExistenceOps, Inserts, Edits
<1> HIDE DEF B, c
<1>4. ExistsInv(B, c, e)
  BY <1>2, <1>3 DEF EntityInv, ExistsInv
<1>5. PendingInv(B, c, e)
  <2>1. CASE later
    BY <1>2, <1>3, <2>1 DEF EntityInv, PendingInv
  <2>2. CASE ~ later
    <3> HIDE DEF later
    <3>1. c.pending = {o \in s.pending : o.tag # op.tag} \union {op}
      BY <1>2, <2>2
    <3>2. \A p \in c.pending : p \in Edits(B, e, p.tag)
      BY <1>3, <3>1 DEF EntityInv, PendingInv
    <3> QED BY <1>2, <3>1, <3>2 DEF EntityInv, PendingInv
  <2> QED BY <2>1, <2>2
<1>6. ASSUME NEW t \in Tag, ~ HadEntity(A, e), NEW x \in Edits(B, e, t)
      PROVE  \/ BeforeOrSame(x.hlc, s.exists)
             \/ \E p \in c.pending : p.tag = t /\ BeforeOrSame(x.hlc, p.hlc)
  <2>1. CASE x \in Edits(A, e, t)
    <3>1. x.hlc \in Timestamp
      BY <2>1, EditFields
    <3>2. \/ BeforeOrSame(x.hlc, s.exists)
          \/ \E p \in s.pending : p.tag = t /\ BeforeOrSame(x.hlc, p.hlc)
      BY <1>6, <2>1 DEF EntityInv, AbsentInv
    <3>3. SUFFICES ASSUME NEW p \in s.pending, p.tag = t, BeforeOrSame(x.hlc, p.hlc), p \notin c.pending
                   PROVE  BeforeOrSame(x.hlc, op.hlc) /\ op \in c.pending /\ op.tag = t
      BY <3>2
    <3>4. op \in c.pending /\ op.tag = t /\ Before(p.hlc, op.hlc)
      BY <1>2, <3>3
    <3>5. p.hlc \in Timestamp
      BY PendingFields
    <3> QED BY <1>1, <3>1, <3>3, <3>4, <3>5, BeforeOrSameTransitive DEF BeforeOrSame
  <2>2. CASE x = op /\ op.tag = t
    <3>1. CASE later
      <4>1. PICK o \in s.pending : o.tag = op.tag /\ ~ Before(o.hlc, op.hlc)
        BY <3>1
      <4>2. o.hlc \in Timestamp
        BY PendingFields
      <4> QED BY <1>1, <1>2, <2>2, <3>1, <4>1, <4>2, NotBefore
    <3>2. CASE ~ later
      BY <1>2, <2>2, <3>2 DEF BeforeOrSame
    <3> QED BY <3>1, <3>2
  <2> QED BY <1>3, <2>1, <2>2
<1>7. ASSUME NEW t \in Tag
      PROVE  CellInv(B, c, e, t) /\ AbsentInv(B, c, e, t) /\ RegInv(B, c, e, t)
  <2>1. CellInv(B, c, e, t)
    BY <1>2 DEF CellInv
  <2>2. AbsentInv(B, c, e, t)
    BY <1>2, <1>3, <1>6 DEF AbsentInv, HadEntity
  <2>3. RegInv(B, c, e, t)
    BY <1>2, <1>3 DEF EntityInv, RegInv, HadEntity
  <2> QED BY <2>1, <2>2, <2>3
<1> QED BY <1>2, <1>4, <1>5, <1>7 DEF EntityInv, B, c

\* A field edit of a present entity: it writes, or a later write stands.
LEMMA EditPresent ==
  ASSUME NEW A \in SUBSET Op, NEW e \in Entity, NEW s \in EntityState,
         EntityInv(A, s, e), NEW op \in Op, op.ent = e, op.kind = "set", s.present
  PROVE  SetField(s, op) \in EntityState /\ EntityInv(A \union {op}, SetField(s, op), e)
<1> DEFINE B == A \union {op}
           c == SetField(s, op)
           W(t) == Inserts(A, e) \union Edits(A, e, t)
<1>1. /\ op.hlc \in Timestamp /\ op.hlc \in Stamp /\ op.tag \in Tag /\ op.tag \in TagsOf[e]
      /\ s.reg[op.tag] \in Timestamp /\ Before(NoHlc, op.hlc)
  BY OpFields, EntityFacts
<1>2. /\ ExistenceOps(B, e) = ExistenceOps(A, e)
      /\ Inserts(B, e) = Inserts(A, e)
      /\ \A t : Edits(B, e, t) =
           IF t = op.tag THEN Edits(A, e, t) \union {op} ELSE Edits(A, e, t)
  BY DEF ExistenceOps, Inserts, Edits
<1>3. HadEntity(B, e)
  BY <1>2, EntityFacts DEF HadEntity
<1>4. c \in EntityState
  BY <1>1 DEF SetField, EntityState, Writer
<1>5. /\ c.present = s.present /\ c.exists = s.exists /\ c.pending = s.pending
      /\ \A t \in Tag : t # op.tag => c.cell[t] = s.cell[t] /\ c.reg[t] = s.reg[t]
      /\ IF Before(s.reg[op.tag], op.hlc)
         THEN c.cell[op.tag] = op /\ c.reg[op.tag] = op.hlc
         ELSE c.cell[op.tag] = s.cell[op.tag] /\ c.reg[op.tag] = s.reg[op.tag]
  BY <1>1 DEF SetField, EntityState, Wins
<1> HIDE DEF B, c
<1>6. ExistsInv(B, c, e)
  BY <1>2, <1>5 DEF EntityInv, ExistsInv
<1>7. PendingInv(B, c, e)
  BY <1>2, <1>5 DEF EntityInv, PendingInv
\* What the field holds now, the op or a later writer, post-dates all of them.
<1>8. CellInv(B, c, e, op.tag)
  <2>1. \/ W(op.tag) = {} /\ s.reg[op.tag] = NoHlc
        \/ /\ s.cell[op.tag] \in W(op.tag)
           /\ \A p \in W(op.tag) : BeforeOrSame(p.hlc, s.cell[op.tag].hlc)
           /\ s.reg[op.tag] = s.cell[op.tag].hlc
    BY <1>1 DEF EntityInv, CellInv
  <2>2. \A p \in W(op.tag) : p.hlc \in Timestamp
    BY OpFields DEF Inserts, Edits
  <2>3. CASE Before(s.reg[op.tag], op.hlc)
    <3>1. \A p \in W(op.tag) : BeforeOrSame(p.hlc, op.hlc)
      BY <1>1, <2>1, <2>2, <2>3, BeforeOrSameTransitive DEF BeforeOrSame
    <3> QED BY <1>2, <1>5, <2>3, <3>1 DEF CellInv, BeforeOrSame
  <2>4. CASE ~ Before(s.reg[op.tag], op.hlc)
    <3>1. BeforeOrSame(op.hlc, s.reg[op.tag])
      BY <1>1, <2>4, NotBefore
    <3>2. s.reg[op.tag] # NoHlc
      BY <1>1, <2>4
    <3> QED BY <1>2, <1>5, <2>1, <2>4, <3>1, <3>2 DEF CellInv
  <2> QED BY <2>3, <2>4
<1>9. ASSUME NEW t \in Tag, t # op.tag PROVE CellInv(B, c, e, t)
  BY <1>2, <1>5, <1>9 DEF EntityInv, CellInv
<1>10. ASSUME NEW t \in Tag PROVE AbsentInv(B, c, e, t) /\ RegInv(B, c, e, t)
  <2>1. RegInv(B, c, e, t)
    <3>1. CASE t = op.tag /\ Before(s.reg[op.tag], op.hlc)
      BY <1>2, <1>3, <1>5, <3>1 DEF RegInv
    <3>2. CASE ~ (t = op.tag /\ Before(s.reg[op.tag], op.hlc))
      <4>1. c.reg[t] = s.reg[t]
        BY <1>5, <3>2
      <4> QED BY <1>2, <1>3, <4>1 DEF EntityInv, RegInv
    <3> QED BY <3>1, <3>2
  <2> QED BY <1>3, <2>1 DEF AbsentInv
<1> QED BY <1>4, <1>6, <1>7, <1>8, <1>9, <1>10 DEF EntityInv, B, c

\* One op on its own entity, whichever kind.
LEMMA DispatchInv ==
  ASSUME NEW A \in SUBSET Op, NEW e \in Entity, NEW s \in EntityState,
         EntityInv(A, s, e), NEW op \in Op, op.ent = e, Disciplined(A \union {op})
  PROVE  Dispatch(s, op) \in EntityState /\ EntityInv(A \union {op}, Dispatch(s, op), e)
<1>1. CASE op.kind = "insert" /\ Before(s.exists, op.hlc)
  BY <1>1, InsertWins DEF Dispatch
<1>2. CASE op.kind = "remove" /\ Before(s.exists, op.hlc)
  BY <1>2, RemoveWins DEF Dispatch
<1>3. CASE op.kind # "set" /\ ~ Before(s.exists, op.hlc)
  <2>1. Dispatch(s, op) = s
    BY <1>3, OpFields DEF Dispatch, Insert, Remove, Wins
  <2> QED BY <1>3, <2>1, ExistenceOpLoses
<1>4. CASE op.kind = "set" /\ s.present
  <2>1. Dispatch(s, op) = SetField(s, op)
    BY <1>4 DEF Dispatch
  <2> QED BY <1>4, <2>1, EditPresent
<1>5. CASE op.kind = "set" /\ ~ s.present
  <2>1. Dispatch(s, op) = Buffer(s, op)
    BY <1>5 DEF Dispatch, SetField
  <2> QED BY <1>5, <2>1, EditWaits
<1> QED BY <1>1, <1>2, <1>3, <1>4, <1>5, OpFields

LEMMA NewDocumentInv == DocumentInv(NewDocument) /\ NewDocument.applied = {}
<1>1. NewDocument \in DocumentType /\ NewDocument.applied = {}
  BY DEF NewDocument, DocumentType, EntityState, Writer
<1>2. ASSUME NEW e \in Entity PROVE EntityInv({}, NewDocument.state[e], e)
  BY DEF NewDocument, EntityInv, ExistsInv, PendingInv, CellInv, AbsentInv, RegInv,
         HadEntity, ExistenceOps, Inserts, Edits
<1> QED BY <1>1, <1>2 DEF DocumentInv

LEMMA ApplyInv ==
  ASSUME NEW d, DocumentInv(d), NEW op \in Op, Disciplined(d.applied \union {op})
  PROVE  DocumentInv(Apply(d, op)) /\ Apply(d, op).applied = d.applied \union {op}
<1>1. CASE op \in d.applied
  <2>1. Apply(d, op) = d /\ d.applied \union {op} = d.applied
    BY <1>1 DEF Apply
  <2> QED BY <2>1
<1>2. CASE op \notin d.applied
  <2> DEFINE A == d.applied
             c == Apply(d, op)
  <2>1. A \in SUBSET Op /\ d.state \in [Entity -> EntityState] /\ op.ent \in Entity
    BY OpFields DEF DocumentInv, DocumentType
  <2>2. \A e \in Entity : d.state[e] \in EntityState /\ EntityInv(A, d.state[e], e)
    BY <2>1 DEF DocumentInv
  <2>3. /\ Dispatch(d.state[op.ent], op) \in EntityState
        /\ EntityInv(A \union {op}, Dispatch(d.state[op.ent], op), op.ent)
    BY <2>1, <2>2, DispatchInv
  <2>4. /\ c.applied = A \union {op}
        /\ c = [applied |-> A \union {op},
                state |-> [d.state EXCEPT ![op.ent] = Dispatch(d.state[op.ent], op)]]
    BY <1>2 DEF Apply
  <2> HIDE DEF c
  <2>5. c \in DocumentType
    BY <2>1, <2>3, <2>4 DEF DocumentType
  <2>6. ASSUME NEW e \in Entity PROVE EntityInv(c.applied, c.state[e], e)
    <3>1. CASE e = op.ent
      <4>1. c.state[e] = Dispatch(d.state[op.ent], op)
        BY <2>1, <2>4, <3>1
      <4> QED BY <2>3, <2>4, <3>1, <4>1
    <3>2. CASE e # op.ent
      <4>1. c.state[e] = d.state[e]
        BY <2>1, <2>4, <3>2
      <4> QED BY <2>1, <2>2, <2>4, <3>2, <4>1, OtherEntity
    <3> QED BY <3>1, <3>2
  <2> QED BY <2>4, <2>5, <2>6 DEF DocumentInv, c
<1> QED BY <1>1, <1>2

\* What a document shows is what its ops stand for.
LEMMA BudgetIsMerged ==
  ASSUME NEW d, DocumentInv(d), UniqueHlcs(d.applied)
  PROVE  Budget(d) = Merged(d.applied)
<1> DEFINE A == d.applied
<1>1. A \in SUBSET Op
  BY DEF DocumentInv, DocumentType
\* Of ops none of which post-dates o, all others precede it.
<1>2. ASSUME NEW S \in SUBSET A, NEW o \in S, \A p \in S : BeforeOrSame(p.hlc, o.hlc)
      PROVE  Highest(S) = o
  <2>1. \A p \in S : p = o \/ Before(p.hlc, o.hlc)
    BY <1>2 DEF BeforeOrSame, UniqueHlcs
  <2> QED BY <1>1, <2>1, HighestIs
<1>3. ASSUME NEW e \in Entity
      PROVE  Budget(d)[e] = Merged(A)[e]
  <2> DEFINE s == d.state[e]
             E == ExistenceOps(A, e)
  <2>1. s \in EntityState /\ EntityInv(A, s, e)
    BY DEF DocumentInv, DocumentType
  <2>2. Lives(A, e) <=> s.present
    <3>1. CASE E = {}
      BY <2>1, <3>1 DEF EntityInv, ExistsInv, Lives
    <3>2. CASE E # {}
      <4>1. PICK o \in E : /\ \A p \in E : BeforeOrSame(p.hlc, o.hlc)
                           /\ s.present <=> o.kind = "insert"
        BY <2>1, <3>2 DEF EntityInv, ExistsInv
      <4>2. E \in SUBSET A
        BY DEF ExistenceOps
      <4>3. Highest(E) = o
        BY <1>2, <4>1, <4>2
      <4> QED BY <3>2, <4>1, <4>3 DEF Lives
    <3> QED BY <3>1, <3>2
  <2>3. ASSUME NEW t \in Tag, s.present
        PROVE  s.cell[t] = LastWriter(A, e, t)
    <3> DEFINE W == Inserts(A, e) \union Edits(A, e, t)
    <3>1. CASE W = {}
      BY <2>1, <2>3, <3>1 DEF EntityInv, CellInv, LastWriter
    <3>2. CASE W # {}
      <4>1. s.cell[t] \in W /\ \A p \in W : BeforeOrSame(p.hlc, s.cell[t].hlc)
        BY <2>1, <2>3, <3>2 DEF EntityInv, CellInv
      <4>2. W \in SUBSET A
        BY DEF Inserts, Edits
      <4>3. Highest(W) = s.cell[t]
        BY <1>2, <4>1, <4>2
      <4> QED BY <3>2, <4>3 DEF LastWriter
    <3> QED BY <3>1, <3>2
  <2>4. CASE s.present
    <3>1. s.cell = [t \in Tag |-> s.cell[t]]
      BY <2>1 DEF EntityState
    <3>2. s.cell = [t \in Tag |-> LastWriter(A, e, t)]
      BY <2>3, <2>4, <3>1
    <3> QED BY <2>2, <2>4, <3>2 DEF Budget, Merged
  <2>5. CASE ~ s.present
    BY <2>2, <2>5 DEF Budget, Merged
  <2> QED BY <2>4, <2>5
<1> QED BY <1>3 DEF Budget, Merged

LEMMA DisciplinedSubset ==
  ASSUME NEW A, Disciplined(A), NEW B \in SUBSET A
  PROVE  Disciplined(B)
<1>1. UniqueHlcs(B)
  BY DEF Disciplined, UniqueHlcs
<1>2. \A e : Inserts(B, e) \subseteq Inserts(A, e)
  BY DEF Inserts
<1>3. ReinsertsPostdateEdits(B)
  BY <1>2 DEF Disciplined, ReinsertsPostdateEdits
<1> QED BY <1>1, <1>3 DEF Disciplined

----------------------------------------------------------------------------
(***************************************************************************)
(* Replaying a list of ops.                                                *)
(***************************************************************************)
\* Induction over Nat for a set, from the library's minimum of a non-empty subset
\* of a well-founded order: the form of it that takes no operator.
LEMMA SetInduction ==
  ASSUME NEW S, 0 \in S, \A n \in Nat : n \in S => n + 1 \in S
  PROVE  Nat \subseteq S
<1> DEFINE T == Nat \ S
           R == OpToRel(<, Nat)
<1>1. SUFFICES ASSUME T # {} PROVE FALSE
  OBVIOUS
<1>2. T \subseteq Nat
  OBVIOUS
<1>3. \A m, n \in Nat : m < n => <<m, n>> \in R
  BY DEF OpToRel
<1>4. IsWellFoundedOn(R, Nat)
  BY NatLessThanWellFounded
<1>5. PICK x \in T : \A y \in T : ~ (<<y, x>> \in R)
  <2> HIDE DEF T, R
  <2> QED BY <1>1, <1>2, <1>4, WFMin
<1>6. x \in Nat /\ x # 0 /\ x - 1 \in T /\ x - 1 < x
  OBVIOUS
<1> QED BY <1>3, <1>5, <1>6

\* f gives the document after each prefix of ops.
Replays(f, d, ops) ==
  f = [i \in 0 .. Len(ops) |-> IF i = 0 THEN d ELSE Apply(f[i - 1], ops[i])]

LEMMA ReplayExists ==
  ASSUME NEW d, NEW ops, Len(ops) \in Nat
  PROVE  \E f : Replays(f, d, ops)
<1> DEFINE P(n, f) == f = [i \in 0 .. n |-> IF i = 0 THEN d ELSE Apply(f[i - 1], ops[i])]
           S == {n \in Nat : \E f : P(n, f)}
<1>1. 0 \in S
  <2> DEFINE g == [i \in 0 .. 0 |-> d]
  <2>1. P(0, g)
    OBVIOUS
  <2> QED BY <2>1
<1>2. ASSUME NEW n \in Nat, n \in S PROVE n + 1 \in S
  <2>1. PICK f : P(n, f)
    BY <1>2
  <2> DEFINE g == [i \in 0 .. n + 1 |-> IF i = n + 1 THEN Apply(f[n], ops[n + 1]) ELSE f[i]]
  <2>2. DOMAIN f = 0 .. n /\ \A i \in 0 .. n : f[i] = IF i = 0 THEN d ELSE Apply(f[i - 1], ops[i])
    BY <2>1
  <2>3. \A i \in 0 .. n + 1 : g[i] = IF i = 0 THEN d ELSE Apply(g[i - 1], ops[i])
    BY <2>2
  <2>4. P(n + 1, g)
    BY <2>3
  <2> HIDE DEF g
  <2> QED BY <2>4
<1>3. Len(ops) \in S
  <2> HIDE DEF S
  <2> QED BY <1>1, <1>2, SetInduction
<1> QED BY <1>3 DEF Replays

\* more begins with ops.
Begins(ops, more) ==
  /\ Len(ops) \in Nat /\ Len(more) \in Nat /\ Len(ops) <= Len(more)
  /\ \A i \in 1 .. Len(ops) : ops[i] = more[i]

LEMMA ReplayUnique ==
  ASSUME NEW d, NEW ops, NEW more, Begins(ops, more),
         NEW f, Replays(f, d, ops), NEW g, Replays(g, d, more)
  PROVE  f[Len(ops)] = g[Len(ops)]
<1> DEFINE S == {n \in Nat : n <= Len(ops) => f[n] = g[n]}
<1>1. /\ \A i \in 0 .. Len(ops) : f[i] = IF i = 0 THEN d ELSE Apply(f[i - 1], ops[i])
      /\ \A i \in 0 .. Len(more) : g[i] = IF i = 0 THEN d ELSE Apply(g[i - 1], more[i])
  BY DEF Replays
<1> USE DEF Begins
<1>2. 0 \in S
  BY <1>1
<1>3. ASSUME NEW n \in Nat, n \in S PROVE n + 1 \in S
  <2>1. SUFFICES ASSUME n + 1 <= Len(ops) PROVE f[n + 1] = g[n + 1]
    OBVIOUS
  <2>2. f[n] = g[n] /\ ops[n + 1] = more[n + 1]
    BY <1>3, <2>1
  <2>3. n + 1 \in 0 .. Len(ops) /\ n + 1 \in 0 .. Len(more) /\ n + 1 # 0 /\ (n + 1) - 1 = n
    BY <2>1
  <2> QED BY <1>1, <2>2, <2>3
<1>4. \A n \in 0 .. Len(ops) : n \in S
  <2> HIDE DEF S
  <2> QED BY <1>2, <1>3, SetInduction
<1> QED BY <1>4

LEMMA ReplayIs ==
  ASSUME NEW d, NEW ops, Len(ops) \in Nat
  PROVE  \E f : Replays(f, d, ops) /\ ReplayOnto(d, ops) = f[Len(ops)]
<1> DEFINE f == CHOOSE g : Replays(g, d, ops)
<1>1. Replays(f, d, ops)
  <2> HIDE DEF Replays
  <2> QED BY ReplayExists
<1>2. ReplayOnto(d, ops) = f[Len(ops)]
  BY DEF ReplayOnto, Replays
<1> HIDE DEF f
<1> QED BY <1>1, <1>2

LEMMA ReplayEmpty ==
  ASSUME NEW d
  PROVE  ReplayOnto(d, << >>) = d
<1>1. Len(<< >>) = 0
  OBVIOUS
<1>2. PICK f : Replays(f, d, << >>) /\ ReplayOnto(d, << >>) = f[0]
  BY <1>1, ReplayIs
<1>3. f[0] = d
  BY <1>1, <1>2 DEF Replays
<1> QED BY <1>2, <1>3

LEMMA ReplayAppend ==
  ASSUME NEW d, NEW ops \in Seq(Op), NEW op \in Op
  PROVE  ReplayOnto(d, Append(ops, op)) = Apply(ReplayOnto(d, ops), op)
<1> DEFINE more == Append(ops, op)
<1>1. /\ Len(ops) \in Nat /\ Len(more) \in Nat /\ Len(more) = Len(ops) + 1
      /\ more[Len(more)] = op /\ \A i \in 1 .. Len(ops) : ops[i] = more[i]
  OBVIOUS
<1> HIDE DEF more
<1>2. PICK f : Replays(f, d, ops) /\ ReplayOnto(d, ops) = f[Len(ops)]
  BY <1>1, ReplayIs
<1>3. PICK g : Replays(g, d, more) /\ ReplayOnto(d, more) = g[Len(more)]
  BY <1>1, ReplayIs
<1>4. f[Len(ops)] = g[Len(ops)]
  <2>1. Begins(ops, more)
    BY <1>1 DEF Begins
  <2> QED BY <1>2, <1>3, <2>1, ReplayUnique
<1>5. g[Len(more)] = Apply(g[Len(ops)], op)
  <2>1. Len(more) \in 0 .. Len(more) /\ Len(more) # 0 /\ Len(more) - 1 = Len(ops)
    BY <1>1
  <2> QED BY <1>1, <1>3, <2>1 DEF Replays
<1> QED BY <1>2, <1>3, <1>4, <1>5 DEF more

Listed(ops) == {ops[i] : i \in DOMAIN ops}

LEMMA AppendListed ==
  ASSUME NEW T, NEW ops \in Seq(T), NEW op \in T
  PROVE  /\ Append(ops, op) \in Seq(T)
         /\ DOMAIN Append(ops, op) = DOMAIN ops \union {Len(ops) + 1}
         /\ \A i \in DOMAIN ops : Append(ops, op)[i] = ops[i]
         /\ Append(ops, op)[Len(ops) + 1] = op
         /\ Listed(Append(ops, op)) = Listed(ops) \union {op}
<1>1. /\ Append(ops, op) \in Seq(T)
      /\ DOMAIN Append(ops, op) = DOMAIN ops \union {Len(ops) + 1}
      /\ \A i \in DOMAIN ops : Append(ops, op)[i] = ops[i]
      /\ Append(ops, op)[Len(ops) + 1] = op
  OBVIOUS
<1> HIDE DEF Listed
<1>2. Listed(Append(ops, op)) = Listed(ops) \union {op}
  BY <1>1 DEF Listed
<1> QED BY <1>1, <1>2

\* A list that is not empty is one element after another list.
LEMMA LastOfList ==
  ASSUME NEW T, NEW ops \in Seq(T), NEW n \in Nat, Len(ops) = n + 1
  PROVE  \E front \in Seq(T), op \in T : ops = Append(front, op) /\ Len(front) = n
<1> DEFINE front == SubSeq(ops, 1, n)
<1>1. front \in Seq(T) /\ Len(front) = n /\ \A i \in 1 .. n : front[i] = ops[i]
  OBVIOUS
<1>2. ops[n + 1] \in T
  OBVIOUS
<1> HIDE DEF front
<1>3. ops = Append(front, ops[n + 1])
  BY <1>1, <1>2
<1> QED BY <1>1, <1>2, <1>3

\* A list that is not empty is its first element before another list.
LEMMA HeadTailListed ==
  ASSUME NEW T, NEW ops \in Seq(T), ops # << >>
  PROVE  /\ Head(ops) \in T /\ Tail(ops) \in Seq(T)
         /\ Len(Tail(ops)) \in Nat /\ Len(ops) = Len(Tail(ops)) + 1
         /\ Listed(ops) = {Head(ops)} \union Listed(Tail(ops))
<1>1. /\ Head(ops) \in T /\ Tail(ops) \in Seq(T)
      /\ Len(ops) \in Nat \ {0} /\ Len(Tail(ops)) = Len(ops) - 1
      /\ Head(ops) = ops[1] /\ \A i \in 1 .. Len(ops) - 1 : Tail(ops)[i] = ops[i + 1]
  OBVIOUS
<1>2. DOMAIN ops = 1 .. Len(ops) /\ DOMAIN Tail(ops) = 1 .. Len(ops) - 1
  BY <1>1
<1>3. Listed(ops) = {Head(ops)} \union Listed(Tail(ops))
  <2>1. ASSUME NEW i \in DOMAIN ops PROVE ops[i] \in {Head(ops)} \union Listed(Tail(ops))
    <3>1. CASE i = 1
      BY <1>1, <3>1
    <3>2. CASE i # 1
      <4>1. i - 1 \in DOMAIN Tail(ops) /\ (i - 1) + 1 = i
        BY <1>1, <1>2, <3>2
      <4>2. Tail(ops)[i - 1] = ops[i]
        BY <1>1, <1>2, <4>1
      <4> QED BY <4>1, <4>2 DEF Listed
    <3> QED BY <3>1, <3>2
  <2>2. Head(ops) \in Listed(ops)
    BY <1>1, <1>2 DEF Listed
  <2>3. ASSUME NEW i \in DOMAIN Tail(ops) PROVE Tail(ops)[i] \in Listed(ops)
    <3>1. i + 1 \in DOMAIN ops /\ Tail(ops)[i] = ops[i + 1]
      BY <1>1, <1>2
    <3> QED BY <3>1 DEF Listed
  <2> QED BY <2>1, <2>2, <2>3 DEF Listed
<1> QED BY <1>1, <1>3

\* Replaying a list keeps a document well formed and applies exactly the list.
LEMMA ReplayInv ==
  ASSUME NEW d, DocumentInv(d), NEW ops \in Seq(Op),
         Disciplined(d.applied \union Listed(ops))
  PROVE  /\ DocumentInv(ReplayOnto(d, ops))
         /\ ReplayOnto(d, ops).applied = d.applied \union Listed(ops)
<1> DEFINE Good(list) ==
             Disciplined(d.applied \union Listed(list)) =>
               /\ DocumentInv(ReplayOnto(d, list))
               /\ ReplayOnto(d, list).applied = d.applied \union Listed(list)
           S == {n \in Nat : \A list \in Seq(Op) : Len(list) = n => Good(list)}
<1>1. 0 \in S
  <2> SUFFICES ASSUME NEW list \in Seq(Op), Len(list) = 0 PROVE Good(list)
    OBVIOUS
  <2>1. list = << >>
    OBVIOUS
  <2>2. Listed(list) = {} /\ ReplayOnto(d, list) = d
    BY <2>1, ReplayEmpty DEF Listed
  <2> QED BY <2>2
<1>2. ASSUME NEW n \in Nat, n \in S PROVE n + 1 \in S
  <2> SUFFICES ASSUME NEW list \in Seq(Op), Len(list) = n + 1,
                      Disciplined(d.applied \union Listed(list))
               PROVE  /\ DocumentInv(ReplayOnto(d, list))
                      /\ ReplayOnto(d, list).applied = d.applied \union Listed(list)
    OBVIOUS
  <2>1. PICK front \in Seq(Op), op \in Op : list = Append(front, op) /\ Len(front) = n
    BY LastOfList
  <2>2. /\ Listed(list) = Listed(front) \union {op}
        /\ ReplayOnto(d, list) = Apply(ReplayOnto(d, front), op)
    BY <2>1, AppendListed, ReplayAppend
  <2>3. Disciplined(d.applied \union Listed(front))
    BY <2>2, DisciplinedSubset
  <2>4. /\ DocumentInv(ReplayOnto(d, front))
        /\ ReplayOnto(d, front).applied = d.applied \union Listed(front)
    BY <1>2, <2>1, <2>3
  <2>5. Disciplined(ReplayOnto(d, front).applied \union {op})
    <3>1. ReplayOnto(d, front).applied \union {op} = d.applied \union Listed(list)
      BY <2>2, <2>4
    <3> QED BY <3>1
  <2> QED BY <2>2, <2>4, <2>5, ApplyInv
<1>3. Len(ops) \in S
  <2> HIDE DEF S
  <2> QED BY <1>1, <1>2, SetInduction
<1> QED BY <1>3

\* An op that changes no document state is not logged, and the other way round.
LEMMA NoEffect ==
  ASSUME NEW d, d.state \in [Entity -> EntityState], NEW op \in Op, ~ TookEffect(d, op)
  PROVE  Apply(d, op).state = d.state
<1>1. op.ent \in Entity /\ op.kind \in {"insert", "remove", "set"}
  BY OpFields
<1>2. CASE op \in d.applied
  BY <1>2 DEF Apply
<1>3. CASE op \notin d.applied
  <2>1. Dispatch(d.state[op.ent], op) = d.state[op.ent]
    BY <1>1, <1>3 DEF TookEffect, Outcome, Dispatch, Insert, Remove, SetField
  <2>2. Apply(d, op).state = [d.state EXCEPT ![op.ent] = d.state[op.ent]]
    BY <1>3, <2>1 DEF Apply
  <2> QED BY <2>2
<1> QED BY <1>2, <1>3

\* Two documents of one state make one state of an op new to both.
LEMMA SameStateApply ==
  ASSUME NEW c, NEW d, c.state = d.state, NEW op, op \notin c.applied, op \notin d.applied
  PROVE  Apply(c, op).state = Apply(d, op).state
  BY DEF Apply

----------------------------------------------------------------------------
(***************************************************************************)
(* Ops that change nothing: a log without them stands for the same merge.  *)
(***************************************************************************)
\* An op of L decides whatever x would: it is at least as late.
Superseded(L, x) ==
  IF x.kind = "set"
  THEN \E w \in Inserts(L, x.ent) \union Edits(L, x.ent, x.tag) : BeforeOrSame(x.hlc, w.hlc)
  ELSE \E o \in ExistenceOps(L, x.ent) : BeforeOrSame(x.hlc, o.hlc)

LEMMA SupersededGrows ==
  ASSUME NEW L, NEW K, L \subseteq K, NEW x, Superseded(L, x)
  PROVE  Superseded(K, x)
  BY DEF Superseded, Inserts, Edits, ExistenceOps

\* A stale op is superseded by what the document has applied.
LEMMA StaleSuperseded ==
  ASSUME NEW d, DocumentInv(d), NEW op \in Op, Outcome(d, op) = "Stale"
  PROVE  Superseded(d.applied, op)
<1> DEFINE s == d.state[op.ent]
           A == d.applied
<1>1. /\ op.ent \in Entity /\ op.hlc \in Timestamp /\ Before(NoHlc, op.hlc)
      /\ A \in SUBSET Op /\ s \in EntityState /\ EntityInv(A, s, op.ent)
  BY OpFields DEF DocumentInv, DocumentType
<1>2. s.exists \in Timestamp /\ \A t \in Tag : s.reg[t] \in Timestamp
  BY <1>1, EntityFacts
<1>3. CASE op.kind # "set"
  <2>1. ~ Before(s.exists, op.hlc)
    BY <1>3 DEF Outcome, Wins
  <2>2. BeforeOrSame(op.hlc, s.exists) /\ s.exists # NoHlc
    BY <1>1, <1>2, <2>1, NotBefore
  <2>3. \E o \in ExistenceOps(A, op.ent) : s.exists = o.hlc
    BY <1>1, <2>2 DEF EntityInv, ExistsInv
  <2> QED BY <1>3, <2>2, <2>3 DEF Superseded
<1>4. CASE op.kind = "set"
  <2>1. op.tag \in Tag /\ op.tag \in TagsOf[op.ent]
    BY <1>4, OpFields
  <2>2. s.present /\ ~ Before(s.reg[op.tag], op.hlc)
    BY <1>4 DEF Outcome, Wins
  <2>3. BeforeOrSame(op.hlc, s.reg[op.tag]) /\ s.reg[op.tag] # NoHlc
    BY <1>1, <1>2, <2>1, <2>2, NotBefore
  <2>4. /\ s.cell[op.tag] \in Inserts(A, op.ent) \union Edits(A, op.ent, op.tag)
        /\ s.reg[op.tag] = s.cell[op.tag].hlc
    BY <1>1, <2>1, <2>2, <2>3 DEF EntityInv, CellInv
  <2> QED BY <1>4, <2>3, <2>4 DEF Superseded
<1> QED BY <1>3, <1>4

\* The op that no op of a set post-dates is what Highest chooses of it.
LEMMA HighestOf ==
  ASSUME NEW A \in SUBSET Op, UniqueHlcs(A), NEW S \in SUBSET A, NEW o \in S,
         \A p \in S : BeforeOrSame(p.hlc, o.hlc)
  PROVE  Highest(S) = o
<1>1. \A p \in S : p = o \/ Before(p.hlc, o.hlc)
  BY DEF BeforeOrSame, UniqueHlcs
<1> QED BY <1>1, HighestIs

\* A document that has applied all of A but some superseded ops shows the merge
\* of A.
LEMMA MergedIgnoresSuperseded ==
  ASSUME NEW A \in SUBSET Op, UniqueHlcs(A), NEW d, DocumentInv(d), d.applied \subseteq A,
         \A x \in A : x \in d.applied \/ Superseded(d.applied, x)
  PROVE  Budget(d) = Merged(A)
<1> DEFINE X == d.applied
<1>1. X \in SUBSET Op /\ UniqueHlcs(X)
  BY DEF UniqueHlcs
<1>2. ASSUME NEW e \in Entity
      PROVE  Merged(X)[e] = Merged(A)[e]
  <2> DEFINE s == d.state[e]
             E == ExistenceOps(X, e)
             F == ExistenceOps(A, e)
  <2>1. s \in EntityState /\ EntityInv(X, s, e)
    BY DEF DocumentInv, DocumentType
  <2>2. E \subseteq F /\ F \in SUBSET A /\ E \in SUBSET X
    BY DEF ExistenceOps
  <2>3. \A x \in A : x.hlc \in Timestamp
    BY OpFields
  <2>4. \A x \in F : \E p \in E : BeforeOrSame(x.hlc, p.hlc)
    <3> SUFFICES ASSUME NEW x \in F PROVE \E p \in E : BeforeOrSame(x.hlc, p.hlc)
      OBVIOUS
    <3>1. x \in A /\ x.kind # "set" /\ x.ent = e
      BY DEF ExistenceOps
    <3>2. CASE x \in X
      BY <3>1, <3>2 DEF ExistenceOps, BeforeOrSame
    <3>3. CASE Superseded(X, x)
      BY <3>1, <3>3 DEF Superseded
    <3> QED BY <3>1, <3>2, <3>3
  \* The last existence op of A is that of X.
  <2>5. ASSUME NEW o \in E, \A p \in E : BeforeOrSame(p.hlc, o.hlc)
        PROVE  \A p \in F : BeforeOrSame(p.hlc, o.hlc)
    BY <2>2, <2>3, <2>4, <2>5, BeforeOrSameTransitive
  <2>6. Lives(X, e) = Lives(A, e)
    <3>1. CASE E = {}
      <4>1. F = {}
        BY <2>4, <3>1
      <4> QED BY <3>1, <4>1 DEF Lives
    <3>2. CASE E # {}
      <4>1. PICK o \in E : \A p \in E : BeforeOrSame(p.hlc, o.hlc)
        BY <2>1, <3>2 DEF EntityInv, ExistsInv
      <4>2. Highest(E) = o
        BY <1>1, <2>2, <4>1, HighestOf
      <4>3. Highest(F) = o
        BY <2>2, <2>5, <4>1, HighestOf
      <4>4. F # {}
        BY <2>2, <3>2
      <4> QED BY <3>2, <4>2, <4>3, <4>4 DEF Lives
    <3> QED BY <3>1, <3>2
  <2>7. ASSUME Lives(X, e), NEW t \in Tag
        PROVE  LastWriter(X, e, t) = LastWriter(A, e, t)
    <3> DEFINE W == Inserts(X, e) \union Edits(X, e, t)
               V == Inserts(A, e) \union Edits(A, e, t)
    <3>1. W \subseteq V /\ V \in SUBSET A /\ W \in SUBSET X
      BY DEF Inserts, Edits
    <3>2. Inserts(X, e) \subseteq W /\ Inserts(A, e) \subseteq F
      BY DEF Inserts, ExistenceOps
    <3> HIDE DEF X
    \* The last existence op of a living entity is an insert.
    <3>3. ASSUME NEW p \in E PROVE \E i \in Inserts(X, e) : BeforeOrSame(p.hlc, i.hlc)
      <4>1. PICK o \in E : \A q \in E : BeforeOrSame(q.hlc, o.hlc)
        BY <2>1, <3>3 DEF EntityInv, ExistsInv
      <4>2. Highest(E) = o
        BY <1>1, <2>2, <4>1, HighestOf
      <4>3. o.kind = "insert"
        BY <2>7, <3>3, <4>2 DEF Lives
      <4>4. o \in Inserts(X, e)
        BY <4>3 DEF ExistenceOps, Inserts
      <4> QED BY <4>1, <4>4
    <3>4. ASSUME NEW x \in V PROVE \E w \in W : BeforeOrSame(x.hlc, w.hlc)
      <4>1. x \in A /\ x.ent = e
        BY DEF Inserts, Edits
      <4>2. CASE x \in X
        BY <4>1, <4>2 DEF Inserts, Edits, BeforeOrSame
      <4>3. CASE x.kind = "set" /\ Superseded(X, x)
        <5>1. x.tag = t
          BY <4>3 DEF Inserts, Edits
        <5> QED BY <4>1, <4>3, <5>1 DEF Superseded
      <4>4. CASE x.kind # "set"
        <5>1. x \in F
          BY <4>1, <4>4 DEF ExistenceOps
        <5>2. PICK p \in E : BeforeOrSame(x.hlc, p.hlc)
          BY <2>4, <5>1
        <5>3. PICK i \in Inserts(X, e) : BeforeOrSame(p.hlc, i.hlc)
          BY <3>3
        <5>4. x.hlc \in Timestamp /\ p.hlc \in Timestamp /\ i.hlc \in Timestamp
          BY <2>2, <2>3, <3>1, <3>2, <4>1
        <5>5. BeforeOrSame(x.hlc, i.hlc)
          BY <5>2, <5>3, <5>4, BeforeOrSameTransitive
        <5> QED BY <3>2, <5>5
      <4> QED BY <4>1, <4>2, <4>3, <4>4 DEF X
    <3>5. CASE W = {}
      <4>1. V = {}
        BY <3>4, <3>5
      <4> QED BY <3>5, <4>1 DEF LastWriter
    <3>6. CASE W # {}
      <4>1. s.present
        <5>1. CASE E = {}
          BY <2>1, <2>7, <5>1 DEF EntityInv, ExistsInv, Lives
        <5>2. CASE E # {}
          <6>1. PICK o \in E : /\ \A q \in E : BeforeOrSame(q.hlc, o.hlc)
                               /\ s.present <=> o.kind = "insert"
            BY <2>1, <5>2 DEF EntityInv, ExistsInv
          <6>2. Highest(E) = o
            BY <1>1, <2>2, <6>1, HighestOf
          <6> QED BY <2>7, <5>2, <6>1, <6>2 DEF Lives
        <5> QED BY <5>1, <5>2
      <4>2. PICK w \in W : \A q \in W : BeforeOrSame(q.hlc, w.hlc)
        BY <2>1, <3>6, <4>1 DEF EntityInv, CellInv
      <4>3. \A x \in V : BeforeOrSame(x.hlc, w.hlc)
        <5> SUFFICES ASSUME NEW x \in V PROVE BeforeOrSame(x.hlc, w.hlc)
          OBVIOUS
        <5>1. PICK q \in W : BeforeOrSame(x.hlc, q.hlc)
          BY <3>4
        <5>2. x.hlc \in Timestamp /\ q.hlc \in Timestamp /\ w.hlc \in Timestamp
          BY <2>3, <3>1
        <5> QED BY <4>2, <5>1, <5>2, BeforeOrSameTransitive
      <4>4. Highest(W) = w
        BY <1>1, <3>1, <4>2, HighestOf
      <4>5. Highest(V) = w
        BY <3>1, <4>3, HighestOf
      <4>6. V # {}
        BY <3>1, <3>6
      <4> QED BY <3>6, <4>4, <4>5, <4>6 DEF LastWriter
    <3> QED BY <3>5, <3>6
  <2> QED BY <2>6, <2>7 DEF Merged
<1>3. Merged(X) = Merged(A)
  <2>1. Merged(X) = [e \in Entity |-> Merged(X)[e]] /\ Merged(A) = [e \in Entity |-> Merged(A)[e]]
    BY DEF Merged
  <2> HIDE DEF X
  <2> QED BY <1>2, <2>1
<1> QED BY <1>1, <1>3, BudgetIsMerged

----------------------------------------------------------------------------
(***************************************************************************)
(* Ops applied in the order of their timestamps, h being the latest one.   *)
(* No discipline on re-inserts is needed here: nothing ever arrives late.  *)
(***************************************************************************)
OrderedEntity(A, s, e, h) ==
  /\ s.present <=> Lives(A, e)
  /\ s.present => \A t \in Tag : s.cell[t] = LastWriter(A, e, t)
  /\ BeforeOrSame(s.exists, h)
  /\ \A t \in Tag : BeforeOrSame(s.reg[t], h)
  /\ \A o \in s.pending : o.ent = e /\ BeforeOrSame(o.hlc, h)

OrderedInv(d, h) ==
  /\ d \in DocumentType /\ h \in Timestamp
  /\ \A o \in d.applied : BeforeOrSame(o.hlc, h)
  /\ \A e \in Entity : OrderedEntity(d.applied, d.state[e], e, h)

LEMMA NewDocumentOrdered ==
  ASSUME NEW h \in Timestamp, BeforeOrSame(NoHlc, h)
  PROVE  OrderedInv(NewDocument, h) /\ NewDocument.applied = {}
<1>1. NewDocument \in DocumentType /\ NewDocument.applied = {}
  BY NewDocumentInv DEF DocumentInv
<1>2. ASSUME NEW e \in Entity PROVE OrderedEntity({}, NewDocument.state[e], e, h)
  BY DEF NewDocument, OrderedEntity, Lives, LastWriter, ExistenceOps, Inserts, Edits
<1> QED BY <1>1, <1>2 DEF OrderedInv

\* A later bound is a bound.
LEMMA OrderedLater ==
  ASSUME NEW d, NEW h, OrderedInv(d, h), NEW g \in Timestamp, BeforeOrSame(h, g)
  PROVE  OrderedInv(d, g)
<1>1. \A f \in Timestamp : BeforeOrSame(f, h) => BeforeOrSame(f, g)
  BY BeforeOrSameTransitive DEF OrderedInv
<1>2. \A o \in d.applied : o.hlc \in Timestamp
  BY OpFields DEF OrderedInv, DocumentType
<1>3. ASSUME NEW e \in Entity PROVE OrderedEntity(d.applied, d.state[e], e, g)
  <2>1. d.state[e] \in EntityState
    BY DEF OrderedInv, DocumentType
  <2>2. /\ d.state[e].exists \in Timestamp /\ \A t \in Tag : d.state[e].reg[t] \in Timestamp
        /\ \A o \in d.state[e].pending : o.hlc \in Timestamp
    BY <2>1, StampAssumption, NoHlcIsTimestamp DEF EntityState, FieldOp
  <2>3. OrderedEntity(d.applied, d.state[e], e, h)
    BY DEF OrderedInv
  <2> QED BY <1>1, <2>2, <2>3 DEF OrderedEntity
<1> QED BY <1>1, <1>2, <1>3 DEF OrderedInv

\* What every register and waiting op is older than, the ops are too.
LEMMA OrderedBefore ==
  ASSUME NEW d, NEW h, OrderedInv(d, h), NEW g \in Timestamp, Before(h, g)
  PROVE  /\ \A o \in d.applied : Before(o.hlc, g)
         /\ \A e \in Entity : /\ Before(d.state[e].exists, g)
                              /\ \A t \in Tag : Before(d.state[e].reg[t], g)
                              /\ \A o \in d.state[e].pending : Before(o.hlc, g)
<1>1. \A f \in Timestamp : BeforeOrSame(f, h) => Before(f, g)
  BY BeforeOrSameTransitive DEF OrderedInv
<1>2. \A o \in d.applied : o.hlc \in Timestamp
  BY OpFields DEF OrderedInv, DocumentType
<1>3. ASSUME NEW e \in Entity
      PROVE  /\ d.state[e].exists \in Timestamp /\ \A t \in Tag : d.state[e].reg[t] \in Timestamp
             /\ \A o \in d.state[e].pending : o.hlc \in Timestamp
             /\ OrderedEntity(d.applied, d.state[e], e, h)
  BY StampAssumption, NoHlcIsTimestamp DEF EntityState, FieldOp, OrderedInv, DocumentType
<1> QED BY <1>1, <1>2, <1>3 DEF OrderedInv, OrderedEntity

LEMMA HighestNew ==
  ASSUME NEW S \in SUBSET Op, NEW op \in S, \A p \in S : p = op \/ Before(p.hlc, op.hlc)
  PROVE  S # {} /\ Highest(S) = op
  BY HighestIs

\* One op, later than everything, on its own entity.
LEMMA OrderedDispatch ==
  ASSUME NEW A \in SUBSET Op, NEW e \in Entity, NEW s \in EntityState, NEW h \in Timestamp,
         OrderedEntity(A, s, e, h), NEW op \in Op, op.ent = e, Before(h, op.hlc),
         \A o \in A : Before(o.hlc, op.hlc), Before(s.exists, op.hlc),
         \A t \in Tag : Before(s.reg[t], op.hlc), \A o \in s.pending : Before(o.hlc, op.hlc)
  PROVE  /\ Dispatch(s, op) \in EntityState
         /\ OrderedEntity(A \union {op}, Dispatch(s, op), e, op.hlc)
<1> DEFINE B == A \union {op}
           c == Dispatch(s, op)
<1>1. /\ op.hlc \in Timestamp /\ op.hlc \in Stamp /\ op.kind \in {"insert", "remove", "set"}
      /\ B \in SUBSET Op
      /\ \A o \in B : o = op \/ Before(o.hlc, op.hlc)
  BY OpFields
<1>2. \A o \in s.pending : o.hlc \in Timestamp /\ o.tag \in TagsOf[e]
  BY StampAssumption DEF EntityState, FieldOp, OrderedEntity
<1>3. CASE op.kind = "insert"
  <2> DEFINE claimed == SeededRegisters(s, op)
             filled == [present |-> TRUE, cell |-> [t \in Tag |-> op], exists |-> op.hlc,
                        reg |-> claimed, pending |-> s.pending]
  <2>1. \A t \in Tag : claimed[t] = IF t \in TagsOf[e] THEN op.hlc ELSE s.reg[t]
    BY DEF SeededRegisters, Wins
  <2>2. \A t \in Tag : Winners(filled, t) = {}
    <3> SUFFICES ASSUME NEW t \in Tag, NEW o \in s.pending, o.tag = t, Before(claimed[t], o.hlc)
                 PROVE  FALSE
      BY DEF Winners, Wins
    <3> QED BY <1>1, <1>2, <2>1, BeforeIrreflexive, BeforeTransitive
  <2>3. c = FlushPending(filled)
    BY <1>3 DEF Dispatch, Insert, Wins
  <2>4. \A t \in Tag : filled.cell[t] = op /\ filled.reg[t] = claimed[t]
    OBVIOUS
  <2>5. filled.exists = op.hlc /\ filled.present = TRUE
    OBVIOUS
  <2> HIDE DEF claimed, filled, c
  <2>6. c = [present |-> TRUE, cell |-> [t \in Tag |-> op], exists |-> op.hlc,
             reg |-> [t \in Tag |-> claimed[t]], pending |-> {}]
    BY <2>2, <2>3, <2>4, <2>5 DEF FlushPending
  <2>7. c \in EntityState
    <3>1. \A t \in Tag : claimed[t] \in Stamp \union {NoHlc}
      BY <1>1, <2>1 DEF EntityState
    <3> QED BY <1>1, <2>6, <3>1 DEF EntityState, Writer
  <2>8. Lives(B, e) /\ \A t \in Tag : LastWriter(B, e, t) = op
    <3>1. /\ op \in ExistenceOps(B, e) /\ ExistenceOps(B, e) \subseteq B
          /\ \A t : op \in Inserts(B, e) \union Edits(B, e, t)
          /\ \A t : Inserts(B, e) \union Edits(B, e, t) \subseteq B
      BY <1>3 DEF ExistenceOps, Inserts, Edits
    <3> HIDE DEF B
    <3>2. ExistenceOps(B, e) # {} /\ Highest(ExistenceOps(B, e)) = op
      BY <1>1, <3>1, HighestNew
    <3>3. ASSUME NEW t \in Tag PROVE LastWriter(B, e, t) = op
      <4> DEFINE W == Inserts(B, e) \union Edits(B, e, t)
      <4>1. W \in SUBSET Op /\ op \in W /\ \A p \in W : p = op \/ Before(p.hlc, op.hlc)
        BY <1>1, <3>1
      <4>2. W # {} /\ Highest(W) = op
        <5> HIDE DEF W
        <5> QED BY <4>1, HighestNew
      <4> QED BY <4>2 DEF LastWriter
    <3> QED BY <1>3, <3>2, <3>3 DEF Lives
  <2>9. \A t \in Tag : BeforeOrSame(claimed[t], op.hlc)
    BY <2>1 DEF BeforeOrSame
  <2>10. OrderedEntity(B, c, e, op.hlc)
    BY <2>6, <2>8, <2>9 DEF OrderedEntity, BeforeOrSame
  <2> QED BY <2>7, <2>10 DEF c
<1>4. CASE op.kind = "remove"
  <2>1. c = [present |-> FALSE, cell |-> [t \in Tag |-> NoValue], exists |-> op.hlc,
             reg |-> s.reg, pending |-> {o \in s.pending : Before(op.hlc, o.hlc)}]
    BY <1>4 DEF Dispatch, Remove, Wins
  <2> HIDE DEF c
  <2>2. c \in EntityState
    BY <1>1, <2>1 DEF EntityState, Writer
  <2>3. ~ Lives(B, e)
    <3>1. op \in ExistenceOps(B, e) /\ ExistenceOps(B, e) \subseteq B
      BY <1>4 DEF ExistenceOps
    <3> HIDE DEF B
    <3>2. ExistenceOps(B, e) # {} /\ Highest(ExistenceOps(B, e)) = op
      BY <1>1, <3>1, HighestNew
    <3> QED BY <1>4, <3>2 DEF Lives
  <2>4. OrderedEntity(B, c, e, op.hlc)
    BY <2>1, <2>3 DEF OrderedEntity, BeforeOrSame
  <2> QED BY <2>2, <2>4 DEF c
<1>5. CASE op.kind = "set"
  <2>1. /\ op \in FieldOp /\ op.tag \in Tag
        /\ ExistenceOps(B, e) = ExistenceOps(A, e)
        /\ \A t : t # op.tag => Inserts(B, e) \union Edits(B, e, t) =
                                Inserts(A, e) \union Edits(A, e, t)
    BY <1>5, OpFields DEF ExistenceOps, Inserts, Edits
  <2>2. /\ Lives(B, e) = Lives(A, e)
        /\ \A t : t # op.tag => LastWriter(B, e, t) = LastWriter(A, e, t)
    BY <2>1 DEF Lives, LastWriter
  <2>3. CASE s.present
    <3>1. c = [present |-> s.present, cell |-> [s.cell EXCEPT ![op.tag] = op],
               exists |-> s.exists, reg |-> [s.reg EXCEPT ![op.tag] = op.hlc],
               pending |-> s.pending]
      BY <1>5, <2>1, <2>3 DEF Dispatch, SetField, Wins
    <3> HIDE DEF c
    <3>2. c \in EntityState
      BY <1>1, <2>1, <3>1 DEF EntityState, Writer
    <3>3. LastWriter(B, e, op.tag) = op
      <4> DEFINE W == Inserts(B, e) \union Edits(B, e, op.tag)
      <4>1. W \in SUBSET Op /\ op \in W /\ \A p \in W : p = op \/ Before(p.hlc, op.hlc)
        BY <1>1, <1>5 DEF Inserts, Edits
      <4>2. W # {} /\ Highest(W) = op
        <5> HIDE DEF W
        <5> QED BY <4>1, HighestNew
      <4> QED BY <4>2 DEF LastWriter
    <3>4. /\ c.cell[op.tag] = op /\ c.reg[op.tag] = op.hlc
          /\ \A t \in Tag : t # op.tag => c.cell[t] = s.cell[t] /\ c.reg[t] = s.reg[t]
      BY <2>1, <3>1 DEF EntityState
    <3>5. \A t \in Tag : c.cell[t] = LastWriter(B, e, t)
      BY <2>2, <2>3, <3>3, <3>4 DEF OrderedEntity
    <3>6. \A t \in Tag : BeforeOrSame(c.reg[t], op.hlc)
      BY <3>4 DEF BeforeOrSame
    <3>7. c.present = s.present /\ c.exists = s.exists /\ c.pending = s.pending
      BY <3>1
    <3> QED BY <2>2, <2>3, <3>2, <3>5, <3>6, <3>7 DEF OrderedEntity, BeforeOrSame, c
  <2>4. CASE ~ s.present
    <3>1. c = Buffer(s, op)
      BY <1>5, <2>4 DEF Dispatch, SetField
    <3>2. /\ c.present = s.present /\ c.exists = s.exists /\ c.reg = s.reg
          /\ c.pending \subseteq s.pending \union {op}
          /\ c \in EntityState
      BY <2>1, <3>1 DEF Buffer, EntityState
    <3> HIDE DEF c
    <3> QED BY <2>2, <2>4, <3>2 DEF OrderedEntity, BeforeOrSame, c
  <2> QED BY <2>3, <2>4
<1> QED BY <1>1, <1>3, <1>4, <1>5

\* An op later than everything applied takes effect, and the order goes on.
LEMMA OrderedApply ==
  ASSUME NEW d, NEW h, OrderedInv(d, h), NEW op \in Op, Before(h, op.hlc)
  PROVE  /\ OrderedInv(Apply(d, op), op.hlc)
         /\ Apply(d, op).applied = d.applied \union {op}
         /\ op \notin d.applied /\ TookEffect(d, op)
<1>1. /\ op.hlc \in Timestamp /\ h \in Timestamp /\ op.ent \in Entity
      /\ op.kind = "set" => op.tag \in Tag
      /\ d.applied \in SUBSET Op /\ d.state \in [Entity -> EntityState]
  BY OpFields DEF OrderedInv, DocumentType
<1>2. /\ \A o \in d.applied : Before(o.hlc, op.hlc)
      /\ \A e \in Entity : /\ Before(d.state[e].exists, op.hlc)
                           /\ \A t \in Tag : Before(d.state[e].reg[t], op.hlc)
                           /\ \A o \in d.state[e].pending : Before(o.hlc, op.hlc)
  BY <1>1, OrderedBefore
<1>3. op \notin d.applied
  BY <1>1, <1>2, BeforeIrreflexive
<1>4. TookEffect(d, op)
  BY <1>1, <1>2, <1>3 DEF TookEffect, Outcome, Wins
<1> DEFINE c == Apply(d, op)
<1>5. c = [applied |-> d.applied \union {op},
           state |-> [d.state EXCEPT ![op.ent] = Dispatch(d.state[op.ent], op)]]
  BY <1>3 DEF Apply
<1>6. /\ Dispatch(d.state[op.ent], op) \in EntityState
      /\ OrderedEntity(d.applied \union {op}, Dispatch(d.state[op.ent], op), op.ent, op.hlc)
  <2>1. d.state[op.ent] \in EntityState /\ OrderedEntity(d.applied, d.state[op.ent], op.ent, h)
    BY <1>1 DEF OrderedInv
  <2> QED BY <1>1, <1>2, <2>1, OrderedDispatch
<1>7. ASSUME NEW e \in Entity, e # op.ent
      PROVE  OrderedEntity(d.applied \union {op}, d.state[e], e, op.hlc)
  <2>1. /\ ExistenceOps(d.applied \union {op}, e) = ExistenceOps(d.applied, e)
        /\ Inserts(d.applied \union {op}, e) = Inserts(d.applied, e)
        /\ \A t : Edits(d.applied \union {op}, e, t) = Edits(d.applied, e, t)
    BY <1>7 DEF ExistenceOps, Inserts, Edits
  <2>2. /\ Lives(d.applied \union {op}, e) = Lives(d.applied, e)
        /\ \A t : LastWriter(d.applied \union {op}, e, t) = LastWriter(d.applied, e, t)
    BY <2>1 DEF Lives, LastWriter
  <2>3. OrderedEntity(d.applied, d.state[e], e, h)
    BY DEF OrderedInv
  <2> QED BY <1>2, <2>2, <2>3 DEF OrderedEntity, BeforeOrSame
<1> HIDE DEF c
<1>8. c \in DocumentType
  BY <1>1, <1>5, <1>6 DEF DocumentType
<1>9. /\ c.applied = d.applied \union {op}
      /\ \A e \in Entity : c.state[e] = IF e = op.ent THEN Dispatch(d.state[op.ent], op)
                                        ELSE d.state[e]
  BY <1>1, <1>5
<1>10. \A o \in c.applied : BeforeOrSame(o.hlc, op.hlc)
  BY <1>2, <1>9 DEF BeforeOrSame
<1>11. \A e \in Entity : OrderedEntity(c.applied, c.state[e], e, op.hlc)
  BY <1>6, <1>7, <1>9
<1>12. OrderedInv(c, op.hlc)
  BY <1>1, <1>8, <1>10, <1>11 DEF OrderedInv
<1> QED BY <1>3, <1>4, <1>9, <1>12 DEF c

\* Ops applied in order make a document that shows their merge.
LEMMA OrderedIsMerged ==
  ASSUME NEW d, NEW h, OrderedInv(d, h)
  PROVE  Budget(d) = Merged(d.applied)
<1> SUFFICES ASSUME NEW e \in Entity PROVE Budget(d)[e] = Merged(d.applied)[e]
  BY DEF Budget, Merged
<1>1. OrderedEntity(d.applied, d.state[e], e, h) /\ d.state[e] \in EntityState
  BY DEF OrderedInv, DocumentType
<1>2. CASE d.state[e].present
  <2>1. d.state[e].cell = [t \in Tag |-> LastWriter(d.applied, e, t)]
    BY <1>1, <1>2 DEF OrderedEntity, EntityState
  <2> QED BY <1>1, <1>2, <2>1 DEF OrderedEntity, Budget, Merged
<1>3. CASE ~ d.state[e].present
  BY <1>1, <1>3 DEF OrderedEntity, Budget, Merged
<1> QED BY <1>2, <1>3
=============================================================================
