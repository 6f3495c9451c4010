---------------------------- MODULE OrdersProofs ----------------------------
(***************************************************************************)
(* The safety of converting purchase orders (Spec of PurchaseOrders), for  *)
(* any number of orders, hosts and steps.  The argument: a host's clock is *)
(* never behind a register of its document, so each op a handler mints     *)
(* takes effect, and the actual of an order only ever gets the order's id. *)
(***************************************************************************)
EXTENDS PurchaseOrders, FiniteSetTheorems, TLAPS

\* The facts about timestamps used here.
LEMMA NoHlcIsTimestamp == NoHlc \in Timestamp
  BY DEF NoHlc, Timestamp

LEMMA BeforeIrreflexive == \A h \in Timestamp : ~ Before(h, h)
  BY DEF Before, Timestamp, Wall, Counter, Node

LEMMA BeforeOrSameTransitive ==
  \A f, g, h \in Timestamp :
    /\ BeforeOrSame(f, g) /\ BeforeOrSame(g, h) => BeforeOrSame(f, h)
    /\ BeforeOrSame(f, g) /\ Before(g, h) => Before(f, h)
  BY DEF BeforeOrSame, Before, Timestamp, Wall, Counter, Node

LEMMA TickAdvances ==
  ASSUME NEW last \in Timestamp, NEW node \in Nat, NEW physical \in Nat
  PROVE  /\ Tick(last, node, physical) \in Timestamp
         /\ Before(last, Tick(last, node, physical))
         /\ Before(NoHlc, Tick(last, node, physical))
  BY DEF Tick, Before, Timestamp, Wall, Counter, Node, Larger, NextCounter, NoHlc

DocumentType == [applied : SUBSET Op,
                 exists  : [Uuid -> Stamp \union {NoHlc}],
                 order   : [Uuid -> Status \union {Absent}],
                 actual  : [Uuid -> Uuid \union {Absent}]]

Typed ==
  /\ doc \in [Host -> DocumentType]
  /\ clock \in [Host -> Timestamp]
  /\ converting \in [Host -> Uuid \union {NoConvert}]
  /\ issued \subseteq Op
  /\ retired \subseteq Uuid

\* No op and no register of a document is later than its host's clock.
ClockAhead ==
  \A h \in Host :
    /\ \A u \in Uuid : BeforeOrSame(doc[h].exists[u], clock[h])
    /\ \A o \in doc[h].applied : BeforeOrSame(o.hlc, clock[h])

\* An actual that realises an order has the order's id.
OwnId == \A h \in Host, a \in Uuid : doc[h].actual[a] \in {a, Absent}

\* Half a convert is the recorded actual.
HalfRecorded ==
  \A h \in Host :
    converting[h] # NoConvert => doc[h].actual[converting[h]] = converting[h]

OrdersInv == Typed /\ ClockAhead /\ OwnId /\ HalfRecorded /\ ConvertedIsRecorded

LEMMA TimestampTypes ==
  ASSUME NEW t \in Stamp \union {NoHlc}
  PROVE  t \in Timestamp
  BY StampAssumption, NoHlcIsTimestamp

LEMMA OpTimestamps == \A o \in Op : o.hlc \in Timestamp
  BY StampAssumption DEF Op

\* What a document holds after an op that takes effect.
LEMMA TakenOp ==
  ASSUME NEW d \in DocumentType, NEW op \in Op, op \notin d.applied,
         Before(d.exists[op.id], op.hlc)
  PROVE  /\ Took(d, op)
         /\ Apply(d, op).applied = d.applied \union {op}
         /\ Apply(d, op).exists = [d.exists EXCEPT ![op.id] = op.hlc]
         /\ Apply(d, op).order = IF op.kind \in {"putOrder", "dropOrder"}
                                 THEN [d.order EXCEPT ![op.id] = op.body]
                                 ELSE d.order
         /\ Apply(d, op).actual = IF op.kind \in {"putActual", "dropActual"}
                                  THEN [d.actual EXCEPT ![op.id] = op.body]
                                  ELSE d.actual
         /\ Apply(d, op) \in DocumentType
<1>1. Took(d, op)
  BY DEF Took
<1>2. /\ Apply(d, op).applied = d.applied \union {op}
      /\ Apply(d, op).exists = [d.exists EXCEPT ![op.id] = op.hlc]
      /\ Apply(d, op).order = IF op.kind \in {"putOrder", "dropOrder"}
                              THEN [d.order EXCEPT ![op.id] = op.body]
                              ELSE d.order
      /\ Apply(d, op).actual = IF op.kind \in {"putActual", "dropActual"}
                               THEN [d.actual EXCEPT ![op.id] = op.body]
                               ELSE d.actual
  BY <1>1 DEF Apply
<1>3. /\ op.id \in Uuid /\ op.hlc \in Stamp
      /\ op.kind \in {"putOrder", "dropOrder"} => op.body \in Status \union {Absent}
      /\ op.kind \in {"putActual", "dropActual"} => op.body \in Uuid \union {Absent}
  BY DEF Op
<1>4. /\ d.applied \union {op} \in SUBSET Op
      /\ [d.exists EXCEPT ![op.id] = op.hlc] \in [Uuid -> Stamp \union {NoHlc}]
      /\ (IF op.kind \in {"putOrder", "dropOrder"}
          THEN [d.order EXCEPT ![op.id] = op.body]
          ELSE d.order) \in [Uuid -> Status \union {Absent}]
      /\ (IF op.kind \in {"putActual", "dropActual"}
          THEN [d.actual EXCEPT ![op.id] = op.body]
          ELSE d.actual) \in [Uuid -> Uuid \union {Absent}]
  BY <1>3 DEF DocumentType
<1>5. Apply(d, op) \in DocumentType
  BY <1>1, <1>4 DEF Apply, DocumentType
<1> QED BY <1>1, <1>2, <1>5

\* A handler's op always takes effect on its host's document, and only there.
LEMMA EmitTakes ==
  ASSUME OrdersInv, NEW h \in Host, NEW id \in Uuid,
         NEW kind \in {"putOrder", "putActual", "dropOrder", "dropActual"},
         NEW body \in Status \union Uuid \union {Absent},
         \A t \in Stamp : [kind |-> kind, id |-> id, body |-> body, hlc |-> t] \in Op,
         Emit(h, kind, id, body)
  PROVE  /\ doc' \in [Host -> DocumentType]
         /\ clock' \in [Host -> Timestamp]
         /\ issued' \subseteq Op
         /\ ClockAhead'
         /\ \A g \in Host \ {h} : doc'[g] = doc[g]
         /\ doc'[h].order = IF kind \in {"putOrder", "dropOrder"}
                            THEN [doc[h].order EXCEPT ![id] = body] ELSE doc[h].order
         /\ doc'[h].actual = IF kind \in {"putActual", "dropActual"}
                             THEN [doc[h].actual EXCEPT ![id] = body] ELSE doc[h].actual
<1>1. PICK wall \in WallTime :
        LET op == [kind |-> kind, id |-> id, body |-> body,
                   hlc |-> Tick(clock[h], h, wall)]
        IN  /\ op.hlc \in Stamp
            /\ clock' = [clock EXCEPT ![h] = op.hlc]
            /\ doc' = [doc EXCEPT ![h] = Apply(@, op)]
            /\ issued' = IF Took(doc[h], op) THEN issued \union {op} ELSE issued
  BY DEF Emit
<1> DEFINE now == Tick(clock[h], h, wall)
           op == [kind |-> kind, id |-> id, body |-> body, hlc |-> now]
<1>2. /\ op \in Op
      /\ op.kind = kind /\ op.id = id /\ op.body = body /\ op.hlc = now
  BY <1>1
<1>3. /\ clock[h] \in Timestamp /\ now \in Timestamp /\ Before(clock[h], now)
  <2>1. clock[h] \in Timestamp /\ h \in Nat /\ wall \in Nat
    BY HostAssumption, StampAssumption DEF OrdersInv, Typed
  <2> QED BY <2>1, TickAdvances
<1> HIDE DEF now, op
<1>4. doc[h] \in DocumentType
  BY DEF OrdersInv, Typed
<1>5. /\ \A u \in Uuid : doc[h].exists[u] \in Timestamp
      /\ \A o \in doc[h].applied : o \in Op /\ o.hlc \in Timestamp
  BY <1>4, TimestampTypes, OpTimestamps DEF DocumentType
<1>6. /\ \A u \in Uuid : Before(doc[h].exists[u], now)
      /\ \A o \in doc[h].applied : Before(o.hlc, now)
  BY <1>3, <1>5, BeforeOrSameTransitive DEF OrdersInv, ClockAhead
<1>7. op \notin doc[h].applied
  BY <1>2, <1>3, <1>6, BeforeIrreflexive
<1>8. Before(doc[h].exists[op.id], op.hlc)
  BY <1>2, <1>6
<1> DEFINE d == Apply(doc[h], op)
<1>9. /\ clock' = [clock EXCEPT ![h] = now]
      /\ doc' = [doc EXCEPT ![h] = d]
      /\ issued' \subseteq issued \union {op}
  BY <1>1 DEF op, now
<1>10. /\ d.applied = doc[h].applied \union {op}
       /\ d.exists = [doc[h].exists EXCEPT ![id] = now]
       /\ d.order = IF kind \in {"putOrder", "dropOrder"}
                    THEN [doc[h].order EXCEPT ![id] = body] ELSE doc[h].order
       /\ d.actual = IF kind \in {"putActual", "dropActual"}
                     THEN [doc[h].actual EXCEPT ![id] = body] ELSE doc[h].actual
       /\ d \in DocumentType
  BY <1>2, <1>4, <1>7, <1>8, TakenOp
<1> HIDE DEF d
<1>11. doc' \in [Host -> DocumentType] /\ clock' \in [Host -> Timestamp] /\ issued' \subseteq Op
  BY <1>2, <1>3, <1>9, <1>10 DEF OrdersInv, Typed
<1>12. /\ doc'[h] = d /\ clock'[h] = now
       /\ \A g \in Host \ {h} : doc'[g] = doc[g] /\ clock'[g] = clock[g]
  BY <1>9 DEF OrdersInv, Typed
<1>13. ClockAhead'
  <2> SUFFICES ASSUME NEW g \in Host
               PROVE  /\ \A u \in Uuid : BeforeOrSame(doc'[g].exists[u], clock'[g])
                      /\ \A o \in doc'[g].applied : BeforeOrSame(o.hlc, clock'[g])
    BY DEF ClockAhead
  <2>1. CASE g # h
    BY <2>1, <1>12 DEF OrdersInv, ClockAhead
  <2>2. CASE g = h
    <3>1. doc[h].exists \in [Uuid -> Stamp \union {NoHlc}]
      BY <1>4 DEF DocumentType
    <3>2. \A u \in Uuid : d.exists[u] = IF u = id THEN now ELSE doc[h].exists[u]
      BY <3>1, <1>10
    <3>3. \A u \in Uuid : BeforeOrSame(d.exists[u], now)
      BY <3>2, <1>6 DEF BeforeOrSame
    <3>4. \A o \in d.applied : BeforeOrSame(o.hlc, now)
      BY <1>2, <1>6, <1>10 DEF BeforeOrSame
    <3> QED BY <2>2, <3>3, <3>4, <1>12
  <2> QED BY <2>1, <2>2
<1> QED BY <1>10, <1>11, <1>12, <1>13

\* Putting back a draft or approved order marks none as converted.
LEMMA PutOrderKeepsInv ==
  ASSUME OrdersInv, NEW h \in Host, NEW u \in Uuid, NEW status \in {"draft", "approved"},
         Emit(h, "putOrder", u, status), UNCHANGED <<converting, retired>>
  PROVE  OrdersInv'
<1>1. \A t \in Stamp : [kind |-> "putOrder", id |-> u, body |-> status, hlc |-> t] \in Op
  BY DEF Op, Status
<1>e. /\ doc' \in [Host -> DocumentType] /\ clock' \in [Host -> Timestamp]
      /\ issued' \subseteq Op /\ ClockAhead'
      /\ \A g \in Host \ {h} : doc'[g] = doc[g]
      /\ doc'[h].order = IF "putOrder" \in {"putOrder", "dropOrder"}
                         THEN [doc[h].order EXCEPT ![u] = status] ELSE doc[h].order
      /\ doc'[h].actual = IF "putOrder" \in {"putActual", "dropActual"}
                          THEN [doc[h].actual EXCEPT ![u] = status] ELSE doc[h].actual
  <2>1. Emit(h, "putOrder", u, status)
    OBVIOUS
  <2>2. status \in Status \union Uuid \union {Absent}
    BY DEF Status
  <2> QED BY <1>1, <2>1, <2>2, EmitTakes, SMTT(30)
<1>2. /\ doc' \in [Host -> DocumentType] /\ clock' \in [Host -> Timestamp]
      /\ issued' \subseteq Op /\ ClockAhead'
      /\ \A g \in Host \ {h} : doc'[g] = doc[g]
      /\ doc'[h].order = [doc[h].order EXCEPT ![u] = status]
      /\ doc'[h].actual = doc[h].actual
  BY <1>e
<1>3. doc[h].order \in [Uuid -> Status \union {Absent}]
  BY DEF OrdersInv, Typed, DocumentType
<1>4. \A g \in Host, v \in Uuid :
        /\ doc'[g].actual = doc[g].actual
        /\ doc'[g].order[v] = "converted" => doc[g].order[v] = "converted"
  BY <1>2, <1>3
<1> QED BY <1>2, <1>4 DEF OrdersInv, Typed, OwnId, HalfRecorded, ConvertedIsRecorded

LEMMA RecordActualKeepsInv ==
  ASSUME OrdersInv, NEW h \in Host, NEW u \in Uuid, RecordActual(h, u)
  PROVE  OrdersInv'
<1>1. \A t \in Stamp : [kind |-> "putActual", id |-> u, body |-> u, hlc |-> t] \in Op
  BY DEF Op
<1>e. /\ doc' \in [Host -> DocumentType] /\ clock' \in [Host -> Timestamp]
      /\ issued' \subseteq Op /\ ClockAhead'
      /\ \A g \in Host \ {h} : doc'[g] = doc[g]
      /\ doc'[h].order = IF "putActual" \in {"putOrder", "dropOrder"}
                         THEN [doc[h].order EXCEPT ![u] = u] ELSE doc[h].order
      /\ doc'[h].actual = IF "putActual" \in {"putActual", "dropActual"}
                          THEN [doc[h].actual EXCEPT ![u] = u] ELSE doc[h].actual
  <2>1. Emit(h, "putActual", u, u)
    BY DEF RecordActual
  <2> QED BY <1>1, <2>1, EmitTakes, SMTT(30) DEF Status
<1>2. /\ doc' \in [Host -> DocumentType] /\ clock' \in [Host -> Timestamp]
      /\ issued' \subseteq Op /\ ClockAhead'
      /\ \A g \in Host \ {h} : doc'[g] = doc[g]
      /\ doc'[h].order = doc[h].order
      /\ doc'[h].actual = [doc[h].actual EXCEPT ![u] = u]
  BY <1>e
<1>3. /\ doc[h].actual \in [Uuid -> Uuid \union {Absent}]
      /\ converting \in [Host -> Uuid \union {NoConvert}]
      /\ converting' = [converting EXCEPT ![h] = u]
      /\ retired' = retired /\ retired \subseteq Uuid
      /\ converting[h] = NoConvert
  BY DEF OrdersInv, Typed, DocumentType, RecordActual
<1>4. \A g \in Host, v \in Uuid :
        /\ doc'[g].order = doc[g].order
        /\ doc'[g].actual[v] = IF g = h /\ v = u THEN u ELSE doc[g].actual[v]
  BY <1>2, <1>3
<1>5. Typed'
  BY <1>2, <1>3 DEF Typed
<1>6. OwnId'
  BY <1>4 DEF OrdersInv, OwnId
<1>7. HalfRecorded'
  BY <1>3, <1>4 DEF OrdersInv, HalfRecorded
<1>8. ConvertedIsRecorded'
  BY <1>3, <1>4 DEF OrdersInv, ConvertedIsRecorded
<1> QED BY <1>2, <1>5, <1>6, <1>7, <1>8 DEF OrdersInv

LEMMA MarkConvertedKeepsInv ==
  ASSUME OrdersInv, NEW h \in Host, NEW u \in Uuid, u = converting[h], MarkConverted(h)
  PROVE  OrdersInv'
<1>0. doc[h].actual[u] = u
  BY DEF OrdersInv, HalfRecorded, MarkConverted
<1>1. \A t \in Stamp : [kind |-> "putOrder", id |-> u, body |-> "converted", hlc |-> t] \in Op
  BY <1>0 DEF Op, Status
<1>e. /\ doc' \in [Host -> DocumentType] /\ clock' \in [Host -> Timestamp]
      /\ issued' \subseteq Op /\ ClockAhead'
      /\ \A g \in Host \ {h} : doc'[g] = doc[g]
      /\ doc'[h].order = IF "putOrder" \in {"putOrder", "dropOrder"}
                         THEN [doc[h].order EXCEPT ![u] = "converted"] ELSE doc[h].order
      /\ doc'[h].actual = IF "putOrder" \in {"putActual", "dropActual"}
                          THEN [doc[h].actual EXCEPT ![u] = "converted"] ELSE doc[h].actual
  <2>1. Emit(h, "putOrder", u, "converted")
    BY DEF MarkConverted
  <2>2. "converted" \in Status \union Uuid \union {Absent}
    BY DEF Status
  <2> QED BY <1>1, <2>1, <2>2, EmitTakes, SMTT(30)
<1>2. /\ doc' \in [Host -> DocumentType] /\ clock' \in [Host -> Timestamp]
      /\ issued' \subseteq Op /\ ClockAhead'
      /\ \A g \in Host \ {h} : doc'[g] = doc[g]
      /\ doc'[h].order = [doc[h].order EXCEPT ![u] = "converted"]
      /\ doc'[h].actual = doc[h].actual
  BY <1>e
<1>3. /\ doc[h].order \in [Uuid -> Status \union {Absent}]
      /\ converting \in [Host -> Uuid \union {NoConvert}]
      /\ converting' = [converting EXCEPT ![h] = NoConvert]
      /\ retired' = retired /\ retired \subseteq Uuid
  BY DEF OrdersInv, Typed, DocumentType, MarkConverted
<1>4. \A g \in Host, v \in Uuid :
        /\ doc'[g].actual = doc[g].actual
        /\ doc'[g].order[v] = IF g = h /\ v = u THEN "converted" ELSE doc[g].order[v]
  BY <1>0, <1>2, <1>3
<1>5. Typed'
  BY <1>2, <1>3 DEF Typed
<1>6. OwnId'
  BY <1>4 DEF OrdersInv, OwnId
<1>7. HalfRecorded'
  BY <1>3, <1>4 DEF OrdersInv, HalfRecorded
<1>8. ConvertedIsRecorded'
  BY <1>0, <1>3, <1>4 DEF OrdersInv, ConvertedIsRecorded
<1> QED BY <1>2, <1>5, <1>6, <1>7, <1>8 DEF OrdersInv

LEMMA DeleteOrderKeepsInv ==
  ASSUME OrdersInv, NEW h \in Host, NEW u \in Uuid, DeleteOrder(h, u)
  PROVE  OrdersInv'
<1>1. \A t \in Stamp : [kind |-> "dropOrder", id |-> u, body |-> Absent, hlc |-> t] \in Op
  BY DEF Op
<1>e. /\ doc' \in [Host -> DocumentType] /\ clock' \in [Host -> Timestamp]
      /\ issued' \subseteq Op /\ ClockAhead'
      /\ \A g \in Host \ {h} : doc'[g] = doc[g]
      /\ doc'[h].order = IF "dropOrder" \in {"putOrder", "dropOrder"}
                         THEN [doc[h].order EXCEPT ![u] = Absent] ELSE doc[h].order
      /\ doc'[h].actual = IF "dropOrder" \in {"putActual", "dropActual"}
                          THEN [doc[h].actual EXCEPT ![u] = Absent] ELSE doc[h].actual
  <2>1. Emit(h, "dropOrder", u, Absent)
    BY DEF DeleteOrder
  <2>2. Absent \in Status \union Uuid \union {Absent}
    BY DEF Status
  <2> QED BY <1>1, <2>1, <2>2, EmitTakes, SMTT(30)
<1>2. /\ doc' \in [Host -> DocumentType] /\ clock' \in [Host -> Timestamp]
      /\ issued' \subseteq Op /\ ClockAhead'
      /\ \A g \in Host \ {h} : doc'[g] = doc[g]
      /\ doc'[h].order = [doc[h].order EXCEPT ![u] = Absent]
      /\ doc'[h].actual = doc[h].actual
  BY <1>e
<1>3. /\ doc[h].order \in [Uuid -> Status \union {Absent}]
      /\ converting' = converting /\ retired' = retired
  BY DEF OrdersInv, Typed, DocumentType, DeleteOrder
<1>4. \A g \in Host, v \in Uuid :
        /\ doc'[g].actual = doc[g].actual
        /\ doc'[g].order[v] = IF g = h /\ v = u THEN Absent ELSE doc[g].order[v]
  BY <1>2, <1>3
<1>5. ConvertedIsRecorded'
  BY <1>3, <1>4, AbsentAssumption DEF OrdersInv, ConvertedIsRecorded, Status
<1> QED BY <1>2, <1>3, <1>4, <1>5 DEF OrdersInv, Typed, OwnId, HalfRecorded

LEMMA DeleteActualKeepsInv ==
  ASSUME OrdersInv, NEW h \in Host, NEW u \in Uuid, DeleteActual(h, u)
  PROVE  OrdersInv'
<1>1. \A t \in Stamp : [kind |-> "dropActual", id |-> u, body |-> Absent, hlc |-> t] \in Op
  BY DEF Op
<1>e. /\ doc' \in [Host -> DocumentType] /\ clock' \in [Host -> Timestamp]
      /\ issued' \subseteq Op /\ ClockAhead'
      /\ \A g \in Host \ {h} : doc'[g] = doc[g]
      /\ doc'[h].order = IF "dropActual" \in {"putOrder", "dropOrder"}
                         THEN [doc[h].order EXCEPT ![u] = Absent] ELSE doc[h].order
      /\ doc'[h].actual = IF "dropActual" \in {"putActual", "dropActual"}
                          THEN [doc[h].actual EXCEPT ![u] = Absent] ELSE doc[h].actual
  <2>1. Emit(h, "dropActual", u, Absent)
    BY DEF DeleteActual
  <2>2. Absent \in Status \union Uuid \union {Absent}
    OBVIOUS
  <2> QED BY <1>1, <2>1, <2>2, EmitTakes, SMTT(30)
<1>2. /\ doc' \in [Host -> DocumentType] /\ clock' \in [Host -> Timestamp]
      /\ issued' \subseteq Op /\ ClockAhead'
      /\ \A g \in Host \ {h} : doc'[g] = doc[g]
      /\ doc'[h].order = doc[h].order
      /\ doc'[h].actual = [doc[h].actual EXCEPT ![u] = Absent]
  BY <1>e
<1>3. /\ doc[h].actual \in [Uuid -> Uuid \union {Absent}]
      /\ converting' = converting /\ converting[h] = NoConvert
      /\ retired \subseteq retired' /\ retired' \subseteq Uuid
      /\ doc[h].actual[u] # Absent => u \in retired'
  BY DEF OrdersInv, Typed, DocumentType, DeleteActual
<1>4. \A g \in Host, v \in Uuid :
        /\ doc'[g].order = doc[g].order
        /\ doc'[g].actual[v] = IF g = h /\ v = u THEN Absent ELSE doc[g].actual[v]
  BY <1>2, <1>3
<1>5. Typed'
  BY <1>2, <1>3 DEF OrdersInv, Typed
<1>6. OwnId'
  BY <1>4 DEF OrdersInv, OwnId
<1>7. HalfRecorded'
  BY <1>3, <1>4 DEF OrdersInv, HalfRecorded, Typed
<1>8. ConvertedIsRecorded'
  BY <1>3, <1>4 DEF OrdersInv, ConvertedIsRecorded
<1> QED BY <1>2, <1>5, <1>6, <1>7, <1>8 DEF OrdersInv

LEMMA OrdersInit == Init => OrdersInv
<1> SUFFICES ASSUME Init PROVE OrdersInv
  OBVIOUS
<1>1. NewDocument \in DocumentType
  BY DEF NewDocument, DocumentType
<1>2. \A h \in Host : FreshClock(h) \in Timestamp /\ BeforeOrSame(NoHlc, FreshClock(h))
  BY HostAssumption DEF FreshClock, Timestamp, BeforeOrSame, Before, NoHlc,
                        Wall, Counter, Node
<1>3. Typed
  BY <1>1, <1>2 DEF Init, Typed
<1>4. ClockAhead
  BY <1>2 DEF Init, ClockAhead, NewDocument
<1>5. OwnId /\ HalfRecorded
  BY DEF Init, OwnId, HalfRecorded, NewDocument
<1>6. ConvertedIsRecorded
  BY AbsentAssumption DEF Init, ConvertedIsRecorded, NewDocument, Status
<1> QED BY <1>3, <1>4, <1>5, <1>6 DEF OrdersInv

LEMMA OrdersNext == OrdersInv /\ [Next]_vars => OrdersInv'
<1> SUFFICES ASSUME OrdersInv, [Next]_vars PROVE OrdersInv'
  OBVIOUS
<1>1. ASSUME NEW h \in Host, NEW u \in Uuid, AddOrder(h, u)
      PROVE  OrdersInv'
  BY <1>1, PutOrderKeepsInv DEF AddOrder
<1>2. ASSUME NEW h \in Host, NEW u \in Uuid, ApproveOrder(h, u)
      PROVE  OrdersInv'
  BY <1>2, PutOrderKeepsInv DEF ApproveOrder
<1>3. ASSUME NEW h \in Host, NEW u \in Uuid, RecordActual(h, u)
      PROVE  OrdersInv'
  BY <1>3, RecordActualKeepsInv
<1>4. ASSUME NEW h \in Host, MarkConverted(h)
      PROVE  OrdersInv'
  <2>1. converting[h] \in Uuid
    BY <1>4 DEF OrdersInv, Typed, MarkConverted
  <2>2. PICK u \in Uuid : u = converting[h]
    BY <2>1
  <2> QED BY <1>4, <2>2, MarkConvertedKeepsInv
<1>5. ASSUME NEW h \in Host, NEW u \in Uuid, DeleteOrder(h, u)
      PROVE  OrdersInv'
  BY <1>5, DeleteOrderKeepsInv
<1>6. ASSUME NEW h \in Host, NEW u \in Uuid, DeleteActual(h, u)
      PROVE  OrdersInv'
  BY <1>6, DeleteActualKeepsInv
<1>7. ASSUME NEW h \in Host, InterruptConvert(h)
      PROVE  OrdersInv'
  BY <1>7 DEF InterruptConvert, OrdersInv, Typed, ClockAhead, OwnId, HalfRecorded,
              ConvertedIsRecorded
<1>8. CASE UNCHANGED vars
  BY <1>8 DEF vars, OrdersInv, Typed, ClockAhead, OwnId, HalfRecorded, ConvertedIsRecorded
<1> QED BY <1>1, <1>2, <1>3, <1>4, <1>5, <1>6, <1>7, <1>8 DEF Next, Handler

\* The strengthening holds throughout: no host's clock falls behind its document.
THEOREM OrdersInvariant == Spec => []OrdersInv
  BY OrdersInit, OrdersNext, PTL DEF Spec

\* A half-done convert always has its actual on record.
THEOREM OrdersTypeCorrect == Spec => []TypeOK
<1>1. OrdersInv => TypeOK
  BY AbsentAssumption DEF OrdersInv, Typed, HalfRecorded, TypeOK, DocumentType
<1> QED BY <1>1, OrdersInvariant, PTL

\* No order is ever shown as converted with its cost missing.
THEOREM NoCostLost == Spec => []ConvertedIsRecorded
<1>1. OrdersInv => ConvertedIsRecorded
  BY DEF OrdersInv
<1> QED BY <1>1, OrdersInvariant, PTL

\* Converting an order again, after any interruption, never duplicates its cost.
THEOREM NoDoubleActual == Spec => []OneActualPerOrder
<1>1. OrdersInv => OneActualPerOrder
  <2> SUFFICES ASSUME OrdersInv, NEW h \in Host, NEW u \in Uuid
               PROVE  Cardinality({a \in Uuid : doc[h].actual[a] = u}) =< 1
    BY DEF OneActualPerOrder
  <2> DEFINE realised == {a \in Uuid : doc[h].actual[a] = u}
  <2>1. realised \subseteq {u}
    BY AbsentAssumption DEF OrdersInv, OwnId
  <2>2. IsFiniteSet({u}) /\ Cardinality({u}) = 1
    BY FS_Singleton
  <2>3. Cardinality(realised) <= Cardinality({u})
    BY <2>1, <2>2, FS_Subset
  <2> QED BY <2>2, <2>3
<1> QED BY <1>1, OrdersInvariant, PTL
=============================================================================
