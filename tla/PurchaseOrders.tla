--------------------------- MODULE PurchaseOrders ---------------------------
(***************************************************************************)
(* Purchase orders and their conversion into actuals: the handlers of the  *)
(* server (budgetcut-server) and of the desktop app, which read a record,  *)
(* change it and insert it again.  Convert emits two ops, and gives the    *)
(* actual the id of the order: the two live in different maps of the       *)
(* budget but share one existence register, which the reducer keys by uuid *)
(* (ops/mod.rs).  Document assumes one kind of entity per uuid; this       *)
(* module is about the uuids that have two.                                *)
(***************************************************************************)
EXTENDS Hlc, FiniteSets

CONSTANTS
  Host,       \* numbers of the hosts that hold a document: desktop apps, servers
  Uuid,       \* ids of orders and actuals
  WallTime,   \* what the wall clock may read
  Stamp,      \* bound: the timestamps hosts may mint
  Absent, NoConvert

ASSUME HostAssumption == Host \subseteq Nat \ {0}
ASSUME StampAssumption == Stamp \subseteq Timestamp /\ WallTime \subseteq Nat

Status == {"draft", "approved", "converted"}

ASSUME AbsentAssumption == Absent \notin Uuid \union Status /\ NoConvert \notin Uuid

\* body: the status of an order, or the order an actual realises.
Op == [kind : {"putOrder"}, id : Uuid, body : Status, hlc : Stamp]
        \union [kind : {"putActual"}, id : Uuid, body : Uuid, hlc : Stamp]
        \union [kind : {"dropOrder", "dropActual"}, id : Uuid, body : {Absent}, hlc : Stamp]

VARIABLES
  doc,         \* [Host -> applied ops, existence registers, orders, actuals]
  clock,       \* [Host -> last timestamp minted]
  issued,      \* the ops that some host logged and forwarded
  converting,  \* [Host -> order whose convert is half done, or NoConvert]
  retired      \* actuals that somebody deleted

vars == <<doc, clock, issued, converting, retired>>

NewDocument ==
  [applied |-> {},
   exists  |-> [u \in Uuid |-> NoHlc],
   order   |-> [u \in Uuid |-> Absent],
   actual  |-> [u \in Uuid |-> Absent]]

Took(d, op) == op \notin d.applied /\ Before(d.exists[op.id], op.hlc)

\* Document::apply for inserts and removals of orders and actuals.
Apply(d, op) ==
  IF ~ Took(d, op)
  THEN [applied |-> d.applied \union {op}, exists |-> d.exists,
        order |-> d.order, actual |-> d.actual]
  ELSE [applied |-> d.applied \union {op},
        exists  |-> [d.exists EXCEPT ![op.id] = op.hlc],
        order   |-> IF op.kind \in {"putOrder", "dropOrder"}
                    THEN [d.order EXCEPT ![op.id] = op.body] ELSE d.order,
        actual  |-> IF op.kind \in {"putActual", "dropActual"}
                    THEN [d.actual EXCEPT ![op.id] = op.body] ELSE d.actual]

----------------------------------------------------------------------------
Init ==
  /\ doc = [h \in Host |-> NewDocument]
  /\ clock = [h \in Host |-> FreshClock(h)]
  /\ issued = {}
  /\ converting = [h \in Host |-> NoConvert]
  /\ retired = {}

\* Host h mints an op, applies it, and logs it if it took effect; the outcome
\* is not looked at (apply_member_op, Session::edit).
Emit(h, kind, id, body) ==
  \E wall \in WallTime :
    LET op == [kind |-> kind, id |-> id, body |-> body,
               hlc |-> Tick(clock[h], h, wall)]
    IN  /\ op.hlc \in Stamp
        /\ clock' = [clock EXCEPT ![h] = op.hlc]
        /\ doc' = [doc EXCEPT ![h] = Apply(@, op)]
        /\ issued' = IF Took(doc[h], op) THEN issued \union {op} ELSE issued

\* post_po: a Draft order under a new id.
AddOrder(h, u) ==
  /\ converting[h] = NoConvert
  /\ \A g \in Host : doc[g].exists[u] = NoHlc
  /\ Emit(h, "putOrder", u, "draft")
  /\ UNCHANGED <<converting, retired>>

\* approve_po: whatever the order's status is.
ApproveOrder(h, u) ==
  /\ converting[h] = NoConvert
  /\ doc[h].order[u] # Absent
  /\ Emit(h, "putOrder", u, "approved")
  /\ UNCHANGED <<converting, retired>>

\* Faulty variant: the actual gets an id of its own.
RecordFreshActual(h, u) ==
  /\ converting[h] = NoConvert
  /\ doc[h].order[u] \in {"draft", "approved"}
  /\ \E id \in Uuid : /\ \A g \in Host : doc[g].exists[id] = NoHlc
                      /\ Emit(h, "putActual", id, u)
  /\ converting' = [converting EXCEPT ![h] = u]
  /\ UNCHANGED retired

\* Faulty variant: the status goes first.
RecordStatusFirst(h, u) ==
  /\ converting[h] = NoConvert
  /\ doc[h].order[u] \in {"draft", "approved"}
  /\ Emit(h, "putOrder", u, "converted")
  /\ converting' = [converting EXCEPT ![h] = u]
  /\ UNCHANGED retired

\* convert_po up to its first op: an order that is not converted yet is recorded
\* as the actual of the same id.
RecordActual(h, u) ==
  /\ converting[h] = NoConvert
  /\ doc[h].order[u] \in {"draft", "approved"}
  /\ Emit(h, "putActual", u, u)
  /\ converting' = [converting EXCEPT ![h] = u]
  /\ UNCHANGED retired

\* The second op of convert_po.  The host's lock is held since the first.
MarkConverted(h) ==
  /\ converting[h] # NoConvert
  /\ Emit(h, "putOrder", converting[h], "converted")
  /\ converting' = [converting EXCEPT ![h] = NoConvert]
  /\ UNCHANGED retired

\* The desktop app stops, or its store fails, between the two.
InterruptConvert(h) ==
  /\ converting[h] # NoConvert
  /\ converting' = [converting EXCEPT ![h] = NoConvert]
  /\ UNCHANGED <<doc, clock, issued, retired>>

\* delete_po: perhaps from a stale list, for an order that is gone already.
DeleteOrder(h, u) ==
  /\ converting[h] = NoConvert
  /\ doc[h].exists[u] # NoHlc
  /\ Emit(h, "dropOrder", u, Absent)
  /\ UNCHANGED <<converting, retired>>

\* delete_actual, likewise.
DeleteActual(h, u) ==
  /\ converting[h] = NoConvert
  /\ doc[h].exists[u] # NoHlc
  /\ Emit(h, "dropActual", u, Absent)
  /\ retired' = IF doc[h].actual[u] = Absent THEN retired ELSE retired \union {u}
  /\ UNCHANGED converting

\* Another host's op arrives.
Deliver(h, op) ==
  /\ converting[h] = NoConvert
  /\ op \in issued \ doc[h].applied
  /\ doc' = [doc EXCEPT ![h] = Apply(@, op)]
  /\ UNCHANGED <<clock, issued, converting, retired>>

Handler(h) ==
  \/ \E u \in Uuid : \/ AddOrder(h, u)
                     \/ ApproveOrder(h, u)
                     \/ RecordActual(h, u)
                     \/ DeleteOrder(h, u)
                     \/ DeleteActual(h, u)
  \/ MarkConverted(h)

\* One desktop app.
Next == \E h \in Host : Handler(h) \/ InterruptConvert(h)

Spec == Init /\ [][Next]_vars

\* Hosts that never stop and exchange ops in any order.
ExchangeNext == \E h \in Host : Handler(h) \/ (\E op \in issued : Deliver(h, op))

ExchangeSpec == Init /\ [][ExchangeNext]_vars

----------------------------------------------------------------------------
TypeOK ==
  /\ doc \in [Host -> [applied : SUBSET Op,
                       exists  : [Uuid -> Stamp \union {NoHlc}],
                       order   : [Uuid -> Status \union {Absent}],
                       actual  : [Uuid -> Uuid \union {Absent}]]]
  /\ \A h \in Host : converting[h] # NoConvert => doc[h].actual[converting[h]] # Absent
  /\ issued \subseteq Op
  /\ retired \subseteq Uuid

\* However often a convert is interrupted and tried again, an order becomes one
\* actual ("instead of double-counting it", convert_po).
OneActualPerOrder ==
  \A h \in Host, u \in Uuid : Cardinality({a \in Uuid : doc[h].actual[a] = u}) =< 1

\* An order is shown as converted only once its cost is recorded, and the record
\* goes away only by deleting the actual: no interruption loses a cost
\* ("so the committed cost becomes a recorded actual", convert_po).
ConvertedIsRecorded ==
  \A h \in Host, u \in Uuid :
    doc[h].order[u] = "converted" => doc[h].actual[u] = u \/ u \in retired

\* The cost report adds actuals and approved orders, "Converted ones already
\* became actuals" (view.rs): no order may be in both sums.  Violated: approve
\* does not look at the status of an order.
CountedOnce ==
  \A h \in Host, u \in Uuid :
    converting[h] = NoConvert => ~ (doc[h].order[u] = "approved" /\ doc[h].actual[u] = u)

\* ops/mod.rs, "Convergence guarantee: for a given *set* of ops, the materialized
\* [`Budget`] is independent of application order".  Violated: the two ops of a
\* convert contend for one existence register.
Converged ==
  \A g, h \in Host :
    doc[g].applied = doc[h].applied =>
      doc[g].order = doc[h].order /\ doc[g].actual = doc[h].actual
=============================================================================
