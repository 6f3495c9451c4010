------------------------------ MODULE Document ------------------------------
(***************************************************************************)
(* The reducer of budgetcut-core (src/ops/mod.rs): a document, the ops that*)
(* mutate it and what applying one op does.  These are the operators that  *)
(* client, server and local store all run; modules with variables use them.*)
(*                                                                         *)
(* An entity is a line, global, purchase order, ...  Its payload is a      *)
(* function on Tag.  TagsOf[e] are the tags with a last-writer register of *)
(* their own (the 14 detail fields, the value of a global); the other tags *)
(* stand for the part of a payload that only an insert writes, which for   *)
(* most kinds of entity is all of it.  The content of a field is the op    *)
(* that wrote it: two documents agree in this model only if every field    *)
(* was last written by the same op.                                        *)
(*                                                                         *)
(* One uuid is one entity of one kind here.  Where the program gives one   *)
(* uuid to a purchase order and to the actual it becomes, the two share an *)
(* existence register: module PurchaseOrders.                              *)
(***************************************************************************)
EXTENDS Hlc, Sequences

CONSTANTS
  Entity,      \* entity ids
  Tag,         \* fields of a payload
  TagsOf,      \* the fields of each entity that have a register
  Base,        \* the entities of the base snapshot
  Stamp,       \* the timestamps ops may carry
  BaseValue,   \* content of a field as the base snapshot has it
  NoValue,     \* what the budget holds for an absent entity
  NoTag        \* the tag of an op that sets no field

ASSUME TagsOfAssumption == TagsOf \in [Entity -> SUBSET Tag]
ASSUME BaseAssumption == Base \subseteq Entity
ASSUME StampAssumption ==
  /\ Stamp \subseteq Timestamp
  /\ \A h \in Stamp : Before(NoHlc, h)

ExistenceOp == [kind : {"insert", "remove"}, ent : Entity, tag : {NoTag}, hlc : Stamp]
FieldOp == {o \in [kind : {"set"}, ent : Entity, tag : Tag, hlc : Stamp] :
              o.tag \in TagsOf[o.ent]}

\* An op is its own id: delivering the same op twice is delivering equal records.
Op == ExistenceOp \union FieldOp

ASSUME BaseValueAssumption == BaseValue \notin Op

Writer == Op \union {BaseValue, NoValue}

\* All that a document keeps about one entity.  Registers and buffered ops are
\* keyed by the entity's uuid, so no op touches another entity's part.
EntityState ==
  [present : BOOLEAN,                      \* is the id a key of the budget's map
   cell    : [Tag -> Writer],              \* its payload there
   exists  : Stamp \union {NoHlc},         \* lww, tag EXISTS
   reg     : [Tag -> Stamp \union {NoHlc}],\* lww, field tags
   pending : SUBSET FieldOp]

DocumentType == [applied : SUBSET Op, state : [Entity -> EntityState]]

\* Document::new
NewDocument ==
  [applied |-> {},
   state |-> [e \in Entity |->
     [present |-> e \in Base,
      cell    |-> [t \in Tag |-> IF e \in Base THEN BaseValue ELSE NoValue],
      exists  |-> NoHlc,
      reg     |-> [t \in Tag |-> NoHlc],
      pending |-> {}]]]

----------------------------------------------------------------------------
\* A write wins a register iff it strictly post-dates it; an empty register
\* (NoHlc) is older than every op.
Wins(register, hlc) == Before(register, hlc)

\* The op of a non-empty set that no other op of it post-dates.
Highest(S) == CHOOSE o \in S : \A p \in S : BeforeOrSame(p.hlc, o.hlc)

\* Of the waiting ops, those that would win the register of field t.
Winners(s, t) == {o \in s.pending : o.tag = t /\ Wins(s.reg[t], o.hlc)}

\* Faulty variant: the flushed ops stay in the buffer.
FlushPendingKeeps(s) ==
  [present |-> s.present,
   cell    |-> [t \in Tag |-> IF Winners(s, t) = {} THEN s.cell[t]
                              ELSE Highest(Winners(s, t))],
   exists  |-> s.exists,
   reg     |-> [t \in Tag |-> IF Winners(s, t) = {} THEN s.reg[t]
                              ELSE Highest(Winners(s, t)).hlc],
   pending |-> s.pending]

\* Re-apply the field ops that waited for the entity.  Applying several to one
\* register in any order leaves the highest, which is what is written here.
FlushPending(s) ==
  [present |-> s.present,
   cell    |-> [t \in Tag |-> IF Winners(s, t) = {} THEN s.cell[t]
                              ELSE Highest(Winners(s, t))],
   exists  |-> s.exists,
   reg     |-> [t \in Tag |-> IF Winners(s, t) = {} THEN s.reg[t]
                              ELSE Highest(Winners(s, t)).hlc],
   pending |-> {}]

\* Faulty variant: an insert claims no field register.
SeedsNothing(s, op) == s.reg

\* The field registers an insert claims: those it post-dates.
SeededRegisters(s, op) ==
  [t \in Tag |-> IF t \in TagsOf[op.ent] /\ Wins(s.reg[t], op.hlc)
                 THEN op.hlc
                 ELSE s.reg[t]]

\* insert_seeded: the payload replaces whatever the entity held.
Insert(s, op) ==
  IF ~ Wins(s.exists, op.hlc)
  THEN s
  ELSE FlushPending([present |-> TRUE,
                     cell    |-> [t \in Tag |-> op],
                     exists  |-> op.hlc,
                     reg     |-> SeededRegisters(s, op),
                     pending |-> s.pending])

\* Faulty variant: a removal empties the buffer, later edits included.
RemoveClearsBuffer(s, op) ==
  IF ~ Wins(s.exists, op.hlc)
  THEN s
  ELSE [present |-> FALSE,
        cell    |-> [t \in Tag |-> NoValue],
        exists  |-> op.hlc,
        reg     |-> s.reg,
        pending |-> {}]

\* remove: evicts the waiting field ops that this removal post-dates.
Remove(s, op) ==
  IF ~ Wins(s.exists, op.hlc)
  THEN s
  ELSE [present |-> FALSE,
        cell    |-> [t \in Tag |-> NoValue],
        exists  |-> op.hlc,
        reg     |-> s.reg,
        pending |-> {o \in s.pending : Before(op.hlc, o.hlc)}]

\* Faulty variant: the op that arrived last takes the slot.
BufferLastArrival(s, op) ==
  [s EXCEPT !.pending = {o \in @ : o.tag # op.tag} \union {op}]

\* buffer: of two ops on one field only the later is kept.
Buffer(s, op) ==
  IF \E o \in s.pending : o.tag = op.tag /\ ~ Before(o.hlc, op.hlc)
  THEN s
  ELSE [s EXCEPT !.pending = {o \in @ : o.tag # op.tag} \union {op}]

\* Faulty variant: an edit wins without claiming its register.
SetFieldUnclaimed(s, op) ==
  IF ~ s.present THEN Buffer(s, op)
  ELSE IF ~ Wins(s.reg[op.tag], op.hlc) THEN s
  ELSE [s EXCEPT !.cell[op.tag] = op]

\* set_detail_field and set_global_value
SetField(s, op) ==
  IF ~ s.present THEN Buffer(s, op)
  ELSE IF ~ Wins(s.reg[op.tag], op.hlc) THEN s
  ELSE [present |-> s.present,
        cell    |-> [s.cell EXCEPT ![op.tag] = op],
        exists  |-> s.exists,
        reg     |-> [s.reg EXCEPT ![op.tag] = op.hlc],
        pending |-> s.pending]

\* Faulty variant: a removal of an absent entity waits for it like an edit.
DispatchHoldsRemovals(s, op) ==
  IF op.kind = "insert" THEN Insert(s, op)
  ELSE IF op.kind = "remove" /\ s.present THEN Remove(s, op)
  ELSE SetField(s, op)

Dispatch(s, op) ==
  IF op.kind = "insert" THEN Insert(s, op)
  ELSE IF op.kind = "remove" THEN Remove(s, op)
  ELSE SetField(s, op)

\* Document::apply
Apply(d, op) ==
  IF op \in d.applied
  THEN d
  ELSE [applied |-> d.applied \union {op},
        state   |-> [d.state EXCEPT ![op.ent] = Dispatch(@, op)]]

\* A list of ops applied in its order: Store::load_document's loop, and what a
\* client does with the log of a snapshot.
ReplayOnto(d, ops) ==
  LET after[i \in 0 .. Len(ops)] ==
        IF i = 0 THEN d ELSE Apply(after[i - 1], ops[i])
  IN  after[Len(ops)]

\* The ApplyResult of Document::apply.
Outcome(d, op) ==
  LET s == d.state[op.ent]
      register == IF op.kind = "set" THEN s.reg[op.tag] ELSE s.exists
  IN  IF op \in d.applied THEN "Idempotent"
      ELSE IF op.kind = "set" /\ ~ s.present THEN "Buffered"
      ELSE IF Wins(register, op.hlc) THEN "Applied"
      ELSE "Stale"

\* What client and server persist and forward.
TookEffect(d, op) == Outcome(d, op) \in {"Applied", "Buffered"}

\* The budget that collaborators see: the payload of each entity that exists.
Budget(d) ==
  [e \in Entity |-> IF d.state[e].present THEN d.state[e].cell ELSE NoValue]
=============================================================================
