----------------------------- MODULE SyncProofs -----------------------------
(***************************************************************************)
(* Two machines that apply ops, for any number of replicas, peers and ops. *)
(* What a document knows of the ops it applied is EntityInv of MergeProofs,*)
(* which every way of applying an op keeps.                                *)
(*                                                                         *)
(* The replicas of Reducer: the machine keeps it for every replica, and    *)
(* the properties of Reducer and the refinement of OpSet are read off it.  *)
(*                                                                         *)
(* The room of SyncRoom and its peers, with any capacity of the channel:   *)
(* RoomInv is about the log alone: an op enters it once, however often it  *)
(* is submitted.  ServerInv adds that the log rebuilds the room, that what *)
(* is not logged is superseded by what is, and what a peer and its channel *)
(* have of the log between them.                                           *)
(***************************************************************************)
EXTENDS Reducer, SyncRoom, MergeProofs

----------------------------------------------------------------------------
(***************************************************************************)
(* The machine.                                                            *)
(***************************************************************************)
MachineInv ==
  /\ issued \subseteq Op
  /\ Disciplined(issued)
  /\ DOMAIN doc = Replica
  /\ doc = [r \in Replica |-> doc[r]]
  /\ \A r \in Replica : doc[r].applied \subseteq issued /\ DocumentInv(doc[r])

LEMMA MachineInit == Init => MachineInv
<1> SUFFICES ASSUME Init PROVE MachineInv
  OBVIOUS
<1>1. issued = {} /\ doc = [r \in Replica |-> NewDocument]
  BY DEF Init
<1>2. Disciplined({})
  BY DEF Disciplined, UniqueHlcs, ReinsertsPostdateEdits
<1> QED BY <1>1, <1>2, NewDocumentInv DEF MachineInv

\* A replica applies an op of a disciplined set.
LEMMA MachineApply ==
  ASSUME MachineInv, NEW r \in Replica, NEW op \in Op,
         issued' = issued \union {op}, Disciplined(issued'),
         doc' = [doc EXCEPT ![r] = Apply(doc[r], op)]
  PROVE  /\ MachineInv'
         /\ doc'[r].applied = doc[r].applied \union {op}
         /\ \A q \in Replica : q # r => doc'[q] = doc[q]
<1>1. /\ doc'[r] = Apply(doc[r], op)
      /\ \A q \in Replica : q # r => doc'[q] = doc[q]
      /\ DOMAIN doc' = Replica /\ doc' = [q \in Replica |-> doc'[q]]
  BY DEF MachineInv
<1>2. DocumentInv(doc[r]) /\ doc[r].applied \subseteq issued
  BY DEF MachineInv
<1>3. Disciplined(doc[r].applied \union {op})
  BY <1>2, DisciplinedSubset
<1>4. DocumentInv(doc'[r]) /\ doc'[r].applied = doc[r].applied \union {op}
  BY <1>1, <1>2, <1>3, ApplyInv
<1>5. \A q \in Replica : doc'[q].applied \subseteq issued' /\ DocumentInv(doc'[q])
  BY <1>1, <1>2, <1>4 DEF MachineInv
<1> QED BY <1>1, <1>4, <1>5 DEF MachineInv

LEMMA MachineNext == MachineInv /\ [Next]_vars => MachineInv'
<1> SUFFICES ASSUME MachineInv, [Next]_vars PROVE MachineInv'
  OBVIOUS
<1>1. ASSUME NEW r \in Replica, NEW op \in Op,
             Disciplined(issued \union {op}), Submit(r, op)
      PROVE  MachineInv'
  BY <1>1, MachineApply DEF Submit
<1>2. ASSUME NEW r \in Replica, NEW op \in issued, Deliver(r, op)
      PROVE  MachineInv'
  <2>1. op \in Op /\ issued' = issued \union {op} /\ Disciplined(issued')
    BY <1>2 DEF Deliver, MachineInv
  <2> QED BY <1>2, <2>1, MachineApply DEF Deliver
<1>3. CASE UNCHANGED vars
  BY <1>3 DEF vars, MachineInv
<1> QED BY <1>1, <1>2, <1>3 DEF Next

THEOREM MachineInvariant == Spec => []MachineInv
  BY MachineInit, MachineNext, PTL DEF Spec

\* Every reachable document is well formed: TypeOK of Reducer.
THEOREM TypeCorrect == Spec => []TypeOK
<1>1. MachineInv => TypeOK
  BY DEF MachineInv, TypeOK, DocumentInv
<1> QED BY <1>1, MachineInvariant, PTL

\* A replica's budget is the one its applied ops stand for, whatever the order
\* and number of deliveries: ShowsMergedOps of Reducer.
THEOREM BudgetFollowsOps == Spec => []ShowsMergedOps
<1>1. MachineInv => ShowsMergedOps
  <2> SUFFICES ASSUME MachineInv, NEW r \in Replica
               PROVE  Budget(doc[r]) = Merged(doc[r].applied)
    BY DEF ShowsMergedOps
  <2>1. DocumentInv(doc[r]) /\ UniqueHlcs(doc[r].applied)
    BY DisciplinedSubset DEF MachineInv, Disciplined
  <2> QED BY <2>1, BudgetIsMerged
<1> QED BY <1>1, MachineInvariant, PTL

\* Replicas that have applied the same ops agree: Converged of Reducer, the
\* convergence guarantee of ops/mod.rs and ADR 0002.
THEOREM Convergence == Spec => []Converged
<1>1. ShowsMergedOps => Converged
  BY DEF ShowsMergedOps, Converged
<1> QED BY <1>1, BudgetFollowsOps, PTL

\* The buffer holds at most one op per field, and none of a present entity:
\* BufferBounded of Reducer.
THEOREM BufferStaysBounded == Spec => []BufferBounded
<1>1. MachineInv => BufferBounded
  BY DEF MachineInv, DocumentInv, EntityInv, PendingInv, BufferBounded
<1> QED BY <1>1, MachineInvariant, PTL

\* The registers of a present entity name the ops its payload shows:
\* RegisterNamesWriter of Reducer.
THEOREM RegistersNameWriters == Spec => []RegisterNamesWriter
<1>1. MachineInv => RegisterNamesWriter
  <2> SUFFICES ASSUME MachineInv, NEW r \in Replica, NEW e \in Entity,
                      doc[r].state[e].present, NEW t \in TagsOf[e]
               PROVE  IF doc[r].state[e].cell[t] = BaseValue
                      THEN doc[r].state[e].reg[t] = NoHlc
                      ELSE doc[r].state[e].reg[t] = doc[r].state[e].cell[t].hlc
    BY DEF RegisterNamesWriter
  <2> DEFINE A == doc[r].applied
             s == doc[r].state[e]
             W == Inserts(A, e) \union Edits(A, e, t)
  <2>1. t \in Tag
    BY TagsOfAssumption
  <2>2. A \in SUBSET Op /\ EntityInv(A, s, e)
    BY DEF MachineInv, DocumentInv, DocumentType
  <2>3. \/ s.cell[t] = BaseValue /\ s.reg[t] = NoHlc
        \/ s.cell[t] \in W /\ s.reg[t] = s.cell[t].hlc
    BY <2>1, <2>2 DEF EntityInv, CellInv
  <2>4. W \subseteq Op
    BY <2>2 DEF Inserts, Edits
  <2> QED BY <2>3, <2>4, BaseValueAssumption
<1> QED BY <1>1, MachineInvariant, PTL

----------------------------------------------------------------------------
(***************************************************************************)
(* The refinement.                                                         *)
(***************************************************************************)
LEMMA PromiseMerged == \A A : Promise!Merged(A) = Merged(A)
  BY DEF Promise!Merged, Promise!Lives, Promise!LastWriter, Promise!Highest,
         Promise!Inserts, Promise!Edits, Promise!ExistenceOps, Promise!BeforeOrSame,
         Promise!Before, Promise!Wall, Promise!Counter, Promise!Node,
         Merged, Lives, LastWriter, Highest, Inserts, Edits, ExistenceOps,
         BeforeOrSame, Before, Wall, Counter, Node

LEMMA PromiseOp == Promise!Op = Op
  BY DEF Promise!Op, Promise!ExistenceOp, Promise!FieldOp, Op, ExistenceOp, FieldOp

\* The abstract state of a reachable state is a function of the applied ops.
LEMMA MappedBudget ==
  ShowsMergedOps =>
    [r \in Replica |-> Budget(doc[r])] = [r \in Replica |-> Merged(doc[r].applied)]
  BY DEF ShowsMergedOps

LEMMA StepSees ==
  ASSUME MachineInv, ShowsMergedOps, ShowsMergedOps', NEW r \in Replica, NEW op \in Op,
         issued' = issued \union {op}, Disciplined(issued'),
         doc' = [doc EXCEPT ![r] = Apply(doc[r], op)]
  PROVE  Promise!See(r, op)
<1> DEFINE seen == [q \in Replica |-> doc[q].applied]
           seenNext == [q \in Replica |-> doc'[q].applied]
           shown == [q \in Replica |-> Budget(doc[q])]
           shownNext == [q \in Replica |-> Budget(doc'[q])]
<1>1. /\ doc'[r].applied = doc[r].applied \union {op}
      /\ \A q \in Replica : q # r => doc'[q] = doc[q]
  BY MachineApply
<1>2. seenNext = [seen EXCEPT ![r] = seen[r] \union {op}]
  <2>1. seenNext[r] = seen[r] \union {op}
    BY <1>1
  <2>2. ASSUME NEW q \in Replica, q # r PROVE seenNext[q] = seen[q]
    BY <1>1, <2>2
  <2>3. DOMAIN seen = Replica /\ DOMAIN seenNext = Replica
    OBVIOUS
  <2>4. seenNext = [q \in Replica |-> seenNext[q]] /\ seen = [q \in Replica |-> seen[q]]
    OBVIOUS
  <2> HIDE DEF seen, seenNext
  <2> QED BY <2>1, <2>2, <2>3, <2>4
<1>3. Budget(doc'[r]) = Merged(seenNext[r])
  BY DEF ShowsMergedOps
<1>4. shownNext = [shown EXCEPT ![r] = Merged(seenNext[r])]
  <2>1. shownNext[r] = Merged(seenNext[r])
    BY <1>3
  <2>2. ASSUME NEW q \in Replica, q # r PROVE shownNext[q] = shown[q]
    BY <1>1, <2>2
  <2>3. DOMAIN shown = Replica /\ DOMAIN shownNext = Replica
    OBVIOUS
  <2>4. shownNext = [q \in Replica |-> shownNext[q]] /\ shown = [q \in Replica |-> shown[q]]
    OBVIOUS
  <2> HIDE DEF shown, shownNext, seenNext
  <2> QED BY <2>1, <2>2, <2>3, <2>4
<1> QED BY <1>2, <1>4, PromiseMerged DEF Promise!See

\* The reducer implements OpSet: ImplementsOpSet of Reducer.
THEOREM ReducerImplementsOpSet == Spec => ImplementsOpSet
<1>1. Init => Promise!Init
  <2> SUFFICES ASSUME Init PROVE Promise!Init
    OBVIOUS
  <2>1. doc = [r \in Replica |-> NewDocument]
    BY DEF Init
  <2>2. UniqueHlcs({})
    BY DEF UniqueHlcs
  <2>3. NewDocument.applied = {} /\ Budget(NewDocument) = Merged({})
    BY <2>2, NewDocumentInv, BudgetIsMerged
  <2> QED BY <2>1, <2>3, PromiseMerged DEF Promise!Init
<1>2. MachineInv /\ ShowsMergedOps /\ ShowsMergedOps' /\ [Next]_vars
        => [Promise!Next]_<<[r \in Replica |-> doc[r].applied], [r \in Replica |-> Budget(doc[r])]>>
  <2> SUFFICES ASSUME MachineInv, ShowsMergedOps, ShowsMergedOps', [Next]_vars
               PROVE  Promise!Next \/ UNCHANGED doc
    OBVIOUS
  <2>1. ASSUME NEW r \in Replica, NEW op \in Op,
               Disciplined(issued \union {op}), Submit(r, op)
        PROVE  Promise!Next
    <3>1. Promise!See(r, op)
      BY <2>1, StepSees DEF Submit
    <3> QED BY <3>1, PromiseOp DEF Promise!Next
  <2>2. ASSUME NEW r \in Replica, NEW op \in issued, Deliver(r, op)
        PROVE  Promise!Next
    <3>1. op \in Op /\ issued' = issued \union {op} /\ Disciplined(issued')
      BY <2>2 DEF Deliver, MachineInv
    <3>2. Promise!See(r, op)
      BY <2>2, <3>1, StepSees DEF Deliver
    <3> QED BY <3>1, <3>2, PromiseOp DEF Promise!Next
  <2> QED BY <2>1, <2>2 DEF Next, vars
<1> QED BY <1>1, <1>2, MachineInvariant, BudgetFollowsOps, PTL
        DEF Spec, ImplementsOpSet, Promise!Spec

----------------------------------------------------------------------------
(***************************************************************************)
(* The room's log.                                                         *)
(***************************************************************************)
\* What is logged has been applied, and an applied op is not logged again.
LogInv ==
  /\ room.log \in Seq(Op)
  /\ \A i \in DOMAIN room.log : room.log[i] \in room.doc.applied
  /\ \A i, j \in DOMAIN room.log : room.log[i] = room.log[j] => i = j

\* The ops a peer submits.
OutboxInv ==
  /\ DOMAIN peer = Peer
  /\ \A p \in Peer :
       /\ peer[p] = [doc |-> peer[p].doc, clock |-> peer[p].clock, outbox |-> peer[p].outbox]
       /\ peer[p].outbox \in Seq(Op)

RoomInv == LogInv /\ OutboxInv

LEMMA InitRoom == RoomInit => RoomInv
<1> SUFFICES ASSUME RoomInit PROVE RoomInv
  OBVIOUS
<1>1. room.log = <<>> /\ <<>> \in Seq(Op)
  BY DEF RoomInit
<1>2. LogInv
  BY <1>1 DEF LogInv
<1>3. OutboxInv
  BY <1>1 DEF RoomInit, OutboxInv
<1> QED BY <1>2, <1>3 DEF RoomInv

LEMMA AppliedGrows ==
  ASSUME NEW d, NEW op
  PROVE  Apply(d, op).applied = d.applied \union {op}
  BY DEF Apply

LEMMA AcceptInv ==
  ASSUME LogInv, NEW op \in Op, Accept(op)
  PROVE  LogInv'
<1>1. room'.doc = Apply(room.doc, op)
  BY DEF Accept
<1>2. room'.doc.applied = room.doc.applied \union {op}
  BY <1>1, AppliedGrows
<1>3. CASE ~ Logged(op)
  BY <1>2, <1>3 DEF Accept, LogInv
<1>4. CASE Logged(op)
  <2>1. op \notin room.doc.applied
    BY <1>4 DEF Logged, TookEffect, Outcome
  <2>2. room.log \in Seq(Op) /\ room'.log = Append(room.log, op)
    BY <1>4 DEF Accept, LogInv
  <2>3. room'.log \in Seq(Op)
    BY <2>2
  <2>4. /\ DOMAIN room'.log = DOMAIN room.log \union {Len(room.log) + 1}
        /\ \A i \in DOMAIN room.log : room'.log[i] = room.log[i]
        /\ room'.log[Len(room.log) + 1] = op
    BY <2>2
  <2> QED BY <1>2, <2>1, <2>3, <2>4 DEF LogInv
<1> QED BY <1>3, <1>4

LEMMA SubmitInv ==
  ASSUME RoomInv, NEW p \in Peer, NEW answered \in BOOLEAN, SubmitOp(p, answered)
  PROVE  RoomInv'
<1>1. peer[p].outbox \in Seq(Op) /\ peer[p].outbox # <<>>
  BY DEF SubmitOp, RoomInv, OutboxInv
<1>2. Head(peer[p].outbox) \in Op /\ Tail(peer[p].outbox) \in Seq(Op)
  BY <1>1
<1>3. LogInv'
  BY <1>2, AcceptInv DEF SubmitOp, RoomInv
<1>4. OutboxInv'
  BY <1>2 DEF SubmitOp, RoomInv, OutboxInv
<1> QED BY <1>3, <1>4 DEF RoomInv

LEMMA NextRoom == RoomInv /\ [RoomNext]_roomVars => RoomInv'
<1> SUFFICES ASSUME RoomInv, [RoomNext]_roomVars PROVE RoomInv'
  OBVIOUS
<1>1. ASSUME NEW op \in Op, EditOnServer(op) PROVE RoomInv'
  BY <1>1, AcceptInv DEF EditOnServer, RoomInv, OutboxInv
<1>2. CASE RefuseEdit
  BY <1>2 DEF RefuseEdit, RoomInv, LogInv, OutboxInv
<1>3. ASSUME NEW p \in Peer, NEW op \in Op, EditOffline(p, op) PROVE RoomInv'
  <2>1. Append(peer[p].outbox, op) \in Seq(Op)
    BY DEF RoomInv, OutboxInv
  <2>2. OutboxInv'
    BY <1>3, <2>1 DEF EditOffline, RoomInv, OutboxInv
  <2> QED BY <1>3, <2>2 DEF EditOffline, RoomInv, LogInv
<1>4. ASSUME NEW p \in Peer, NEW answered \in BOOLEAN, SubmitOp(p, answered) PROVE RoomInv'
  BY <1>4, SubmitInv
<1>5. ASSUME NEW p \in Peer, Subscribe(p) \/ Disconnect(p) PROVE RoomInv'
  BY <1>5 DEF Subscribe, Disconnect, RoomInv, LogInv, OutboxInv
<1>6. ASSUME NEW p \in Peer, Receive(p) PROVE RoomInv'
  BY <1>6 DEF Receive, RoomInv, LogInv, OutboxInv
<1>7. ASSUME NEW p \in Peer, LoadSnapshot(p) PROVE RoomInv'
  BY <1>7 DEF LoadSnapshot, RoomInv, LogInv, OutboxInv
<1>8. CASE UNCHANGED roomVars
  BY <1>8 DEF roomVars, RoomInv, LogInv, OutboxInv
<1> QED BY <1>1, <1>2, <1>3, <1>4, <1>5, <1>6, <1>7, <1>8 DEF RoomNext

THEOREM RoomInvariant == RoomSpec => []RoomInv
  BY InitRoom, NextRoom, PTL DEF RoomSpec

\* An op is logged once, however often its answer is lost and it is submitted
\* again, and in whatever order ops of several peers and REST edits come
\* (lib.rs, submit_op: only Applied and Buffered outcomes are persisted).
THEOREM OpLoggedOnce == RoomSpec => []LoggedOnce
<1>1. RoomInv => LoggedOnce
  BY DEF RoomInv, LogInv, LoggedOnce, Ext!IsInjective
<1> QED BY <1>1, RoomInvariant, PTL

----------------------------------------------------------------------------
(***************************************************************************)
(* The room, its snapshot and its peers.                                   *)
(***************************************************************************)
InLog == Listed(room.log)

\* Every op is applied under one discipline.
MintedInv == Minted \subseteq Op /\ Disciplined(Minted) /\ clock \in Timestamp

\* Log and room are of one state; what was applied and not logged is superseded.
SnapshotInv ==
  /\ DocumentInv(room.doc) /\ DocumentInv(Snapshot)
  /\ Snapshot.applied = InLog /\ Snapshot.state = room.doc.state
  /\ \A x \in room.doc.applied : x \in InLog \/ Superseded(InLog, x)

\* A peer has applied its queued edits, and else nothing the room has not.
PeerInv(p) ==
  /\ DocumentInv(peer[p].doc) /\ peer[p].clock \in Timestamp
  /\ Outbox(p) \subseteq peer[p].doc.applied
  /\ peer[p].doc.applied \subseteq room.doc.applied \union Outbox(p)

\* A synced peer that missed nothing has the log but what is on the way to it.
ChannelInv(p) ==
  \/ channel[p] = Off
  \/ /\ channel[p] \in Channel
     /\ Listed(channel[p].queue) \subseteq InLog
     /\ channel[p].synced /\ ~ channel[p].missed =>
          InLog \subseteq peer[p].doc.applied \union Listed(channel[p].queue)

ServerInv ==
  /\ MintedInv /\ SnapshotInv
  /\ DOMAIN channel = Peer
  /\ \A p \in Peer : PeerInv(p) /\ ChannelInv(p)

LEMMA OutboxListed == \A p \in Peer : Outbox(p) = Listed(peer[p].outbox)
  BY DEF Outbox, Listed, Ext!ToSet

LEMMA EmptyListed == Listed(<< >>) = {} /\ << >> \in Seq(Op)
  BY DEF Listed

LEMMA LogApplied == LogInv => InLog \subseteq room.doc.applied
  BY DEF LogInv, InLog, Listed

LEMMA FreshClockStamp ==
  ASSUME NEW p \in Peer \union {Server}
  PROVE  FreshClock(p) \in Timestamp
  BY PeerAssumption DEF FreshClock, Timestamp

LEMMA InitServer == RoomInit => ServerInv
<1> SUFFICES ASSUME RoomInit PROVE ServerInv
  OBVIOUS
<1>1. /\ room.doc = NewDocument /\ room.log = << >> /\ edits = {}
      /\ clock = FreshClock(Server)
      /\ \A p \in Peer : /\ peer[p].doc = NewDocument /\ peer[p].clock = FreshClock(p)
                         /\ peer[p].outbox = << >> /\ channel[p] = Off
      /\ DOMAIN channel = Peer
  BY DEF RoomInit
<1>2. /\ InLog = {} /\ Snapshot = NewDocument
      /\ \A p \in Peer : Outbox(p) = {}
  BY <1>1, OutboxListed, EmptyListed, ReplayEmpty DEF InLog, Snapshot
<1>3. DocumentInv(NewDocument) /\ NewDocument.applied = {}
  BY NewDocumentInv
<1>4. Minted = {}
  BY <1>1, <1>2, <1>3 DEF Minted
<1>5. MintedInv
  BY <1>1, <1>4, FreshClockStamp
     DEF MintedInv, Disciplined, UniqueHlcs, ReinsertsPostdateEdits
<1>6. SnapshotInv
  BY <1>1, <1>2, <1>3 DEF SnapshotInv
<1>7. \A p \in Peer : PeerInv(p) /\ ChannelInv(p)
  BY <1>1, <1>2, <1>3, FreshClockStamp DEF PeerInv, ChannelInv
<1> QED BY <1>1, <1>5, <1>6, <1>7 DEF ServerInv

\* A handler applies an op: it is logged and changes room and snapshot alike, or
\* it is not and changes neither.
LEMMA AcceptSnapshot ==
  ASSUME LogInv, SnapshotInv, NEW op \in Op, Accept(op),
         Disciplined(room.doc.applied \union {op})
  PROVE  /\ SnapshotInv'
         /\ room'.doc.applied = room.doc.applied \union {op}
         /\ InLog' = IF Logged(op) THEN InLog \union {op} ELSE InLog
<1>1. /\ room'.doc = Apply(room.doc, op)
      /\ room'.log = IF Logged(op) THEN Append(room.log, op) ELSE room.log
  BY DEF Accept
<1>2. /\ DocumentInv(room'.doc) /\ room'.doc.applied = room.doc.applied \union {op}
  BY <1>1, ApplyInv DEF SnapshotInv
<1>3. InLog \subseteq room.doc.applied /\ room.log \in Seq(Op)
  BY DEF LogInv, InLog, Listed
<1>4. CASE Logged(op)
  <2>1. op \notin room.doc.applied /\ op \notin Snapshot.applied
    BY <1>3, <1>4 DEF Logged, TookEffect, Outcome, SnapshotInv
  <2>2. /\ Snapshot' = Apply(Snapshot, op) /\ InLog' = InLog \union {op}
    BY <1>1, <1>3, <1>4, ReplayAppend, AppendListed DEF Snapshot, InLog
  <2>3. Snapshot'.state = room'.doc.state
    BY <1>1, <2>1, <2>2, SameStateApply DEF SnapshotInv
  <2>4. Disciplined(Snapshot.applied \union {op})
    <3>1. Snapshot.applied \union {op} \subseteq room.doc.applied \union {op}
      BY <1>3 DEF SnapshotInv
    <3> QED BY <3>1, DisciplinedSubset
  <2>5. DocumentInv(Snapshot') /\ Snapshot'.applied = InLog'
    BY <2>2, <2>4, ApplyInv DEF SnapshotInv
  <2>6. \A x \in room'.doc.applied : x \in InLog' \/ Superseded(InLog', x)
    BY <1>2, <2>2, SupersededGrows DEF SnapshotInv
  <2> QED BY <1>2, <1>4, <2>2, <2>3, <2>5, <2>6 DEF SnapshotInv
<1>5. CASE ~ Logged(op)
  <2>1. room'.doc.state = room.doc.state
    <3>1. room.doc.state \in [Entity -> EntityState]
      BY DEF SnapshotInv, DocumentInv, DocumentType
    <3> QED BY <1>1, <1>5, <3>1, NoEffect DEF Logged
  <2>2. Snapshot' = Snapshot /\ InLog' = InLog
    BY <1>1, <1>5 DEF Snapshot, InLog
  <2>3. op \in room.doc.applied \/ Superseded(InLog, op)
    <3>1. SUFFICES ASSUME op \notin room.doc.applied PROVE Superseded(InLog, op)
      OBVIOUS
    <3>2. Outcome(room.doc, op) = "Stale"
      BY <1>5, <3>1 DEF Logged, TookEffect, Outcome
    <3>3. Outcome(Snapshot, op) = "Stale"
      BY <1>3, <3>1, <3>2 DEF Outcome, SnapshotInv
    <3> QED BY <3>3, StaleSuperseded DEF SnapshotInv
  <2> QED BY <1>2, <1>5, <2>1, <2>2, <2>3 DEF SnapshotInv
<1> QED BY <1>4, <1>5

----------------------------------------------------------------------------
LEMMA MintsGives ==
  ASSUME NEW op \in Op, NEW last, NEW node, Mints(op, last, node)
  PROVE  op.hlc \in Timestamp /\ Disciplined(Minted \union {op})
  BY OpFields DEF Mints

\* One op at most is minted by a step.
LEMMA MintedLater ==
  ASSUME MintedInv, NEW op \in Op, Disciplined(Minted \union {op}),
         Minted' \subseteq Minted \union {op}, clock' \in Timestamp
  PROVE  MintedInv'
<1>1. Disciplined(Minted')
  BY DisciplinedSubset
<1> QED BY <1>1 DEF MintedInv, Disciplined, UniqueHlcs, ReinsertsPostdateEdits, Inserts

LEMMA MintedSame ==
  ASSUME MintedInv, Minted' \subseteq Minted, clock' \in Timestamp
  PROVE  MintedInv'
<1>1. Disciplined(Minted')
  BY DisciplinedSubset DEF MintedInv
<1> QED BY <1>1 DEF MintedInv, Disciplined, UniqueHlcs, ReinsertsPostdateEdits, Inserts

\* What is in any place has been minted.
LEMMA MintedParts ==
  /\ edits \subseteq Minted /\ room.doc.applied \subseteq Minted
  /\ \A p \in Peer : Outbox(p) \subseteq Minted
  BY DEF Minted

\* A send leaves a receiver that lags what it had, the lost messages aside, and
\* every other one everything it lacks of the log.
LEMMA ForwardChannel ==
  ASSUME NEW op \in Op, NEW q \in Peer, ChannelInv(q), Forward(op),
         InLog' = IF Logged(op) THEN InLog \union {op} ELSE InLog,
         peer'[q].doc = peer[q].doc
  PROVE  ChannelInv(q)'
<1>1. CASE channel[q] = Off \/ ~ Logged(op)
  <2>1. channel'[q] = channel[q] /\ InLog \subseteq InLog'
    BY <1>1 DEF Forward, Queued
  <2> QED BY <1>1, <2>1 DEF ChannelInv
<1>2. CASE channel[q] # Off /\ Logged(op)
  <2> DEFINE c == channel[q]
             queue == c.queue
  <2>1. /\ c \in [queue : Seq(Op), missed : BOOLEAN, synced : BOOLEAN]
        /\ queue \in Seq(Op) /\ Len(queue) <= Capacity /\ Len(queue) \in Nat
        /\ Listed(queue) \subseteq InLog
        /\ c.synced /\ ~ c.missed => InLog \subseteq peer[q].doc.applied \union Listed(queue)
    BY <1>2 DEF ChannelInv, Channel
  <2>2. channel'[q] = Queued(c, op) /\ InLog' = InLog \union {op}
    BY <1>2 DEF Forward
  <2>3. CASE Len(queue) < Capacity
    <3>1. channel'[q] = [c EXCEPT !.queue = Append(queue, op)]
      BY <1>2, <2>2, <2>3 DEF Queued
    <3> HIDE DEF queue, c
    <3>2. /\ Append(queue, op) \in Seq(Op) /\ Len(Append(queue, op)) = Len(queue) + 1
          /\ Listed(Append(queue, op)) = Listed(queue) \union {op}
      <4>1. Len(Append(queue, op)) = Len(queue) + 1
        BY <2>1
      <4> QED BY <2>1, <4>1, AppendListed
    <3>3. channel'[q] = [queue |-> Append(queue, op), missed |-> c.missed, synced |-> c.synced]
      BY <2>1, <3>1
    <3>4. Len(Append(queue, op)) <= Capacity
      BY <2>1, <2>3, <3>2, CapacityAssumption
    <3>5. /\ channel'[q] \in Channel
          /\ channel'[q].queue = Append(queue, op)
          /\ channel'[q].missed = c.missed /\ channel'[q].synced = c.synced
      BY <2>1, <3>2, <3>3, <3>4 DEF Channel
    <3>6. /\ Listed(channel'[q].queue) \subseteq InLog'
          /\ channel'[q].synced /\ ~ channel'[q].missed =>
               InLog' \subseteq peer'[q].doc.applied \union Listed(channel'[q].queue)
      BY <2>1, <2>2, <3>2, <3>5
    <3> QED BY <3>5, <3>6 DEF ChannelInv
  <2>4. CASE ~ Len(queue) < Capacity
    <3> DEFINE rest == Tail(queue)
    <3>1. channel'[q] = [c EXCEPT !.queue = Append(rest, op), !.missed = TRUE]
      BY <1>2, <2>2, <2>4 DEF Queued
    <3>2. queue # << >>
      BY <2>1, <2>4, CapacityAssumption
    <3> HIDE DEF queue, c
    <3>3. /\ rest \in Seq(Op) /\ Len(rest) \in Nat /\ Len(queue) = Len(rest) + 1
          /\ Listed(rest) \subseteq Listed(queue)
      BY <2>1, <3>2, HeadTailListed
    <3> HIDE DEF rest
    <3>4. /\ Append(rest, op) \in Seq(Op) /\ Len(Append(rest, op)) = Len(rest) + 1
          /\ Listed(Append(rest, op)) = Listed(rest) \union {op}
      <4>1. Len(Append(rest, op)) = Len(rest) + 1
        BY <3>3
      <4> QED BY <3>3, <4>1, AppendListed
    <3>5. channel'[q] = [queue |-> Append(rest, op), missed |-> TRUE, synced |-> c.synced]
      BY <2>1, <3>1
    <3>6. channel'[q] \in Channel /\ channel'[q].missed
      <4>1. Len(Append(rest, op)) <= Capacity
        BY <2>1, <3>3, <3>4, CapacityAssumption
      <4> QED BY <2>1, <3>4, <3>5, <4>1 DEF Channel
    <3>7. Listed(channel'[q].queue) \subseteq InLog'
      BY <2>1, <2>2, <3>3, <3>4, <3>5
    <3> QED BY <3>6, <3>7 DEF ChannelInv
  <2> QED BY <2>3, <2>4
<1> QED BY <1>1, <1>2

\* A handler applies, logs and forwards an op: what that does for the room, and
\* for a peer whose document it leaves alone.
LEMMA HandlerStep ==
  ASSUME RoomInv, ServerInv, NEW op \in Op, Accept(op), Forward(op),
         Disciplined(Minted \union {op})
  PROVE  /\ SnapshotInv' /\ DOMAIN channel' = Peer
         /\ room'.doc.applied = room.doc.applied \union {op}
         /\ \A q \in Peer :
              peer'[q].doc = peer[q].doc =>
                /\ ChannelInv(q)'
                /\ /\ peer'[q].clock = peer[q].clock
                   /\ Outbox(q)' \subseteq Outbox(q) /\ Outbox(q) \subseteq Outbox(q)' \union {op}
                   => PeerInv(q)'
<1>1. Disciplined(room.doc.applied \union {op})
  <2>1. room.doc.applied \union {op} \subseteq Minted \union {op}
    BY MintedParts
  <2> QED BY <2>1, DisciplinedSubset
<1>2. /\ SnapshotInv' /\ room'.doc.applied = room.doc.applied \union {op}
      /\ InLog' = IF Logged(op) THEN InLog \union {op} ELSE InLog
  BY <1>1, AcceptSnapshot DEF RoomInv, ServerInv
<1>3. DOMAIN channel' = Peer
  BY DEF Forward, ServerInv
<1>4. ASSUME NEW q \in Peer, peer'[q].doc = peer[q].doc PROVE ChannelInv(q)'
  BY <1>2, <1>4, ForwardChannel DEF ServerInv
<1>5. ASSUME NEW q \in Peer, peer'[q].doc = peer[q].doc, peer'[q].clock = peer[q].clock,
             Outbox(q)' \subseteq Outbox(q), Outbox(q) \subseteq Outbox(q)' \union {op}
      PROVE  PeerInv(q)'
  <2>1. PeerInv(q)
    BY DEF ServerInv
  <2> QED BY <1>2, <1>5, <2>1 DEF PeerInv
<1> QED BY <1>2, <1>3, <1>4, <1>5

LEMMA EditOnServerInv ==
  ASSUME RoomInv, ServerInv, NEW op \in Op, EditOnServer(op)
  PROVE  ServerInv'
<1>1. /\ Mints(op, clock, Server) /\ clock' = op.hlc /\ Accept(op) /\ Forward(op)
      /\ edits' = edits \union {op} /\ peer' = peer
  BY DEF EditOnServer
<1>2. op.hlc \in Timestamp /\ Disciplined(Minted \union {op})
  BY <1>1, MintsGives
<1>3. \A q \in Peer : Outbox(q)' = Outbox(q)
  BY <1>1 DEF Outbox
<1>4. /\ SnapshotInv' /\ DOMAIN channel' = Peer
      /\ room'.doc.applied = room.doc.applied \union {op}
      /\ \A q \in Peer : PeerInv(q)' /\ ChannelInv(q)'
  BY <1>1, <1>2, <1>3, HandlerStep
<1>5. Minted' \subseteq Minted \union {op}
  BY <1>1, <1>3, <1>4 DEF Minted
<1>6. MintedInv'
  BY <1>1, <1>2, <1>5, MintedLater DEF ServerInv
<1> QED BY <1>4, <1>6 DEF ServerInv

LEMMA SubmitOpInv ==
  ASSUME RoomInv, ServerInv, NEW p \in Peer, NEW answered \in BOOLEAN, SubmitOp(p, answered)
  PROVE  ServerInv'
<1> DEFINE op == Head(peer[p].outbox)
<1>1. /\ peer[p].outbox \in Seq(Op) /\ peer[p].outbox # << >>
      /\ Accept(op) /\ Forward(op) /\ clock' = clock /\ edits' = edits
      /\ peer' = IF answered THEN [peer EXCEPT ![p].outbox = Tail(@)] ELSE peer
  BY DEF SubmitOp, RoomInv, OutboxInv
<1>2. /\ op \in Op /\ Listed(peer[p].outbox) = {op} \union Listed(Tail(peer[p].outbox))
  BY <1>1, HeadTailListed
<1>3. /\ Outbox(p) = {op} \union Listed(Tail(peer[p].outbox))
      /\ op \in Minted
  BY <1>2, OutboxListed, MintedParts
<1> HIDE DEF op
<1>4. Minted \union {op} = Minted /\ Disciplined(Minted)
  BY <1>3 DEF ServerInv, MintedInv
<1>5. \A q \in Peer : peer'[q].doc = peer[q].doc /\ peer'[q].clock = peer[q].clock
  BY <1>1 DEF RoomInv, OutboxInv
<1>6. ASSUME NEW q \in Peer
      PROVE  Outbox(q)' \subseteq Outbox(q) /\ Outbox(q) \subseteq Outbox(q)' \union {op}
  <2>1. CASE q = p /\ answered
    <3>1. peer'[p].outbox = Tail(peer[p].outbox)
      BY <1>1, <2>1 DEF RoomInv, OutboxInv
    <3>2. Outbox(p)' = Listed(Tail(peer[p].outbox))
      BY <3>1 DEF Outbox, Listed, Ext!ToSet
    <3> QED BY <1>3, <2>1, <3>2
  <2>2. CASE ~ (q = p /\ answered)
    <3>1. peer'[q].outbox = peer[q].outbox
      BY <1>1, <2>2 DEF RoomInv, OutboxInv
    <3> QED BY <3>1 DEF Outbox
  <2> QED BY <2>1, <2>2
<1>7. /\ SnapshotInv' /\ DOMAIN channel' = Peer
      /\ room'.doc.applied = room.doc.applied \union {op}
      /\ \A q \in Peer : PeerInv(q)' /\ ChannelInv(q)'
  BY <1>1, <1>2, <1>4, <1>5, <1>6, HandlerStep
<1>8. Minted' \subseteq Minted
  BY <1>1, <1>3, <1>6, <1>7 DEF Minted
<1>9. MintedInv'
  BY <1>1, <1>8, MintedSame DEF ServerInv, MintedInv
<1> QED BY <1>7, <1>9 DEF ServerInv

\* The other actions leave the room, the log and the server's edits alone.
LEMMA RoomUnchanged ==
  ASSUME UNCHANGED room, SnapshotInv
  PROVE  SnapshotInv' /\ InLog' = InLog
  BY DEF SnapshotInv, InLog, Snapshot

LEMMA RefuseEditInv ==
  ASSUME ServerInv, RefuseEdit
  PROVE  ServerInv'
<1>1. clock' \in Stamp /\ room' = room /\ peer' = peer /\ channel' = channel /\ edits' = edits
  BY DEF RefuseEdit
<1>2. clock' \in Timestamp
  BY <1>1, StampAssumption
<1>3. SnapshotInv' /\ InLog' = InLog
  BY <1>1, RoomUnchanged DEF ServerInv
<1>4. \A q \in Peer : Outbox(q)' = Outbox(q)
  BY <1>1 DEF Outbox
<1>5. MintedInv'
  <2>1. Minted' \subseteq Minted
    BY <1>1, <1>4 DEF Minted
  <2> QED BY <1>2, <2>1, MintedSame DEF ServerInv
<1>6. \A q \in Peer : PeerInv(q)' /\ ChannelInv(q)'
  BY <1>1, <1>3, <1>4 DEF ServerInv, PeerInv, ChannelInv
<1> QED BY <1>1, <1>3, <1>5, <1>6 DEF ServerInv

LEMMA EditOfflineInv ==
  ASSUME RoomInv, ServerInv, NEW p \in Peer, NEW op \in Op, EditOffline(p, op)
  PROVE  ServerInv'
<1>1. /\ Mints(op, peer[p].clock, p)
      /\ room' = room /\ clock' = clock /\ channel' = channel /\ edits' = edits
      /\ peer' = [peer EXCEPT ![p] = [doc |-> Apply(@.doc, op), clock |-> op.hlc,
                                      outbox |-> Append(@.outbox, op)]]
  BY DEF EditOffline
<1>2. op.hlc \in Timestamp /\ Disciplined(Minted \union {op})
  BY <1>1, MintsGives
<1>3. /\ peer'[p].doc = Apply(peer[p].doc, op) /\ peer'[p].clock = op.hlc
      /\ peer'[p].outbox = Append(peer[p].outbox, op)
      /\ \A q \in Peer : q # p => peer'[q] = peer[q]
      /\ peer[p].outbox \in Seq(Op)
  BY <1>1 DEF RoomInv, OutboxInv
<1>4. /\ Outbox(p)' = Outbox(p) \union {op}
      /\ \A q \in Peer : q # p => Outbox(q)' = Outbox(q)
  <2>1. Listed(Append(peer[p].outbox, op)) = Listed(peer[p].outbox) \union {op}
    BY <1>3, AppendListed
  <2>2. Outbox(p)' = Listed(Append(peer[p].outbox, op))
    BY <1>3 DEF Outbox, Listed, Ext!ToSet
  <2> QED BY <1>3, <2>1, <2>2, OutboxListed DEF Outbox
<1>5. SnapshotInv' /\ InLog' = InLog
  BY <1>1, RoomUnchanged DEF ServerInv
<1>6. MintedInv'
  <2>1. Minted' \subseteq Minted \union {op}
    BY <1>1, <1>4 DEF Minted
  <2> QED BY <1>1, <1>2, <2>1, MintedLater DEF ServerInv, MintedInv
<1>7. PeerInv(p) /\ ChannelInv(p)
  BY DEF ServerInv
<1>8. /\ DocumentInv(Apply(peer[p].doc, op))
      /\ Apply(peer[p].doc, op).applied = peer[p].doc.applied \union {op}
  <2>1. peer[p].doc.applied \union {op} \subseteq Minted \union {op}
    BY <1>7, MintedParts DEF PeerInv
  <2>2. Disciplined(peer[p].doc.applied \union {op})
    BY <1>2, <2>1, DisciplinedSubset
  <2> QED BY <1>7, <2>2, ApplyInv DEF PeerInv
<1>9. PeerInv(p)'
  BY <1>1, <1>2, <1>3, <1>4, <1>7, <1>8 DEF PeerInv
<1>10. ChannelInv(p)'
  BY <1>1, <1>3, <1>5, <1>7, <1>8 DEF ChannelInv
<1>11. \A q \in Peer : q # p => PeerInv(q)' /\ ChannelInv(q)'
  BY <1>1, <1>3, <1>4, <1>5 DEF ServerInv, PeerInv, ChannelInv
<1> QED BY <1>1, <1>5, <1>6, <1>9, <1>10, <1>11 DEF ServerInv

\* Room and peers stay; a peer's channel opens unsynced or closes.
LEMMA SocketInv ==
  ASSUME ServerInv, NEW p \in Peer, Subscribe(p) \/ Disconnect(p)
  PROVE  ServerInv'
<1> DEFINE fresh == [queue |-> << >>, missed |-> FALSE, synced |-> FALSE]
<1>1. /\ room' = room /\ clock' = clock /\ peer' = peer /\ edits' = edits
      /\ DOMAIN channel' = Peer /\ channel'[p] \in {Off, fresh}
      /\ \A q \in Peer : q # p => channel'[q] = channel[q]
  BY DEF Subscribe, Disconnect, ServerInv
<1>2. SnapshotInv' /\ InLog' = InLog
  BY <1>1, RoomUnchanged DEF ServerInv
<1>3. \A q \in Peer : Outbox(q)' = Outbox(q)
  BY <1>1 DEF Outbox
<1>4. MintedInv'
  <2>1. Minted' \subseteq Minted
    BY <1>1, <1>3 DEF Minted
  <2> QED BY <1>1, <2>1, MintedSame DEF ServerInv, MintedInv
<1>5. \A q \in Peer : PeerInv(q)'
  BY <1>1, <1>3 DEF ServerInv, PeerInv
<1>6. fresh \in Channel /\ Listed(fresh.queue) = {} /\ ~ fresh.synced
  <2>1. << >> \in Seq(Op) /\ Len(<< >>) = 0 /\ 0 <= Capacity
    BY CapacityAssumption
  <2> QED BY <2>1, EmptyListed DEF Channel
<1> HIDE DEF fresh
<1>7. ChannelInv(p)'
  <2>1. CASE channel'[p] = Off
    BY <2>1 DEF ChannelInv
  <2>2. CASE channel'[p] = fresh
    BY <1>6, <2>2 DEF ChannelInv
  <2> QED BY <1>1, <2>1, <2>2
<1>8. \A q \in Peer : q # p => ChannelInv(q)'
  BY <1>1, <1>2 DEF ServerInv, ChannelInv
<1> QED BY <1>1, <1>2, <1>4, <1>5, <1>7, <1>8 DEF ServerInv

\* A peer applies the oldest message on the way to it, which the room has logged.
LEMMA ReceiveInv ==
  ASSUME RoomInv, ServerInv, NEW p \in Peer, Receive(p)
  PROVE  ServerInv'
<1> DEFINE queue == channel[p].queue
           op == Head(queue)
           rest == Tail(queue)
<1>1. /\ channel[p] # Off /\ queue # << >>
      /\ peer' = [peer EXCEPT ![p].doc = Apply(@, op)]
      /\ channel' = [channel EXCEPT ![p].queue = rest]
      /\ room' = room /\ clock' = clock /\ edits' = edits
  BY DEF Receive
<1>2. PeerInv(p) /\ ChannelInv(p)
  BY DEF ServerInv
<1>3. /\ channel[p] \in [queue : Seq(Op), missed : BOOLEAN, synced : BOOLEAN]
      /\ queue \in Seq(Op) /\ Len(queue) <= Capacity /\ Len(queue) \in Nat
      /\ Listed(queue) \subseteq InLog
      /\ channel[p].synced /\ ~ channel[p].missed =>
           InLog \subseteq peer[p].doc.applied \union Listed(queue)
  BY <1>1, <1>2 DEF ChannelInv, Channel
<1> HIDE DEF queue
<1>4. /\ op \in Op /\ rest \in Seq(Op) /\ Len(rest) \in Nat /\ Len(queue) = Len(rest) + 1
      /\ Listed(queue) = {op} \union Listed(rest)
  BY <1>1, <1>3, HeadTailListed
<1> HIDE DEF op, rest
<1>5. op \in room.doc.applied
  BY <1>3, <1>4, LogApplied DEF RoomInv
<1>6. /\ peer'[p].doc = Apply(peer[p].doc, op) /\ peer'[p].clock = peer[p].clock
      /\ \A q \in Peer : peer'[q].outbox = peer[q].outbox
      /\ \A q \in Peer : q # p => peer'[q] = peer[q] /\ channel'[q] = channel[q]
      /\ DOMAIN channel' = Peer
      /\ channel'[p] = [channel[p] EXCEPT !.queue = rest]
  BY <1>1 DEF RoomInv, OutboxInv, ServerInv
<1>7. channel'[p] = [queue |-> rest, missed |-> channel[p].missed, synced |-> channel[p].synced]
  BY <1>3, <1>6
<1>8. \A q \in Peer : Outbox(q)' = Outbox(q)
  BY <1>6 DEF Outbox
<1>9. SnapshotInv' /\ InLog' = InLog
  BY <1>1, RoomUnchanged DEF ServerInv
<1>10. MintedInv'
  <2>1. Minted' \subseteq Minted
    BY <1>1, <1>8 DEF Minted
  <2> QED BY <1>1, <2>1, MintedSame DEF ServerInv, MintedInv
<1>11. /\ DocumentInv(Apply(peer[p].doc, op))
       /\ Apply(peer[p].doc, op).applied = peer[p].doc.applied \union {op}
  <2>1. peer[p].doc.applied \union {op} \subseteq Minted
    BY <1>2, <1>5, MintedParts DEF PeerInv
  <2>2. Disciplined(peer[p].doc.applied \union {op})
    BY <2>1, DisciplinedSubset DEF ServerInv, MintedInv
  <2> QED BY <1>2, <1>4, <2>2, ApplyInv DEF PeerInv
<1>12. PeerInv(p)'
  BY <1>1, <1>2, <1>5, <1>6, <1>8, <1>11 DEF PeerInv
<1>13. ChannelInv(p)'
  <2>1. channel'[p] \in Channel
    <3>1. Len(rest) <= Capacity
      BY <1>3, <1>4, CapacityAssumption
    <3> QED BY <1>3, <1>4, <1>7, <3>1 DEF Channel
  <2>2. /\ channel'[p].queue = rest
        /\ channel'[p].synced = channel[p].synced /\ channel'[p].missed = channel[p].missed
    BY <1>7
  <2> QED BY <1>3, <1>4, <1>6, <1>9, <1>11, <2>1, <2>2 DEF ChannelInv
<1>14. \A q \in Peer : q # p => PeerInv(q)' /\ ChannelInv(q)'
  BY <1>1, <1>6, <1>8, <1>9 DEF ServerInv, PeerInv, ChannelInv
<1> QED BY <1>6, <1>9, <1>10, <1>12, <1>13, <1>14 DEF ServerInv

\* A peer starts over from the snapshot: it has the whole log and its own edits.
LEMMA LoadSnapshotInv ==
  ASSUME RoomInv, ServerInv, NEW p \in Peer, LoadSnapshot(p)
  PROVE  ServerInv'
<1> DEFINE loaded == ReplayOnto(Snapshot, peer[p].outbox)
<1>1. /\ peer' = [peer EXCEPT ![p].doc = loaded]
      /\ channel' = IF channel[p] = Off THEN channel
                    ELSE [channel EXCEPT ![p].missed = FALSE, ![p].synced = TRUE]
      /\ room' = room /\ clock' = clock /\ edits' = edits
  BY DEF LoadSnapshot
<1>2. PeerInv(p) /\ ChannelInv(p) /\ SnapshotInv
  BY DEF ServerInv
<1>3. DocumentInv(loaded) /\ loaded.applied = InLog \union Outbox(p)
  <2>1. peer[p].outbox \in Seq(Op) /\ Listed(peer[p].outbox) = Outbox(p)
    BY OutboxListed DEF RoomInv, OutboxInv
  <2>2. InLog \union Outbox(p) \subseteq Minted
    BY MintedParts, LogApplied DEF RoomInv
  <2>3. Disciplined(InLog \union Outbox(p))
    BY <2>2, DisciplinedSubset DEF ServerInv, MintedInv
  <2> QED BY <1>2, <2>1, <2>3, ReplayInv DEF SnapshotInv
<1> HIDE DEF loaded
<1>4. /\ peer'[p].doc = loaded /\ peer'[p].clock = peer[p].clock
      /\ \A q \in Peer : peer'[q].outbox = peer[q].outbox
      /\ \A q \in Peer : q # p => peer'[q] = peer[q] /\ channel'[q] = channel[q]
      /\ DOMAIN channel' = Peer
  BY <1>1 DEF RoomInv, OutboxInv, ServerInv
<1>5. \A q \in Peer : Outbox(q)' = Outbox(q)
  BY <1>4 DEF Outbox
<1>6. SnapshotInv' /\ InLog' = InLog
  BY <1>1, <1>2, RoomUnchanged
<1>7. MintedInv'
  <2>1. Minted' \subseteq Minted
    BY <1>1, <1>5 DEF Minted
  <2> QED BY <1>1, <2>1, MintedSame DEF ServerInv, MintedInv
<1>8. PeerInv(p)'
  <2>1. InLog \subseteq room.doc.applied
    BY LogApplied DEF RoomInv
  <2> QED BY <1>1, <1>2, <1>3, <1>4, <1>5, <2>1 DEF PeerInv
<1>9. ChannelInv(p)'
  <2>1. CASE channel[p] = Off
    BY <1>1, <2>1 DEF ChannelInv
  <2>2. CASE channel[p] # Off
    <3>1. channel[p] \in Channel /\ Listed(channel[p].queue) \subseteq InLog
      BY <1>2, <2>2 DEF ChannelInv
    <3>2. channel' = [[channel EXCEPT ![p].missed = FALSE] EXCEPT ![p].synced = TRUE]
      BY <1>1, <2>2
    <3>3. channel'[p] = [[channel[p] EXCEPT !.missed = FALSE] EXCEPT !.synced = TRUE]
      BY <3>2 DEF ServerInv
    <3>4. channel'[p] = [queue |-> channel[p].queue, missed |-> FALSE, synced |-> TRUE]
      BY <3>1, <3>3 DEF Channel
    <3>5. channel'[p] \in Channel /\ channel'[p].queue = channel[p].queue
      BY <3>1, <3>4 DEF Channel
    <3> QED BY <1>3, <1>4, <1>6, <3>1, <3>5 DEF ChannelInv
  <2> QED BY <2>1, <2>2
<1>10. \A q \in Peer : q # p => PeerInv(q)' /\ ChannelInv(q)'
  BY <1>1, <1>4, <1>5, <1>6 DEF ServerInv, PeerInv, ChannelInv
<1> QED BY <1>4, <1>6, <1>7, <1>8, <1>9, <1>10 DEF ServerInv

LEMMA NextServer == RoomInv /\ ServerInv /\ [RoomNext]_roomVars => ServerInv'
<1> SUFFICES ASSUME RoomInv, ServerInv, [RoomNext]_roomVars PROVE ServerInv'
  OBVIOUS
<1>1. ASSUME NEW op \in Op, EditOnServer(op) PROVE ServerInv'
  BY <1>1, EditOnServerInv
<1>2. CASE RefuseEdit
  BY <1>2, RefuseEditInv
<1>3. ASSUME NEW p \in Peer, NEW op \in Op, EditOffline(p, op) PROVE ServerInv'
  BY <1>3, EditOfflineInv
<1>4. ASSUME NEW p \in Peer, NEW answered \in BOOLEAN, SubmitOp(p, answered) PROVE ServerInv'
  BY <1>4, SubmitOpInv
<1>5. ASSUME NEW p \in Peer, Subscribe(p) \/ Disconnect(p) PROVE ServerInv'
  BY <1>5, SocketInv
<1>6. ASSUME NEW p \in Peer, Receive(p) PROVE ServerInv'
  BY <1>6, ReceiveInv
<1>7. ASSUME NEW p \in Peer, LoadSnapshot(p) PROVE ServerInv'
  BY <1>7, LoadSnapshotInv
<1>8. CASE UNCHANGED roomVars
  BY <1>8 DEF roomVars, ServerInv, MintedInv, Minted, Outbox, SnapshotInv, InLog, Snapshot,
              PeerInv, ChannelInv
<1> QED BY <1>1, <1>2, <1>3, <1>4, <1>5, <1>6, <1>7, <1>8 DEF RoomNext

THEOREM ServerInvariant == RoomSpec => [](RoomInv /\ ServerInv)
  BY InitRoom, NextRoom, InitServer, NextServer, PTL DEF RoomSpec

\* Room, clocks, outboxes and channels are what the code's types allow, whatever
\* the number of ops: the reducer's document included.
THEOREM RoomTypeCorrect == RoomSpec => []RoomTypeOK
<1>1. RoomInv /\ ServerInv => RoomTypeOK
  <2> SUFFICES ASSUME RoomInv, ServerInv PROVE RoomTypeOK
    OBVIOUS
  <2>1. room.doc \in DocumentType /\ room.log \in Seq(Op) /\ clock \in Timestamp
    BY DEF RoomInv, LogInv, ServerInv, SnapshotInv, DocumentInv, MintedInv
  <2>2. ASSUME NEW p \in Peer
        PROVE  /\ peer[p].doc \in DocumentType /\ peer[p].clock \in Timestamp
               /\ peer[p].outbox \in Seq(Op)
               /\ channel[p] = Off \/ channel[p] \in Channel
    BY DEF RoomInv, OutboxInv, ServerInv, PeerInv, ChannelInv, DocumentInv
  <2>3. edits \subseteq Op
    BY MintedParts DEF ServerInv, MintedInv
  <2> QED BY <2>1, <2>2, <2>3 DEF RoomTypeOK
<1> QED BY <1>1, ServerInvariant, PTL

\* GET snapshot gives a client the room's every register and payload, though
\* the log lacks the ops that changed nothing (lib.rs, snapshot).
THEOREM SnapshotRebuilds == RoomSpec => []SnapshotRebuildsRoom
<1>1. ServerInv => SnapshotRebuildsRoom
  BY DEF ServerInv, SnapshotInv, SnapshotRebuildsRoom
<1> QED BY <1>1, ServerInvariant, PTL

\* A follower that loaded the snapshot, missed nothing and has drained its
\* channel shows the merge of all ops that reached the room and of its own
\* queued edits (lib.rs, ws_loop with submit_op and apply_member_op).
THEOREM FollowerFollows == RoomSpec => []FollowerShowsRoom
<1>1. RoomInv /\ ServerInv => FollowerShowsRoom
  <2> SUFFICES ASSUME RoomInv, ServerInv, NEW p \in Peer,
                      channel[p] # Off, channel[p].synced, ~ channel[p].missed,
                      channel[p].queue = << >>
               PROVE  Budget(peer[p].doc) = Merged(room.doc.applied \union Outbox(p))
    BY DEF FollowerShowsRoom
  <2> DEFINE A == room.doc.applied \union Outbox(p)
             d == peer[p].doc
  <2>1. PeerInv(p) /\ ChannelInv(p) /\ SnapshotInv /\ MintedInv
    BY DEF ServerInv
  <2>2. InLog \subseteq d.applied
    BY <2>1, EmptyListed DEF ChannelInv
  <2>3. /\ DocumentInv(d) /\ d.applied \subseteq A /\ Outbox(p) \subseteq d.applied
    BY <2>1 DEF PeerInv
  <2>4. A \in SUBSET Op /\ UniqueHlcs(A)
    BY <2>1, MintedParts DEF MintedInv, Disciplined, UniqueHlcs
  <2>5. ASSUME NEW x \in A PROVE x \in d.applied \/ Superseded(d.applied, x)
    BY <2>1, <2>2, <2>3, SupersededGrows DEF SnapshotInv
  <2> HIDE DEF A, d
  <2> QED BY <2>3, <2>4, <2>5, MergedIgnoresSuperseded DEF A, d
<1> QED BY <1>1, ServerInvariant, PTL
=============================================================================
