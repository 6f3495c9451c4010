------------------------------ MODULE SyncRoom ------------------------------
(***************************************************************************)
(* One budget's room on the sync server (budgetcut-server/src/lib.rs): the *)
(* authoritative document, the op log, the server's clock and the bounded  *)
(* broadcast channel, together with the peers that edit offline, push      *)
(* their outbox and follow the room.  Handlers hold the server's mutex, so *)
(* each is one step; requests, answers and forwarded ops are apart.        *)
(*                                                                         *)
(* The peer is the client of tests/sync_e2e.rs and ADR 0002: it applies    *)
(* its edits at once, queues them, repeats a request whose answer was      *)
(* lost, and loads the snapshot by replaying it.                           *)
(***************************************************************************)
EXTENDS Merge, FiniteSets

Ext == INSTANCE SequencesExt

CONSTANTS
  Peer,      \* the users with a client of their own
  Server,    \* the user id the server's clock stamps with
  WallTime,  \* what any wall clock may read: at any time, any of these
  Capacity,  \* messages the broadcast channel holds for a receiver (1024)
  MaxOps,    \* bound: ops ever minted
  Off        \* no live channel

ASSUME PeerAssumption == Peer \subseteq Nat /\ Server \in Nat /\ WallTime \subseteq Nat
ASSUME CapacityAssumption == Capacity \in Nat \ {0}

VARIABLES
  room,     \* [doc, log]
  clock,    \* Inner.clock
  peer,     \* [doc, clock, outbox] of each peer
  channel,  \* [queue, missed, synced] of each peer with a live channel, or Off
  edits     \* the REST edits the server answered "ok"

roomVars == <<room, clock, peer, channel, edits>>

Outbox(p) == Ext!ToSet(peer[p].outbox)

\* Every op minted so far.
Minted == edits \union room.doc.applied \union UNION {Outbox(p) : p \in Peer}

\* A client builds its document from a snapshot: the base, then the log.
Snapshot == ReplayOnto(NewDocument, room.log)

\* An op that a clock may mint now; Stamp, MaxOps and the discipline on
\* re-inserts bound which are explored.
Mints(op, last, node) ==
  /\ \E wall \in WallTime : op.hlc = Tick(last, node, wall)
  /\ Cardinality(Minted) < MaxOps
  /\ Disciplined(Minted \union {op})

----------------------------------------------------------------------------
RoomInit ==
  /\ room = [doc |-> NewDocument, log |-> <<>>]
  /\ clock = FreshClock(Server)
  /\ peer = [p \in Peer |->
               [doc |-> NewDocument, clock |-> FreshClock(p), outbox |-> <<>>]]
  /\ channel = [p \in Peer |-> Off]
  /\ edits = {}

\* Faulty variant: an op that has to wait for its entity is not logged.
LoggedAppliedOnly(op) == Outcome(room.doc, op) = "Applied"

\* Faulty variant: whatever was accepted is logged.
LoggedAlways(op) == TRUE

\* The outcomes for which a handler logs and forwards an op.
Logged(op) == TookEffect(room.doc, op)

\* The document and log after a handler applied op.
Accept(op) ==
  room' = [doc |-> Apply(room.doc, op),
           log |-> IF Logged(op) THEN Append(room.log, op) ELSE room.log]

\* Faulty variant: the channel has no limit.
QueuedUnbounded(c, op) ==
  IF c = Off THEN Off ELSE [c EXCEPT !.queue = Append(@, op)]

\* One receiver's channel after a send: a full one loses its oldest message,
\* which ws_loop passes over (RecvError::Lagged).
Queued(c, op) ==
  IF c = Off THEN Off
  ELSE IF Len(c.queue) < Capacity THEN [c EXCEPT !.queue = Append(@, op)]
  ELSE [c EXCEPT !.queue = Append(Tail(@), op), !.missed = TRUE]

\* room.tx.send, to every receiver subscribed at that moment.
Forward(op) ==
  channel' = IF Logged(op)
             THEN [p \in Peer |-> Queued(channel[p], op)]
             ELSE channel

\* A peer makes an edit, connected or not.
EditOffline(p, op) ==
  /\ Mints(op, peer[p].clock, p)
  /\ peer' = [peer EXCEPT ![p] = [doc    |-> Apply(@.doc, op),
                                  clock  |-> op.hlc,
                                  outbox |-> Append(@.outbox, op)]]
  /\ UNCHANGED <<room, clock, channel, edits>>

\* submit_op on the first op of a peer's outbox.  An op whose answer is lost
\* stays there and will be submitted again.
SubmitOp(p, answered) ==
  /\ peer[p].outbox # <<>>
  /\ LET op == Head(peer[p].outbox)
     IN  Accept(op) /\ Forward(op)
  /\ peer' = IF answered THEN [peer EXCEPT ![p].outbox = Tail(@)] ELSE peer
  /\ UNCHANGED <<clock, edits>>

\* Faulty variant: the op of a REST edit is not sent to the channel.
EditOnServerUnsent(op) ==
  /\ Mints(op, clock, Server)
  /\ clock' = op.hlc
  /\ Accept(op)
  /\ edits' = edits \union {op}
  /\ UNCHANGED <<peer, channel>>

\* apply_member_op, as set_global, set_detail_field, add_line, ... call it: the
\* server mints the op.  Whatever the outcome, the handler answers "ok".
EditOnServer(op) ==
  /\ Mints(op, clock, Server)
  /\ clock' = op.hlc
  /\ Accept(op) /\ Forward(op)
  /\ edits' = edits \union {op}
  /\ UNCHANGED peer

\* apply_member_op refuses the edit: the clock has ticked nevertheless.
RefuseEdit ==
  /\ \E wall \in WallTime : clock' = Tick(clock, Server, wall)
  /\ clock' \in Stamp
  /\ UNCHANGED <<room, peer, channel, edits>>

\* ws_handler: subscribe to the room.
Subscribe(p) ==
  /\ channel[p] = Off
  /\ channel' = [channel EXCEPT ![p] =
                   [queue |-> <<>>, missed |-> FALSE, synced |-> FALSE]]
  /\ UNCHANGED <<room, clock, peer, edits>>

\* The socket closes; what was on the way is lost.
Disconnect(p) ==
  /\ channel[p] # Off
  /\ channel' = [channel EXCEPT ![p] = Off]
  /\ UNCHANGED <<room, clock, peer, edits>>

\* ws_loop forwards the oldest message; the peer applies it.
Receive(p) ==
  /\ channel[p] # Off
  /\ channel[p].queue # <<>>
  /\ peer' = [peer EXCEPT ![p].doc = Apply(@, Head(channel[p].queue))]
  /\ channel' = [channel EXCEPT ![p].queue = Tail(@)]
  /\ UNCHANGED <<room, clock, edits>>

\* GET snapshot: the peer starts over from it and replays its outbox.  With a
\* live channel it has everything from here on.
LoadSnapshot(p) ==
  /\ peer' = [peer EXCEPT ![p].doc = ReplayOnto(Snapshot, peer[p].outbox)]
  /\ channel' = IF channel[p] = Off THEN channel
                ELSE [channel EXCEPT ![p].missed = FALSE, ![p].synced = TRUE]
  /\ UNCHANGED <<room, clock, edits>>

RoomNext ==
  \/ \E op \in Op : EditOnServer(op)
  \/ RefuseEdit
  \/ \E p \in Peer :
       \/ \E op \in Op : EditOffline(p, op)
       \/ \E answered \in BOOLEAN : SubmitOp(p, answered)
       \/ Subscribe(p)
       \/ Disconnect(p)
       \/ Receive(p)
       \/ LoadSnapshot(p)

RoomSpec == RoomInit /\ [][RoomNext]_roomVars

----------------------------------------------------------------------------
Channel ==
  {c \in [queue : Seq(Op), missed : BOOLEAN, synced : BOOLEAN] :
     Len(c.queue) <= Capacity}

RoomTypeOK ==
  /\ room.doc \in DocumentType /\ room.log \in Seq(Op)
  /\ clock \in Timestamp
  /\ \A p \in Peer : /\ peer[p].doc \in DocumentType
                     /\ peer[p].clock \in Timestamp
                     /\ peer[p].outbox \in Seq(Op)
                     /\ channel[p] = Off \/ channel[p] \in Channel
  /\ edits \subseteq Op

\* The snapshot rebuilds the room: though ops that changed nothing are not
\* logged, base and log give every register, buffered op and payload the room
\* has (lib.rs, snapshot; tests/sync_e2e.rs).
SnapshotRebuildsRoom == Snapshot.state = room.doc.state

\* An op is logged once however often it is submitted (lib.rs, submit_op: only
\* Applied and Buffered outcomes are persisted).
LoggedOnce == Ext!IsInjective(room.log)

\* A peer that loaded the snapshot while subscribed and missed nothing shows,
\* once its channel is drained, the room's budget with its own queued edits on
\* top: what one peer submits, in whatever order, reaches every other one.
FollowerShowsRoom ==
  \A p \in Peer :
    LET c == channel[p]
    IN  c # Off /\ c.synced /\ ~ c.missed /\ c.queue = <<>> =>
          Budget(peer[p].doc) = Merged(room.doc.applied \union Outbox(p))

\* An edit the server answered "ok" has been logged (lib.rs:1136-1137 of
\* apply_member_op: "apply it authoritatively, persist + broadcast").
OkEditIsLogged == edits \subseteq Ext!ToSet(room.log)
=============================================================================
