-------------------------- MODULE LocalStoreProofs ---------------------------
(***************************************************************************)
(* An offline budget, for any number of edits, resets, failures and stops. *)
(* StoreInv is about the database alone: the op log is of the base beside  *)
(* it, and its ops are the confirmed edits that no unfinished reset        *)
(* deleted.  SessionInv relates the session in memory to what replaying    *)
(* that log yields: both were made by ops in the order of their            *)
(* timestamps, so none of them is ever stale.                              *)
(***************************************************************************)
EXTENDS LocalStore, MergeProofs

Logged == [op : Op, acked : BOOLEAN, base : Nat]

\* A log is emptied before its base is replaced, and stays empty until then;
\* before the first base there is no session.
StoreInv ==
  /\ disk \in [base : Nat, log : Seq(Logged)]
  /\ call \in Op \union {Idle, Resetting}
  /\ disk.base = 0 => session = Closed /\ call = Idle /\ disk.log = <<>>
  /\ call = Resetting => disk.log = <<>>
  /\ LogMatchesBase
  /\ lost \subseteq confirmed /\ confirmed \subseteq Op
  /\ LoggedOps = confirmed \ lost

LEMMA InitStore == Init => StoreInv
  BY CallAssumption DEF Init, StoreInv, LogMatchesBase, LoggedOps

LEMMA MintedIsOp ==
  ASSUME NEW ent \in Entity, NEW wall \in WallTime,
         NEW kind \in {"insert", "remove", "set"}, NEW tag,
         IF kind = "set" THEN tag \in TagsOf[ent] ELSE tag = NoTag,
         Minted(kind, ent, tag, wall).hlc \in Stamp
  PROVE  Minted(kind, ent, tag, wall) \in Op
  BY TagsOfAssumption DEF Minted, Op, ExistenceOp, FieldOp

\* What does not touch database, call or confirmed edits.
LEMMA DiskUnchanged ==
  ASSUME StoreInv, disk.base # 0, UNCHANGED <<disk, confirmed, lost>>,
         call' \in Op \union {Idle}  \/  call' = call
  PROVE  StoreInv'
  BY CallAssumption DEF StoreInv, LogMatchesBase, LoggedOps

LEMMA EditInv ==
  ASSUME StoreInv, NEW op \in Op, Edit(op)
  PROVE  StoreInv'
<1>1. call' \in Op \union {Idle} /\ disk.base # 0
  BY DEF Edit, StoreInv
<1>2. UNCHANGED <<disk, confirmed, lost>>
  BY DEF Edit
<1> QED BY <1>1, <1>2, DiskUnchanged

LEMMA AppendInv ==
  ASSUME StoreInv, AppendOp
  PROVE  StoreInv'
<1> DEFINE entry == [op |-> call, acked |-> FALSE, base |-> disk.base]
<1>1. /\ disk.log \in Seq(Logged) /\ entry \in Logged /\ disk.base \in Nat
  BY DEF StoreInv, Logged, AppendOp
<1>2. disk'.log = Append(disk.log, entry) /\ disk'.base = disk.base
  BY DEF StoreInv, AppendOp
<1>3. /\ DOMAIN disk'.log = DOMAIN disk.log \union {Len(disk.log) + 1}
      /\ \A i \in DOMAIN disk.log : disk'.log[i] = disk.log[i]
      /\ disk'.log[Len(disk.log) + 1] = entry
  BY <1>1, <1>2
<1>4. disk' \in [base : Nat, log : Seq(Logged)]
  <2>1. Append(disk.log, entry) \in Seq(Logged)
    BY <1>1
  <2>2. disk' = [disk EXCEPT !.log = Append(disk.log, entry)]
    BY DEF AppendOp
  <2> QED BY <2>1, <2>2 DEF StoreInv
<1>5. LogMatchesBase'
  BY <1>2, <1>3 DEF StoreInv, LogMatchesBase
<1>6. LoggedOps' = LoggedOps \union {call}
  BY <1>3 DEF LoggedOps
<1>7. /\ disk'.base # 0 /\ call \in Op /\ call' = Idle
      /\ confirmed' = confirmed \union {call} /\ lost' = lost \ {call}
  BY <1>2, CallAssumption DEF StoreInv, AppendOp
<1>8. (LoggedOps = confirmed \ lost)'
  BY <1>6, <1>7 DEF StoreInv
<1> QED BY <1>4, <1>5, <1>7, <1>8, CallAssumption DEF StoreInv

LEMMA AckInv ==
  ASSUME StoreInv, NEW i \in DOMAIN disk.log, AckOp(i)
  PROVE  StoreInv'
<1>1. /\ disk.log \in Seq(Logged) /\ disk.base \in Nat
      /\ disk' = [disk EXCEPT !.log = [disk.log EXCEPT ![i].acked = TRUE]]
  BY DEF StoreInv, AckOp
<1>2. /\ disk'.base = disk.base /\ disk'.log = [disk.log EXCEPT ![i].acked = TRUE]
  BY <1>1 DEF StoreInv
<1>3. /\ DOMAIN disk'.log = DOMAIN disk.log
      /\ \A j \in DOMAIN disk.log : /\ disk'.log[j] \in Logged
                                    /\ disk'.log[j].op = disk.log[j].op
                                    /\ disk'.log[j].base = disk.log[j].base
  <2>1. \A j \in DOMAIN disk.log : disk.log[j] \in Logged
    BY <1>1
  <2>2. DOMAIN disk'.log = DOMAIN disk.log
    BY <1>2
  <2>3. \A j \in DOMAIN disk.log :
          disk'.log[j] = IF j = i THEN [disk.log[i] EXCEPT !.acked = TRUE] ELSE disk.log[j]
    BY <1>1, <1>2
  <2>4. \A entry \in Logged : LET e == [entry EXCEPT !.acked = TRUE]
                              IN  e \in Logged /\ e.op = entry.op /\ e.base = entry.base
    BY DEF Logged
  <2> QED BY <2>1, <2>2, <2>3, <2>4
<1>4. disk'.log \in Seq(Logged)
  <2>1. /\ Len(disk.log) \in Nat /\ DOMAIN disk'.log = 1 .. Len(disk.log)
    BY <1>1, <1>3
  <2>2. disk'.log \in [1 .. Len(disk.log) -> Logged]
    BY <1>2, <1>3, <2>1
  <2>3. ASSUME NEW n \in Nat, NEW s \in [1 .. n -> Logged] PROVE s \in Seq(Logged)
    OBVIOUS
  <2> QED BY <2>1, <2>2, <2>3
<1>5. disk' \in [base : Nat, log : Seq(Logged)]
  BY <1>1, <1>2, <1>4 DEF StoreInv
<1>6. LogMatchesBase' /\ LoggedOps' = LoggedOps
  BY <1>2, <1>3 DEF StoreInv, LogMatchesBase, LoggedOps
<1>7. disk.log # <<>>
  BY <1>1
<1> QED BY <1>5, <1>6, <1>7 DEF StoreInv, AckOp

LEMMA ResetInv ==
  ASSUME StoreInv, ResetDeletesLog \/ ResetStoresBase
  PROVE  StoreInv'
<1>1. disk'.log = <<>> /\ disk' \in [base : Nat, log : Seq(Logged)]
  <2>1. CASE ResetDeletesLog
    <3>1. <<>> \in Seq(Logged)
      OBVIOUS
    <3> QED BY <2>1, <3>1 DEF ResetDeletesLog, StoreInv
  <2>2. CASE ResetStoresBase
    BY <2>2 DEF ResetStoresBase, StoreInv
  <2> QED BY <2>1, <2>2
<1>2. LogMatchesBase' /\ LoggedOps' = {}
  BY <1>1 DEF LogMatchesBase, LoggedOps
<1>3. /\ confirmed' \ lost' = {} /\ confirmed' \subseteq Op
      /\ lost' \subseteq confirmed'
  BY DEF ResetDeletesLog, ResetStoresBase, StoreInv
<1>4. call' \in {Idle, Resetting}
  BY DEF ResetDeletesLog, ResetStoresBase
<1>5. disk'.base # 0
  BY DEF StoreInv, ResetDeletesLog, ResetStoresBase
<1> QED BY <1>1, <1>2, <1>3, <1>4, <1>5 DEF StoreInv

LEMMA NextStore == StoreInv /\ [Next]_vars => StoreInv'
<1> SUFFICES ASSUME StoreInv, [Next]_vars PROVE StoreInv'
  OBVIOUS
<1>1. ASSUME NEW author \in Author, Create(author) PROVE StoreInv'
  <2>1. /\ disk' \in [base : Nat, log : Seq(Logged)]
        /\ disk'.log = disk.log /\ disk.base = 0 /\ disk'.base # 0
        /\ UNCHANGED <<call, confirmed, lost>>
    BY <1>1 DEF Create, StoreInv
  <2>2. disk.log = <<>>
    BY <2>1 DEF StoreInv
  <2>3. LogMatchesBase' /\ LoggedOps' = LoggedOps
    BY <2>1, <2>2 DEF LogMatchesBase, LoggedOps
  <2> QED BY <2>1, <2>3 DEF StoreInv
<1>2. ASSUME NEW author \in Author, Open(author) PROVE StoreInv'
  BY <1>2, DiskUnchanged DEF Open
<1>3. ASSUME NEW ent \in Entity, NEW wall \in WallTime, NEW kind \in {"insert", "remove"},
             Edit(Minted(kind, ent, NoTag, wall))
      PROVE  StoreInv'
  <2>1. Minted(kind, ent, NoTag, wall) \in Op
    BY <1>3, MintedIsOp DEF Edit
  <2> QED BY <1>3, <2>1, EditInv
<1>4. ASSUME NEW ent \in Entity, NEW wall \in WallTime, NEW tag \in TagsOf[ent],
             Edit(Minted("set", ent, tag, wall))
      PROVE  StoreInv'
  <2>1. Minted("set", ent, tag, wall) \in Op
    BY <1>4, MintedIsOp DEF Edit
  <2> QED BY <1>4, <2>1, EditInv
<1>5. CASE AppendOp
  BY <1>5, AppendInv
<1>6. CASE AppendFails
  BY <1>6, DiskUnchanged, CallAssumption DEF AppendFails, StoreInv
<1>7. CASE ResetDeletesLog \/ ResetStoresBase
  BY <1>7, ResetInv
<1>8. CASE ResetFails
  BY <1>8, DiskUnchanged, CallAssumption DEF ResetFails, StoreInv
<1>9. ASSUME NEW i \in 1 .. MaxLog, AckOp(i) PROVE StoreInv'
  BY <1>9, AckInv DEF AckOp
<1>10. CASE Stop
  BY <1>10, DiskUnchanged DEF Stop, StoreInv
<1>11. CASE UNCHANGED vars
  BY <1>11 DEF vars, StoreInv, LogMatchesBase, LoggedOps
<1> QED
  BY <1>1, <1>2, <1>3, <1>4, <1>5, <1>6, <1>7, <1>8, <1>9, <1>10, <1>11 DEF Next

THEOREM StoreInvariant == Spec => []StoreInv
  BY InitStore, NextStore, PTL DEF Spec

\* No stop and no failed statement leaves an edit of an old base beside a new
\* one: it would be replayed onto it at the next launch (store.rs, reset).
THEOREM LogOfBase == Spec => []LogMatchesBase
<1>1. StoreInv => LogMatchesBase
  BY DEF StoreInv
<1> QED BY <1>1, StoreInvariant, PTL

\* What a launch replays are exactly the edits whose call returned Ok since the
\* budget was stored (session.rs, edit; store.rs, append_op), but for those that a
\* reset deleted and stored no new budget (store.rs, reset).
THEOREM ConfirmedIsLogged == Spec => [](LoggedOps = confirmed \ lost)
<1>1. StoreInv => LoggedOps = confirmed \ lost
  BY DEF StoreInv
<1> QED BY <1>1, StoreInvariant, PTL

----------------------------------------------------------------------------
(***************************************************************************)
(* The session and the log.                                                *)
(***************************************************************************)
LastHlc(log) == IF log = <<>> THEN NoHlc ELSE log[Len(log)].op.hlc

OpsOf(log) == [i \in DOMAIN log |-> log[i].op]

\* A session and the log it was opened from, which is never ahead of its clock.
\* Unless a statement failed, the op being written is all that parts them.
SessionInv ==
  /\ disk.base \in 0 .. MaxBase /\ diverged \in BOOLEAN
  /\ OrderedInv(Replay(disk.log), LastHlc(disk.log))
  /\ Replay(disk.log).applied = LoggedOps
  /\ call = Resetting => disk.base < MaxBase
  /\ session = Closed => call = Idle
  /\ session # Closed =>
       /\ session \in OpenSession
       /\ session.base = disk.base
       /\ OrderedInv(session.doc, session.clock)
       /\ BeforeOrSame(LastHlc(disk.log), session.clock)
       /\ call \in Op => call.hlc = session.clock /\ Before(LastHlc(disk.log), call.hlc)
       /\ ~ diverged /\ call = Idle => Replay(disk.log).state = session.doc.state
       /\ ~ diverged /\ call \in Op =>
            Apply(Replay(disk.log), call).state = session.doc.state

LEMMA ReplayNothing ==
  /\ Replay(<< >>) = NewDocument /\ LastHlc(<< >>) = NoHlc
  /\ OrderedInv(Replay(<< >>), LastHlc(<< >>)) /\ Replay(<< >>).applied = {}
<1>1. OpsOf(<< >>) = << >>
  BY DEF OpsOf
<1>2. Replay(<< >>) = NewDocument
  BY <1>1, ReplayEmpty DEF Replay, OpsOf
<1>3. LastHlc(<< >>) = NoHlc
  BY DEF LastHlc
<1> QED BY <1>2, <1>3, NewDocumentOrdered, NoHlcIsTimestamp DEF BeforeOrSame

LEMMA ReplayEntry ==
  ASSUME NEW log \in Seq(Logged), NEW entry \in Logged
  PROVE  /\ Replay(Append(log, entry)) = Apply(Replay(log), entry.op)
         /\ LastHlc(Append(log, entry)) = entry.op.hlc
<1> DEFINE more == Append(log, entry)
<1>1. /\ DOMAIN log = 1 .. Len(log) /\ Len(log) \in Nat /\ Len(more) = Len(log) + 1
      /\ DOMAIN more = 1 .. Len(log) + 1 /\ more[Len(log) + 1] = entry
      /\ \A i \in 1 .. Len(log) : more[i] = log[i] /\ log[i] \in Logged
  OBVIOUS
<1>2. \A e \in Logged : e.op \in Op
  BY DEF Logged
<1>3. OpsOf(log) \in Seq(Op)
  <2>1. OpsOf(log) \in [1 .. Len(log) -> Op]
    BY <1>1, <1>2 DEF OpsOf
  <2>2. ASSUME NEW n \in Nat, NEW f \in [1 .. n -> Op] PROVE f \in Seq(Op)
    OBVIOUS
  <2> QED BY <1>1, <2>1, <2>2
<1> HIDE DEF more
<1>4. more # << >>
  BY <1>1
<1>5. OpsOf(more) = Append(OpsOf(log), entry.op)
  <2>1. /\ DOMAIN OpsOf(log) = 1 .. Len(log) /\ Len(OpsOf(log)) = Len(log)
        /\ \A i \in 1 .. Len(log) : OpsOf(log)[i] = log[i].op
    BY <1>1, <1>3 DEF OpsOf
  <2>2. OpsOf(more) = [i \in 1 .. Len(log) + 1 |-> more[i].op]
    BY <1>1 DEF OpsOf
  <2>3. Append(OpsOf(log), entry.op) =
          [i \in 1 .. Len(log) + 1 |-> IF i = Len(log) + 1 THEN entry.op ELSE OpsOf(log)[i]]
    BY <1>1, <1>2, <1>3, <2>1
  <2>4. \A i \in 1 .. Len(log) + 1 :
          more[i].op = IF i = Len(log) + 1 THEN entry.op ELSE OpsOf(log)[i]
    BY <1>1, <2>1
  <2> QED BY <2>2, <2>3, <2>4
<1>6. Replay(more) = Apply(Replay(log), entry.op)
  BY <1>2, <1>3, <1>5, ReplayAppend DEF Replay, OpsOf
<1>7. LastHlc(more) = entry.op.hlc
  BY <1>1, <1>4 DEF LastHlc
<1> QED BY <1>6, <1>7 DEF more

\* The clock a reopened session continues from.
LEMMA MaxIsLast ==
  ASSUME disk.log \in Seq(Logged), disk.log # << >>, Replay(disk.log).applied = LoggedOps,
         OrderedInv(Replay(disk.log), LastHlc(disk.log))
  PROVE  MaxHlc(disk.log) = LastHlc(disk.log)
<1> DEFINE last == disk.log[Len(disk.log)].op
<1>1. last \in LoggedOps /\ LastHlc(disk.log) = last.hlc
  BY DEF LoggedOps, LastHlc
<1>2. LoggedOps \subseteq Op /\ \A o \in LoggedOps : BeforeOrSame(o.hlc, last.hlc)
  BY <1>1 DEF OrderedInv, DocumentType
<1>3. PICK o \in LoggedOps : /\ o = Highest(LoggedOps)
                             /\ \A p \in LoggedOps : BeforeOrSame(p.hlc, o.hlc)
  BY <1>1, <1>2 DEF Highest
<1>4. o.hlc \in Timestamp /\ last.hlc \in Timestamp
  BY <1>1, <1>2, OpFields
<1>5. o.hlc = last.hlc
  BY <1>1, <1>2, <1>3, <1>4, NotBefore DEF BeforeOrSame
<1> QED BY <1>1, <1>3, <1>5 DEF MaxHlc, LoggedOps

LEMMA FreshClockFacts ==
  ASSUME NEW author \in Author
  PROVE  /\ FreshClock(author) \in Timestamp
         /\ BeforeOrSame(NoHlc, FreshClock(author))
  BY NumberAssumption
     DEF FreshClock, NoHlc, Timestamp, BeforeOrSame, Before, Wall, Counter, Node

LEMMA InitSession == Init => SessionInv
<1> SUFFICES ASSUME Init PROVE SessionInv
  OBVIOUS
<1>1. /\ disk.base = 0 /\ disk.log = << >> /\ session = Closed /\ call = Idle
      /\ diverged = FALSE
  BY DEF Init
<1>2. LoggedOps = {}
  BY <1>1 DEF LoggedOps
<1>3. /\ OrderedInv(Replay(disk.log), LastHlc(disk.log))
      /\ Replay(disk.log).applied = LoggedOps
  BY <1>1, <1>2, ReplayNothing
<1>4. disk.base \in 0 .. MaxBase
  BY <1>1, NumberAssumption
<1> QED BY <1>1, <1>3, <1>4, CallAssumption DEF SessionInv

LEMMA CreateSession ==
  ASSUME StoreInv, SessionInv, NEW author \in Author, Create(author)
  PROVE  SessionInv'
<1>1. /\ disk.log = << >> /\ disk'.log = << >> /\ disk'.base = 1 /\ call = Idle
  BY DEF Create, StoreInv
<1>2. /\ session' = [base |-> 1, doc |-> NewDocument,
                     clock |-> FreshClock(author), author |-> author]
      /\ call' = Idle /\ diverged' = diverged
  BY <1>1 DEF Create
<1>3. OrderedInv(NewDocument, FreshClock(author)) /\ NewDocument \in DocumentType
  BY FreshClockFacts, NewDocumentOrdered DEF OrderedInv
<1>4. LoggedOps' = {}
  BY <1>1 DEF LoggedOps
<1>5. session' \in OpenSession /\ session' # Closed
  BY <1>2, <1>3, FreshClockFacts, NumberAssumption, ClosedAssumption DEF OpenSession
<1> QED
  BY <1>1, <1>2, <1>3, <1>4, <1>5, ReplayNothing, FreshClockFacts, CallAssumption,
     NumberAssumption DEF SessionInv

LEMMA ReopenSession ==
  ASSUME StoreInv, SessionInv, NEW author \in Author, Open(author)
  PROVE  SessionInv'
<1> DEFINE clock == IF disk.log = << >> THEN FreshClock(author)
                    ELSE SeededClock(MaxHlc(disk.log))
<1>1. /\ disk.base \in 1 .. MaxBase /\ call = Idle
      /\ OrderedInv(Replay(disk.log), LastHlc(disk.log))
      /\ LastHlc(disk.log) \in Timestamp
  BY NumberAssumption DEF Open, SessionInv, OrderedInv
<1>2. /\ session' = [base |-> disk.base, doc |-> Replay(disk.log), clock |-> clock,
                     author |-> author]
      /\ UNCHANGED <<disk, call, diverged>>
  BY DEF Open
<1>3. clock \in Timestamp /\ BeforeOrSame(LastHlc(disk.log), clock)
  <2>1. CASE disk.log = << >>
    BY <2>1, ReplayNothing, FreshClockFacts
  <2>2. CASE disk.log # << >>
    <3>1. clock = LastHlc(disk.log)
      BY <2>2, MaxIsLast DEF StoreInv, SessionInv, SeededClock
    <3> QED BY <1>1, <3>1 DEF BeforeOrSame
  <2> QED BY <2>1, <2>2
<1> HIDE DEF clock
<1>4. OrderedInv(Replay(disk.log), clock) /\ Replay(disk.log) \in DocumentType
  BY <1>1, <1>3, OrderedLater DEF OrderedInv
<1>5. session' \in OpenSession /\ session' # Closed
  BY <1>1, <1>2, <1>3, <1>4, ClosedAssumption DEF OpenSession
<1>6. LoggedOps' = LoggedOps
  BY <1>2 DEF LoggedOps
<1> QED BY <1>1, <1>2, <1>3, <1>4, <1>5, <1>6, CallAssumption DEF SessionInv

\* An edit is later than everything the session has, so it takes effect; it is
\* later than the log too.
LEMMA EditSession ==
  ASSUME StoreInv, SessionInv, NEW op \in Op, Edit(op),
         NEW wall \in WallTime, op.hlc = Tick(session.clock, session.author, wall)
  PROVE  SessionInv'
<1> DEFINE last == LastHlc(disk.log)
           replayed == Replay(disk.log)
<1>1. /\ session \in OpenSession
      /\ session.base = disk.base /\ OrderedInv(session.doc, session.clock)
      /\ BeforeOrSame(last, session.clock) /\ OrderedInv(replayed, last)
      /\ call = Idle /\ (~ diverged => replayed.state = session.doc.state)
  BY DEF Edit, SessionInv
<1>2. /\ session.clock \in Timestamp /\ session.author \in Nat /\ last \in Timestamp
  BY <1>1, NumberAssumption DEF OrderedInv, OpenSession
<1>3. /\ op.hlc \in Timestamp /\ Before(session.clock, op.hlc)
  BY <1>2, TickExceedsLast, NumberAssumption
<1>4. Before(last, op.hlc)
  BY <1>1, <1>2, <1>3, BeforeOrSameTransitive
<1>5. /\ OrderedInv(Apply(session.doc, op), op.hlc) /\ op \notin session.doc.applied
      /\ TookEffect(session.doc, op)
  BY <1>1, <1>3, OrderedApply
<1>6. op \notin replayed.applied
  BY <1>1, <1>4, OrderedApply
<1>7. call' = op /\ UNCHANGED <<disk, diverged>>
  BY <1>5 DEF Edit, Persisted
<1>8. session' = [base |-> session.base, doc |-> Apply(session.doc, op), clock |-> op.hlc,
                  author |-> session.author]
  <2>1. session' = [[session EXCEPT !.clock = op.hlc] EXCEPT !.doc = Apply(session.doc, op)]
    BY <1>1 DEF Edit
  <2> QED BY <1>1, <2>1 DEF OpenSession
<1>9. ~ diverged => Apply(replayed, op).state = Apply(session.doc, op).state
  BY <1>1, <1>5, <1>6, SameStateApply
<1>10. session' \in OpenSession /\ session' # Closed
  <2>1. Apply(session.doc, op) \in DocumentType
    BY <1>5 DEF OrderedInv
  <2> QED BY <1>1, <1>3, <1>8, <2>1, ClosedAssumption DEF OpenSession
<1>11. LoggedOps' = LoggedOps /\ Replay(disk.log)' = replayed /\ LastHlc(disk.log)' = last
  BY <1>7 DEF LoggedOps
<1>12. /\ session'.base = disk'.base /\ OrderedInv(session.doc, session.clock)'
       /\ session'.clock = op.hlc /\ session'.doc = Apply(session.doc, op)
  <2>1. /\ session'.base = session.base /\ session'.clock = op.hlc
        /\ session'.doc = Apply(session.doc, op)
    BY <1>8
  <2> QED BY <1>1, <1>5, <1>7, <2>1
<1>13. /\ disk'.base \in 0 .. MaxBase /\ diverged' \in BOOLEAN
       /\ OrderedInv(Replay(disk.log), LastHlc(disk.log))'
       /\ (Replay(disk.log).applied = LoggedOps)'
  BY <1>7, <1>11 DEF SessionInv
<1>14. BeforeOrSame(last, op.hlc) /\ call' # Idle /\ call' # Resetting
  BY <1>4, <1>7, CallAssumption DEF BeforeOrSame
<1>15. session # Closed
  BY DEF Edit
<1> HIDE DEF last, replayed
<1> QED
  BY <1>4, <1>7, <1>9, <1>10, <1>11, <1>12, <1>13, <1>14, <1>15 DEF SessionInv

\* The write makes the log catch up with the document.
LEMMA AppendSession ==
  ASSUME StoreInv, SessionInv, AppendOp
  PROVE  SessionInv'
<1> DEFINE entry == [op |-> call, acked |-> FALSE, base |-> disk.base]
<1>1. /\ disk.log \in Seq(Logged) /\ entry \in Logged /\ entry.op = call /\ call \in Op
  BY DEF StoreInv, Logged, AppendOp
<1>2. disk'.log = Append(disk.log, entry) /\ disk'.base = disk.base
  BY DEF StoreInv, AppendOp
<1>3. call' = Idle /\ UNCHANGED <<session, diverged>>
  BY DEF AppendOp
<1>4. session # Closed /\ call # Idle
  BY <1>1, CallAssumption DEF SessionInv
<1>5. /\ Replay(disk.log)' = Apply(Replay(disk.log), call)
      /\ LastHlc(disk.log)' = call.hlc
  BY <1>1, <1>2, ReplayEntry
<1>6. /\ OrderedInv(Apply(Replay(disk.log), call), call.hlc)
      /\ Apply(Replay(disk.log), call).applied = LoggedOps \union {call}
  BY <1>1, <1>4, OrderedApply DEF SessionInv
<1>7. LoggedOps' = LoggedOps \union {call}
  <2>1. /\ DOMAIN disk'.log = DOMAIN disk.log \union {Len(disk.log) + 1}
        /\ \A i \in DOMAIN disk.log : disk'.log[i] = disk.log[i]
        /\ disk'.log[Len(disk.log) + 1] = entry
    BY <1>1, <1>2
  <2> QED BY <1>1, <2>1 DEF LoggedOps
<1>8. /\ OrderedInv(Replay(disk.log), LastHlc(disk.log))'
      /\ (Replay(disk.log).applied = LoggedOps)'
  BY <1>5, <1>6, <1>7
<1>9. /\ session \in OpenSession /\ session.base = disk.base
      /\ OrderedInv(session.doc, session.clock) /\ call.hlc = session.clock
      /\ ~ diverged => Apply(Replay(disk.log), call).state = session.doc.state
  BY <1>1, <1>4 DEF SessionInv
<1>10. /\ BeforeOrSame(LastHlc(disk.log)', session'.clock)
       /\ ~ diverged' => Replay(disk.log)'.state = session'.doc.state
  BY <1>3, <1>5, <1>9 DEF BeforeOrSame
<1>11. disk'.base \in 0 .. MaxBase /\ diverged' \in BOOLEAN
  BY <1>2, <1>3 DEF SessionInv
<1> QED
  BY <1>2, <1>3, <1>4, <1>8, <1>9, <1>10, <1>11, CallAssumption DEF SessionInv

\* An acknowledgement does not touch what is replayed.
LEMMA AckSession ==
  ASSUME StoreInv, SessionInv, NEW i \in DOMAIN disk.log, AckOp(i)
  PROVE  SessionInv'
<1>1. /\ disk.log \in Seq(Logged) /\ disk'.base = disk.base
      /\ disk'.log = [disk.log EXCEPT ![i].acked = TRUE]
      /\ UNCHANGED <<session, call, diverged>>
  BY DEF StoreInv, AckOp
<1>2. /\ DOMAIN disk'.log = DOMAIN disk.log /\ Len(disk'.log) = Len(disk.log)
      /\ \A j \in DOMAIN disk.log : disk'.log[j].op = disk.log[j].op
  <2>1. \A j \in DOMAIN disk.log : disk.log[j] \in Logged
    BY <1>1
  <2>2. /\ DOMAIN disk'.log = DOMAIN disk.log
        /\ \A j \in DOMAIN disk.log :
             disk'.log[j] = IF j = i THEN [disk.log[i] EXCEPT !.acked = TRUE] ELSE disk.log[j]
    BY <1>1
  <2>3. \A e \in Logged : [e EXCEPT !.acked = TRUE].op = e.op
    BY DEF Logged
  <2>4. /\ Len(disk.log) \in Nat /\ DOMAIN disk.log = 1 .. Len(disk.log)
    BY <1>1
  <2>5. Len(disk'.log) = Len(disk.log)
    BY <2>2, <2>4
  <2> QED BY <2>1, <2>2, <2>3, <2>5
<1>3. disk.log # << >> /\ disk'.log # << >> /\ Len(disk.log) \in DOMAIN disk.log
  BY <1>1
<1>4. Replay(disk.log)' = Replay(disk.log)
  <2>1. OpsOf(disk.log)' = OpsOf(disk.log)
    BY <1>2 DEF OpsOf
  <2> QED BY <2>1 DEF Replay, OpsOf
<1>5. LastHlc(disk.log)' = LastHlc(disk.log)
  BY <1>2, <1>3 DEF LastHlc
<1>6. LoggedOps' = LoggedOps
  BY <1>2 DEF LoggedOps
<1> QED BY <1>1, <1>4, <1>5, <1>6 DEF SessionInv

\* While a budget is being replaced the log is empty; then the session starts over.
LEMMA ResetSession ==
  ASSUME StoreInv, SessionInv, ResetDeletesLog \/ ResetStoresBase
  PROVE  SessionInv'
<1>1. /\ disk'.log = << >> /\ LoggedOps' = {} /\ session # Closed
      /\ disk \in [base : Nat, log : Seq(Logged)]
  <2>1. CASE ResetDeletesLog
    BY <2>1 DEF ResetDeletesLog, StoreInv, LoggedOps
  <2>2. CASE ResetStoresBase
    BY <2>2, CallAssumption DEF ResetStoresBase, StoreInv, LoggedOps, SessionInv
  <2> QED BY <2>1, <2>2
<1>2. /\ OrderedInv(Replay(disk.log), LastHlc(disk.log))'
      /\ (Replay(disk.log).applied = LoggedOps)'
      /\ Replay(disk.log)' = NewDocument /\ LastHlc(disk.log)' = NoHlc
  BY <1>1, ReplayNothing
<1>3. /\ session \in OpenSession /\ session.base = disk.base
      /\ OrderedInv(session.doc, session.clock) /\ session.clock \in Timestamp
      /\ disk.base \in 0 .. MaxBase /\ (call = Resetting => disk.base < MaxBase)
  BY <1>1 DEF SessionInv, OrderedInv
<1>4. CASE ResetDeletesLog
  <2>1. /\ disk'.base = disk.base /\ UNCHANGED <<session, diverged>>
        /\ call' = Resetting /\ disk.base < MaxBase
    BY <1>1, <1>4 DEF ResetDeletesLog
  <2>2. BeforeOrSame(NoHlc, session.clock)
    <3>1. LastHlc(disk.log) \in Timestamp /\ BeforeOrSame(NoHlc, LastHlc(disk.log))
      <4>1. CASE disk.log = << >>
        BY <4>1, ReplayNothing, NoHlcIsTimestamp DEF BeforeOrSame
      <4>2. CASE disk.log # << >>
        <5>1. disk.log[Len(disk.log)] \in Logged
          BY <1>1, <4>2
        <5>2. disk.log[Len(disk.log)].op \in Op
          BY <5>1 DEF Logged
        <5> QED BY <4>2, <5>2, OpFields DEF LastHlc, BeforeOrSame
      <4> QED BY <4>1, <4>2
    <3>2. BeforeOrSame(LastHlc(disk.log), session.clock)
      BY <1>1 DEF SessionInv
    <3> QED BY <1>3, <3>1, <3>2, NoHlcIsTimestamp, BeforeOrSameTransitive
  <2>3. diverged \in BOOLEAN
    BY DEF SessionInv
  <2>4. call' \notin Op /\ call' # Idle
    BY <2>1, CallAssumption
  <2> QED BY <1>1, <1>2, <1>3, <2>1, <2>2, <2>3, <2>4 DEF SessionInv
<1>5. CASE ResetStoresBase
  <2>1. disk'.base = disk.base + 1 /\ call' = Idle /\ diverged' = FALSE
    BY <1>1, <1>5 DEF ResetStoresBase
  <2>2. disk'.base \in 1 .. MaxBase
    BY <1>3, <1>5, <2>1, NumberAssumption DEF ResetStoresBase
  <2>3. session' = [base |-> disk'.base, doc |-> NewDocument,
                    clock |-> FreshClock(session.author), author |-> session.author]
    <3>1. session' = [[[session EXCEPT !.base = disk'.base] EXCEPT !.doc = NewDocument]
                        EXCEPT !.clock = FreshClock(session.author)]
      BY <1>5 DEF ResetStoresBase
    <3> QED BY <1>3, <3>1 DEF OpenSession
  <2>4. /\ session.author \in Author /\ FreshClock(session.author) \in Timestamp
        /\ BeforeOrSame(NoHlc, FreshClock(session.author))
        /\ OrderedInv(NewDocument, FreshClock(session.author))
        /\ NewDocument \in DocumentType
    <3>1. session.author \in Author
      BY <1>3 DEF OpenSession
    <3> QED BY <3>1, FreshClockFacts, NewDocumentOrdered DEF OrderedInv
  <2>5. session' \in OpenSession /\ session' # Closed
    BY <2>2, <2>3, <2>4, ClosedAssumption DEF OpenSession
  <2>6. /\ session'.base = disk'.base /\ session'.doc = NewDocument
        /\ session'.clock = FreshClock(session.author)
    BY <2>3
  <2>7. call' \notin Op /\ call' # Resetting /\ disk'.base \in 0 .. MaxBase
    BY <2>1, <2>2, CallAssumption, NumberAssumption
  <2> QED BY <1>2, <2>1, <2>4, <2>5, <2>6, <2>7 DEF SessionInv
<1> QED BY <1>4, <1>5

\* Of a call that gives up, and of a process that ends, only the loss remains.
LEMMA FailSession ==
  ASSUME SessionInv, AppendFails \/ ResetFails \/ Stop
  PROVE  SessionInv'
<1>1. disk' = disk /\ call' = Idle /\ diverged' \in BOOLEAN
  BY DEF AppendFails, ResetFails, Stop
<1>2. LoggedOps' = LoggedOps
  BY <1>1 DEF LoggedOps
<1>3. session' = Closed \/ (session' = session /\ diverged' = TRUE)
  BY DEF AppendFails, ResetFails, Stop
<1> QED BY <1>1, <1>2, <1>3, CallAssumption DEF SessionInv

LEMMA NextSession == StoreInv /\ SessionInv /\ [Next]_vars => SessionInv'
<1> SUFFICES ASSUME StoreInv, SessionInv, [Next]_vars PROVE SessionInv'
  OBVIOUS
<1>1. ASSUME NEW author \in Author, Create(author) PROVE SessionInv'
  BY <1>1, CreateSession
<1>2. ASSUME NEW author \in Author, Open(author) PROVE SessionInv'
  BY <1>2, ReopenSession
<1>3. ASSUME NEW ent \in Entity, NEW wall \in WallTime, NEW kind \in {"insert", "remove"},
             Edit(Minted(kind, ent, NoTag, wall))
      PROVE  SessionInv'
  <2> DEFINE op == Minted(kind, ent, NoTag, wall)
  <2>1. op \in Op
    BY <1>3, MintedIsOp DEF Edit
  <2>2. op.hlc = Tick(session.clock, session.author, wall)
    BY DEF Minted
  <2> HIDE DEF op
  <2> QED BY <1>3, <2>1, <2>2, EditSession DEF op
<1>4. ASSUME NEW ent \in Entity, NEW wall \in WallTime, NEW tag \in TagsOf[ent],
             Edit(Minted("set", ent, tag, wall))
      PROVE  SessionInv'
  <2> DEFINE op == Minted("set", ent, tag, wall)
  <2>1. op \in Op
    BY <1>4, MintedIsOp DEF Edit
  <2>2. op.hlc = Tick(session.clock, session.author, wall)
    BY DEF Minted
  <2> HIDE DEF op
  <2> QED BY <1>4, <2>1, <2>2, EditSession DEF op
<1>5. CASE AppendOp
  BY <1>5, AppendSession
<1>6. CASE AppendFails \/ ResetFails \/ Stop
  BY <1>6, FailSession
<1>7. CASE ResetDeletesLog \/ ResetStoresBase
  BY <1>7, ResetSession
<1>8. ASSUME NEW i \in 1 .. MaxLog, AckOp(i) PROVE SessionInv'
  BY <1>8, AckSession DEF AckOp
<1>9. CASE UNCHANGED vars
  <2>1. LoggedOps' = LoggedOps
    BY <1>9 DEF vars, LoggedOps
  <2> QED BY <1>9, <2>1 DEF vars, SessionInv
<1> QED
  BY <1>1, <1>2, <1>3, <1>4, <1>5, <1>6, <1>7, <1>8, <1>9 DEF Next

THEOREM SessionInvariant == Spec => [](StoreInv /\ SessionInv)
<1>1. StoreInv /\ SessionInv /\ [Next]_vars => (StoreInv /\ SessionInv)'
  BY NextStore, NextSession
<1> QED BY <1>1, InitStore, InitSession, PTL DEF Spec

\* Every reachable state of session and database is well formed: TypeOK of
\* LocalStore.
THEOREM StoreTypeCorrect == Spec => []TypeOK
<1>1. StoreInv /\ SessionInv => TypeOK
  <2> SUFFICES ASSUME StoreInv, SessionInv PROVE TypeOK
    OBVIOUS
  <2>1. disk.log \in Seq(Logged) /\ disk.base \in 0 .. MaxBase
    BY DEF StoreInv, SessionInv
  <2>2. disk.log \in Seq(Entry)
    <3>1. ASSUME NEW i \in DOMAIN disk.log PROVE disk.log[i] \in Entry
      <4>1. disk.log[i] \in Logged /\ disk.log[i].base = disk.base /\ disk.log # << >>
        BY <2>1 DEF StoreInv, LogMatchesBase
      <4>2. disk.base # 0
        BY <4>1 DEF StoreInv
      <4> QED BY <2>1, <4>1, <4>2, NumberAssumption DEF Logged, Entry
    <3>2. /\ Len(disk.log) \in Nat /\ DOMAIN disk.log = 1 .. Len(disk.log)
          /\ disk.log = [i \in 1 .. Len(disk.log) |-> disk.log[i]]
      BY <2>1
    <3>3. disk.log \in [1 .. Len(disk.log) -> Entry]
      BY <3>1, <3>2
    <3>4. ASSUME NEW n \in Nat, NEW f \in [1 .. n -> Entry] PROVE f \in Seq(Entry)
      OBVIOUS
    <3> QED BY <3>2, <3>3, <3>4
  <2>3. disk \in [base : 0 .. MaxBase, log : Seq(Entry)]
    BY <2>1, <2>2 DEF StoreInv
  <2>4. confirmed \subseteq Op /\ lost \subseteq confirmed
    BY DEF StoreInv
  <2> QED BY <2>3, <2>4 DEF StoreInv, SessionInv, TypeOK
<1> QED BY <1>1, SessionInvariant, PTL

\* Unless a statement failed, a restart rebuilds the very state the session has,
\* registers and waiting edits included: LogRebuildsSession of LocalStore.
THEOREM RestartRebuildsSession == Spec => []LogRebuildsSession
<1>1. SessionInv => LogRebuildsSession
  BY DEF SessionInv, LogRebuildsSession
<1> QED BY <1>1, SessionInvariant, PTL

\* A launch shows the merge of exactly the confirmed edits, wherever the process
\* stopped and whatever failed, but for what an unfinished reset deleted:
\* RestartShowsConfirmed of LocalStore.
THEOREM ConfirmedEditsSurvive == Spec => []RestartShowsConfirmed
<1>1. StoreInv /\ SessionInv => RestartShowsConfirmed
  BY OrderedIsMerged DEF StoreInv, SessionInv, RestartShowsConfirmed
<1> QED BY <1>1, SessionInvariant, PTL

\* No edit of the user is ever stale, whatever the wall clock says and whoever
\* wrote the log: NextEditWins of LocalStore.
THEOREM EditsNeverStale == Spec => []NextEditWins
<1>1. SessionInv => NextEditWins
  <2> SUFFICES ASSUME SessionInv, session # Closed, NEW wall \in WallTime, NEW e \in Entity
               PROVE  LET next == Tick(session.clock, session.author, wall)
                          s == session.doc.state[e]
                      IN  /\ Wins(s.exists, next)
                          /\ \A t \in Tag : Wins(s.reg[t], next)
                          /\ \A o \in s.pending : Before(o.hlc, next)
    BY DEF NextEditWins
  <2> DEFINE next == Tick(session.clock, session.author, wall)
  <2>1. /\ OrderedInv(session.doc, session.clock) /\ session.clock \in Timestamp
        /\ session.author \in Nat
    BY NumberAssumption DEF SessionInv, OpenSession
  <2>2. next \in Timestamp /\ Before(session.clock, next)
    BY <2>1, TickExceedsLast, NumberAssumption
  <2> HIDE DEF next
  <2> QED BY <2>1, <2>2, OrderedBefore DEF Wins, next
<1> QED BY <1>1, SessionInvariant, PTL
=============================================================================
