----------------------------- MODULE LocalStore -----------------------------
(***************************************************************************)
(* An offline budget (budgetcut-store): a Session, which is a document and *)
(* a clock in memory, and the SQLite Store behind it, which is a base      *)
(* snapshot and a log of ops.  The desktop app runs its commands one at a  *)
(* time (a mutex around the session), so one call is in progress at most;  *)
(* the process may stop between any two statements, and a write to the     *)
(* database may fail.                                                      *)
(***************************************************************************)
EXTENDS Merge, FiniteSets

CONSTANTS
  Author,    \* user ids; the desktop app draws a new one at every launch
  WallTime,  \* what the wall clock may read: at any time, any of these
  MaxLog,    \* bound: edits confirmed on a base, and so the length of the log
  MaxBase,   \* bound: base snapshots ever stored
  Closed, Idle, Resetting

ASSUME CallAssumption ==
  /\ Idle # Resetting
  /\ {Idle, Resetting} \intersect Op = {}
ASSUME NumberAssumption ==
  /\ Author \subseteq Nat
  /\ WallTime \subseteq Nat
  /\ MaxBase \in Nat \ {0}

\* An open session.
OpenSession ==
  [base : 1 .. MaxBase, doc : DocumentType, clock : Timestamp, author : Author]

ASSUME ClosedAssumption == Closed \notin OpenSession

VARIABLES
  disk,       \* the database: [base, log]; base 0 is "no budget yet"
  session,    \* an OpenSession, or Closed
  call,       \* Idle, the op whose append is next, or Resetting
  confirmed,  \* history: the edits of this base snapshot whose call returned Ok
  lost,       \* history: those whose row a reset deleted that stored no base yet
  diverged    \* has a statement failed since the session read the log

vars == <<disk, session, call, confirmed, lost, diverged>>

Entry == [op : Op, acked : BOOLEAN, base : 1 .. MaxBase]

LoggedOps == {disk.log[i].op : i \in DOMAIN disk.log}

\* Store::load_document: the reducer run over the log, in log order.
Replay(log) == ReplayOnto(NewDocument, [i \in DOMAIN log |-> log[i].op])

\* The greatest timestamp in a log that is not empty.
MaxHlc(log) == Highest({log[i].op : i \in DOMAIN log}).hlc

----------------------------------------------------------------------------
Init ==
  /\ disk = [base |-> 0, log |-> <<>>]
  /\ session = Closed
  /\ call = Idle
  /\ confirmed = {}
  /\ lost = {}
  /\ diverged = FALSE

\* Session::create, on the first launch.
Create(author) ==
  /\ session = Closed
  /\ disk.base = 0
  /\ disk' = [disk EXCEPT !.base = 1]
  /\ session' = [base |-> 1, doc |-> NewDocument,
                 clock |-> FreshClock(author), author |-> author]
  /\ UNCHANGED <<call, confirmed, lost, diverged>>

\* Faulty variant: a reopened session starts a fresh clock.
OpenUnseeded(author) ==
  /\ session = Closed
  /\ disk.base # 0
  /\ session' = [base   |-> disk.base,
                 doc    |-> Replay(disk.log),
                 clock  |-> FreshClock(author),
                 author |-> author]
  /\ UNCHANGED <<disk, call, confirmed, lost, diverged>>

\* Session::open, on every later launch.
Open(author) ==
  /\ session = Closed
  /\ disk.base # 0
  /\ session' = [base   |-> disk.base,
                 doc    |-> Replay(disk.log),
                 clock  |-> IF disk.log = <<>> THEN FreshClock(author)
                            ELSE SeededClock(MaxHlc(disk.log)),
                 author |-> author]
  /\ UNCHANGED <<disk, call, confirmed, lost, diverged>>

\* Faulty variant: only an op that took effect at once is persisted.
PersistedAppliedOnly(d, op) == Outcome(d, op) = "Applied"

\* The outcomes that Session::edit persists.
Persisted(d, op) == TookEffect(d, op)

\* The op an edit mints.
Minted(kind, ent, tag, wall) ==
  [kind |-> kind, ent |-> ent, tag |-> tag,
   hlc |-> Tick(session.clock, session.author, wall)]

\* Faulty variant: the edit is confirmed before it is written.
EditConfirmsFirst(op) ==
  /\ session # Closed /\ call = Idle
  /\ op.hlc \in Stamp /\ Cardinality(confirmed) < MaxLog
  /\ session' = [session EXCEPT !.clock = op.hlc, !.doc = Apply(@, op)]
  /\ call' = IF Persisted(session.doc, op) THEN op ELSE Idle
  /\ confirmed' = confirmed \union {op}
  /\ UNCHANGED <<disk, lost, diverged>>

\* Session::edit up to the write: tick, apply in memory.  Stamp and MaxLog
\* bound how often that is explored.
Edit(op) ==
  /\ session # Closed /\ call = Idle
  /\ op.hlc \in Stamp /\ Cardinality(confirmed) < MaxLog
  /\ session' = [session EXCEPT !.clock = op.hlc, !.doc = Apply(@, op)]
  /\ call' = IF Persisted(session.doc, op) THEN op ELSE Idle
  /\ UNCHANGED <<disk, confirmed, lost, diverged>>

\* Store::append_op, after which the edit returns Ok.  Ids are new in the code:
\* an op that is minted again after its row was deleted is another edit, logged.
AppendOp ==
  /\ call \in Op
  /\ disk' = [disk EXCEPT !.log =
                Append(@, [op |-> call, acked |-> FALSE, base |-> disk.base])]
  /\ confirmed' = confirmed \union {call}
  /\ lost' = lost \ {call}
  /\ call' = Idle
  /\ UNCHANGED <<session, diverged>>

\* append_op fails: the edit returns Err, and the document keeps the op.
AppendFails ==
  /\ call \in Op
  /\ call' = Idle
  /\ diverged' = TRUE
  /\ UNCHANGED <<disk, session, confirmed, lost>>

\* Faulty variant: the new base is stored before the log is emptied.
ResetStoresBaseFirst ==
  /\ session # Closed /\ call = Idle
  /\ disk.base < MaxBase
  /\ disk' = [disk EXCEPT !.base = @ + 1]
  /\ call' = Resetting
  /\ UNCHANGED <<session, confirmed, lost, diverged>>

\* Session::reseed, first statement of Store::reset: empty the log, on which the
\* edits of the base beside it stood.
ResetDeletesLog ==
  /\ session # Closed /\ call = Idle
  /\ disk.base < MaxBase
  /\ disk' = [disk EXCEPT !.log = <<>>]
  /\ call' = Resetting
  /\ lost' = confirmed
  /\ UNCHANGED <<session, confirmed, diverged>>

\* Second statement: the new base; then a new document and clock in memory.
ResetStoresBase ==
  /\ call = Resetting
  /\ disk' = [disk EXCEPT !.base = @ + 1]
  /\ session' = [session EXCEPT !.base = disk'.base, !.doc = NewDocument,
                                !.clock = FreshClock(session.author)]
  /\ call' = Idle
  /\ confirmed' = {}
  /\ lost' = {}
  /\ diverged' = FALSE

\* The second statement fails: reseed returns Err with the old document in
\* memory, the old base and an empty log on disk.
ResetFails ==
  /\ call = Resetting
  /\ call' = Idle
  /\ diverged' = TRUE
  /\ UNCHANGED <<disk, session, confirmed, lost>>

\* Store::ack_op, for an op of the outbox.
AckOp(i) ==
  /\ i \in DOMAIN disk.log /\ ~ disk.log[i].acked
  /\ disk' = [disk EXCEPT !.log[i].acked = TRUE]
  /\ UNCHANGED <<session, call, confirmed, lost, diverged>>

\* Faulty variant: the interrupted call goes on after the restart.
StopMidCall ==
  /\ session # Closed
  /\ session' = Closed
  /\ diverged' = FALSE
  /\ UNCHANGED <<disk, call, confirmed, lost>>

\* The process ends, by the user's choice or not, perhaps in the middle of a
\* call.  What was in memory is gone.
Stop ==
  /\ session # Closed
  /\ session' = Closed
  /\ call' = Idle
  /\ diverged' = FALSE
  /\ UNCHANGED <<disk, confirmed, lost>>

Next ==
  \/ \E author \in Author : Create(author) \/ Open(author)
  \/ \E ent \in Entity, wall \in WallTime :
       /\ session # Closed
       /\ \/ \E kind \in {"insert", "remove"} : Edit(Minted(kind, ent, NoTag, wall))
          \/ \E tag \in TagsOf[ent] : Edit(Minted("set", ent, tag, wall))
  \/ AppendOp
  \/ AppendFails
  \/ ResetDeletesLog
  \/ ResetStoresBase
  \/ ResetFails
  \/ \E i \in 1 .. MaxLog : AckOp(i)
  \/ Stop

Spec == Init /\ [][Next]_vars

----------------------------------------------------------------------------
TypeOK ==
  /\ disk \in [base : 0 .. MaxBase, log : Seq(Entry)]
  /\ session \in OpenSession \union {Closed}
  /\ call \in Op \union {Idle, Resetting}
  /\ session = Closed => call = Idle
  /\ confirmed \subseteq Op /\ lost \subseteq confirmed
  /\ diverged \in BOOLEAN

\* Unless a statement failed, a restart would rebuild exactly the state the
\* session has, buffered ops and registers included (store.rs, "the budget is
\* rebuilt by replaying it"): which outcomes edit persists is enough.
LogRebuildsSession ==
  session # Closed /\ call = Idle /\ ~ diverged =>
    /\ Replay(disk.log).state = session.doc.state
    /\ disk.base = session.base

\* Whatever statement failed and wherever the process stopped, a restart shows
\* the merge of exactly the edits of its base that were confirmed
\* (tests/persistence.rs, "edits survive a close and reopen"), but for those whose
\* rows a reset deleted without getting to its second statement.
RestartShowsConfirmed ==
  Budget(Replay(disk.log)) = Merged(confirmed \ lost)

\* Whatever the wall clock says now, the next edit of an open session post-dates
\* every register and every waiting op, so no edit of the user is stale
\* (session.rs, "so new ops strictly post-date persisted ones").
NextEditWins ==
  session # Closed /\ call # Resetting =>
    \A wall \in WallTime, e \in Entity :
      LET next == Tick(session.clock, session.author, wall)
          s == session.doc.state[e]
      IN  /\ Wins(s.exists, next)
          /\ \A t \in Tag : Wins(s.reg[t], next)
          /\ \A o \in s.pending : Before(o.hlc, next)

\* The log never holds an edit of another base than the one beside it, not even
\* after a stop in the middle of a reset (store.rs, reset).
LogMatchesBase == \A i \in DOMAIN disk.log : disk.log[i].base = disk.base

\* store.rs, reset: the old budget or the new one, with its edits.  Not so: the
\* two statements are no transaction, and a stop or a failure between them leaves
\* the old base without the edits that were confirmed on it.
ResetKeepsEdits == call # Resetting => lost = {}

\* store.rs, line 1: "The op log is the source of truth", so that memory and log
\* can never diverge.  Not so once a statement fails.
LogIsSourceOfTruth ==
  session # Closed /\ call = Idle =>
    Budget(Replay(disk.log)) = Budget(session.doc)
=============================================================================
