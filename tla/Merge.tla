------------------------------- MODULE Merge -------------------------------
(***************************************************************************)
(* The budget that a set of ops stands for, stated without registers,      *)
(* buffers or an order of application: the reference the reducer of        *)
(* Document is compared with (src/ops/mod.rs, "Convergence guarantee").    *)
(***************************************************************************)
EXTENDS Document

Inserts(A, e) == {o \in A : o.kind = "insert" /\ o.ent = e}
ExistenceOps(A, e) == {o \in A : o.kind # "set" /\ o.ent = e}
Edits(A, e, t) == {o \in A : o.kind = "set" /\ o.ent = e /\ o.tag = t}

\* The last insert or removal decides whether an entity exists ...
Lives(A, e) ==
  IF ExistenceOps(A, e) = {}
  THEN e \in Base
  ELSE Highest(ExistenceOps(A, e)).kind = "insert"

\* ... and the last op that wrote a field decides what it holds.
LastWriter(A, e, t) ==
  LET writers == Inserts(A, e) \union Edits(A, e, t)
  IN  IF writers = {} THEN BaseValue ELSE Highest(writers)

Merged(A) ==
  [e \in Entity |-> IF Lives(A, e) THEN [t \in Tag |-> LastWriter(A, e, t)] ELSE NoValue]

----------------------------------------------------------------------------
\* Of two different ops the clocks give one the later timestamp.
UniqueHlcs(A) == \A o, p \in A : o.hlc = p.hlc => o = p

\* An insert that an edit of its entity post-dates is the entity's first one:
\* re-inserting an entity comes after every edit of it.
ReinsertsPostdateEdits(A) ==
  \A i, s \in A :
    /\ i.kind = "insert" /\ s.kind = "set" /\ i.ent = s.ent
    /\ Before(i.hlc, s.hlc)
    => /\ i.ent \notin Base
       /\ \A j \in Inserts(A, i.ent) : BeforeOrSame(i.hlc, j.hlc)

Disciplined(A) == UniqueHlcs(A) /\ ReinsertsPostdateEdits(A)
=============================================================================
