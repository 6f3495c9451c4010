-------------------------------- MODULE Hlc --------------------------------
(***************************************************************************)
(* The hybrid logical clock of budgetcut-core (src/hlc.rs): timestamps,    *)
(* their total order, and the two clock updates.  A timestamp is the tuple *)
(* <<wall_ms, counter, node>>; a node is a user id, which the code compares*)
(* byte by byte, so any fixed numbering of the nodes has the same order.   *)
(* Counters are unbounded here: the code's u32 counter would wrap only     *)
(* after 2^32 ticks inside one wall-clock millisecond.                     *)
(***************************************************************************)
EXTENDS Naturals

Timestamp == Nat \X Nat \X Nat

Wall(h) == h[1]
Counter(h) == h[2]
Node(h) == h[3]

\* No register holds a timestamp below this one, and no clock emits it: the
\* value of a register that was never written.
NoHlc == <<0, 0, 0>>

\* The lexicographic order of wall clock, counter, node.
Before(g, h) ==
  \/ Wall(g) < Wall(h)
  \/ Wall(g) = Wall(h) /\ Counter(g) < Counter(h)
  \/ Wall(g) = Wall(h) /\ Counter(g) = Counter(h) /\ Node(g) < Node(h)

BeforeOrSame(g, h) == g = h \/ Before(g, h)

----------------------------------------------------------------------------
(***************************************************************************)
(* A clock is the last timestamp it emitted or observed.                   *)
(***************************************************************************)

\* HlcClock::new: behind every real timestamp, whatever was issued before.
FreshClock(node) == <<0, 0, node>>

\* HlcClock::seeded: continue after a known timestamp.
SeededClock(last) == last

Larger(a, b) == IF a < b THEN b ELSE a

\* The counter that follows h within h's own millisecond, and 0 in a later one.
NextCounter(h, wall) == IF wall = Wall(h) THEN Counter(h) + 1 ELSE 0

\* HlcClock::tick: the wall clock if it moved past the last timestamp, and the
\* next counter otherwise.
Tick(last, node, physical) ==
  LET wall == Larger(physical, Wall(last))
  IN  <<wall, NextCounter(last, wall), node>>

\* HlcClock::observe: a tick that also passes the remote timestamp.
Observe(last, node, remote, physical) ==
  LET wall == Larger(Larger(physical, Wall(last)), Wall(remote))
  IN  <<wall, Larger(NextCounter(last, wall), NextCounter(remote, wall)), node>>
=============================================================================
