---------------------------- MODULE DesktopProofs ----------------------------
(***************************************************************************)
(* Two parts of the app that do not touch each other: the browser store    *)
(* and the receipt panel.                                                  *)
(*                                                                         *)
(* Of the store, what has arrived at a settled client, for every number of *)
(* budgets, parts, edits and refreshes.                                    *)
(*                                                                         *)
(* Of the panel, what undo knows of the rows that are marked as added, for *)
(* any number of scans, adds and undos that run at a time, in any order of *)
(* their steps (ReceiptInv); and, while no add or undo overlaps another,   *)
(* that what can still be added is not in the books (OnceInv).             *)
(***************************************************************************)
EXTENDS ClientStore, ReceiptScan, FiniteSetTheorems, WellFoundedInduction, TLAPS

\* Calls are numbered once: a channel has the number of a refresh that is over.
CallsUnique ==
  /\ \A r \in refreshes : r.call <= started
  /\ \A s \in sockets : s.call <= started
  /\ \A r \in refreshes, q \in refreshes : r.call = q.call => r = q
  /\ \A r \in refreshes, s \in sockets : r.call # s.call

\* What was fetched is of a version there was.
FetchedBefore ==
  /\ \A r \in refreshes, p \in Part : r.got[p] # Waiting => r.got[p] <= version[r.budget]
  /\ \A b \in BudgetId, p \in Part : fetched[b][p] <= version[b]

\* The channel that a client with an open budget listens to.
Listens(s) ==
  /\ open # Nothing /\ ~ failed
  /\ s.call = ws /\ s.budget = open /\ s.phase = "live" /\ version[open] > s.from

\* A refresh of the open budget that can only answer with the latest version.
FetchesLatest(r) ==
  /\ r.budget = open
  /\ \A p \in Part : r.got[p] \in {Waiting, version[open]}

\* A refresh of the open budget that will replace the channel.
Reconnects(r) == r.budget = open /\ r.then = "connect"

\* The latest version is on its way to a client that listens: the op that made
\* it is in the queue, or a refresh that began after it is under way, or it has
\* arrived; or the channel is about to be replaced.
LatestOnItsWay ==
  \A s \in sockets :
    Listens(s) =>
      \/ s.queue > 0
      \/ \E r \in refreshes : FetchesLatest(r) \/ Reconnects(r)
      \/ \A p \in Part : fetched[open][p] = version[open]

ClientInv == ClientTypeOK /\ CallsUnique /\ FetchedBefore /\ LatestOnItsWay

\* The refreshes after one is started.
LEMMA StartedRefresh ==
  ASSUME ClientInv, NEW b \in BudgetId \union {Nothing}, NEW then \in Then, StartRefresh(b, then)
  PROVE  /\ loading' \in BOOLEAN /\ started' \in 0 .. MaxRefresh /\ refreshes' \subseteq Refresh
         /\ started <= started' /\ refreshes \subseteq refreshes'
         /\ \A r \in refreshes' : r.call <= started'
         /\ \A r \in refreshes', q \in refreshes' : r.call = q.call => r = q
         /\ \A s \in sockets : s.call <= started'
         /\ \A r \in refreshes', s \in sockets : r.call # s.call
         /\ \A r \in refreshes' \ refreshes : \A p \in Part : r.got[p] = Waiting
         /\ b # Nothing => \E r \in refreshes' : /\ r.budget = b /\ r.then = then
                                              /\ \A p \in Part : r.got[p] = Waiting
<1>1. CASE b = Nothing
  <2>1. loading' = FALSE /\ refreshes' = refreshes /\ started' = started
    BY <1>1 DEF StartRefresh
  <2>2. started \in 0 .. MaxRefresh /\ refreshes \subseteq Refresh
    BY DEF ClientInv, ClientTypeOK
  <2>3. started <= started
    BY <2>2, RefreshAssumption
  <2> QED BY <1>1, <2>1, <2>2, <2>3 DEF ClientInv, CallsUnique
<1>2. CASE b # Nothing
  <2> DEFINE new == [call |-> started + 1, budget |-> b, got |-> [p \in Part |-> Waiting],
                     then |-> then]
  <2>1. /\ started \in Nat /\ started + 1 <= MaxRefresh /\ started' = started + 1
        /\ loading' = TRUE /\ refreshes' = refreshes \union {new}
    BY <1>2, RefreshAssumption DEF StartRefresh, ClientInv, ClientTypeOK
  <2>2. new \in Refresh
    BY <1>2, <2>1, RefreshAssumption DEF Refresh, Call, Waiting
  <2>3. \A r \in refreshes : r.call < new.call
    BY <2>1 DEF ClientInv, ClientTypeOK, Refresh, Call, CallsUnique
  <2>4. \A s \in sockets : s.call < new.call
    BY <2>1 DEF ClientInv, ClientTypeOK, Socket, Call, CallsUnique
  <2>5. \A r \in refreshes : r.call \in Nat
    BY DEF ClientInv, ClientTypeOK, Refresh, Call
  <2>6. \A s \in sockets : s.call \in Nat
    BY DEF ClientInv, ClientTypeOK, Socket, Call
  <2>7. new.call = started + 1 /\ new.budget = b /\ new.then = then
        /\ \A p \in Part : new.got[p] = Waiting
    OBVIOUS
  <2> HIDE DEF new
  <2>8. \A r \in refreshes' : r.call <= started'
    BY <2>1, <2>3, <2>5, <2>7
  <2>9. \A r \in refreshes', q \in refreshes' : r.call = q.call => r = q
    BY <2>1, <2>3, <2>5, <2>7 DEF ClientInv, CallsUnique
  <2>10. /\ \A r \in refreshes', s \in sockets : r.call # s.call
         /\ \A s \in sockets : s.call <= started'
    BY <2>1, <2>4, <2>6, <2>7 DEF ClientInv, CallsUnique
  <2>11. refreshes' \subseteq Refresh /\ refreshes \subseteq refreshes'
    BY <2>1, <2>2 DEF ClientInv, ClientTypeOK
  <2>12. /\ loading' \in BOOLEAN /\ started' \in 0 .. MaxRefresh /\ started <= started'
    BY <2>1, RefreshAssumption
  <2> QED BY <2>1, <2>7, <2>8, <2>9, <2>10, <2>11, <2>12
<1> QED BY <1>1, <1>2

\* A refresh of a client that has a budget open will fetch its latest version.
LEMMA RefreshOfOpen ==
  ASSUME ClientInv, StartRefresh(open, "nothing"),
         UNCHANGED <<version, open, shown, ws, fetched, failed>>, posted' \in Nat,
         sockets' \subseteq Socket,
         \A t \in sockets' : \E s \in sockets : t.call = s.call
  PROVE  ClientInv'
<1>1. open \in BudgetId \union {Nothing} /\ "nothing" \in Then
  BY DEF ClientInv, ClientTypeOK, Then
<1>2. ClientTypeOK'
  BY <1>1, StartedRefresh DEF ClientInv, ClientTypeOK, View, Call
<1>3. CallsUnique'
  BY <1>1, StartedRefresh DEF CallsUnique
<1>4. FetchedBefore'
  BY <1>1, StartedRefresh DEF ClientInv, FetchedBefore
<1>5. LatestOnItsWay'
  <2> SUFFICES ASSUME NEW s \in sockets', Listens(s)'
               PROVE  \E r \in refreshes' : FetchesLatest(r)'
    BY DEF LatestOnItsWay
  <2>1. open # Nothing
    BY DEF Listens
  <2>2. PICK r \in refreshes' : r.budget = open /\ \A p \in Part : r.got[p] = Waiting
    BY <1>1, <2>1, StartedRefresh
  <2> QED BY <2>2 DEF FetchesLatest, Waiting
<1> QED BY <1>2, <1>3, <1>4, <1>5 DEF ClientInv

LEMMA OpenPreserves ==
  ASSUME ClientInv, NEW b \in BudgetId, OpenBudget(b)
  PROVE  ClientInv'
<1>1. b \in BudgetId \union {Nothing} /\ "connect" \in Then /\ b # Nothing
  BY NothingAssumption DEF Then
<1>2. StartRefresh(b, "connect") /\ open' = b
      /\ UNCHANGED <<version, shown, posted, sockets, ws, fetched, failed>>
  BY DEF OpenBudget
<1>3. ClientTypeOK'
  BY <1>1, <1>2, StartedRefresh DEF ClientInv, ClientTypeOK, View, Call
<1>4. CallsUnique'
  BY <1>1, <1>2, StartedRefresh DEF CallsUnique
<1>5. FetchedBefore'
  BY <1>1, <1>2, StartedRefresh DEF ClientInv, FetchedBefore
<1>6. LatestOnItsWay'
  <2>1. PICK r \in refreshes' : r.budget = b /\ r.then = "connect"
    BY <1>1, <1>2, StartedRefresh
  <2> QED BY <1>2, <2>1 DEF LatestOnItsWay, Reconnects
<1> QED BY <1>3, <1>4, <1>5, <1>6 DEF ClientInv

LEMMA LeavePreserves == ClientInv /\ LeaveBudget => ClientInv'
<1> SUFFICES ASSUME ClientInv, LeaveBudget PROVE ClientInv'
  OBVIOUS
<1>1. /\ open' = Nothing /\ ws' = Nothing /\ sockets' \subseteq sockets
      /\ UNCHANGED <<version, loading, shown, refreshes, started, posted, fetched, failed>>
  BY DEF LeaveBudget
<1>2. ClientTypeOK'
  BY <1>1 DEF ClientInv, ClientTypeOK, View, Call
<1>3. CallsUnique'
  BY <1>1 DEF ClientInv, CallsUnique
<1>4. FetchedBefore'
  BY <1>1 DEF ClientInv, FetchedBefore
<1>5. LatestOnItsWay'
  BY <1>1 DEF LatestOnItsWay, Listens
<1> QED BY <1>2, <1>3, <1>4, <1>5 DEF ClientInv

LEMMA ServePreserves ==
  ASSUME ClientInv, NEW r \in refreshes, NEW p \in Part, ServeFetch(r, p)
  PROVE  ClientInv'
<1> DEFINE served == [r EXCEPT !.got[p] = version[r.budget]]
<1>1. r \in Refresh /\ version \in [BudgetId -> Nat]
  BY DEF ClientInv, ClientTypeOK, Version
<1>2. /\ served.call = r.call /\ served.budget = r.budget /\ served.then = r.then
      /\ served.got[p] = version[r.budget]
      /\ \A q \in Part \ {p} : served.got[q] = r.got[q]
      /\ served \in Refresh
      /\ version[r.budget] \in Nat
  BY <1>1 DEF Refresh, Version
<1>3. /\ refreshes' = (refreshes \ {r}) \union {served}
      /\ UNCHANGED <<version, open, loading, shown, started, posted, sockets, ws, fetched,
                     failed>>
  BY DEF ServeFetch
<1> HIDE DEF served
<1>4. ClientTypeOK'
  BY <1>2, <1>3 DEF ClientInv, ClientTypeOK, View, Call
<1>5. CallsUnique'
  BY <1>2, <1>3 DEF ClientInv, CallsUnique
<1>6. FetchedBefore'
  <2>1. \A q \in Part : served.got[q] # Waiting => served.got[q] <= version[served.budget]
    BY <1>2 DEF ClientInv, FetchedBefore
  <2> QED BY <1>3, <2>1 DEF ClientInv, FetchedBefore
<1>7. LatestOnItsWay'
  <2> SUFFICES ASSUME NEW s \in sockets, Listens(s),
                      NEW w \in refreshes, FetchesLatest(w) \/ Reconnects(w)
               PROVE  \E v \in refreshes' : FetchesLatest(v)' \/ Reconnects(v)'
    BY <1>3 DEF ClientInv, LatestOnItsWay, Listens
  <2>1. CASE w # r
    BY <1>3, <2>1 DEF FetchesLatest, Reconnects
  <2>2. CASE w = r /\ Reconnects(w)
    BY <1>2, <1>3, <2>2 DEF Reconnects
  <2>3. CASE w = r /\ FetchesLatest(w)
    <3>1. \A q \in Part : served.got[q] \in {Waiting, version[open]}
      BY <1>2, <2>3 DEF FetchesLatest
    <3> QED BY <1>2, <1>3, <2>3, <3>1 DEF FetchesLatest
  <2> QED BY <2>1, <2>2, <2>3
<1> QED BY <1>4, <1>5, <1>6, <1>7 DEF ClientInv

LEMMA NewerIs ==
  ASSUME NEW a \in Nat, NEW b \in Nat
  PROVE  /\ Newer(a, b) \in Nat /\ a <= Newer(a, b) /\ b <= Newer(a, b)
         /\ Newer(a, b) \in {a, b}
BY DEF Newer

\* What FinishRefresh does to the history of what has arrived.
LEMMA FetchedAfter ==
  ASSUME ClientInv, NEW r \in refreshes, FinishRefresh(r)
  PROVE  /\ r \in Refresh
         /\ \A p \in Part : r.got[p] \in Nat /\ r.got[p] <= version[r.budget]
         /\ fetched' \in [BudgetId -> [Part -> Nat]]
         /\ \A b \in BudgetId, p \in Part :
              fetched'[b][p] = IF b = r.budget THEN Newer(fetched[b][p], r.got[p])
                               ELSE fetched[b][p]
<1>1. r \in Refresh /\ fetched \in [BudgetId -> [Part -> Nat]]
  BY DEF ClientInv, ClientTypeOK, Version
<1>2. r.budget \in BudgetId /\ r.got \in [Part -> Nat \union {Waiting}]
  BY <1>1 DEF Refresh, Version
<1>3. \A p \in Part : r.got[p] \in Nat /\ r.got[p] <= version[r.budget]
  BY <1>2 DEF FinishRefresh, ViewOf, AllArrived, ClientInv, FetchedBefore
<1>4. fetched' = [fetched EXCEPT ![r.budget] = [p \in Part |-> Newer(@[p], r.got[p])]]
  BY DEF FinishRefresh, ViewOf
<1>5. \A p \in Part : Newer(fetched[r.budget][p], r.got[p]) \in Nat
  BY <1>1, <1>2, <1>3, NewerIs
<1> QED BY <1>1, <1>2, <1>3, <1>4, <1>5

LEMMA FinishPreserves ==
  ASSUME ClientInv, NEW r \in refreshes, FinishRefresh(r)
  PROVE  ClientInv'
<1> DEFINE channel == [call |-> r.call, budget |-> r.budget, phase |-> "connecting",
                       queue |-> 0, from |-> 0]
<1>1. /\ refreshes' = refreshes \ {r} /\ loading' = FALSE
      /\ shown' = [budget |-> r.budget, got |-> r.got]
      /\ UNCHANGED <<version, open, started, posted, failed>>
  BY DEF FinishRefresh, ViewOf
<1>2. \/ r.then = "connect" /\ sockets' = sockets \union {channel} /\ ws' = r.call
      \/ r.then # "connect" /\ UNCHANGED <<sockets, ws>>
  BY DEF FinishRefresh, ViewOf
<1>3. r.call \in Call /\ r.budget \in BudgetId /\ r.got \in [Part -> Nat]
  BY FetchedAfter DEF Refresh, Version
<1>4. /\ channel \in Socket /\ channel.call = r.call /\ channel.phase = "connecting"
      /\ shown' \in View
  BY <1>1, <1>3 DEF Socket, View, Version
<1> HIDE DEF channel
<1>5. ClientTypeOK'
  BY <1>1, <1>2, <1>3, <1>4, FetchedAfter DEF ClientInv, ClientTypeOK, Version
<1>6. CallsUnique'
  BY <1>1, <1>2, <1>4 DEF ClientInv, CallsUnique
<1>7. FetchedBefore'
  <2>1. \A b \in BudgetId, p \in Part : fetched'[b][p] <= version[b]
    BY FetchedAfter, NewerIs DEF ClientInv, ClientTypeOK, Version, FetchedBefore
  <2> QED BY <1>1, <2>1 DEF ClientInv, FetchedBefore
<1>8. LatestOnItsWay'
  <2> SUFFICES ASSUME NEW s \in sockets', Listens(s)'
               PROVE  \/ s.queue > 0
                      \/ \E q \in refreshes' : FetchesLatest(q)' \/ Reconnects(q)'
                      \/ \A p \in Part : fetched'[open][p] = version[open]
    BY <1>1 DEF LatestOnItsWay
  <2>1. r.then # "connect" /\ s \in sockets /\ Listens(s)
    <3>1. CASE r.then = "connect"
      <4>1. s.call = r.call /\ s.phase = "live"
        BY <1>2, <3>1 DEF Listens
      <4>2. s \notin sockets
        BY <4>1 DEF ClientInv, CallsUnique
      <4> QED BY <1>2, <1>4, <3>1, <4>1, <4>2
    <3>2. CASE r.then # "connect"
      BY <1>1, <1>2, <3>2 DEF Listens
    <3> QED BY <3>1, <3>2
  <2>2. open \in BudgetId /\ version[open] \in Nat
    BY <2>1 DEF Listens, ClientInv, ClientTypeOK, Version
  <2>3. CASE s.queue > 0
    BY <2>3
  <2>4. ASSUME NEW w \in refreshes, w # r, FetchesLatest(w) \/ Reconnects(w)
        PROVE  \E q \in refreshes' : FetchesLatest(q)' \/ Reconnects(q)'
    BY <1>1, <2>4 DEF FetchesLatest, Reconnects
  <2>5. CASE FetchesLatest(r)
    <3> SUFFICES ASSUME NEW p \in Part PROVE fetched'[open][p] = version[open]
      OBVIOUS
    <3>1. r.budget = open /\ r.got[p] = version[open]
      BY <2>5 DEF FetchesLatest, FinishRefresh, ViewOf, AllArrived
    <3>2. fetched[open][p] \in Nat /\ fetched[open][p] <= version[open]
      BY <2>2 DEF ClientInv, ClientTypeOK, Version, FetchedBefore
    <3>3. fetched'[open][p] = Newer(fetched[open][p], version[open])
      BY <2>2, <3>1, FetchedAfter
    <3> QED BY <2>2, <3>2, <3>3 DEF Newer
  <2>6. CASE \A p \in Part : fetched[open][p] = version[open]
    <3> SUFFICES ASSUME NEW p \in Part PROVE fetched'[open][p] = version[open]
      OBVIOUS
    <3>1. CASE r.budget = open
      <4>1. fetched'[open][p] = Newer(version[open], r.got[p])
        BY <2>2, <2>6, <3>1, FetchedAfter
      <4>2. r.got[p] \in Nat /\ r.got[p] <= version[open]
        BY <3>1, FetchedAfter
      <4> QED BY <2>2, <4>1, <4>2 DEF Newer
    <3>2. CASE r.budget # open
      BY <2>2, <2>6, <3>2, FetchedAfter
    <3> QED BY <3>1, <3>2
  <2> QED BY <2>1, <2>3, <2>4, <2>5, <2>6 DEF ClientInv, LatestOnItsWay, Reconnects
<1> QED BY <1>5, <1>6, <1>7, <1>8 DEF ClientInv

LEMMA FailPreserves ==
  ASSUME ClientInv, NEW r \in refreshes, FailRefresh(r)
  PROVE  ClientInv'
<1>1. /\ refreshes' = refreshes \ {r} /\ failed' = TRUE
      /\ UNCHANGED <<version, open, loading, shown, started, posted, sockets, ws, fetched>>
  BY DEF FailRefresh
<1>2. ClientTypeOK'
  BY <1>1 DEF ClientInv, ClientTypeOK, View, Call
<1>3. CallsUnique'
  BY <1>1 DEF ClientInv, CallsUnique
<1>4. FetchedBefore'
  BY <1>1 DEF ClientInv, FetchedBefore
<1>5. LatestOnItsWay'
  BY <1>1 DEF LatestOnItsWay, Listens
<1> QED BY <1>2, <1>3, <1>4, <1>5 DEF ClientInv

LEMMA SubscribePreserves ==
  ASSUME ClientInv, NEW s \in sockets, SubscribeSocket(s)
  PROVE  ClientInv'
<1>1. s \in Socket /\ version \in [BudgetId -> Nat]
  BY DEF ClientInv, ClientTypeOK, Version
<1>2. PICK live : live = [s EXCEPT !.phase = "live", !.from = version[s.budget]]
  OBVIOUS
<1>3. /\ live.call = s.call /\ live.budget = s.budget /\ live.from = version[s.budget]
      /\ live \in Socket /\ version[s.budget] \in Nat
  BY <1>1, <1>2 DEF Socket, Version
<1>4. /\ sockets' = (sockets \ {s}) \union {live}
      /\ UNCHANGED <<version, open, loading, shown, refreshes, started, posted, ws, fetched,
                     failed>>
  BY <1>2 DEF SubscribeSocket
<1>5. ClientTypeOK'
  BY <1>3, <1>4 DEF ClientInv, ClientTypeOK, View, Call
<1>6. CallsUnique'
  BY <1>3, <1>4 DEF ClientInv, CallsUnique
<1>7. FetchedBefore'
  BY <1>4 DEF ClientInv, FetchedBefore
<1>8. ~ Listens(live)'
  BY <1>3, <1>4 DEF Listens
<1>9. LatestOnItsWay'
  BY <1>8, <1>4 DEF ClientInv, LatestOnItsWay, Listens, FetchesLatest, Reconnects
<1> QED BY <1>5, <1>6, <1>7, <1>9 DEF ClientInv

LEMMA DropPreserves ==
  ASSUME ClientInv, NEW s \in sockets, DropSocket(s)
  PROVE  ClientInv'
<1>1. /\ sockets' \subseteq sockets
      /\ UNCHANGED <<version, open, loading, shown, refreshes, started, posted, ws, fetched,
                     failed>>
  BY DEF DropSocket
<1>2. ClientTypeOK'
  BY <1>1 DEF ClientInv, ClientTypeOK, View, Call
<1>3. CallsUnique'
  BY <1>1 DEF ClientInv, CallsUnique
<1>4. FetchedBefore'
  BY <1>1 DEF ClientInv, FetchedBefore
<1>5. LatestOnItsWay'
  BY <1>1 DEF ClientInv, LatestOnItsWay, Listens, FetchesLatest, Reconnects
<1> QED BY <1>2, <1>3, <1>4, <1>5 DEF ClientInv

\* An edit reaches every live channel of its budget.
LEMMA AppliedIs ==
  ASSUME ClientInv, NEW b \in BudgetId, Applied(b)
  PROVE  /\ version' = [version EXCEPT ![b] = @ + 1]
         /\ version' \in [BudgetId -> Nat]
         /\ \A c \in BudgetId : version[c] <= version'[c] /\ (c # b => version'[c] = version[c])
         /\ sockets' \subseteq Socket
         /\ \A t \in sockets' : \E s \in sockets :
              /\ t.call = s.call /\ t.budget = s.budget /\ t.phase = s.phase /\ t.from = s.from
              /\ s.queue <= t.queue
              /\ s.budget = b /\ s.phase = "live" => t.queue > 0
<1>1. /\ version' = [version EXCEPT ![b] = @ + 1]
      /\ sockets' = {IF s.budget = b /\ s.phase = "live" THEN [s EXCEPT !.queue = @ + 1] ELSE s :
                       s \in sockets}
  BY DEF Applied
<1>2. version \in [BudgetId -> Nat] /\ sockets \subseteq Socket
  BY DEF ClientInv, ClientTypeOK, Version
<1>3. ASSUME NEW s \in Socket
      PROVE  /\ [s EXCEPT !.queue = @ + 1] \in Socket
             /\ [s EXCEPT !.queue = @ + 1].call = s.call
             /\ [s EXCEPT !.queue = @ + 1].budget = s.budget
             /\ [s EXCEPT !.queue = @ + 1].phase = s.phase
             /\ [s EXCEPT !.queue = @ + 1].from = s.from
             /\ [s EXCEPT !.queue = @ + 1].queue > 0
             /\ s.queue <= [s EXCEPT !.queue = @ + 1].queue
             /\ s.queue <= s.queue
  BY DEF Socket, Version
<1>4. \A t \in sockets' : \E s \in sockets :
        t = IF s.budget = b /\ s.phase = "live" THEN [s EXCEPT !.queue = @ + 1] ELSE s
  BY <1>1
<1>5. /\ version' \in [BudgetId -> Nat]
      /\ \A c \in BudgetId : version[c] <= version'[c] /\ (c # b => version'[c] = version[c])
  BY <1>1, <1>2
<1>6. sockets' \subseteq Socket
  BY <1>2, <1>3, <1>4
<1>7. ASSUME NEW t \in sockets'
      PROVE  \E s \in sockets :
               /\ t.call = s.call /\ t.budget = s.budget /\ t.phase = s.phase /\ t.from = s.from
               /\ s.queue <= t.queue
               /\ s.budget = b /\ s.phase = "live" => t.queue > 0
  <2>1. PICK s \in sockets :
          t = IF s.budget = b /\ s.phase = "live" THEN [s EXCEPT !.queue = @ + 1] ELSE s
    BY <1>4
  <2> QED BY <1>2, <1>3, <2>1
<1> QED BY <1>1, <1>5, <1>6, <1>7

\* An edit made anywhere is in the queue of the channel that listens to its budget.
LEMMA EditPreserves ==
  ASSUME ClientInv, NEW b \in BudgetId, Applied(b), posted' \in Nat,
         UNCHANGED <<open, loading, shown, refreshes, started, ws, fetched, failed>>
  PROVE  ClientInv'
<1>1. ClientTypeOK'
  BY AppliedIs DEF ClientInv, ClientTypeOK, View, Call, Version
<1>2. CallsUnique'
  BY AppliedIs DEF ClientInv, CallsUnique
<1>3. FetchedBefore'
  <2>1. \A r \in refreshes, p \in Part : r.got[p] # Waiting => r.got[p] <= version'[r.budget]
    <3> SUFFICES ASSUME NEW r \in refreshes, NEW p \in Part, r.got[p] # Waiting
                 PROVE  r.got[p] <= version'[r.budget]
      OBVIOUS
    <3>1. r \in Refresh /\ version \in [BudgetId -> Nat]
      BY DEF ClientInv, ClientTypeOK, Version
    <3>2. r.budget \in BudgetId /\ r.got[p] \in Nat
      BY <3>1 DEF Refresh, Version
    <3>3. r.got[p] <= version[r.budget]
      BY DEF ClientInv, FetchedBefore
    <3> QED BY <3>1, <3>2, <3>3, AppliedIs
  <2>2. \A c \in BudgetId, p \in Part : fetched[c][p] <= version'[c]
    BY AppliedIs DEF ClientInv, ClientTypeOK, Version, FetchedBefore
  <2> QED BY <2>1, <2>2 DEF FetchedBefore
<1>4. LatestOnItsWay'
  <2> SUFFICES ASSUME NEW t \in sockets', Listens(t)'
               PROVE  \/ t.queue > 0
                      \/ \E r \in refreshes : FetchesLatest(r)' \/ Reconnects(r)
                      \/ \A p \in Part : fetched[open][p] = version'[open]
    BY DEF LatestOnItsWay, Reconnects
  <2>1. PICK s \in sockets :
          /\ t.call = s.call /\ t.budget = s.budget /\ t.phase = s.phase /\ t.from = s.from
          /\ s.queue <= t.queue
          /\ s.budget = b /\ s.phase = "live" => t.queue > 0
    BY AppliedIs
  <2>2. CASE b = open
    BY <2>1, <2>2 DEF Listens
  <2>3. CASE b # open
    <3>1. open \in BudgetId /\ version'[open] = version[open]
      BY <2>3, AppliedIs DEF Listens, ClientInv, ClientTypeOK
    <3>2. Listens(s)
      BY <2>1, <3>1 DEF Listens
    <3>3. s.queue \in Nat /\ t.queue \in Nat
      BY AppliedIs DEF ClientInv, ClientTypeOK, Socket, Version
    <3>4. \/ s.queue > 0
          \/ \E r \in refreshes : FetchesLatest(r) \/ Reconnects(r)
          \/ \A p \in Part : fetched[open][p] = version[open]
      BY <3>2 DEF ClientInv, LatestOnItsWay
    <3>5. \A r \in refreshes : FetchesLatest(r) => FetchesLatest(r)'
      BY <3>1 DEF FetchesLatest
    <3> QED BY <2>1, <3>1, <3>3, <3>4, <3>5
  <2> QED BY <2>2, <2>3
<1> QED BY <1>1, <1>2, <1>3, <1>4 DEF ClientInv

LEMMA AnsweredPreserves == ClientInv /\ EditAnswered => ClientInv'
<1> SUFFICES ASSUME ClientInv, EditAnswered PROVE ClientInv'
  OBVIOUS
<1>1. /\ StartRefresh(open, "nothing")
      /\ UNCHANGED <<version, open, shown, sockets, ws, fetched, failed>>
      /\ posted > 0 /\ posted' = posted - 1
  BY DEF EditAnswered
<1>2. posted' \in Nat /\ sockets' \subseteq Socket
      /\ \A t \in sockets' : \E s \in sockets : t.call = s.call
  BY <1>1 DEF ClientInv, ClientTypeOK
<1> QED BY <1>1, <1>2, RefreshOfOpen

LEMMA ReceivePreserves ==
  ASSUME ClientInv, NEW s \in sockets, ReceiveOp(s)
  PROVE  ClientInv'
<1>1. /\ StartRefresh(open, "nothing")
      /\ UNCHANGED <<version, open, shown, posted, ws, fetched, failed>>
      /\ s.queue > 0 /\ sockets' = (sockets \ {s}) \union {[s EXCEPT !.queue = @ - 1]}
  BY DEF ReceiveOp
<1>2. sockets \subseteq Socket /\ s \in Socket /\ posted \in Nat
  BY DEF ClientInv, ClientTypeOK
<1>3. [s EXCEPT !.queue = @ - 1] \in Socket /\ [s EXCEPT !.queue = @ - 1].call = s.call
  BY <1>1, <1>2 DEF Socket, Version
<1>4. posted' \in Nat /\ sockets' \subseteq Socket
      /\ \A t \in sockets' : \E q \in sockets : t.call = q.call
  BY <1>1, <1>2, <1>3
<1> QED BY <1>1, <1>4, RefreshOfOpen

----------------------------------------------------------------------------
LEMMA InitClientInv == ClientInit => ClientInv
<1> SUFFICES ASSUME ClientInit PROVE ClientInv
  OBVIOUS
<1>1. ClientTypeOK
  <2>1. 0 \in 0 .. MaxRefresh /\ 0 \in Nat
    BY RefreshAssumption
  <2>2. [b \in BudgetId |-> 0] \in [BudgetId -> Nat]
        /\ [b \in BudgetId |-> [p \in Part |-> 0]] \in [BudgetId -> [Part -> Nat]]
    OBVIOUS
  <2> QED BY <2>1, <2>2 DEF ClientInit, ClientTypeOK, Version
<1>2. CallsUnique
  BY DEF ClientInit, CallsUnique
<1>3. FetchedBefore
  BY DEF ClientInit, FetchedBefore
<1>4. LatestOnItsWay
  BY DEF ClientInit, LatestOnItsWay
<1> QED BY <1>1, <1>2, <1>3, <1>4 DEF ClientInv

\* What the client fetched, listens to and has queued is consistent, and the
\* latest version of an open budget is never lost on its way.
THEOREM ClientInvariant == ClientSpec => []ClientInv
<1>1. ClientInv /\ [ClientNext]_clientVars => ClientInv'
  <2> SUFFICES ASSUME ClientInv, [ClientNext]_clientVars PROVE ClientInv'
    OBVIOUS
  <2>1. CASE LeaveBudget
    BY <2>1, LeavePreserves
  <2>2. CASE PostEdit
    <3>1. /\ open \in BudgetId /\ Applied(open) /\ posted' \in Nat
          /\ UNCHANGED <<open, loading, shown, refreshes, started, ws, fetched, failed>>
      BY <2>2 DEF PostEdit, ClientInv, ClientTypeOK
    <3> QED BY <3>1, EditPreserves
  <2>3. CASE EditAnswered
    BY <2>3, AnsweredPreserves
  <2>4. ASSUME NEW b \in BudgetId, OpenBudget(b) PROVE ClientInv'
    BY <2>4, OpenPreserves
  <2>5. ASSUME NEW b \in BudgetId, RemoteEdit(b) PROVE ClientInv'
    <3>1. /\ Applied(b) /\ posted' \in Nat
          /\ UNCHANGED <<open, loading, shown, refreshes, started, ws, fetched, failed>>
      BY <2>5 DEF RemoteEdit, ClientInv, ClientTypeOK
    <3> QED BY <3>1, EditPreserves
  <2>6. ASSUME NEW r \in refreshes, NEW p \in Part, ServeFetch(r, p) PROVE ClientInv'
    BY <2>6, ServePreserves
  <2>7. ASSUME NEW r \in refreshes, FinishRefresh(r) PROVE ClientInv'
    BY <2>7, FinishPreserves
  <2>8. ASSUME NEW r \in refreshes, FailRefresh(r) PROVE ClientInv'
    BY <2>8, FailPreserves
  <2>9. ASSUME NEW s \in sockets, SubscribeSocket(s) PROVE ClientInv'
    BY <2>9, SubscribePreserves
  <2>10. ASSUME NEW s \in sockets, DropSocket(s) PROVE ClientInv'
    BY <2>10, DropPreserves
  <2>11. ASSUME NEW s \in sockets, ReceiveOp(s) PROVE ClientInv'
    BY <2>11, ReceivePreserves
  <2>12. CASE UNCHANGED clientVars
    <3>1. UNCHANGED <<version, open, loading, shown, refreshes, started, posted, sockets, ws,
                      fetched, failed>>
      BY <2>12 DEF clientVars
    <3>2. ClientTypeOK'
      BY <3>1 DEF ClientInv, ClientTypeOK, View, Call
    <3>3. CallsUnique' /\ FetchedBefore'
      BY <3>1 DEF ClientInv, CallsUnique, FetchedBefore
    <3>4. LatestOnItsWay'
      BY <3>1 DEF ClientInv, LatestOnItsWay, Listens, FetchesLatest, Reconnects
    <3> QED BY <3>2, <3>3, <3>4 DEF ClientInv
  <2> QED BY <2>1, <2>2, <2>3, <2>4, <2>5, <2>6, <2>7, <2>8, <2>9, <2>10, <2>11, <2>12
          DEF ClientNext
<1> QED BY InitClientInv, <1>1, PTL DEF ClientSpec

\* The state of the client keeps its types: a view has every part, a channel and
\* a refresh belong to a budget (store.ts, api.ts).
THEOREM ClientTypeCorrect == ClientSpec => []ClientTypeOK
<1>1. ClientInv => ClientTypeOK
  BY DEF ClientInv
<1> QED BY <1>1, ClientInvariant, PTL

\* Every part of the latest version of an open budget has arrived once nothing is
\* on its way any more, in whatever order the answers came (store.ts: openBudget,
\* refresh, "re-fetch on remote ops").
THEOREM LatestArrives == ClientSpec => []LatestHasArrived
<1>1. ClientInv => LatestHasArrived
  <2> SUFFICES ASSUME ClientInv, NEW s \in sockets, Settled(s), version[open] > s.from
               PROVE  \A p \in Part : fetched[open][p] = version[open]
    BY DEF LatestHasArrived
  <2>1. Listens(s) /\ s.queue = 0 /\ refreshes = {}
    BY DEF Settled, Listens
  <2> QED BY <2>1 DEF ClientInv, LatestOnItsWay
<1> QED BY <1>1, ClientInvariant, PTL

----------------------------------------------------------------------------
Ids == 1 .. issued

\* What a row, an add and an undo consist of.
Shapes ==
  /\ DOMAIN task = Task
  /\ \A i \in DOMAIN rows : DOMAIN rows[i] = {"of", "selected", "addedId", "error"}
  /\ \A t \in Running("add") : DOMAIN task[t] = {"kind", "rows", "todo", "id", "ids"}
  /\ \A t \in Running("undo") : DOMAIN task[t] = {"kind", "todo", "gone"}

\* Whatever goes by an id has been issued.
KnownIds ==
  /\ issued \in Nat
  /\ addedIds \subseteq Ids
  /\ \A t \in Running("add") : task[t].ids \subseteq Ids /\ task[t].id \in Ids \union {None}
  /\ \A t \in Running("undo") : task[t].todo \subseteq Ids

\* Between the recording of an actual and that of its evidence nobody else
\* knows the actual: no undo takes it back.
RecordedIsUnknown ==
  \A t \in Running("add") : task[t].id # None =>
    /\ task[t].id \in DOMAIN books
    /\ task[t].id \notin addedIds
    /\ \A u \in Running("add") :
         task[t].id \notin task[u].ids /\ (u # t => task[u].id # task[t].id)
    /\ \A u \in Running("undo") : task[t].id \notin task[u].todo

ReceiptInv == Shapes /\ KnownIds /\ RecordedIsUnknown /\ AddedRowsCanBeUndone

LEMMA InitReceipt == Init => ReceiptInv
<1> SUFFICES ASSUME Init PROVE ReceiptInv
  OBVIOUS
<1>1. \A t \in Task : task[t].kind = "idle"
  BY DEF Init, Idle
<1>2. Running("add") = {} /\ Running("undo") = {} /\ rows = <<>>
  BY <1>1 DEF Running, Init
<1>3. DOMAIN rows = {}
  BY <1>2
<1>4. DOMAIN task = Task /\ issued = 0 /\ addedIds = {}
  BY DEF Init
<1> QED
  BY <1>2, <1>3, <1>4 DEF ReceiptInv, Shapes, KnownIds, RecordedIsUnknown, AddedRowsCanBeUndone

\* Steps that neither add nor undo: rows are kept, ticked, or replaced by rows
\* that were not added.
LEMMA OtherSteps ==
  ASSUME ReceiptInv, UNCHANGED <<addedIds, books, evidence, issued>>,
         DOMAIN task' = Task,
         \A t \in Task : task'[t] = task[t] \/ {task[t].kind, task'[t].kind} \intersect {"add", "undo"} = {},
         \A i \in DOMAIN rows' :
           /\ DOMAIN rows'[i] = {"of", "selected", "addedId", "error"}
           /\ rows'[i].addedId = None \/ (i \in DOMAIN rows /\ rows'[i].addedId = rows[i].addedId)
  PROVE  ReceiptInv'
<1>1. /\ Running("add")' = Running("add") /\ Running("undo")' = Running("undo")
      /\ \A t \in Running("add") \union Running("undo") : task'[t] = task[t]
  BY DEF Running
<1>2. Shapes'
  BY <1>1 DEF ReceiptInv, Shapes
<1>3. KnownIds'
  BY <1>1 DEF ReceiptInv, KnownIds, Ids
<1>4. RecordedIsUnknown'
  BY <1>1 DEF ReceiptInv, RecordedIsUnknown
<1>5. AddedRowsCanBeUndone'
  <2>1. UNION {task'[t].ids : t \in Running("add")'} = UNION {task[t].ids : t \in Running("add")}
    BY <1>1
  <2> QED BY <1>1, <2>1 DEF ReceiptInv, AddedRowsCanBeUndone
<1> QED BY <1>2, <1>3, <1>4, <1>5 DEF ReceiptInv

\* One field of one row is set.
LEMMA SetRowSets ==
  ASSUME Shapes, NEW i, NEW field \in {"addedId", "error"}, NEW value, SetRow(i, field, value)
  PROVE  /\ DOMAIN rows' = DOMAIN rows
         /\ \A j \in DOMAIN rows :
              /\ DOMAIN rows'[j] = {"of", "selected", "addedId", "error"}
              /\ rows'[j].addedId = IF j = i /\ field = "addedId" THEN value ELSE rows[j].addedId
<1>1. CASE i \notin DOMAIN rows
  BY <1>1 DEF SetRow, Shapes
<1>2. CASE i \in DOMAIN rows
  <2>1. rows' = [rows EXCEPT ![i] = [rows[i] EXCEPT ![field] = value]]
    BY <1>2 DEF SetRow
  <2>2. DOMAIN rows' = DOMAIN rows /\ \A j \in DOMAIN rows :
          rows'[j] = IF j = i THEN [rows[i] EXCEPT ![field] = value] ELSE rows[j]
    BY <2>1
  <2> QED BY <1>2, <2>2 DEF Shapes
<1> QED BY <1>1, <1>2

LEMMA StartAddInv ==
  ASSUME ReceiptInv, NEW t \in Task, StartAdd(t)
  PROVE  ReceiptInv'
<1>1. /\ task[t].kind = "idle" /\ DOMAIN task' = Task
      /\ task'[t] = [kind |-> "add", rows |-> rows, todo |-> ToAdd(rows), id |-> None, ids |-> {}]
      /\ \A u \in Task \ {t} : task'[u] = task[u]
  BY DEF StartAdd, Start, Idle, ReceiptInv, Shapes
<1>2. /\ Running("add")' = Running("add") \union {t} /\ Running("undo")' = Running("undo")
      /\ t \notin Running("add") /\ t \notin Running("undo")
      /\ \A u \in Running("add") \union Running("undo") : task'[u] = task[u]
  BY <1>1 DEF Running
<1>3. UNCHANGED <<rows, addedIds, books, evidence, issued>>
  BY DEF StartAdd
<1>4. Shapes'
  BY <1>1, <1>2, <1>3 DEF ReceiptInv, Shapes
<1>5. KnownIds'
  BY <1>1, <1>2, <1>3 DEF ReceiptInv, KnownIds, Ids
<1>6. RecordedIsUnknown'
  BY <1>1, <1>2, <1>3 DEF ReceiptInv, RecordedIsUnknown
<1>7. AddedRowsCanBeUndone'
  BY <1>2, <1>3 DEF ReceiptInv, AddedRowsCanBeUndone
<1> QED BY <1>4, <1>5, <1>6, <1>7 DEF ReceiptInv

\* A step of an add: it remains one, and the other tasks are as they were.
LEMMA AddStep ==
  ASSUME ReceiptInv, NEW t \in Running("add"), DOMAIN task' = Task, task'[t].kind = "add",
         \A u \in Task \ {t} : task'[u] = task[u]
  PROVE  /\ Running("add")' = Running("add") /\ Running("undo")' = Running("undo")
         /\ t \notin Running("undo")
         /\ \A u \in Running("add") \ {t} : task'[u] = task[u]
         /\ \A u \in Running("undo") : task'[u] = task[u]
  BY DEF Running

LEMMA ProceedsTo ==
  ASSUME ReceiptInv, NEW t \in Running("add"), NEW ids, Proceeds(t, ids)
  PROVE  /\ DOMAIN task' = Task /\ task'[t].kind = "add"
         /\ DOMAIN task'[t] = {"kind", "rows", "todo", "id", "ids"}
         /\ task'[t].id = None /\ task'[t].ids = task[t].ids \union ids
         /\ task'[t].rows = task[t].rows /\ task'[t].todo = task[t].todo \ {Adds(t)}
         /\ \A u \in Task \ {t} : task'[u] = task[u]
<1>1. /\ t \in Task /\ task[t].kind = "add" /\ DOMAIN task = Task
      /\ DOMAIN task[t] = {"kind", "rows", "todo", "id", "ids"}
  BY DEF ReceiptInv, Shapes, Running
<1>2. task'[t] = [[[task[t] EXCEPT !.todo = @ \ {Adds(t)}] EXCEPT !.id = None]
                    EXCEPT !.ids = @ \union ids]
  BY <1>1 DEF Proceeds
<1>3. DOMAIN task' = Task /\ \A u \in Task \ {t} : task'[u] = task[u]
  BY <1>1 DEF Proceeds
<1> QED BY <1>1, <1>2, <1>3

LEMMA FailsInv ==
  ASSUME ReceiptInv, NEW t \in Task, RowFails(t) \/ AttachmentFails(t)
  PROVE  ReceiptInv'
<1>1. /\ t \in Running("add") /\ SetRow(Adds(t), "error", TRUE) /\ Proceeds(t, {})
      /\ UNCHANGED <<addedIds, books, evidence, issued>>
  BY DEF RowFails, AttachmentFails, Adding
<1>2. /\ DOMAIN rows' = DOMAIN rows
      /\ \A i \in DOMAIN rows : /\ DOMAIN rows'[i] = {"of", "selected", "addedId", "error"}
                                /\ rows'[i].addedId = rows[i].addedId
  BY <1>1, SetRowSets DEF ReceiptInv
<1>3. /\ DOMAIN task' = Task /\ task'[t].kind = "add"
      /\ DOMAIN task'[t] = {"kind", "rows", "todo", "id", "ids"}
      /\ task'[t].id = None /\ task'[t].ids = task[t].ids
      /\ \A u \in Task \ {t} : task'[u] = task[u]
  <2>1. task'[t].ids = task[t].ids \union {}
    BY <1>1, ProceedsTo
  <2>2. task[t].ids \union {} = task[t].ids
    BY <1>1 DEF ReceiptInv, KnownIds
  <2> QED BY <1>1, <2>1, <2>2, ProceedsTo
<1>4. /\ Running("add")' = Running("add") /\ Running("undo")' = Running("undo")
      /\ \A u \in Running("add") \ {t} : task'[u] = task[u]
      /\ \A u \in Running("undo") : task'[u] = task[u]
  BY <1>1, <1>3, AddStep
<1>5. Shapes'
  BY <1>2, <1>3, <1>4 DEF ReceiptInv, Shapes
<1>6. KnownIds'
  BY <1>1, <1>3, <1>4 DEF ReceiptInv, KnownIds, Ids
<1>7. RecordedIsUnknown'
  BY <1>1, <1>3, <1>4 DEF ReceiptInv, RecordedIsUnknown
<1>8. AddedRowsCanBeUndone'
  <2>1. \A u \in Running("add") : task'[u].ids = task[u].ids
    BY <1>3, <1>4
  <2> QED BY <1>1, <1>2, <1>4, <2>1 DEF ReceiptInv, AddedRowsCanBeUndone
<1> QED BY <1>5, <1>6, <1>7, <1>8 DEF ReceiptInv

LEMMA RecordInv ==
  ASSUME ReceiptInv, NEW t \in Task, RecordActual(t)
  PROVE  ReceiptInv'
<1>1. /\ t \in Running("add") /\ task[t].id = None
      /\ issued' = issued + 1 /\ UNCHANGED <<rows, addedIds, evidence>>
      /\ DOMAIN books' = DOMAIN books \union {issued + 1}
      /\ task' = [task EXCEPT ![t] = [task[t] EXCEPT !.id = issued + 1]]
  BY DEF RecordActual, Adding
<1>2. /\ DOMAIN task' = Task /\ task'[t].kind = "add"
      /\ DOMAIN task'[t] = {"kind", "rows", "todo", "id", "ids"}
      /\ task'[t].id = issued + 1 /\ task'[t].ids = task[t].ids
      /\ \A u \in Task \ {t} : task'[u] = task[u]
  BY <1>1 DEF ReceiptInv, Shapes, Running
<1>3. /\ Running("add")' = Running("add") /\ Running("undo")' = Running("undo")
      /\ \A u \in Running("add") \ {t} : task'[u] = task[u]
      /\ \A u \in Running("undo") : task'[u] = task[u]
  BY <1>1, <1>2, AddStep
<1>4. /\ issued \in Nat /\ issued + 1 \notin Ids /\ Ids \subseteq Ids' /\ issued + 1 \in Ids'
      /\ issued + 1 # None
  BY <1>1, NoneAssumption DEF ReceiptInv, KnownIds, Ids
<1>5. Shapes'
  BY <1>1, <1>2, <1>3 DEF ReceiptInv, Shapes
<1>6. KnownIds'
  <2>1. issued' \in Nat /\ addedIds' \subseteq Ids'
    BY <1>1, <1>4 DEF ReceiptInv, KnownIds
  <2>2. \A u \in Running("add")' : task'[u].ids \subseteq Ids' /\ task'[u].id \in Ids' \union {None}
    BY <1>1, <1>2, <1>3, <1>4 DEF ReceiptInv, KnownIds
  <2>3. \A u \in Running("undo")' : task'[u].todo \subseteq Ids'
    BY <1>3, <1>4 DEF ReceiptInv, KnownIds
  <2> QED BY <2>1, <2>2, <2>3 DEF KnownIds
<1>7. RecordedIsUnknown'
  <2> SUFFICES ASSUME NEW u \in Running("add"), task'[u].id # None
               PROVE  /\ task'[u].id \in DOMAIN books'
                      /\ task'[u].id \notin addedIds'
                      /\ \A v \in Running("add") :
                           /\ task'[u].id \notin task'[v].ids
                           /\ v # u => task'[v].id # task'[u].id
                      /\ \A v \in Running("undo") : task'[u].id \notin task'[v].todo
    BY <1>3 DEF RecordedIsUnknown
  <2>1. CASE u = t
    BY <1>1, <1>2, <1>3, <1>4, <2>1 DEF ReceiptInv, KnownIds
  <2>2. CASE u # t
    BY <1>1, <1>2, <1>3, <1>4, <2>2 DEF ReceiptInv, KnownIds, RecordedIsUnknown
  <2> QED BY <2>1, <2>2
<1>8. AddedRowsCanBeUndone'
  <2>1. \A u \in Running("add") : task'[u].ids = task[u].ids
    BY <1>2, <1>3
  <2> QED BY <1>1, <1>3, <2>1 DEF ReceiptInv, AddedRowsCanBeUndone
<1> QED BY <1>5, <1>6, <1>7, <1>8 DEF ReceiptInv

LEMMA SaveInv ==
  ASSUME ReceiptInv, NEW t \in Task, SaveAttachment(t)
  PROVE  ReceiptInv'
<1> DEFINE id == task[t].id
<1>1. /\ t \in Running("add") /\ id # None
      /\ evidence' = evidence \union {id} /\ UNCHANGED <<addedIds, books, issued>>
      /\ SetRow(Adds(t), "addedId", id) /\ Proceeds(t, {id})
  BY DEF SaveAttachment, Adding
<1>2. /\ DOMAIN rows' = DOMAIN rows
      /\ \A i \in DOMAIN rows : /\ DOMAIN rows'[i] = {"of", "selected", "addedId", "error"}
                                /\ rows'[i].addedId \in {rows[i].addedId, id}
  BY <1>1, SetRowSets DEF ReceiptInv
<1>3. /\ DOMAIN task' = Task /\ task'[t].kind = "add"
      /\ DOMAIN task'[t] = {"kind", "rows", "todo", "id", "ids"}
      /\ task'[t].id = None /\ task'[t].ids = task[t].ids \union {id}
      /\ \A u \in Task \ {t} : task'[u] = task[u]
  BY <1>1, ProceedsTo
<1>4. /\ Running("add")' = Running("add") /\ Running("undo")' = Running("undo")
      /\ \A u \in Running("add") \ {t} : task'[u] = task[u]
      /\ \A u \in Running("undo") : task'[u] = task[u]
  BY <1>1, <1>3, AddStep
<1>5. Shapes'
  BY <1>2, <1>3, <1>4 DEF ReceiptInv, Shapes
<1>6. KnownIds'
  <2>1. id \in Ids
    BY <1>1 DEF ReceiptInv, KnownIds
  <2> QED BY <1>1, <1>3, <1>4, <2>1 DEF ReceiptInv, KnownIds, Ids
<1>7. RecordedIsUnknown'
  BY <1>1, <1>3, <1>4 DEF ReceiptInv, RecordedIsUnknown
<1>8. AddedRowsCanBeUndone'
  <2>1. id \in DOMAIN books /\ id \in evidence' /\ id \in task'[t].ids
    BY <1>1, <1>3 DEF ReceiptInv, RecordedIsUnknown
  <2>2. \A u \in Running("add") : task[u].ids \subseteq task'[u].ids
    BY <1>3, <1>4
  <2>3. UNION {task[u].ids : u \in Running("add")} \subseteq UNION {task'[u].ids : u \in Running("add")}
    BY <2>2
  <2>4. id \in UNION {task'[u].ids : u \in Running("add")}
    BY <1>1, <2>1
  <2> QED BY <1>1, <1>2, <1>4, <2>1, <2>3, <2>4 DEF ReceiptInv, AddedRowsCanBeUndone
<1> QED BY <1>5, <1>6, <1>7, <1>8 DEF ReceiptInv

\* An add ends: it hands its ids to undo.
LEMMA FinishAddInv ==
  ASSUME ReceiptInv, NEW t \in Task, FinishAdd(t)
  PROVE  ReceiptInv'
<1>1. /\ t \in Running("add") /\ addedIds' = addedIds \union task[t].ids
      /\ UNCHANGED <<rows, books, evidence, issued>>
      /\ DOMAIN task' = Task /\ task'[t].kind = "refresh"
      /\ \A u \in Task \ {t} : task'[u] = task[u]
  BY DEF FinishAdd, ReceiptInv, Shapes
<1>2. /\ Running("add")' = Running("add") \ {t} /\ Running("undo")' = Running("undo")
      /\ t \notin Running("undo")
      /\ \A u \in Running("add")' \union Running("undo") : task'[u] = task[u]
  BY <1>1 DEF Running
<1>3. Shapes'
  BY <1>1, <1>2 DEF ReceiptInv, Shapes
<1>4. KnownIds'
  BY <1>1, <1>2 DEF ReceiptInv, KnownIds, Ids
<1>5. RecordedIsUnknown'
  BY <1>1, <1>2 DEF ReceiptInv, RecordedIsUnknown
<1>6. AddedRowsCanBeUndone'
  <2>1. addedIds \union UNION {task[u].ids : u \in Running("add")}
          \subseteq addedIds' \union UNION {task'[u].ids : u \in Running("add")'}
    BY <1>1, <1>2
  <2> QED BY <1>1, <1>2, <2>1 DEF ReceiptInv, AddedRowsCanBeUndone
<1> QED BY <1>3, <1>4, <1>5, <1>6 DEF ReceiptInv

LEMMA StartUndoInv ==
  ASSUME ReceiptInv, NEW t \in Task, StartUndo(t)
  PROVE  ReceiptInv'
<1>1. /\ task[t].kind = "idle" /\ DOMAIN task' = Task
      /\ task'[t] = [kind |-> "undo", todo |-> addedIds, gone |-> {}]
      /\ \A u \in Task \ {t} : task'[u] = task[u]
      /\ UNCHANGED <<rows, addedIds, books, evidence, issued>>
  BY DEF StartUndo, Start, Idle, ReceiptInv, Shapes
<1>2. /\ Running("add")' = Running("add") /\ Running("undo")' = Running("undo") \union {t}
      /\ t \notin Running("add") /\ t \notin Running("undo")
      /\ \A u \in Running("add") \union Running("undo") : task'[u] = task[u]
  BY <1>1 DEF Running
<1>3. Shapes'
  BY <1>1, <1>2 DEF ReceiptInv, Shapes
<1>4. KnownIds'
  <2>1. \A u \in Running("add")' :
          task'[u].ids \subseteq Ids /\ task'[u].id \in Ids \union {None}
    BY <1>2 DEF ReceiptInv, KnownIds
  <2>2. \A u \in Running("undo")' : task'[u].todo \subseteq Ids
    BY <1>1, <1>2 DEF ReceiptInv, KnownIds
  <2> QED BY <1>1, <2>1, <2>2 DEF ReceiptInv, KnownIds, Ids
<1>5. RecordedIsUnknown'
  BY <1>1, <1>2 DEF ReceiptInv, RecordedIsUnknown
<1>6. AddedRowsCanBeUndone'
  <2>1. \A u \in Running("add") : task'[u].ids = task[u].ids
    BY <1>2
  <2> QED BY <1>1, <1>2, <2>1 DEF ReceiptInv, AddedRowsCanBeUndone
<1> QED BY <1>3, <1>4, <1>5, <1>6 DEF ReceiptInv

\* An undo takes one actual back, or fails to.
LEMMA UndoOneInv ==
  ASSUME ReceiptInv, NEW t \in Task, NEW id, NEW removed \in BOOLEAN, NEW detached \in BOOLEAN,
         UndoOne(t, id, removed, detached)
  PROVE  ReceiptInv'
<1>1. /\ t \in Running("undo") /\ id \in task[t].todo /\ UNCHANGED <<rows, addedIds, issued>>
      /\ DOMAIN books \ {id} \subseteq DOMAIN books' /\ evidence \ {id} \subseteq evidence'
      /\ task' = [task EXCEPT ![t] = [[task[t] EXCEPT !.todo = @ \ {id}]
                                        EXCEPT !.gone = @ \union {id}]]
  BY DEF UndoOne
<1>2. /\ DOMAIN task' = Task /\ task'[t].kind = "undo"
      /\ DOMAIN task'[t] = {"kind", "todo", "gone"}
      /\ task'[t].todo = task[t].todo \ {id} /\ task'[t].gone = task[t].gone \union {id}
      /\ \A u \in Task \ {t} : task'[u] = task[u]
  BY <1>1 DEF ReceiptInv, Shapes, Running
<1>3. /\ Running("add")' = Running("add") /\ Running("undo")' = Running("undo")
      /\ t \notin Running("add")
      /\ \A u \in Running("undo") \ {t} : task'[u] = task[u]
      /\ \A u \in Running("add") : task'[u] = task[u]
  BY <1>1, <1>2 DEF Running
<1>4. Shapes'
  BY <1>1, <1>2, <1>3 DEF ReceiptInv, Shapes
<1>5. KnownIds'
  <2>1. \A u \in Running("undo") : task'[u].todo \subseteq task[u].todo
    BY <1>2, <1>3
  <2> QED BY <1>1, <1>3, <2>1 DEF ReceiptInv, KnownIds, Ids
<1>6. RecordedIsUnknown'
  <2>1. \A u \in Running("undo") : task'[u].todo \subseteq task[u].todo
    BY <1>2, <1>3
  <2> SUFFICES ASSUME NEW u \in Running("add"), task[u].id # None
               PROVE  /\ task[u].id \in DOMAIN books' /\ task[u].id \notin addedIds
                      /\ \A v \in Running("add") :
                           task[u].id \notin task[v].ids /\ (v # u => task[v].id # task[u].id)
                      /\ \A v \in Running("undo") : task[u].id \notin task'[v].todo
    BY <1>1, <1>3 DEF RecordedIsUnknown
  <2>2. task[u].id # id
    BY <1>1 DEF ReceiptInv, RecordedIsUnknown
  <2> QED BY <1>1, <2>1, <2>2 DEF ReceiptInv, RecordedIsUnknown
<1>7. AddedRowsCanBeUndone'
  <2>1. \A u \in Running("add") : task'[u].ids = task[u].ids
    BY <1>3
  <2>2. id \in task'[t].gone /\ \A u \in Running("undo") : task[u].gone \subseteq task'[u].gone
    BY <1>2, <1>3
  <2>3. ASSUME NEW i \in DOMAIN rows, rows[i].addedId # None
        PROVE  \/ rows[i].addedId \in DOMAIN books' /\ rows[i].addedId \in evidence'
               \/ \E u \in Running("undo") : rows[i].addedId \in task'[u].gone
    <3>1. CASE rows[i].addedId = id
      BY <1>1, <2>2, <3>1
    <3>2. CASE rows[i].addedId # id
      BY <1>1, <2>2, <2>3, <3>2 DEF ReceiptInv, AddedRowsCanBeUndone
    <3> QED BY <3>1, <3>2
  <2> QED BY <1>1, <1>3, <2>1, <2>3 DEF ReceiptInv, AddedRowsCanBeUndone
<1> QED BY <1>4, <1>5, <1>6, <1>7 DEF ReceiptInv

\* An undo ends: no row is marked any more, and no id is known.
LEMMA FinishUndoInv ==
  ASSUME ReceiptInv, NEW t \in Task, FinishUndo(t)
  PROVE  ReceiptInv'
<1>1. /\ t \in Running("undo") /\ addedIds' = {} /\ UNCHANGED <<books, evidence, issued>>
      /\ rows' = [i \in DOMAIN rows |-> [rows[i] EXCEPT !.addedId = None]]
      /\ DOMAIN task' = Task /\ task'[t].kind = "refresh"
      /\ \A u \in Task \ {t} : task'[u] = task[u]
  BY DEF FinishUndo, ReceiptInv, Shapes
<1>2. /\ Running("add")' = Running("add") /\ Running("undo")' = Running("undo") \ {t}
      /\ \A u \in Running("add") \union Running("undo")' : task'[u] = task[u]
  BY <1>1 DEF Running
<1>3. \A i \in DOMAIN rows' : /\ DOMAIN rows'[i] = {"of", "selected", "addedId", "error"}
                               /\ rows'[i].addedId = None
  BY <1>1 DEF ReceiptInv, Shapes
<1>4. Shapes'
  BY <1>1, <1>2, <1>3 DEF ReceiptInv, Shapes
<1>5. KnownIds'
  BY <1>1, <1>2 DEF ReceiptInv, KnownIds, Ids
<1>6. RecordedIsUnknown'
  BY <1>1, <1>2 DEF ReceiptInv, RecordedIsUnknown
<1>7. AddedRowsCanBeUndone'
  BY <1>3 DEF AddedRowsCanBeUndone
<1> QED BY <1>4, <1>5, <1>6, <1>7 DEF ReceiptInv

LEMMA NextReceipt == ReceiptInv /\ [Next]_vars => ReceiptInv'
<1> SUFFICES ASSUME ReceiptInv, [Next]_vars PROVE ReceiptInv'
  OBVIOUS
<1>1. ASSUME Review PROVE ReceiptInv'
  BY <1>1, OtherSteps DEF Review, ReceiptInv, Shapes
<1>2. ASSUME NEW p \in Photo, ChoosePhoto(p) \/ PhotoRead(p) \/ SegmentFails(p) \/ (\E found : Segmented(p, found))
      PROVE  ReceiptInv'
  BY <1>1, <1>2 DEF ChoosePhoto, PhotoRead, Segmented, SegmentFails
<1>3. CASE AddBox \/ BackToBoxes
  BY <1>1, <1>3 DEF AddBox, EditBoxes, BackToBoxes
<1>4. ASSUME NEW i \in DOMAIN boxes, NEW dx \in Drags, NEW dy \in Drags,
             MoveBox(i, dx, dy) \/ ResizeBox(i, dx, dy)
      PROVE  ReceiptInv'
  BY <1>1, <1>4 DEF MoveBox, ResizeBox, EditBoxes
<1>5. ASSUME NEW i \in DOMAIN boxes, RemoveBox(i) PROVE ReceiptInv'
  BY <1>1, <1>5 DEF RemoveBox, EditBoxes
<1>6. ASSUME NEW i \in DOMAIN rows, NEW b \in BOOLEAN, SelectRow(i, b) PROVE ReceiptInv'
  <2>1. /\ rows' = [rows EXCEPT ![i] = [rows[i] EXCEPT !.selected = b]]
        /\ UNCHANGED <<addedIds, task, books, evidence, issued>>
    BY <1>6 DEF SelectRow
  <2>2. \A j \in DOMAIN rows' : /\ j \in DOMAIN rows
                                /\ DOMAIN rows'[j] = {"of", "selected", "addedId", "error"}
                                /\ rows'[j].addedId = rows[j].addedId
    BY <2>1 DEF ReceiptInv, Shapes
  <2> QED BY <2>1, <2>2, OtherSteps DEF ReceiptInv, Shapes
<1>7. ASSUME NEW t \in Task, StartScan(t) PROVE ReceiptInv'
  <2>1. /\ DOMAIN task' = Task /\ task[t].kind = "idle" /\ task'[t].kind = "scan"
        /\ \A u \in Task \ {t} : task'[u] = task[u]
        /\ UNCHANGED <<rows, addedIds, books, evidence, issued>>
    BY <1>7 DEF StartScan, Start, Idle, ReceiptInv, Shapes
  <2> QED BY <2>1, OtherSteps DEF ReceiptInv, Shapes
<1>8. ASSUME NEW t \in Task, ScanThrows(t) \/ Refreshed(t) \/ RefreshThrows(t) PROVE ReceiptInv'
  <2>1. /\ DOMAIN task' = Task /\ task[t].kind \in {"scan", "refresh"} /\ task'[t].kind = "idle"
        /\ \A u \in Task \ {t} : task'[u] = task[u]
        /\ UNCHANGED <<rows, addedIds, books, evidence, issued>>
    BY <1>8 DEF ScanThrows, Refreshed, RefreshThrows, Ends, Idle, Running, ReceiptInv, Shapes
  <2> QED BY <2>1, OtherSteps DEF ReceiptInv, Shapes
<1>9. ASSUME NEW t \in Task, NEW read, FinishScan(t, read) PROVE ReceiptInv'
  <2>1. /\ DOMAIN task' = Task /\ task[t].kind = "scan" /\ task'[t].kind = "idle"
        /\ \A u \in Task \ {t} : task'[u] = task[u]
        /\ rows' = [i \in DOMAIN read |-> Row(task[t].n, i, read[i])]
        /\ UNCHANGED <<addedIds, books, evidence, issued>>
    BY <1>9 DEF FinishScan, Ends, Idle, Running, ReceiptInv, Shapes
  <2>2. \A i \in DOMAIN rows' : /\ DOMAIN rows'[i] = {"of", "selected", "addedId", "error"}
                                /\ rows'[i].addedId = None
    BY <2>1 DEF Row
  <2> QED BY <2>1, <2>2, OtherSteps
<1>10. ASSUME NEW t \in Task, StartAdd(t) \/ RowFails(t) \/ AttachmentFails(t) PROVE ReceiptInv'
  BY <1>10, StartAddInv, FailsInv
<1>11. ASSUME NEW t \in Task, RecordActual(t) \/ SaveAttachment(t) PROVE ReceiptInv'
  BY <1>11, RecordInv, SaveInv
<1>12. ASSUME NEW t \in Task, FinishAdd(t) \/ StartUndo(t) \/ FinishUndo(t) PROVE ReceiptInv'
  BY <1>12, FinishAddInv, StartUndoInv, FinishUndoInv
<1>13. ASSUME NEW t \in Task, NEW id \in addedIds \union DOMAIN books, NEW removed \in BOOLEAN,
              NEW detached \in BOOLEAN, UndoOne(t, id, removed, detached)
       PROVE  ReceiptInv'
  BY <1>13, UndoOneInv
<1>14. CASE UNCHANGED vars
  BY <1>14, OtherSteps DEF vars, ReceiptInv, Shapes
<1> QED
  BY <1>2, <1>3, <1>4, <1>5, <1>6, <1>7, <1>8, <1>9, <1>10, <1>11, <1>12, <1>13, <1>14 DEF Next

\* A row that is marked as added has its actual and its evidence and can be
\* undone, or an undo that is running has been there, however many scans, adds
\* and undos overlap and whichever of their steps fail
\* (ReceiptScanPanel.tsx, addSelected and undo).
THEOREM AddedCanBeUndone == Spec => []AddedRowsCanBeUndone
<1>1. Spec => []ReceiptInv
  BY InitReceipt, NextReceipt, PTL DEF Spec
<1>2. ReceiptInv => AddedRowsCanBeUndone
  BY DEF ReceiptInv
<1> QED BY <1>1, <1>2, PTL

\* An actual whose evidence is still being kept is never taken back by an undo
\* (saveReceiptAttachment runs after addActual).
THEOREM RecordedStaysUnknown == Spec => []RecordedIsUnknown
<1>1. Spec => []ReceiptInv
  BY InitReceipt, NextReceipt, PTL DEF Spec
<1>2. ReceiptInv => RecordedIsUnknown
  BY DEF ReceiptInv
<1> QED BY <1>1, <1>2, PTL

----------------------------------------------------------------------------
(***************************************************************************)
(* Which rows are in the books.  A row is named after its scan and its     *)
(* place, and nobody knows those of a scan that is running.                *)
(***************************************************************************)
Scanning == {task[t].n : t \in Running("scan")}
Finished == (1 .. scans) \ Scanning

\* Row i is the i-th of a finished scan.
Named(rs) == \A i \in DOMAIN rs : i \in Nat /\ \E n \in Finished : rs[i].of = <<n, i>>

ScansInv ==
  /\ scans \in Nat
  /\ \A t \in Running("scan") : DOMAIN task[t] = {"kind", "n", "boxes"} /\ task[t].n \in 1 .. scans
  /\ \A t, u \in Running("scan") : task[t].n = task[u].n => t = u

NamesInv ==
  /\ Named(rows)
  /\ \A t \in Running("add") : Named(task[t].rows) /\ task[t].todo \subseteq DOMAIN task[t].rows
  /\ DOMAIN books \subseteq Ids
  /\ \A x \in DOMAIN books : books[x][1] \in Finished

\* At most one add or undo runs.
Alone == \A t, u \in Running("add") \union Running("undo") : t = u

\* Of the rows an add has still to record, only the one at hand may be in
\* the books.
LeftInv ==
  \A t \in Running("add") :
    /\ \A k \in task[t].todo, x \in DOMAIN books :
         books[x] = task[t].rows[k].of => x = task[t].id /\ k = Adds(t)
    /\ task[t].id # None =>
         task[t].todo # {} /\ books[task[t].id] = task[t].rows[Adds(t)].of

\* An undo goes through everything undo is told of.
UndoneInv ==
  \A t \in Running("undo") :
    /\ addedIds \subseteq task[t].todo \union task[t].gone
    /\ task[t].gone \intersect DOMAIN books = {}

\* A row that is not in error and whose actual is in the books can be undone,
\* and is marked as added once its evidence is there.
AccountedInv ==
  \A i \in DOMAIN rows, x \in DOMAIN books :
    books[x] = rows[i].of /\ ~ rows[i].error =>
      /\ \/ x \in addedIds
         \/ \E t \in Running("add") : x \in task[t].ids \union {task[t].id}
      /\ rows[i].addedId = None => \E t \in Running("add") : x = task[t].id

OnceInv == ~ overlapped => RecordedOnce /\ Alone /\ LeftInv /\ UndoneInv /\ AccountedInv

BooksInv == ScansInv /\ NamesInv /\ OnceInv

LEMMA InitBooks == Init => BooksInv
<1> SUFFICES ASSUME Init PROVE BooksInv
  OBVIOUS
<1>1. \A t \in Task : task[t].kind = "idle"
  BY DEF Init, Idle
<1>2. /\ Running("add") = {} /\ Running("undo") = {} /\ Running("scan") = {}
      /\ rows = <<>> /\ books = <<>> /\ scans = 0
  BY <1>1 DEF Running, Init
<1>3. DOMAIN rows = {} /\ DOMAIN books = {}
  BY <1>2
<1>4. ScansInv
  BY <1>2 DEF ScansInv
<1>5. NamesInv
  BY <1>2, <1>3 DEF NamesInv, Named
<1>6. OnceInv
  BY <1>2, <1>3 DEF OnceInv, RecordedOnce, Alone, LeftInv, UndoneInv, AccountedInv
<1> QED BY <1>4, <1>5, <1>6 DEF BooksInv

LEMMA Smallest ==
  ASSUME NEW S \in SUBSET Nat, S # {}
  PROVE  \E i \in S : \A j \in S : i =< j
<1> DEFINE R == OpToRel(<, Nat)
<1>1. \A m, n \in Nat : m < n => <<m, n>> \in R
  BY DEF OpToRel
<1>2. IsWellFoundedOn(R, Nat)
  BY NatLessThanWellFounded
<1>3. PICK i \in S : \A j \in S : ~ (<<j, i>> \in R)
  <2> HIDE DEF R
  <2> QED BY <1>2, WFMin
<1> HIDE DEF R
<1>4. ASSUME NEW j \in S PROVE i =< j
  <2>1. i \in Nat /\ j \in Nat
    OBVIOUS
  <2>2. ~ (j < i)
    BY <1>1, <1>3, <2>1
  <2> QED BY <2>1, <2>2
<1> QED BY <1>4

\* An add is at a row of those it was started with.
LEMMA AddsOne ==
  ASSUME NamesInv, NEW t \in Task, Adding(t)
  PROVE  Adds(t) \in task[t].todo /\ Adds(t) \in DOMAIN task[t].rows
<1>1. t \in Running("add") /\ task[t].todo # {}
  BY DEF Adding
<1>2. task[t].todo \subseteq DOMAIN task[t].rows /\ task[t].todo \in SUBSET Nat
  BY <1>1 DEF NamesInv, Named
<1>3. \E i \in task[t].todo : \A j \in task[t].todo : i =< j
  BY <1>1, <1>2, Smallest
<1> QED BY <1>2, <1>3 DEF Adds, Ext!Min

\* Two copies of a row have one place.
LEMMA OnePlace ==
  ASSUME NEW rs, Named(rs), NEW qs, Named(qs), NEW i \in DOMAIN rs, NEW j \in DOMAIN qs,
         rs[i].of = qs[j].of
  PROVE  i = j
  BY DEF Named

\* The steps of adds and undos leave the scans alone.
LEMMA KeepScans ==
  ASSUME ScansInv, scans' = scans, Running("scan")' \subseteq Running("scan"),
         \A t \in Running("scan")' : task'[t] = task[t]
  PROVE  ScansInv' /\ Finished \subseteq Finished'
<1>1. Scanning' \subseteq Scanning
  BY DEF Scanning
<1>2. Finished \subseteq Finished'
  BY <1>1 DEF Finished
<1>3. ScansInv'
  BY DEF ScansInv
<1> QED BY <1>2, <1>3

LEMMA KeepNames ==
  ASSUME NamesInv, Finished \subseteq Finished', Ids \subseteq Ids',
         DOMAIN rows' = DOMAIN rows, \A i \in DOMAIN rows : rows'[i].of = rows[i].of,
         Running("add")' \subseteq Running("add"),
         \A t \in Running("add")' : task'[t].rows = task[t].rows /\ task'[t].todo \subseteq task[t].todo,
         DOMAIN books' \subseteq DOMAIN books, \A x \in DOMAIN books' : books'[x] = books[x]
  PROVE  NamesInv'
<1>1. ASSUME NEW rs, NEW qs, Named(rs), DOMAIN qs = DOMAIN rs,
             \A i \in DOMAIN rs : qs[i].of = rs[i].of
      PROVE  \A i \in DOMAIN qs : i \in Nat /\ \E n \in Finished' : qs[i].of = <<n, i>>
  BY <1>1 DEF Named
<1>2. Named(rows)'
  BY <1>1 DEF NamesInv, Named
<1>3. \A t \in Running("add")' :
        Named(task[t].rows)' /\ task'[t].todo \subseteq DOMAIN task'[t].rows
  BY <1>1 DEF NamesInv, Named
<1>4. DOMAIN books' \subseteq Ids' /\ \A x \in DOMAIN books' : books'[x][1] \in Finished'
  BY DEF NamesInv
<1> QED BY <1>2, <1>3, <1>4 DEF NamesInv

\* Who is running after a step of one task.
LEMMA OneTask ==
  ASSUME NEW t \in Task, \A u \in Task \ {t} : task'[u] = task[u]
  PROVE  \A k :
           /\ t \in Running(k) <=> task[t].kind = k
           /\ task'[t].kind = k => Running(k)' = Running(k) \union {t}
           /\ task'[t].kind # k => Running(k)' = Running(k) \ {t}
           /\ task'[t].kind # k /\ task[t].kind # k => Running(k)' = Running(k)
           /\ \A u \in Running(k) : u # t => task'[u] = task[u]
<1> SUFFICES ASSUME NEW k
             PROVE  /\ t \in Running(k) <=> task[t].kind = k
                    /\ task'[t].kind = k => Running(k)' = Running(k) \union {t}
                    /\ task'[t].kind # k => Running(k)' = Running(k) \ {t}
                    /\ task'[t].kind # k /\ task[t].kind # k => Running(k)' = Running(k)
                    /\ \A u \in Running(k) : u # t => task'[u] = task[u]
  OBVIOUS
<1> QED BY DEF Running

\* What SetRow leaves of the other fields.
LEMMA SetRowKeeps ==
  ASSUME Shapes, NEW i, NEW field \in {"addedId", "error"}, NEW value, SetRow(i, field, value)
  PROVE  /\ DOMAIN rows' = DOMAIN rows
         /\ \A j \in DOMAIN rows :
              /\ rows'[j].of = rows[j].of
              /\ rows'[j].error = IF j = i /\ field = "error" THEN value ELSE rows[j].error
<1>1. CASE i \notin DOMAIN rows
  BY <1>1 DEF SetRow
<1>2. CASE i \in DOMAIN rows
  <2>1. rows' = [rows EXCEPT ![i] = [rows[i] EXCEPT ![field] = value]]
    BY <1>2 DEF SetRow
  <2>2. DOMAIN rows' = DOMAIN rows /\ \A j \in DOMAIN rows :
          rows'[j] = IF j = i THEN [rows[i] EXCEPT ![field] = value] ELSE rows[j]
    BY <2>1
  <2> QED BY <1>2, <2>2 DEF Shapes
<1> QED BY <1>1, <1>2

\* Steps that neither add nor undo and keep the rows, but for what is ticked.
LEMMA OtherBooks ==
  ASSUME BooksInv, UNCHANGED <<addedIds, books, issued, overlapped>>,
         ScansInv', Finished \subseteq Finished',
         \A t \in Task : task'[t] = task[t] \/ {task[t].kind, task'[t].kind} \intersect {"add", "undo"} = {},
         DOMAIN rows' = DOMAIN rows,
         \A i \in DOMAIN rows : /\ rows'[i].of = rows[i].of
                                /\ rows'[i].addedId = rows[i].addedId
                                /\ rows'[i].error = rows[i].error
  PROVE  BooksInv'
<1>1. /\ Running("add")' = Running("add") /\ Running("undo")' = Running("undo")
      /\ \A t \in Running("add") \union Running("undo") : task'[t] = task[t]
  BY DEF Running
<1>2. NamesInv'
  BY <1>1, KeepNames DEF BooksInv, Ids
<1>3. ASSUME ~ overlapped
      PROVE  RecordedOnce' /\ Alone' /\ LeftInv' /\ UndoneInv' /\ AccountedInv'
  <2>1. RecordedOnce /\ Alone /\ LeftInv /\ UndoneInv /\ AccountedInv
    BY <1>3 DEF BooksInv, OnceInv
  <2>2. RecordedOnce' /\ Alone'
    BY <1>1, <2>1 DEF RecordedOnce, Alone
  <2>3. LeftInv'
    BY <1>1, <2>1 DEF LeftInv, Adds
  <2>4. UndoneInv'
    BY <1>1, <2>1 DEF UndoneInv
  <2>5. AccountedInv'
    BY <1>1, <2>1 DEF AccountedInv
  <2> QED BY <2>2, <2>3, <2>4, <2>5
<1> QED BY <1>2, <1>3 DEF BooksInv, OnceInv

LEMMA StartScanBooks ==
  ASSUME Shapes, BooksInv, NEW t \in Task, StartScan(t)
  PROVE  BooksInv'
<1>1. /\ task[t].kind = "idle" /\ scans' = scans + 1
      /\ task'[t] = [kind |-> "scan", n |-> scans + 1, boxes |-> Len(boxes)]
      /\ \A u \in Task \ {t} : task'[u] = task[u]
      /\ UNCHANGED <<rows, addedIds, books, issued, overlapped>>
  BY DEF StartScan, Start, Idle, Shapes
<1>2. /\ Running("scan")' = Running("scan") \union {t} /\ t \notin Running("scan")
      /\ \A u \in Running("scan") : task'[u] = task[u]
  BY <1>1, OneTask
<1>3. scans \in Nat /\ ScansInv
  BY DEF BooksInv, ScansInv
<1>4. ScansInv'
  BY <1>1, <1>2, <1>3 DEF ScansInv
<1>5. Finished \subseteq Finished'
  <2>1. Scanning' = Scanning \union {scans + 1}
    BY <1>1, <1>2 DEF Scanning
  <2> QED BY <1>1, <1>3, <2>1 DEF Finished
<1> QED BY <1>1, <1>4, <1>5, OtherBooks

\* A scan ends without rows, or a refresh does.
LEMMA TaskEndsBooks ==
  ASSUME Shapes, BooksInv, NEW t \in Task, ScanThrows(t) \/ Refreshed(t) \/ RefreshThrows(t)
  PROVE  BooksInv'
<1>1. /\ task[t].kind \in {"scan", "refresh"} /\ task'[t].kind = "idle"
      /\ \A u \in Task \ {t} : task'[u] = task[u]
      /\ UNCHANGED <<rows, addedIds, books, issued, scans, overlapped>>
  BY DEF ScanThrows, Refreshed, RefreshThrows, Ends, Idle, Running, Shapes
<1>2. /\ Running("scan")' = Running("scan") \ {t}
      /\ \A u \in Running("scan") \ {t} : task'[u] = task[u]
  BY <1>1, OneTask
<1>3. ScansInv' /\ Finished \subseteq Finished'
  BY <1>1, <1>2, KeepScans DEF BooksInv
<1> QED BY <1>1, <1>3, OtherBooks

\* A scan ends: its rows are rows that nobody knew.
LEMMA FinishScanBooks ==
  ASSUME Shapes, BooksInv, NEW t \in Task, NEW read, FinishScan(t, read)
  PROVE  BooksInv'
<1> DEFINE n == task[t].n
<1>1. /\ t \in Running("scan") /\ task[t].kind = "scan" /\ task'[t].kind = "idle"
      /\ \A u \in Task \ {t} : task'[u] = task[u]
      /\ DOMAIN read = 1 .. task[t].boxes
      /\ rows' = [i \in DOMAIN read |-> Row(n, i, read[i])]
      /\ UNCHANGED <<addedIds, books, issued, scans, overlapped>>
  BY DEF FinishScan, Ends, Idle, Running, Shapes
<1>2. /\ Running("scan")' = Running("scan") \ {t}
      /\ Running("add")' = Running("add") /\ Running("undo")' = Running("undo")
      /\ \A u \in Running("scan") \ {t} : task'[u] = task[u]
      /\ \A u \in Running("add") \union Running("undo") : task'[u] = task[u]
  BY <1>1, OneTask
<1>3. ScansInv' /\ Finished \subseteq Finished'
  BY <1>1, <1>2, KeepScans DEF BooksInv
<1>4. n \in Finished' /\ n \notin Finished
  <2>1. n \in 1 .. scans /\ \A u \in Running("scan") \ {t} : task[u].n # n
    BY <1>1 DEF BooksInv, ScansInv
  <2>2. n \in Scanning /\ n \notin Scanning'
    BY <1>1, <1>2, <2>1 DEF Scanning
  <2> QED BY <1>1, <2>1, <2>2 DEF Finished
<1>5. \A i \in DOMAIN rows' : i \in Nat /\ rows'[i].of = <<n, i>>
  BY <1>1 DEF Row
<1> HIDE DEF n
<1>6. NamesInv'
  <2>1. Named(rows)'
    BY <1>4, <1>5 DEF Named
  <2>2. \A u \in Running("add")' :
          Named(task[u].rows)' /\ task'[u].todo \subseteq DOMAIN task'[u].rows
    BY <1>2, <1>3 DEF BooksInv, NamesInv, Named
  <2>3. DOMAIN books' \subseteq Ids' /\ \A x \in DOMAIN books' : books'[x][1] \in Finished'
    BY <1>1, <1>3 DEF BooksInv, NamesInv, Ids
  <2> QED BY <2>1, <2>2, <2>3 DEF NamesInv
<1>7. ASSUME ~ overlapped
      PROVE  RecordedOnce' /\ Alone' /\ LeftInv' /\ UndoneInv' /\ AccountedInv'
  <2>1. RecordedOnce /\ Alone /\ LeftInv /\ UndoneInv /\ AccountedInv
    BY <1>7 DEF BooksInv, OnceInv
  <2>2. RecordedOnce' /\ Alone'
    BY <1>1, <1>2, <2>1 DEF RecordedOnce, Alone
  <2>3. LeftInv'
    BY <1>1, <1>2, <2>1 DEF LeftInv, Adds
  <2>4. UndoneInv'
    BY <1>1, <1>2, <2>1 DEF UndoneInv
  <2>5. AccountedInv'
    <3>1. ASSUME NEW i \in DOMAIN rows', NEW x \in DOMAIN books, books[x] = rows'[i].of
          PROVE  FALSE
      <4>1. books[x][1] \in Finished
        BY DEF BooksInv, NamesInv
      <4> QED BY <1>4, <1>5, <3>1, <4>1
    <3> QED BY <1>1, <3>1 DEF AccountedInv
  <2> QED BY <2>2, <2>3, <2>4, <2>5
<1> QED BY <1>1, <1>3, <1>6, <1>7 DEF BooksInv, OnceInv

\* An add starts: what it goes through is not in the books.
LEMMA StartAddBooks ==
  ASSUME Shapes, BooksInv, NEW t \in Task, StartAdd(t)
  PROVE  BooksInv'
<1>1. /\ task[t].kind = "idle"
      /\ task'[t] = [kind |-> "add", rows |-> rows, todo |-> ToAdd(rows), id |-> None, ids |-> {}]
      /\ \A u \in Task \ {t} : task'[u] = task[u]
      /\ overlapped' = (overlapped \/ Running("add") \union Running("undo") # {})
      /\ UNCHANGED <<rows, addedIds, books, issued, scans>>
  BY DEF StartAdd, Start, Idle, Shapes
<1>2. /\ Running("scan")' = Running("scan")
      /\ Running("add")' = Running("add") \union {t} /\ Running("undo")' = Running("undo")
      /\ t \notin Running("add")
      /\ \A u \in Running("scan") \union Running("add") \union Running("undo") : task'[u] = task[u]
  BY <1>1, OneTask
<1>3. ScansInv' /\ Finished' = Finished
  <2>1. Scanning' = Scanning
    BY <1>2 DEF Scanning
  <2> QED BY <1>1, <1>2, <2>1, KeepScans DEF BooksInv, Finished
<1>4. NamesInv'
  <2>1. Named(rows)' /\ ToAdd(rows) \subseteq DOMAIN rows
    BY <1>1, <1>3 DEF BooksInv, NamesInv, Named, ToAdd
  <2>2. \A u \in Running("add")' :
          Named(task[u].rows)' /\ task'[u].todo \subseteq DOMAIN task'[u].rows
    BY <1>1, <1>2, <1>3, <2>1 DEF BooksInv, NamesInv, Named
  <2> QED BY <1>1, <1>3, <2>1, <2>2 DEF BooksInv, NamesInv, Ids
<1>5. ASSUME ~ overlapped'
      PROVE  RecordedOnce' /\ Alone' /\ LeftInv' /\ UndoneInv' /\ AccountedInv'
  <2>1. /\ ~ overlapped /\ Running("add") = {} /\ Running("undo") = {}
    BY <1>1, <1>5
  <2>2. RecordedOnce /\ AccountedInv
    BY <2>1 DEF BooksInv, OnceInv
  <2>3. /\ Running("add")' = {t} /\ Running("undo")' = {}
        /\ task'[t].todo = ToAdd(rows) /\ task'[t].rows = rows /\ task'[t].id = None
    BY <1>1, <1>2, <2>1
  <2>4. RecordedOnce' /\ Alone' /\ UndoneInv'
    BY <1>1, <2>1, <2>2, <2>3 DEF RecordedOnce, Alone, UndoneInv
  <2>5. \A k \in ToAdd(rows), x \in DOMAIN books : books[x] # rows[k].of
    BY <2>1, <2>2 DEF AccountedInv, ToAdd
  <2>6. LeftInv'
    BY <1>1, <2>3, <2>5 DEF LeftInv
  <2>7. AccountedInv'
    BY <1>1, <2>1, <2>2 DEF AccountedInv
  <2> QED BY <2>4, <2>6, <2>7
<1> QED BY <1>3, <1>4, <1>5 DEF BooksInv, OnceInv

\* A step of an add does not concern the scans and the undos.
LEMMA AddStepBooks ==
  ASSUME BooksInv, NEW t \in Running("add"), task'[t].kind = "add",
         \A u \in Task \ {t} : task'[u] = task[u], scans' = scans
  PROVE  /\ ScansInv' /\ Finished' = Finished
         /\ Running("add")' = Running("add") /\ Running("undo")' = Running("undo")
         /\ \A u \in Running("add") : u # t => task'[u] = task[u]
         /\ \A u \in Running("undo") : task'[u] = task[u]
<1>1. t \in Task /\ task[t].kind = "add"
  BY DEF Running
<1>2. /\ Running("scan")' = Running("scan") /\ t \notin Running("scan")
      /\ Running("undo")' = Running("undo") /\ t \notin Running("undo")
      /\ Running("add")' = Running("add")
      /\ \A u \in Running("add") : u # t => task'[u] = task[u]
      /\ \A u \in Running("undo") \union Running("scan") : task'[u] = task[u]
  BY <1>1 DEF Running
<1>3. Scanning' = Scanning
  BY <1>2 DEF Scanning
<1> QED BY <1>2, <1>3, KeepScans DEF BooksInv, Finished

\* While nothing overlaps, a running add runs alone.
LEMMA AloneAdd ==
  ASSUME BooksInv, ~ overlapped, NEW t \in Running("add")
  PROVE  /\ Running("add") = {t} /\ Running("undo") = {}
         /\ RecordedOnce /\ LeftInv
         /\ \A i \in DOMAIN rows, x \in DOMAIN books :
              books[x] = rows[i].of /\ ~ rows[i].error =>
                /\ x \in addedIds \/ x \in task[t].ids \union {task[t].id}
                /\ rows[i].addedId = None => x = task[t].id
<1>1. Alone /\ RecordedOnce /\ LeftInv /\ AccountedInv
  BY DEF BooksInv, OnceInv
<1>2. t \notin Running("undo")
  BY DEF Running
<1>3. Running("add") = {t} /\ Running("undo") = {}
  BY <1>1, <1>2 DEF Alone
<1> QED BY <1>1, <1>3 DEF AccountedInv

LEMMA AccountedBy ==
  ASSUME NEW t \in Running("add")',
         \A i \in DOMAIN rows', x \in DOMAIN books' :
           books'[x] = rows'[i].of /\ ~ rows'[i].error =>
             /\ x \in addedIds' \/ x \in task'[t].ids \union {task'[t].id}
             /\ rows'[i].addedId = None => x = task'[t].id
  PROVE  AccountedInv'
  BY DEF AccountedInv

\* A row fails: before its actual is recorded, or after.
LEMMA FailsBooks ==
  ASSUME ReceiptInv, BooksInv, NEW t \in Task, RowFails(t) \/ AttachmentFails(t)
  PROVE  BooksInv'
<1> DEFINE k0 == Adds(t)
<1>1. /\ t \in Running("add") /\ Adding(t) /\ SetRow(k0, "error", TRUE) /\ Proceeds(t, {})
      /\ UNCHANGED <<addedIds, books, issued, scans, overlapped>>
  BY DEF RowFails, AttachmentFails, Adding
<1>2. k0 \in task[t].todo /\ k0 \in DOMAIN task[t].rows
  BY <1>1, AddsOne DEF BooksInv
<1>3. /\ DOMAIN rows' = DOMAIN rows
      /\ \A i \in DOMAIN rows : /\ rows'[i].of = rows[i].of
                                /\ rows'[i].addedId = rows[i].addedId
                                /\ ~ rows'[i].error => i # k0 /\ ~ rows[i].error
  <2>1. \A i \in DOMAIN rows : rows'[i].addedId = rows[i].addedId
    BY <1>1, SetRowSets DEF ReceiptInv
  <2>2. /\ DOMAIN rows' = DOMAIN rows
        /\ \A i \in DOMAIN rows : /\ rows'[i].of = rows[i].of
                                  /\ rows'[i].error = IF i = k0 THEN TRUE ELSE rows[i].error
    BY <1>1, SetRowKeeps DEF ReceiptInv
  <2> QED BY <2>1, <2>2
<1>4. /\ task'[t].kind = "add" /\ task'[t].id = None /\ task'[t].rows = task[t].rows
      /\ task'[t].todo = task[t].todo \ {k0} /\ task'[t].ids = task[t].ids \union {}
      /\ \A u \in Task \ {t} : task'[u] = task[u]
  BY <1>1, ProceedsTo
<1> HIDE DEF k0
<1>5. /\ ScansInv' /\ Finished' = Finished
      /\ Running("add")' = Running("add") /\ Running("undo")' = Running("undo")
      /\ \A u \in Running("add") : u # t => task'[u] = task[u]
  BY <1>1, <1>4, AddStepBooks
<1>6. NamesInv'
  <2>1. \A u \in Running("add")' : task'[u].rows = task[u].rows /\ task'[u].todo \subseteq task[u].todo
    BY <1>4, <1>5
  <2> QED BY <1>1, <1>3, <1>5, <2>1, KeepNames DEF BooksInv, Ids
<1>7. ASSUME ~ overlapped
      PROVE  RecordedOnce' /\ Alone' /\ LeftInv' /\ UndoneInv' /\ AccountedInv'
  <2>1. /\ Running("add") = {t} /\ Running("undo") = {}
        /\ RecordedOnce /\ LeftInv
    BY <1>1, <1>7, AloneAdd
  <2>2. RecordedOnce' /\ Alone' /\ UndoneInv'
    BY <1>1, <1>5, <2>1 DEF RecordedOnce, Alone, UndoneInv
  <2>3. LeftInv'
    BY <1>1, <1>4, <1>5, <2>1 DEF LeftInv, k0
  <2>4. ASSUME NEW i \in DOMAIN rows, NEW x \in DOMAIN books,
               books[x] = rows[i].of, ~ rows'[i].error
        PROVE  (x \in addedIds \/ x \in task'[t].ids) /\ rows[i].addedId # None
    <3>1. ~ rows[i].error /\ i # k0
      BY <1>3, <2>4
    <3>2. /\ x \in addedIds \/ x \in task[t].ids \union {task[t].id}
          /\ rows[i].addedId = None => x = task[t].id
      BY <1>1, <1>7, <2>4, <3>1, AloneAdd
    <3>3. x # task[t].id
      <4>1. SUFFICES ASSUME x = task[t].id PROVE FALSE
        OBVIOUS
      <4>2. x # None
        BY NoneAssumption DEF BooksInv, NamesInv, Ids
      <4>3. rows[i].of = task[t].rows[k0].of
        BY <1>1, <2>1, <2>4, <4>1, <4>2 DEF LeftInv, k0
      <4>4. Named(rows) /\ Named(task[t].rows)
        BY <1>1 DEF BooksInv, NamesInv
      <4> QED BY <1>2, <3>1, <4>3, <4>4, OnePlace
    <3> QED BY <1>4, <3>2, <3>3
  <2>5. AccountedInv'
    BY <1>1, <1>3, <1>5, <2>4, AccountedBy
  <2> QED BY <2>2, <2>3, <2>5
<1> QED BY <1>1, <1>5, <1>6, <1>7 DEF BooksInv, OnceInv

\* An actual is recorded: its row was not in the books.
LEMMA RecordBooks ==
  ASSUME ReceiptInv, BooksInv, NEW t \in Task, RecordActual(t)
  PROVE  BooksInv'
<1> DEFINE k0 == Adds(t)
           y == issued + 1
<1>1. /\ t \in Running("add") /\ Adding(t) /\ task[t].id = None
      /\ issued' = y /\ UNCHANGED <<rows, addedIds, scans, overlapped>>
      /\ books' = [x \in DOMAIN books \union {y} |->
                     IF x = y THEN task[t].rows[k0].of ELSE books[x]]
      /\ task' = [task EXCEPT ![t] = [task[t] EXCEPT !.id = y]]
  BY DEF RecordActual, Adding
<1>2. k0 \in task[t].todo /\ k0 \in DOMAIN task[t].rows
  BY <1>1, AddsOne DEF BooksInv
<1>3. /\ task'[t].kind = "add" /\ task'[t].id = y /\ task'[t].rows = task[t].rows
      /\ task'[t].todo = task[t].todo /\ task'[t].ids = task[t].ids
      /\ \A u \in Task \ {t} : task'[u] = task[u]
      /\ Adds(t)' = k0
  <2>1. /\ task'[t].kind = "add" /\ task'[t].id = y /\ task'[t].rows = task[t].rows
        /\ task'[t].todo = task[t].todo /\ task'[t].ids = task[t].ids
        /\ \A u \in Task \ {t} : task'[u] = task[u]
    BY <1>1 DEF ReceiptInv, Shapes, Running
  <2> QED BY <2>1 DEF Adds
<1>4. /\ issued \in Nat /\ y \notin Ids /\ y \in Ids' /\ Ids \subseteq Ids' /\ y # None
      /\ None \notin Ids /\ DOMAIN books \subseteq Ids
  BY <1>1, NoneAssumption DEF ReceiptInv, KnownIds, Ids, BooksInv, NamesInv
<1> HIDE DEF k0, y
<1>5. /\ ScansInv' /\ Finished' = Finished
      /\ Running("add")' = Running("add") /\ Running("undo")' = Running("undo")
      /\ \A u \in Running("add") : u # t => task'[u] = task[u]
  BY <1>1, <1>3, AddStepBooks
<1>6. /\ DOMAIN books' = DOMAIN books \union {y} /\ y \notin DOMAIN books
      /\ books'[y] = task[t].rows[k0].of
      /\ \A x \in DOMAIN books : books'[x] = books[x]
  BY <1>1, <1>4
<1>7. NamesInv'
  <2>1. /\ Named(rows)'
        /\ \A u \in Running("add")' :
             Named(task[u].rows)' /\ task'[u].todo \subseteq DOMAIN task'[u].rows
    BY <1>1, <1>3, <1>5 DEF BooksInv, NamesInv, Named
  <2>2. books'[y][1] \in Finished
    BY <1>1, <1>2, <1>6 DEF BooksInv, NamesInv, Named
  <2>3. \A x \in DOMAIN books : books[x][1] \in Finished
    BY DEF BooksInv, NamesInv
  <2>4. DOMAIN books' \subseteq Ids' /\ \A x \in DOMAIN books' : books'[x][1] \in Finished'
    BY <1>4, <1>5, <1>6, <2>2, <2>3
  <2> QED BY <2>1, <2>4 DEF NamesInv
<1>8. ASSUME ~ overlapped
      PROVE  RecordedOnce' /\ Alone' /\ LeftInv' /\ UndoneInv' /\ AccountedInv'
  <2>1. /\ Running("add") = {t} /\ Running("undo") = {}
        /\ RecordedOnce /\ LeftInv
    BY <1>1, <1>8, AloneAdd
  <2>2. \A k \in task[t].todo, x \in DOMAIN books : books[x] # task[t].rows[k].of
    BY <1>1, <1>4, <2>1 DEF LeftInv
  <2>3. RecordedOnce'
    BY <1>2, <1>6, <1>8, <2>1, <2>2 DEF RecordedOnce
  <2>4. Alone' /\ UndoneInv'
    BY <1>5, <2>1 DEF Alone, UndoneInv
  <2>5. \A k \in task[t].todo : task[t].rows[k].of = task[t].rows[k0].of => k = k0
    BY <1>1, <1>2, OnePlace DEF BooksInv, NamesInv
  <2>6. LeftInv'
    BY <1>2, <1>3, <1>5, <1>6, <2>1, <2>2, <2>5 DEF LeftInv
  <2>7. AccountedInv'
    <3>1. ASSUME NEW i \in DOMAIN rows, NEW x \in DOMAIN books', books'[x] = rows[i].of,
                 ~ rows[i].error
          PROVE  /\ x \in addedIds \/ x \in task[t].ids \union {y}
                 /\ rows[i].addedId = None => x = y
      <4>1. CASE x = y
        BY <4>1
      <4>2. CASE x # y
        <5>1. x \in DOMAIN books /\ books[x] = rows[i].of /\ x # None
          BY <1>4, <1>6, <3>1, <4>2
        <5> QED BY <1>1, <1>8, <3>1, <5>1, AloneAdd
      <4> QED BY <4>1, <4>2
    <3>2. t \in Running("add")' /\ rows' = rows /\ addedIds' = addedIds
      BY <1>1, <1>5
    <3>3. task'[t].id = y /\ task'[t].ids = task[t].ids
      BY <1>3
    <3> QED BY <3>1, <3>2, <3>3, AccountedBy
  <2> QED BY <2>3, <2>4, <2>6, <2>7
<1> QED BY <1>1, <1>5, <1>7, <1>8 DEF BooksInv, OnceInv

\* The evidence of an actual is kept: its row is marked, if it is still there.
LEMMA SaveBooks ==
  ASSUME ReceiptInv, BooksInv, NEW t \in Task, SaveAttachment(t)
  PROVE  BooksInv'
<1> DEFINE k0 == Adds(t)
           y == task[t].id
<1>1. /\ t \in Running("add") /\ Adding(t) /\ y # None
      /\ SetRow(k0, "addedId", y) /\ Proceeds(t, {y})
      /\ UNCHANGED <<addedIds, books, issued, scans, overlapped>>
  BY DEF SaveAttachment, Adding
<1>2. k0 \in task[t].todo /\ k0 \in DOMAIN task[t].rows
  BY <1>1, AddsOne DEF BooksInv
<1>3. /\ DOMAIN rows' = DOMAIN rows
      /\ \A i \in DOMAIN rows : /\ rows'[i].of = rows[i].of
                                /\ rows'[i].addedId = IF i = k0 THEN y ELSE rows[i].addedId
                                /\ rows'[i].error = rows[i].error
  <2>1. \A i \in DOMAIN rows : rows'[i].addedId = IF i = k0 THEN y ELSE rows[i].addedId
    BY <1>1, SetRowSets DEF ReceiptInv
  <2>2. /\ DOMAIN rows' = DOMAIN rows
        /\ \A i \in DOMAIN rows : /\ rows'[i].of = rows[i].of
                                  /\ rows'[i].error = rows[i].error
    BY <1>1, SetRowKeeps DEF ReceiptInv
  <2> QED BY <2>1, <2>2
<1>4. /\ task'[t].kind = "add" /\ task'[t].id = None /\ task'[t].rows = task[t].rows
      /\ task'[t].todo = task[t].todo \ {k0} /\ task'[t].ids = task[t].ids \union {y}
      /\ \A u \in Task \ {t} : task'[u] = task[u]
  BY <1>1, ProceedsTo
<1> HIDE DEF k0, y
<1>5. /\ ScansInv' /\ Finished' = Finished
      /\ Running("add")' = Running("add") /\ Running("undo")' = Running("undo")
      /\ \A u \in Running("add") : u # t => task'[u] = task[u]
  BY <1>1, <1>4, AddStepBooks
<1>6. NamesInv'
  <2>1. \A u \in Running("add")' : task'[u].rows = task[u].rows /\ task'[u].todo \subseteq task[u].todo
    BY <1>4, <1>5
  <2> QED BY <1>1, <1>3, <1>5, <2>1, KeepNames DEF BooksInv, Ids
<1>7. ASSUME ~ overlapped
      PROVE  RecordedOnce' /\ Alone' /\ LeftInv' /\ UndoneInv' /\ AccountedInv'
  <2>1. /\ Running("add") = {t} /\ Running("undo") = {}
        /\ RecordedOnce /\ LeftInv
    BY <1>1, <1>7, AloneAdd
  <2>2. RecordedOnce' /\ Alone' /\ UndoneInv'
    BY <1>1, <1>5, <2>1 DEF RecordedOnce, Alone, UndoneInv
  <2>3. LeftInv'
    BY <1>1, <1>4, <1>5, <2>1 DEF LeftInv, k0
  <2>4. ASSUME NEW i \in DOMAIN rows, NEW x \in DOMAIN books,
               books[x] = rows[i].of, ~ rows[i].error
        PROVE  /\ x \in addedIds \/ x \in task'[t].ids
               /\ rows'[i].addedId # None
    <3>1. /\ x \in addedIds \/ x \in task[t].ids \union {y}
          /\ rows[i].addedId = None => x = y
      BY <1>1, <1>7, <2>4, AloneAdd DEF y
    <3>2. x = y => i = k0
      <4>1. SUFFICES ASSUME x = y PROVE i = k0
        OBVIOUS
      <4>2. rows[i].of = task[t].rows[k0].of
        BY <1>1, <2>1, <2>4, <4>1 DEF LeftInv, k0, y
      <4>3. Named(rows) /\ Named(task[t].rows)
        BY <1>1 DEF BooksInv, NamesInv
      <4> QED BY <1>2, <4>2, <4>3, OnePlace
    <3> QED BY <1>1, <1>3, <1>4, <3>1, <3>2
  <2>5. AccountedInv'
    BY <1>1, <1>3, <1>5, <2>4, AccountedBy
  <2> QED BY <2>2, <2>3, <2>5
<1> QED BY <1>1, <1>5, <1>6, <1>7 DEF BooksInv, OnceInv

\* An add or an undo ends.
LEMMA TaskRefreshes ==
  ASSUME BooksInv, NEW t \in Running("add") \union Running("undo"), task'[t].kind = "refresh",
         \A u \in Task \ {t} : task'[u] = task[u], scans' = scans
  PROVE  /\ ScansInv' /\ Finished' = Finished
         /\ Running("add")' = Running("add") \ {t} /\ Running("undo")' = Running("undo") \ {t}
         /\ \A u \in (Running("add") \union Running("undo")) \ {t} : task'[u] = task[u]
<1>1. t \in Task /\ task[t].kind \in {"add", "undo"}
  BY DEF Running
<1>2. /\ Running("scan")' = Running("scan")
      /\ Running("add")' = Running("add") \ {t} /\ Running("undo")' = Running("undo") \ {t}
      /\ \A u \in Running("scan") \union ((Running("add") \union Running("undo")) \ {t}) :
           task'[u] = task[u]
  BY <1>1 DEF Running
<1>3. Scanning' = Scanning
  BY <1>2 DEF Scanning
<1> QED BY <1>2, <1>3, KeepScans DEF BooksInv, Finished

LEMMA FinishAddBooks ==
  ASSUME ReceiptInv, BooksInv, NEW t \in Task, FinishAdd(t)
  PROVE  BooksInv'
<1>1. /\ t \in Running("add") /\ task[t].todo = {} /\ addedIds' = addedIds \union task[t].ids
      /\ task'[t].kind = "refresh" /\ \A u \in Task \ {t} : task'[u] = task[u]
      /\ UNCHANGED <<rows, books, issued, scans, overlapped>>
  BY DEF FinishAdd, ReceiptInv, Shapes
<1>2. /\ ScansInv' /\ Finished' = Finished
      /\ Running("add")' = Running("add") \ {t} /\ Running("undo")' = Running("undo") \ {t}
      /\ \A u \in Running("add")' : task'[u] = task[u]
  BY <1>1, TaskRefreshes
<1>3. NamesInv'
  <2>1. \A u \in Running("add")' : task'[u].rows = task[u].rows /\ task'[u].todo \subseteq task[u].todo
    BY <1>2
  <2> QED BY <1>1, <1>2, <2>1, KeepNames DEF BooksInv, Ids
<1>4. ASSUME ~ overlapped
      PROVE  RecordedOnce' /\ Alone' /\ LeftInv' /\ UndoneInv' /\ AccountedInv'
  <2>1. /\ Running("add") = {t} /\ Running("undo") = {}
        /\ RecordedOnce /\ LeftInv
    BY <1>1, <1>4, AloneAdd
  <2>2. Running("add")' = {} /\ Running("undo")' = {}
    BY <1>2, <2>1
  <2>3. RecordedOnce' /\ Alone' /\ LeftInv' /\ UndoneInv'
    BY <1>1, <2>1, <2>2 DEF RecordedOnce, Alone, LeftInv, UndoneInv
  <2>4. task[t].id = None /\ None \notin DOMAIN books
    BY <1>1, <2>1, NoneAssumption DEF LeftInv, BooksInv, NamesInv, Ids
  <2>5. ASSUME NEW i \in DOMAIN rows, NEW x \in DOMAIN books,
               books[x] = rows[i].of, ~ rows[i].error
        PROVE  x \in addedIds' /\ rows[i].addedId # None
    <3>1. x # None
      BY <2>4
    <3>2. /\ x \in addedIds \/ x \in task[t].ids \union {None}
          /\ rows[i].addedId = None => x = None
      BY <1>1, <1>4, <2>4, <2>5, AloneAdd
    <3> QED BY <1>1, <3>1, <3>2
  <2>6. AccountedInv'
    BY <1>1, <2>5 DEF AccountedInv
  <2> QED BY <2>3, <2>6
<1> QED BY <1>1, <1>2, <1>3, <1>4 DEF BooksInv, OnceInv

LEMMA StartUndoBooks ==
  ASSUME ReceiptInv, BooksInv, NEW t \in Task, StartUndo(t)
  PROVE  BooksInv'
<1>1. /\ task[t].kind = "idle"
      /\ task'[t] = [kind |-> "undo", todo |-> addedIds, gone |-> {}]
      /\ \A u \in Task \ {t} : task'[u] = task[u]
      /\ overlapped' = (overlapped \/ Running("add") \union Running("undo") # {})
      /\ UNCHANGED <<rows, addedIds, books, issued, scans>>
  BY DEF StartUndo, Start, Idle, ReceiptInv, Shapes
<1>2. /\ Running("scan")' = Running("scan")
      /\ Running("add")' = Running("add") /\ Running("undo")' = Running("undo") \union {t}
      /\ \A u \in Running("scan") \union Running("add") \union Running("undo") : task'[u] = task[u]
  BY <1>1, OneTask
<1>3. ScansInv' /\ Finished' = Finished
  <2>1. Scanning' = Scanning
    BY <1>2 DEF Scanning
  <2> QED BY <1>1, <1>2, <2>1, KeepScans DEF BooksInv, Finished
<1>4. NamesInv'
  <2>1. \A u \in Running("add")' : task'[u].rows = task[u].rows /\ task'[u].todo \subseteq task[u].todo
    BY <1>2
  <2> QED BY <1>1, <1>2, <1>3, <2>1, KeepNames DEF BooksInv, Ids
<1>5. ASSUME ~ overlapped'
      PROVE  RecordedOnce' /\ Alone' /\ LeftInv' /\ UndoneInv' /\ AccountedInv'
  <2>1. /\ ~ overlapped /\ Running("add") = {} /\ Running("undo") = {}
    BY <1>1, <1>5
  <2>2. RecordedOnce /\ AccountedInv
    BY <2>1 DEF BooksInv, OnceInv
  <2>3. /\ Running("add")' = {} /\ Running("undo")' = {t}
        /\ task'[t].todo = addedIds /\ task'[t].gone = {}
    BY <1>1, <1>2, <2>1
  <2>4. RecordedOnce' /\ Alone' /\ LeftInv' /\ UndoneInv'
    BY <1>1, <2>1, <2>2, <2>3 DEF RecordedOnce, Alone, LeftInv, UndoneInv
  <2>5. AccountedInv'
    BY <1>1, <2>1, <2>2, <2>3 DEF AccountedInv
  <2> QED BY <2>4, <2>5
<1> QED BY <1>3, <1>4, <1>5 DEF BooksInv, OnceInv

\* While nothing overlaps, a running undo runs alone.
LEMMA AloneUndo ==
  ASSUME BooksInv, ~ overlapped, NEW t \in Running("undo")
  PROVE  /\ Running("undo") = {t} /\ Running("add") = {}
         /\ RecordedOnce /\ UndoneInv
         /\ \A i \in DOMAIN rows, x \in DOMAIN books :
              books[x] = rows[i].of /\ ~ rows[i].error =>
                x \in addedIds /\ rows[i].addedId # None
<1>1. Alone /\ RecordedOnce /\ UndoneInv /\ AccountedInv
  BY DEF BooksInv, OnceInv
<1>2. t \notin Running("add")
  BY DEF Running
<1>3. Running("undo") = {t} /\ Running("add") = {}
  BY <1>1, <1>2 DEF Alone
<1> QED BY <1>1, <1>3 DEF AccountedInv

LEMMA UndoOneBooks ==
  ASSUME ReceiptInv, BooksInv, NEW t \in Task, NEW id, NEW removed \in BOOLEAN,
         NEW detached \in BOOLEAN, UndoOne(t, id, removed, detached)
  PROVE  BooksInv'
<1>1. /\ t \in Running("undo") /\ id \in task[t].todo
      /\ books' = IF removed THEN [x \in DOMAIN books \ {id} |-> books[x]] ELSE books
      /\ task' = [task EXCEPT ![t] = [[task[t] EXCEPT !.todo = @ \ {id}]
                                        EXCEPT !.gone = @ \union {id}]]
      /\ overlapped' = (overlapped \/ ~ removed)
      /\ UNCHANGED <<rows, addedIds, issued, scans>>
  BY DEF UndoOne
<1>2. /\ task'[t].kind = "undo"
      /\ task'[t].todo = task[t].todo \ {id} /\ task'[t].gone = task[t].gone \union {id}
      /\ \A u \in Task \ {t} : task'[u] = task[u]
  BY <1>1 DEF ReceiptInv, Shapes, Running
<1>3. /\ Running("scan")' = Running("scan")
      /\ Running("add")' = Running("add") /\ Running("undo")' = Running("undo")
      /\ \A u \in Running("scan") \union Running("add") : task'[u] = task[u]
  BY <1>1, <1>2 DEF Running
<1>4. ScansInv' /\ Finished' = Finished
  <2>1. Scanning' = Scanning
    BY <1>3 DEF Scanning
  <2> QED BY <1>1, <1>3, <2>1, KeepScans DEF BooksInv, Finished
<1>5. DOMAIN books' \subseteq DOMAIN books /\ \A x \in DOMAIN books' : books'[x] = books[x]
  BY <1>1
<1>6. NamesInv'
  <2>1. \A u \in Running("add")' : task'[u].rows = task[u].rows /\ task'[u].todo \subseteq task[u].todo
    BY <1>3
  <2> QED BY <1>1, <1>3, <1>4, <1>5, <2>1, KeepNames DEF BooksInv, Ids
<1>7. ASSUME ~ overlapped'
      PROVE  RecordedOnce' /\ Alone' /\ LeftInv' /\ UndoneInv' /\ AccountedInv'
  <2>1. ~ overlapped /\ id \notin DOMAIN books'
    BY <1>1, <1>7
  <2>2. /\ Running("undo") = {t} /\ Running("add") = {}
        /\ RecordedOnce /\ UndoneInv
    BY <1>1, <2>1, AloneUndo
  <2>3. RecordedOnce' /\ Alone' /\ LeftInv'
    BY <1>3, <1>5, <2>1, <2>2 DEF RecordedOnce, Alone, LeftInv
  <2>4. UndoneInv'
    BY <1>1, <1>2, <1>3, <1>5, <2>1, <2>2 DEF UndoneInv
  <2>5. AccountedInv'
    <3>1. ASSUME NEW i \in DOMAIN rows, NEW x \in DOMAIN books',
                 books'[x] = rows[i].of, ~ rows[i].error
          PROVE  x \in addedIds /\ rows[i].addedId # None
      BY <1>1, <1>5, <2>1, <3>1, AloneUndo
    <3> QED BY <1>1, <3>1 DEF AccountedInv
  <2> QED BY <2>3, <2>4, <2>5
<1> QED BY <1>4, <1>6, <1>7 DEF BooksInv, OnceInv

\* An undo ends: what it was told of is not in the books any more.
LEMMA FinishUndoBooks ==
  ASSUME ReceiptInv, BooksInv, NEW t \in Task, FinishUndo(t)
  PROVE  BooksInv'
<1>1. /\ t \in Running("undo") /\ task[t].todo = {} /\ addedIds' = {}
      /\ rows' = [i \in DOMAIN rows |-> [rows[i] EXCEPT !.addedId = None]]
      /\ task'[t].kind = "refresh" /\ \A u \in Task \ {t} : task'[u] = task[u]
      /\ UNCHANGED <<books, issued, scans, overlapped>>
  BY DEF FinishUndo, ReceiptInv, Shapes
<1>2. /\ ScansInv' /\ Finished' = Finished
      /\ Running("add")' = Running("add") \ {t} /\ Running("undo")' = Running("undo") \ {t}
      /\ \A u \in (Running("add") \union Running("undo")) \ {t} : task'[u] = task[u]
  BY <1>1, TaskRefreshes
<1>3. /\ DOMAIN rows' = DOMAIN rows
      /\ \A i \in DOMAIN rows : rows'[i].of = rows[i].of /\ rows'[i].error = rows[i].error
  BY <1>1 DEF ReceiptInv, Shapes
<1>4. NamesInv'
  <2>1. \A u \in Running("add")' : task'[u].rows = task[u].rows /\ task'[u].todo \subseteq task[u].todo
    BY <1>2
  <2> QED BY <1>1, <1>2, <1>3, <2>1, KeepNames DEF BooksInv, Ids
<1>5. ASSUME ~ overlapped
      PROVE  RecordedOnce' /\ Alone' /\ LeftInv' /\ UndoneInv' /\ AccountedInv'
  <2>1. /\ Running("undo") = {t} /\ Running("add") = {}
        /\ RecordedOnce /\ UndoneInv
    BY <1>1, <1>5, AloneUndo
  <2>2. Running("add")' = {} /\ Running("undo")' = {}
    BY <1>2, <2>1
  <2>3. RecordedOnce' /\ Alone' /\ LeftInv' /\ UndoneInv'
    BY <1>1, <2>1, <2>2 DEF RecordedOnce, Alone, LeftInv, UndoneInv
  <2>4. addedIds \intersect DOMAIN books = {}
    BY <1>1, <2>1 DEF UndoneInv
  <2>5. ASSUME NEW i \in DOMAIN rows, NEW x \in DOMAIN books, books[x] = rows[i].of,
               ~ rows[i].error
        PROVE  FALSE
    BY <1>1, <1>5, <2>4, <2>5, AloneUndo
  <2>6. AccountedInv'
    BY <1>1, <1>3, <2>5 DEF AccountedInv
  <2> QED BY <2>3, <2>6
<1> QED BY <1>1, <1>2, <1>4, <1>5 DEF BooksInv, OnceInv

LEMMA NextBooks == ReceiptInv /\ BooksInv /\ [Next]_vars => BooksInv'
<1> SUFFICES ASSUME ReceiptInv, BooksInv, [Next]_vars PROVE BooksInv'
  OBVIOUS
<1>1. ASSUME UNCHANGED <<rows, addedIds, task, books, scans, issued, overlapped>> PROVE BooksInv'
  <2>1. Running("scan")' = Running("scan")
    BY <1>1 DEF Running
  <2>2. ScansInv' /\ Finished \subseteq Finished'
    BY <1>1, <2>1, KeepScans DEF BooksInv
  <2> QED BY <1>1, <2>2, OtherBooks
<1>2. ASSUME NEW p \in Photo, ChoosePhoto(p) \/ PhotoRead(p) \/ SegmentFails(p) \/ (\E found : Segmented(p, found))
      PROVE  BooksInv'
  BY <1>1, <1>2 DEF ChoosePhoto, PhotoRead, Segmented, SegmentFails, Review
<1>3. CASE AddBox \/ BackToBoxes
  BY <1>1, <1>3 DEF AddBox, EditBoxes, BackToBoxes, Review
<1>4. ASSUME NEW i \in DOMAIN boxes, NEW dx \in Drags, NEW dy \in Drags,
             MoveBox(i, dx, dy) \/ ResizeBox(i, dx, dy)
      PROVE  BooksInv'
  BY <1>1, <1>4 DEF MoveBox, ResizeBox, EditBoxes, Review
<1>5. ASSUME NEW i \in DOMAIN boxes, RemoveBox(i) PROVE BooksInv'
  BY <1>1, <1>5 DEF RemoveBox, EditBoxes, Review
<1>6. ASSUME NEW i \in DOMAIN rows, NEW b \in BOOLEAN, SelectRow(i, b) PROVE BooksInv'
  <2>1. /\ rows' = [rows EXCEPT ![i] = [rows[i] EXCEPT !.selected = b]]
        /\ UNCHANGED <<addedIds, task, books, issued, scans, overlapped>>
    BY <1>6 DEF SelectRow
  <2>2. /\ DOMAIN rows' = DOMAIN rows
        /\ \A j \in DOMAIN rows : /\ rows'[j].of = rows[j].of
                                  /\ rows'[j].addedId = rows[j].addedId
                                  /\ rows'[j].error = rows[j].error
    BY <2>1 DEF ReceiptInv, Shapes
  <2>3. Running("scan")' = Running("scan")
    BY <2>1 DEF Running
  <2>4. ScansInv' /\ Finished \subseteq Finished'
    BY <2>1, <2>3, KeepScans DEF BooksInv
  <2> QED BY <2>1, <2>2, <2>4, OtherBooks
<1>7. ASSUME NEW t \in Task, StartScan(t) PROVE BooksInv'
  BY <1>7, StartScanBooks DEF ReceiptInv
<1>8. ASSUME NEW t \in Task, ScanThrows(t) \/ Refreshed(t) \/ RefreshThrows(t) PROVE BooksInv'
  BY <1>8, TaskEndsBooks DEF ReceiptInv
<1>9. ASSUME NEW t \in Task, NEW read, FinishScan(t, read) PROVE BooksInv'
  BY <1>9, FinishScanBooks DEF ReceiptInv
<1>10. ASSUME NEW t \in Task, StartAdd(t) \/ RowFails(t) \/ AttachmentFails(t) PROVE BooksInv'
  BY <1>10, StartAddBooks, FailsBooks DEF ReceiptInv
<1>11. ASSUME NEW t \in Task, RecordActual(t) \/ SaveAttachment(t) PROVE BooksInv'
  BY <1>11, RecordBooks, SaveBooks
<1>12. ASSUME NEW t \in Task, FinishAdd(t) \/ StartUndo(t) \/ FinishUndo(t) PROVE BooksInv'
  BY <1>12, FinishAddBooks, StartUndoBooks, FinishUndoBooks
<1>13. ASSUME NEW t \in Task, NEW id \in addedIds \union DOMAIN books, NEW removed \in BOOLEAN,
              NEW detached \in BOOLEAN, UndoOne(t, id, removed, detached)
       PROVE  BooksInv'
  BY <1>13, UndoOneBooks
<1>14. CASE UNCHANGED vars
  BY <1>1, <1>14 DEF vars
<1> QED
  BY <1>2, <1>3, <1>4, <1>5, <1>6, <1>7, <1>8, <1>9, <1>10, <1>11, <1>12, <1>13, <1>14 DEF Next

\* No row of a scan is recorded twice in the books, whatever fails on the way, as
\* long as no add or undo overlapped another and every removal went through;
\* scans may run at any time, and one of the same box makes another row, of which
\* nothing is said (ReceiptScanPanel.tsx, addSelected and undo).
THEOREM RowRecordedOnce == Spec => []RecordedOnce
<1>1. Spec => [](ReceiptInv /\ BooksInv)
  BY InitReceipt, InitBooks, NextReceipt, NextBooks, PTL DEF Spec
<1>2. BooksInv => RecordedOnce
  BY DEF BooksInv, OnceInv, RecordedOnce
<1> QED BY <1>1, <1>2, PTL

LEMMA FrameSize ==
  ASSUME NEW p \in Photo
  PROVE  p.w \in Nat \ {0} /\ p.h \in Nat \ {0}
  BY PhotoAssumption

\* Whatever box it is given, of another photo or over the edge, crop_png cuts
\* out a part of the photo, of a pixel at least (receipts.rs, crop_png).
THEOREM CropIsInFrame ==
  ASSUME NEW p \in Photo, NEW box, box.x \in Nat, box.y \in Nat, box.w \in Int, box.h \in Int
  PROVE  InFrame(Crop(box, p), p)
  BY FrameSize DEF InFrame, Crop, Smaller, Larger

----------------------------------------------------------------------------
(***************************************************************************)
(* The panel: there are boxes only for a photo, and they start in some     *)
(* frame or other.                                                         *)
(***************************************************************************)
Box == [x : Nat, y : Nat, w : Int, h : Int]

PanelInv ==
  /\ composite \in Photo \union {None}
  /\ boxes \in Seq(Box)
  /\ step \in {"pick", "boxes", "review"}
  /\ step # "pick" \/ Running("scan") # {} => dims \in Photo
  /\ {busy, overlapped} \subseteq BOOLEAN
  /\ issued <= MaxActuals
  /\ evidence \subseteq Ids

LEMMA InitPanel == Init => PanelInv
<1> SUFFICES ASSUME Init PROVE PanelInv
  OBVIOUS
<1>1. \A t \in Task : task[t].kind = "idle"
  BY DEF Init, Idle
<1>2. Running("scan") = {}
  BY <1>1 DEF Running
<1>3. /\ composite = None /\ boxes = <<>> /\ step = "pick" /\ busy = FALSE /\ overlapped = FALSE
      /\ issued = 0 /\ evidence = {}
  BY DEF Init
<1>4. boxes \in Seq(Box)
  BY <1>3
<1>6. busy \in BOOLEAN /\ overlapped \in BOOLEAN
  BY <1>3
<1>5. issued <= MaxActuals
  BY <1>3, BoundAssumption
<1> QED BY <1>2, <1>3, <1>4, <1>5, <1>6 DEF PanelInv

\* What segment finds and what is added by hand.
LEMMA PaddedIsBox ==
  ASSUME NEW p \in Photo, NEW blob \in Blob(p)
  PROVE  Padded(blob, p) \in Box
<1>1. p.w \in Nat /\ p.h \in Nat
  BY FrameSize
<1>2. blob.x0 \in Int /\ blob.x1 \in Int /\ blob.y0 \in Int /\ blob.y1 \in Int
  BY DEF Blob
<1> DEFINE bw == blob.x1 - blob.x0 + 1
           bh == blob.y1 - blob.y0 + 1
           pw == bw \div 20
           ph == bh \div 20
<1>3. bw \in Int /\ bh \in Int /\ pw \in Int /\ ph \in Int
  BY <1>2
<1>4. Padded(blob, p) =
        [x |-> Larger(0, blob.x0 - pw), y |-> Larger(0, blob.y0 - ph),
         w |-> Smaller(bw + 2 * pw, p.w - Larger(0, blob.x0 - pw)),
         h |-> Smaller(bh + 2 * ph, p.h - Larger(0, blob.y0 - ph))]
  BY DEF Padded
<1> HIDE DEF bw, bh, pw, ph
<1> QED BY <1>1, <1>2, <1>3, <1>4 DEF Smaller, Larger, Box

LEMMA CenteredIsBox ==
  ASSUME NEW p \in Photo
  PROVE  CenteredBox(p) \in Box
<1>1. p.w \in Nat /\ p.h \in Nat
  BY FrameSize
<1> QED BY <1>1 DEF CenteredBox, Box

LEMMA SegmentationIsBoxes ==
  ASSUME NEW p \in Photo, NEW bs \in Segmentations(p)
  PROVE  bs \in Seq(Box)
<1> DEFINE found == {i \in DOMAIN p.blobs : LooksLikeReceipt(p.blobs[i], p)}
<1>1. PICK list \in Ext!SetToSeqs(found) : bs = [i \in DOMAIN list |-> Padded(p.blobs[list[i]], p)]
  BY DEF Segmentations
<1>2. p.blobs \in Seq(Blob(p))
  BY PhotoAssumption
<1>3. \A i \in found : Padded(p.blobs[i], p) \in Box
  BY <1>2, PaddedIsBox
<1>4. IsFiniteSet(found)
  <2>1. DOMAIN p.blobs = 1 .. Len(p.blobs) /\ Len(p.blobs) \in Nat
    BY <1>2
  <2>2. IsFiniteSet(DOMAIN p.blobs)
    BY <2>1, FS_Interval
  <2>3. found \subseteq DOMAIN p.blobs
    OBVIOUS
  <2> HIDE DEF found
  <2> QED BY <2>2, <2>3, FS_Subset
<1>5. Cardinality(found) \in Nat
  BY <1>4, FS_CardinalityType
<1> HIDE DEF found
<1>6. list \in [1 .. Cardinality(found) -> found]
  BY <1>1 DEF Ext!SetToSeqs, Ext!Cardinality, Cardinality
<1>7. bs \in [1 .. Cardinality(found) -> Box]
  BY <1>1, <1>3, <1>6
<1> QED BY <1>5, <1>7

\* The boxes are edited, of the photo they are for.
LEMMA EditBoxesPanel ==
  ASSUME PanelInv, NEW bs \in Seq(Box), EditBoxes(bs)
  PROVE  PanelInv'
<1>1. UNCHANGED <<composite, dims, step, busy, overlapped, issued, evidence, task>> /\ boxes' = bs
  BY DEF EditBoxes, Review
<1>2. Running("scan")' = Running("scan")
  BY <1>1 DEF Running
<1> QED BY <1>1, <1>2 DEF PanelInv, Ids

LEMMA NextPanel == ReceiptInv /\ PanelInv /\ [Next]_vars => PanelInv'
<1> SUFFICES ASSUME ReceiptInv, PanelInv, [Next]_vars PROVE PanelInv'
  OBVIOUS
<1>1. /\ DOMAIN task = Task /\ issued \in Nat /\ MaxActuals \in Nat
      /\ \A t \in Running("add") : task[t].id \in Ids \union {None}
  BY BoundAssumption DEF ReceiptInv, Shapes, KnownIds
<1>2. ASSUME UNCHANGED <<composite, dims, boxes, step, busy, overlapped, issued, evidence, task>>
      PROVE  PanelInv'
  BY <1>2 DEF PanelInv, Ids, Running
<1>3. ASSUME NEW p \in Photo, ChoosePhoto(p) \/ PhotoRead(p) \/ SegmentFails(p) PROVE PanelInv'
  <2>1. /\ UNCHANGED <<dims, boxes, step, overlapped, issued, evidence, task>>
        /\ composite' \in {composite, p} /\ busy' \in BOOLEAN
    <3>1. CASE ChoosePhoto(p)
      BY <3>1 DEF ChoosePhoto, Review, PanelInv
    <3>2. CASE PhotoRead(p)
      BY <3>2 DEF PhotoRead, Review
    <3>3. CASE SegmentFails(p)
      BY <3>3 DEF SegmentFails, Review
    <3> QED BY <1>3, <3>1, <3>2, <3>3
  <2> QED BY <2>1 DEF PanelInv, Ids, Running
<1>4. ASSUME NEW p \in Photo, NEW found \in Segmentations(p), Segmented(p, found) PROVE PanelInv'
  <2>1. /\ UNCHANGED <<composite, overlapped, issued, evidence, task>>
        /\ dims' = p /\ step' = "boxes" /\ busy' = FALSE
        /\ boxes' = found \/ boxes' = <<CenteredBox(p)>>
    BY <1>4 DEF Segmented, Review
  <2>2. boxes' \in Seq(Box)
    <3>1. found \in Seq(Box) /\ CenteredBox(p) \in Box
      BY SegmentationIsBoxes, CenteredIsBox
    <3>2. <<CenteredBox(p)>> \in Seq(Box)
      BY <3>1
    <3> QED BY <2>1, <3>1, <3>2
  <2> QED BY <2>1, <2>2 DEF PanelInv, Ids
<1>5. CASE AddBox
  <2>1. dims \in Photo /\ EditBoxes(Append(boxes, CenteredBox(dims)))
    BY <1>5 DEF AddBox, EditBoxes, PanelInv
  <2>2. Append(boxes, CenteredBox(dims)) \in Seq(Box)
    BY <2>1, CenteredIsBox DEF PanelInv
  <2> QED BY <2>1, <2>2, EditBoxesPanel
<1>6. CASE BackToBoxes
  <2>1. /\ UNCHANGED <<composite, dims, boxes, busy, overlapped, issued, evidence, task>>
        /\ step = "review" /\ step' = "boxes"
    BY <1>6 DEF BackToBoxes, Review
  <2> QED BY <2>1 DEF PanelInv, Ids
<1>7. ASSUME NEW i \in DOMAIN boxes, RemoveBox(i) PROVE PanelInv'
  <2>1. Ext!RemoveAt(boxes, i) \in Seq(Box)
    BY DEF PanelInv, Ext!RemoveAt
  <2> QED BY <1>7, <2>1, EditBoxesPanel DEF RemoveBox
<1>8. ASSUME NEW i \in DOMAIN boxes, NEW dx \in Drags, NEW dy \in Drags,
             MoveBox(i, dx, dy) \/ ResizeBox(i, dx, dy)
      PROVE  PanelInv'
  <2>1. /\ boxes[i] \in Box /\ boxes \in [DOMAIN boxes -> Box]
        /\ boxes[i].x \in Nat /\ boxes[i].y \in Nat /\ boxes[i].w \in Int /\ boxes[i].h \in Int
        /\ boxes[i] = [x |-> boxes[i].x, y |-> boxes[i].y, w |-> boxes[i].w, h |-> boxes[i].h]
        /\ dx \in Int /\ dy \in Int /\ MinSide \in Nat
    <3>1. boxes[i] \in Box /\ boxes \in [DOMAIN boxes -> Box]
      BY DEF PanelInv
    <3>2. dx \in Int /\ dy \in Int /\ MinSide \in Nat
      BY BoundAssumption
    <3> QED BY <3>1, <3>2 DEF Box
  <2>2. dims.w \in Int /\ dims.h \in Int
    BY <1>8, FrameSize DEF MoveBox, ResizeBox, EditBoxes, PanelInv
  <2>3. ASSUME NEW box \in Box PROVE [boxes EXCEPT ![i] = box] \in Seq(Box)
    BY <2>1 DEF PanelInv
  <2>4. CASE MoveBox(i, dx, dy)
    <3> DEFINE nx == Larger(0, Smaller(dims.w - boxes[i].w, boxes[i].x + dx))
               ny == Larger(0, Smaller(dims.h - boxes[i].h, boxes[i].y + dy))
               box == [x |-> nx, y |-> ny, w |-> boxes[i].w, h |-> boxes[i].h]
    <3>1. box \in Box
      <4>1. nx \in Nat /\ ny \in Nat
        BY <2>1, <2>2 DEF Larger, Smaller
      <4> QED BY <2>1, <4>1 DEF Box
    <3>2. EditBoxes([boxes EXCEPT ![i] = box])
      BY <2>4 DEF MoveBox
    <3> QED BY <2>3, <3>1, <3>2, EditBoxesPanel
  <2>5. CASE ResizeBox(i, dx, dy)
    <3> DEFINE nw == Larger(MinSide, Smaller(dims.w - boxes[i].x, boxes[i].w + dx))
               nh == Larger(MinSide, Smaller(dims.h - boxes[i].y, boxes[i].h + dy))
               box == [x |-> boxes[i].x, y |-> boxes[i].y, w |-> nw, h |-> nh]
    <3>1. box \in Box
      <4>1. nw \in Int /\ nh \in Int
        BY <2>1, <2>2 DEF Larger, Smaller
      <4> QED BY <2>1, <4>1 DEF Box
    <3>2. EditBoxes([boxes EXCEPT ![i] = box])
      BY <2>5 DEF ResizeBox
    <3> QED BY <2>3, <3>1, <3>2, EditBoxesPanel
  <2> QED BY <1>8, <2>4, <2>5
<1>9. ASSUME NEW i \in DOMAIN rows, NEW b \in BOOLEAN, SelectRow(i, b) PROVE PanelInv'
  BY <1>2, <1>9 DEF SelectRow, panel
<1>10. ASSUME NEW t \in Task, task[t].kind # "scan", task'[t].kind # "scan",
              \A u \in Task \ {t} : task'[u] = task[u]
       PROVE  Running("scan")' = Running("scan")
  BY <1>10 DEF Running
<1>11. ASSUME NEW t \in Task, StartScan(t) PROVE PanelInv'
  <2>1. /\ UNCHANGED <<composite, dims, boxes, step, overlapped, issued, evidence>>
        /\ busy' = TRUE /\ step = "boxes"
    BY <1>11 DEF StartScan, Start, panel
  <2> QED BY <2>1 DEF PanelInv, Ids
<1>12. ASSUME NEW t \in Task, Ends(t) PROVE Running("scan")' \subseteq Running("scan")
  <2>1. task'[t] = Idle /\ \A v \in Task \ {t} : task'[v] = task[v]
    BY <1>1, <1>12 DEF Ends
  <2> QED BY <2>1 DEF Running, Idle
<1>13. ASSUME NEW t \in Task, NEW read, FinishScan(t, read) PROVE PanelInv'
  <2>1. /\ UNCHANGED <<composite, dims, boxes, overlapped, issued, evidence>>
        /\ busy' = FALSE /\ step' = "review" /\ t \in Running("scan") /\ Ends(t)
    BY <1>13 DEF FinishScan
  <2> QED BY <2>1 DEF PanelInv, Ids
<1>14. ASSUME NEW t \in Task, ScanThrows(t) \/ Refreshed(t) \/ RefreshThrows(t) PROVE PanelInv'
  <2>1. /\ UNCHANGED <<composite, dims, boxes, step, overlapped, issued, evidence>>
        /\ busy' \in {busy, FALSE} /\ Ends(t)
    BY <1>14 DEF ScanThrows, Refreshed, RefreshThrows, panel
  <2> QED BY <1>12, <2>1 DEF PanelInv, Ids
<1>15. ASSUME Running("scan")' = Running("scan"), UNCHANGED <<composite, dims, boxes, step>>,
              {busy', overlapped'} \subseteq BOOLEAN,
              issued' \in {issued, issued + 1}, issued' <= MaxActuals,
              evidence' \subseteq 1 .. issued'
       PROVE  PanelInv'
  BY <1>1, <1>15 DEF PanelInv, Ids
<1>16. ASSUME NEW t \in Task, StartAdd(t) \/ StartUndo(t) PROVE PanelInv'
  <2>1. /\ task[t].kind = "idle" /\ task'[t].kind \in {"add", "undo"}
        /\ \A u \in Task \ {t} : task'[u] = task[u]
    BY <1>1, <1>16 DEF StartAdd, StartUndo, Start, Idle
  <2>2. UNCHANGED <<composite, dims, boxes, step, issued, evidence>> /\ busy' = TRUE
    BY <1>16 DEF StartAdd, StartUndo, Start, panel
  <2>3. overlapped' \in BOOLEAN
    BY <1>16 DEF StartAdd, StartUndo
  <2> QED BY <1>10, <1>15, <2>1, <2>2, <2>3 DEF PanelInv, Ids
<1>17. ASSUME NEW t \in Task, NEW ids, t \in Running("add"), Proceeds(t, ids)
       PROVE  Running("scan")' = Running("scan")
  BY <1>10, <1>17, ProceedsTo DEF Running
<1>18. ASSUME NEW t \in Task, RowFails(t) \/ AttachmentFails(t) PROVE PanelInv'
  <2>1. /\ t \in Running("add") /\ Proceeds(t, {})
        /\ UNCHANGED <<composite, dims, boxes, step, busy, overlapped, issued, evidence>>
    BY <1>18 DEF RowFails, AttachmentFails, Adding, panel
  <2> QED BY <1>15, <1>17, <2>1 DEF PanelInv, Ids
<1>19. ASSUME NEW t \in Task, RecordActual(t) PROVE PanelInv'
  <2>1. /\ t \in Running("add") /\ issued < MaxActuals /\ issued' = issued + 1
        /\ task' = [task EXCEPT ![t].id = issued + 1]
        /\ UNCHANGED <<composite, dims, boxes, step, busy, overlapped, evidence>>
    BY <1>19 DEF RecordActual, Adding, panel
  <2>2. task'[t].kind = "add" /\ \A u \in Task \ {t} : task'[u] = task[u]
    BY <1>1, <2>1 DEF Running, ReceiptInv, Shapes
  <2>3. evidence' \subseteq 1 .. issued'
    BY <1>1, <2>1 DEF PanelInv, Ids
  <2> QED BY <1>1, <1>10, <1>15, <2>1, <2>2, <2>3 DEF PanelInv, Running
<1>20. ASSUME NEW t \in Task, SaveAttachment(t) PROVE PanelInv'
  <2>1. /\ t \in Running("add") /\ Proceeds(t, {task[t].id}) /\ task[t].id # None
        /\ evidence' = evidence \union {task[t].id}
        /\ UNCHANGED <<composite, dims, boxes, step, busy, overlapped, issued>>
    BY <1>20 DEF SaveAttachment, Adding, panel
  <2>2. evidence' \subseteq 1 .. issued'
    BY <1>1, <2>1 DEF PanelInv, Ids
  <2> QED BY <1>15, <1>17, <2>1, <2>2 DEF PanelInv
<1>21. ASSUME NEW t \in Task, FinishAdd(t) \/ FinishUndo(t) PROVE PanelInv'
  <2>1. /\ task[t].kind \in {"add", "undo"} /\ task' = [task EXCEPT ![t] = [kind |-> "refresh"]]
        /\ UNCHANGED <<composite, dims, boxes, step, busy, overlapped, issued, evidence>>
    BY <1>21 DEF FinishAdd, FinishUndo, Running, panel
  <2>2. task'[t].kind = "refresh" /\ \A u \in Task \ {t} : task'[u] = task[u]
    BY <1>1, <2>1
  <2> QED BY <1>10, <1>15, <2>1, <2>2 DEF PanelInv, Ids
<1>22. ASSUME NEW t \in Task, NEW id, NEW removed \in BOOLEAN, NEW detached \in BOOLEAN,
              UndoOne(t, id, removed, detached)
       PROVE  PanelInv'
  <2>1. /\ task[t].kind = "undo"
        /\ task' = [task EXCEPT ![t].todo = @ \ {id}, ![t].gone = @ \union {id}]
        /\ evidence' \subseteq evidence
        /\ UNCHANGED <<composite, dims, boxes, step, busy, issued>>
    BY <1>22 DEF UndoOne, Running, panel
  <2>2. task'[t].kind = "undo" /\ \A u \in Task \ {t} : task'[u] = task[u]
    <3>1. task'[t] = [[task[t] EXCEPT !.todo = @ \ {id}] EXCEPT !.gone = @ \union {id}]
      BY <1>1, <2>1
    <3>2. task'[t].kind = task[t].kind
      BY <3>1
    <3> QED BY <1>1, <2>1, <3>2
  <2>3. overlapped' \in BOOLEAN
    BY <1>22 DEF UndoOne
  <2> QED BY <1>10, <1>15, <2>1, <2>2, <2>3 DEF PanelInv, Ids
<1>23. CASE UNCHANGED vars
  BY <1>2, <1>23 DEF vars, panel
<1> QED
  BY <1>3, <1>4, <1>5, <1>6, <1>7, <1>8, <1>9, <1>11, <1>13, <1>14, <1>16, <1>18, <1>19, <1>20,
     <1>21, <1>22, <1>23 DEF Next

\* The panel's type; and what a scan would cut out is in the photo, though the
\* boxes were made for another photo or dragged over its edge (receipts.rs, crop_png).
THEOREM ReceiptTypeCorrect == Spec => []TypeOK
<1>1. Spec => [](ReceiptInv /\ BooksInv /\ PanelInv)
  BY InitReceipt, InitBooks, InitPanel, NextReceipt, NextBooks, NextPanel, PTL DEF Spec
<1>2. ReceiptInv /\ BooksInv /\ PanelInv => TypeOK
  <2> SUFFICES ASSUME ReceiptInv, BooksInv, PanelInv PROVE TypeOK
    OBVIOUS
  <2>1. issued \in 0 .. MaxActuals /\ DOMAIN books \subseteq Ids /\ addedIds \subseteq Ids
    BY BoundAssumption DEF ReceiptInv, KnownIds, BooksInv, NamesInv, PanelInv
  <2>2. composite # None => \A i \in DOMAIN boxes : InFrame(Crop(boxes[i], composite), composite)
    <3>1. ASSUME NEW i \in DOMAIN boxes
          PROVE  /\ boxes[i].x \in Nat /\ boxes[i].y \in Nat
                 /\ boxes[i].w \in Int /\ boxes[i].h \in Int
      <4>1. boxes[i] \in Box
        BY DEF PanelInv
      <4> QED BY <4>1 DEF Box
    <3>2. composite # None => composite \in Photo
      BY DEF PanelInv
    <3> QED BY <3>1, <3>2, CropIsInFrame
  <2>3. \A i \in DOMAIN rows : rows[i].addedId \in {None} \union Ids
    BY DEF ReceiptInv, KnownIds, AddedRowsCanBeUndone
  <2> QED BY <2>1, <2>2, <2>3 DEF TypeOK, PanelInv, Ids
<1> QED BY <1>1, <1>2, PTL
=============================================================================
