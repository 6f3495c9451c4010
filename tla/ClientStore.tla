----------------------------- MODULE ClientStore -----------------------------
(***************************************************************************)
(* The online client (apps/desktop/src/store.ts, api.ts): the budget that  *)
(* is open, what its views show, the refreshes under way and the live      *)
(* channels.  JavaScript runs one callback at a time; what interleaves are *)
(* the callbacks.  A refresh starts one fetch per part of the view, each   *)
(* served from whatever version the server has at that moment, and sets    *)
(* the view when the last has arrived.                                     *)
(*                                                                         *)
(* A budget's contents are its version: the number of edits it has taken.  *)
(* An async call is known by the number of its refresh, and a live channel *)
(* by the openBudget call that connected it.                               *)
(***************************************************************************)
EXTENDS Naturals, Functions

CONSTANTS
  BudgetId,
  Part,        \* what a refresh fetches: topsheet, tree, tools
  MaxVersion,  \* bound: edits of all budgets
  MaxRefresh,  \* bound: refreshes ever started
  Nothing      \* no budget, no channel, no view, no answer yet

ASSUME NothingAssumption == Nothing \notin BudgetId \union Nat
ASSUME RefreshAssumption == MaxRefresh \in Nat

VARIABLES
  version,    \* the server: the version of each budget
  open,       \* currentBudgetId
  loading,    \* the view is replaced by a placeholder
  shown,      \* topsheet, tree and tools in the store: [budget, got], or Nothing
  refreshes,  \* the refreshes under way
  started,    \* how many were started
  posted,     \* own edits whose answer has not arrived
  sockets,    \* the channels that are connected
  ws,         \* the one the store knows
  fetched,    \* history: the newest version of each part that has arrived
  failed      \* history: has a fetch failed

clientVars == <<version, open, loading, shown, refreshes, started, posted, sockets, ws,
              fetched, failed>>

Call == 1 .. MaxRefresh
Version == Nat
Waiting == Nothing          \* the fetch of a part is not served yet

\* What happens when a refresh is over: openBudget goes on to connect.
Then == {"connect", "nothing"}

Refresh == [call : Call, budget : BudgetId, got : [Part -> Version \union {Waiting}],
            then : Then]
Socket == [call : Call, budget : BudgetId, phase : {"connecting", "live"},
           queue : Version,     \* op messages on the way
           from : Version]      \* the version it was subscribed at
View == [budget : BudgetId, got : [Part -> Version]]

----------------------------------------------------------------------------
\* After init() of the store: a stored token leaves the placeholder as the store
\* is created with it, TRUE, and a user who has to log in finds it reset.
ClientInit ==
  /\ version = [b \in BudgetId |-> 0]
  /\ open = Nothing
  /\ loading \in BOOLEAN
  /\ shown = Nothing
  /\ refreshes = {}
  /\ started = 0
  /\ posted = 0
  /\ sockets = {}
  /\ ws = Nothing
  /\ fetched = [b \in BudgetId |-> [p \in Part |-> 0]]
  /\ failed = FALSE

\* Faulty variant: the early return forgets the placeholder.
StartRefreshKeepsPlaceholder(budget, then) ==
  IF budget = Nothing
  THEN /\ loading' = TRUE
       /\ UNCHANGED <<refreshes, started>>
  ELSE /\ started < MaxRefresh
       /\ started' = started + 1
       /\ loading' = TRUE
       /\ refreshes' = refreshes \union
            {[call |-> started + 1, budget |-> budget,
              got |-> [p \in Part |-> Waiting], then |-> then]}

\* refresh(), as far as its await, for the budget open at this moment; without
\* one it is over at once.
StartRefresh(budget, then) ==
  IF budget = Nothing
  THEN /\ loading' = FALSE
       /\ UNCHANGED <<refreshes, started>>
  ELSE /\ started < MaxRefresh
       /\ started' = started + 1
       /\ loading' = TRUE
       /\ refreshes' = refreshes \union
            {[call |-> started + 1, budget |-> budget,
              got |-> [p \in Part |-> Waiting], then |-> then]}

\* openBudget, as far as the await of its refresh.
OpenBudget(b) ==
  /\ open = Nothing
  /\ open' = b
  /\ StartRefresh(b, "connect")
  /\ UNCHANGED <<version, shown, posted, sockets, ws, fetched, failed>>

\* leaveBudget: only the channel in the store is closed.
LeaveBudget ==
  /\ open # Nothing
  /\ open' = Nothing
  /\ ws' = Nothing
  /\ sockets' = {s \in sockets : s.call # ws}
  /\ UNCHANGED <<version, loading, shown, refreshes, started, posted, fetched, failed>>

\* A fetch reaches the server, which computes the part from what it has now.
ServeFetch(r, p) ==
  /\ r.got[p] = Waiting
  /\ refreshes' = (refreshes \ {r}) \union
                    {[r EXCEPT !.got[p] = version[r.budget]]}
  /\ UNCHANGED <<version, open, loading, shown, started, posted, sockets, ws, fetched,
                 failed>>

Newer(a, b) == IF a < b THEN b ELSE a

\* Promise.all: every fetch of the refresh was answered.
AllArrived(r) == \A p \in Part : r.got[p] # Waiting

\* Faulty variant: the answers are taken to be about the budget that is open.
ViewOfOpen(r) == [budget |-> open, got |-> r.got]

\* What the views show once a refresh is over.
ViewOf(r) == [budget |-> r.budget, got |-> r.got]

\* The last answer arrives: refresh() sets the view, whatever is open by now,
\* and openBudget connects the live channel of its own budget.
FinishRefresh(r) ==
  /\ AllArrived(r)
  /\ refreshes' = refreshes \ {r}
  /\ shown' = ViewOf(r)
  /\ loading' = FALSE
  /\ fetched' = [fetched EXCEPT ![r.budget] =
                   [p \in Part |-> Newer(@[p], r.got[p])]]
  /\ IF r.then = "connect"
     THEN /\ sockets' = sockets \union
               {[call |-> r.call, budget |-> r.budget, phase |-> "connecting",
                 queue |-> 0, from |-> 0]}
          /\ ws' = r.call
     ELSE UNCHANGED <<sockets, ws>>
  /\ UNCHANGED <<version, open, started, posted, failed>>

\* A fetch fails: refresh() throws, and with it openBudget; nothing resets
\* loading.
FailRefresh(r) ==
  /\ refreshes' = refreshes \ {r}
  /\ failed' = TRUE
  /\ UNCHANGED <<version, open, loading, shown, started, posted, sockets, ws, fetched>>

\* The server subscribes the channel: it gets the ops from here on.
SubscribeSocket(s) ==
  /\ s.phase = "connecting"
  /\ sockets' = (sockets \ {s}) \union
                  {[s EXCEPT !.phase = "live", !.from = version[s.budget]]}
  /\ UNCHANGED <<version, open, loading, shown, refreshes, started, posted, ws, fetched,
                 failed>>

\* The connection of a channel is lost; the client does not reconnect.
DropSocket(s) ==
  /\ sockets' = sockets \ {s}
  /\ UNCHANGED <<version, open, loading, shown, refreshes, started, posted, ws, fetched,
                 failed>>

\* The server applies an edit of budget b and forwards it.
Applied(b) ==
  /\ FoldFunction(LAMBDA a, n : a + n, 0, version) < MaxVersion
  /\ version' = [version EXCEPT ![b] = @ + 1]
  /\ sockets' = {IF s.budget = b /\ s.phase = "live" THEN [s EXCEPT !.queue = @ + 1] ELSE s :
                   s \in sockets}

\* Somebody else's edit.
RemoteEdit(b) ==
  /\ Applied(b)
  /\ UNCHANGED <<open, loading, shown, refreshes, started, posted, ws, fetched, failed>>

\* editDetail, addLine, ... as far as the server's answer.
PostEdit ==
  /\ open # Nothing
  /\ Applied(open)
  /\ posted' = posted + 1
  /\ UNCHANGED <<open, loading, shown, refreshes, started, ws, fetched, failed>>

\* The answer arrives and the edit refreshes.
EditAnswered ==
  /\ posted > 0
  /\ posted' = posted - 1
  /\ StartRefresh(open, "nothing")
  /\ UNCHANGED <<version, open, shown, sockets, ws, fetched, failed>>

\* Faulty variant: an op is ignored while a refresh is under way.
ReceiveOpUnlessLoading(s) ==
  /\ s.queue > 0
  /\ sockets' = (sockets \ {s}) \union {[s EXCEPT !.queue = @ - 1]}
  /\ IF loading THEN UNCHANGED <<loading, refreshes, started>>
     ELSE StartRefresh(open, "nothing")
  /\ UNCHANGED <<version, open, shown, posted, ws, fetched, failed>>

\* An op message arrives on a channel and refreshes whatever budget is open.
ReceiveOp(s) ==
  /\ s.queue > 0
  /\ sockets' = (sockets \ {s}) \union {[s EXCEPT !.queue = @ - 1]}
  /\ StartRefresh(open, "nothing")
  /\ UNCHANGED <<version, open, shown, posted, ws, fetched, failed>>

ClientNext ==
  \/ LeaveBudget
  \/ PostEdit
  \/ EditAnswered
  \/ \E b \in BudgetId : OpenBudget(b) \/ RemoteEdit(b)
  \/ \E r \in refreshes :
       \/ \E p \in Part : ServeFetch(r, p)
       \/ FinishRefresh(r)
       \/ FailRefresh(r)
  \/ \E s \in sockets : SubscribeSocket(s) \/ DropSocket(s) \/ ReceiveOp(s)

\* The progress of one refresh: its fetches are answered, or one fails.
Progress(c) ==
  \E r \in refreshes :
    /\ r.call = c
    /\ \/ \E p \in Part : ServeFetch(r, p)
       \/ FinishRefresh(r)
       \/ FailRefresh(r)

\* A request is answered or fails in the end, and the event loop runs the
\* callback; the user and the other collaborators owe nothing.
Fairness == \A c \in Call : WF_clientVars(Progress(c))

ClientSpec == ClientInit /\ [][ClientNext]_clientVars /\ Fairness

----------------------------------------------------------------------------
ClientTypeOK ==
  /\ version \in [BudgetId -> Version]
  /\ open \in BudgetId \union {Nothing}
  /\ loading \in BOOLEAN
  /\ shown = Nothing \/ shown \in View
  /\ refreshes \subseteq Refresh
  /\ started \in 0 .. MaxRefresh
  /\ posted \in Nat
  /\ sockets \subseteq Socket
  /\ ws = Nothing \/ ws \in Call
  /\ fetched \in [BudgetId -> [Part -> Version]]
  /\ failed \in BOOLEAN

\* Nothing is on its way to a client that has a budget open, whose channel is
\* live and whose refreshes all succeeded.
Settled(s) ==
  /\ open # Nothing /\ ~ failed
  /\ s.call = ws /\ s.budget = open /\ s.phase = "live"
  /\ refreshes = {} /\ posted = 0 /\ s.queue = 0

\* Once a client has settled, every part of the latest version that was made
\* while its channel was live has arrived: each op led to a refresh that began
\* after it, however the answers overtook each other (store.ts, openBudget:
\* "re-fetch on remote ops").
LatestHasArrived ==
  \A s \in sockets :
    Settled(s) /\ version[open] > s.from =>
      \A p \in Part : fetched[open][p] = version[open]

\* ... and that is what the client shows.
SettledViewIsLatest ==
  \A s \in sockets :
    Settled(s) /\ version[open] > s.from =>
      shown = [budget |-> open, got |-> [p \in Part |-> version[open]]]

\* From the first budget that is opened on, the placeholder goes away, unless a
\* fetch fails (store.ts, refresh: loading is set before the fetches and reset
\* after them, also where a refresh is overtaken by another or its budget was left
\* meanwhile).
PlaceholderGoes == (loading /\ started > 0) ~> (~ loading \/ failed)
=============================================================================
