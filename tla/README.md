# BudgetCut in TLA+

BudgetCut is an offline-first, collaborative budgeting tool for film and
television productions: a Rust core (operation log, reducer, calculation), a
SQLite-backed session, a sync server and a desktop/browser application. This
directory holds TLA+ models of it, the TLC configurations that check them and
TLAPS proofs about them. Paths below are relative to the repository root.

## The system

| Component | State it keeps | Operations | Interacts by |
|---|---|---|---|
| Clock, `crates/budgetcut-core/src/hlc.rs` | last timestamp `(wall, counter, node)` | `new`, `seeded`, `tick`, `observe` | called whenever an op is minted |
| Reducer, `core/src/ops/mod.rs` | budget, registers, applied op ids, waiting ops | `apply` of insert, remove, set | called by session, server and syncing clients on the same ops |
| Session and store, `crates/budgetcut-store` | document and clock in memory; base snapshot and op log in SQLite | `create`, `open`, `edit`, `reseed`, `append_op`, `reset`, `ack_op` | desktop commands call it one at a time, under a mutex |
| Sync room, `crates/budgetcut-server/src/lib.rs` | per budget: base, document, log, members, broadcast channel; one clock | `submit_op`, REST edits through `apply_member_op`, `snapshot`, the live channel | HTTP and WebSocket; all handlers share one mutex |
| Purchase orders, `core/src/po.rs`, handlers in server and desktop | records in the document | add, approve, convert, delete; delete an actual | one or two ops each |
| Accounts and tokens, server `lib.rs`, `auth.rs` | users, refresh-token records | `register`, `login`, `refresh_token` | HTTP |
| Organisations, projects, memberships, server `lib.rs`, `rbac.rs` | membership maps, roles, category scopes | create, add members, `effective_membership`, `can_write`, `can_read` | consulted by every handler |
| Browser store, `apps/desktop/src/store.ts`, `api.ts` | open budget, view, token, live channel | `openBudget`, `leaveBudget`, `refresh`, edits | HTTP and WebSocket to the server, or local commands |
| Calculation, `core/src/calc`, `expr.rs`, `money.rs` | none | `evaluate`, `resolve_globals`, fringes, charges, totals | called on a budget |
| Actuals, settlement, views, `core/src/actuals.rs`, `settlement.rs`, `view.rs` | none | reports over a budget | called by session and server |
| Scheduling, series, comparison, incentives, libraries, validation, templates | none, but for stored libraries | pure functions; `apply_library` emits ops | called by session and server |
| Receipt scanning, `receipts.rs`, `ReceiptScanPanel.tsx` | rows on screen, attachments on disk | scan, add selected rows, undo | local commands and an external recognition service |
| Export, importers | none | formatting and parsing | called on finished reports and files |

### What is hard about it, and what must hold

- *Reducer*. Ops reach a replica in any order, repeatedly, edits before the
  insert they need, removals and re-inserts between them. Replicas with the
  same ops must show the same budget, no edit may be dropped by a buffer or an
  eviction, and the buffer must not grow.
- *Clock and restart*. The wall clock may stand still or go back, and a restart
  begins with a new counter and a new node id. A user's next edit must still
  win over everything shown.
- *Store*. An edit is applied in memory before it is written; a write may fail
  and the process may stop between two statements. After a restart exactly the
  confirmed edits must be there, except where a reset ended between its two statements.
- *Room*. Requests are repeated when their answer is lost; subscribing and
  loading the snapshot are two requests; the channel is bounded. A follower
  must end up with the room's budget, and the snapshot must rebuild it.
- *Orders*. A convert is two ops and may stop between them, and an actual has
  the id of its order. No cost may be lost or counted twice.
- *Tokens*. An exchange may fail half-way, its answer may be lost and several
  tabs may hold one token. A session must have one usable token at most.
- *Members*. A channel keeps the membership it was opened with, an op is asked
  about after it was applied, and a snapshot filters old ops by today's budget. A
  scoped member must still see their departments as the budget has them, nothing
  that it no longer has, and of the other departments nothing that came later than the base,
  which is not filtered. (The reports show every member the whole budget.)
- *Libraries*. Names are looked up once, then there is one op per missing item; a library may be
  applied again, or to a copy, or after a submitted op made a name ambiguous. It must not bring a
  name the budget has.
- *Books*. Totals are computed along several paths (by line, account, category,
  level of fringe, mode of fringe), rounded at different places, cut to the 28 digits of a
  `Decimal` after each addition, saturated at the end of the range, over budgets with dangling
  references, cyclic formulas and suppressed groups. They must agree with each other, but for what
  rounding can make of them.
- *Receipt panel*. Handlers wait for the host between any two steps and share one
  busy flag; each goes on from the rows it saw. What is marked as added must be
  on the books with its evidence, undo must know of it, and a row must not be recorded twice.
- *Browser store*. Refreshes overlap, their answers overtake each other and
  the user leaves meanwhile. An op must lead to a refresh that sees it, and the
  placeholder must go away.

`PROJECT.json` lists these hazards at the lines where they bite, with the
properties about each.

## The modules

```
Hlc <- Document <- Merge <- OpSet            timestamps, reducer, reference, promise
                        <- Reducer           replicas (implements OpSet)
                        <- LocalStore        session + SQLite log
                        <- SyncRoom          server room + offline peer + channel
Hlc <- PurchaseOrders                        records that share a uuid
Access                                       members, roles, scopes, libraries, channels
Sums <- Globals <- Calc <- Reports <- Books  sums, formulas, evaluation, reports, commands
ClientStore                                  callbacks of the browser store
ReceiptScan                                  callbacks of the receipt panel
Tokens                                       sign-in and token rotation
Merge <- MergeProofs                         LocalStore, MergeProofs <- LocalStoreProofs
Reducer, SyncRoom, MergeProofs <- SyncProofs
Hlc, PurchaseOrders <- OrdersProofs          Access, Tokens <- ServerProofs
ClientStore, ReceiptScan <- DesktopProofs    Books <- CalcProofs <- BooksProofs
MCReducer, MCLocalStore, MCPurchaseOrders, MCSyncRoom, MCAccess, MCBooks,
MCClientStore, MCReceiptScan, MCTokens
```

**Hlc.** A timestamp is the triple of `hlc.rs`; `Before` is its lexicographic
order, `Tick` and `Observe` the clock's two updates, `NoHlc` the empty register.
The node of a timestamp is the user id, a number here, because `Ord` compares it.

**Document.** The reducer. An entity's state is its existence register, whether
it is present, the op that each of its fields shows (`cell`), its field registers
and the ops that wait for it. Instead of a payload a cell holds the *op that
wrote it*: two payloads are told apart exactly when they come from different
ops. `TagsOf` says which fields of an entity have a register of their own
(details and globals have some, all other records none); the tags outside it
stand for the rest of the payload, which only an insert writes. `Insert`,
`Remove`, `SetField`, `Buffer` and `FlushPending` are the functions of
those names, `Outcome` is the `ApplyResult`; `ReplayOnto` applies a log to a document, as a
session does when it opens and a client when it loads a snapshot. The code's map of registers is
keyed by uuid and the model's by entity: `Document` assumes that a uuid names
one kind of record. `PurchaseOrders` is about the one place where it does not.

**Merge** states, without registers or order of application, what a set of ops
stands for: an entity lives if its last insert or removal is an insert, and a
field shows the last op that wrote it. **OpSet** is the abstract specification:
a replica sees ops and shows the merge of them. **Reducer** has a number of replicas that
submit ops and apply each other's in any order, any number of times, and
implements `OpSet` under the mapping "seen = applied ops, budget = shown cells".

*The discipline on ops.* `ops/mod.rs` writes down an assumption about its
callers: an entity's insert has the lowest timestamp among its ops. Taken
literally it excludes re-inserts, which the desktop and the server do make
(approve and convert insert an order again). `Disciplined` is weaker and is
what the merge needs: timestamps are unique, and a *re*-insert post-dates
every edit of its entity. Records that are re-inserted by the code have no field
ops, so they meet it. The run `resurrection` drops this rule and keeps only what
the test `remove_then_resurrect_converges` is about, and the replicas diverge.

**LocalStore.** `disk` is the database (base snapshot and log), `session` what
is in memory, `call` the statement that comes next in the call under way. Each
action is one database statement or the code between two of them, so that
`Stop` may come anywhere. Two history variables: `confirmed` collects the edits
whose call returned Ok since the base was stored, and `lost` those of them whose rows a reset has
deleted without having stored another base. `diverged` remembers that a statement failed. Each log
entry also carries the base it was minted against, which the database does not
store: it is there to state `LogMatchesBase`.

**SyncRoom.** `room` is the document and log, `clock` the server's clock. A
handler is one step, since it holds the mutex. A peer (the client of
`tests/sync_e2e.rs` and ADR 0002) applies its edits at once, keeps them in an
outbox, submits the first of it until the answer arrives, subscribes, loads the
snapshot and applies what the channel brings. The channel of a receiver is a queue of
`Capacity` messages that loses its oldest one when full. Members read and write
everything; presence messages, which only use up capacity, are left out. Its initial state,
next-state relation, specification and type invariant are named `RoomInit`, `RoomNext`, `RoomSpec`
and `RoomTypeOK`, so that a module can extend `Reducer` beside it.

**PurchaseOrders.** `order` and `actual` are the two maps of the document, with
one existence register per uuid, as the reducer has it. A convert is two
actions, between which the host's lock is held and the desktop app may stop.
`Spec` is a host by itself, the desktop app of today; `ExchangeSpec` lets hosts
exchange ops.

**Access.** The organisation's, the project's and each budget's members, and the
rooms with base, document and log. `EffectiveMembership`, `CanWrite`, `CanRead` and
`OpCategory` are the functions of `lib.rs` and `rbac.rs`; every edit goes through
`ApplyMemberOp`, as in the server. An entity is its presence and two numbers, the last op
that inserted or removed it and the last that wrote it: ops are numbered in the order
the server accepts them, since late and repeated ops are `SyncRoom`'s subject. Lines and
actuals hang on accounts, accounts on categories; fringes and globals are both *tools*,
with names. A library is applied op by op, and `Performed` says how many of them are applied
before one is refused: those stay. `SubmitOp` may insert a second tool of one name, which the
reducer does not refuse; `clashed` is a history variable with the names for which that
happened. `Report` is what the report endpoints compute from, `Snapshot` what a client
replays, `view` what a follower has made of snapshot and channel; `as` and `loadedAs` are the
memberships of the channel and of the snapshot. There is one organisation with one
project.

**Sums.** Two ways to add up: the values of a sequence in its order (`Accumulated`), and those of a
function in some order (`Gathered`). Both take what becomes of a partial sum: nothing (`Exact`), or
it is rounded and cut to the range, as the code's sums are.

**Globals.** A formula is the tree its text is parsed to, or `Bad`, with at most `MaxDepth`
operations nested. `ResolveGlobals` is the depth-first resolution with its memo, which remembers
results while a cycle is being unwound; it goes through the names in their order (`Sorted`) and is a
recursive function on calls, each a formula with the memo and the names being visited. `Meaning` is
the reference: the least assignment in which each global has the value of its formula. A `Decimal`
holds an integer of 96 bits and a scale, so a sum with more digits is rounded at the last place that
fits, half to even. Here a number counts units, the last place of the smallest numbers; `Digits` is
the most of its last place that a number holds, and `Places` are what a last place may be worth: 1
unit while the number is at most `Digits`, then more. `Held` is the number that a result becomes,
`Largest` the end of the range. Quotients are cut at the unit. `Eval` is the checked arithmetic of
cells, while that of globals is unchecked and ends in `"panic"`, as in the code.

**Calc.** One operator per function of `calc/mod.rs`: a line's product, its fringes (line, account,
category, budget; cut-offs, caps, flat and percent), the split of fringes by mode, rollups by
account, category and side of the line, charges and credits. Each addition rounds (`Held`) and
saturates where the code's does, in the order of the positions that `Lines` and `Categories` give;
the breakdown's are unchecked (`panics`). `Kurus` units make up a kurus, so that money is rounded
too.

**Reports.** The views of `view.rs`, the actuals and the settlement as functions of a
budget and its results: which records each takes, what it rounds and where it sums. The variances
and balances that the code subtracts unchecked have `panics`. Labels, order and formatting are left
out, and so are the cash flow's rows of accounts with one number, which it merges
(`view.rs:931-947`): its totals are the same.

**Books.** A budget under the commands of the desktop app. Its properties say that the results mean
what they should and that the reports agree with each other. Commands do not look up most ids and
other clients may take out an account, a category, a fringe or a global, so a budget may have
dangling references; a property that holds only without them says `Valid`.

**ReceiptScan.** A task is a scan, an add, an undo or the refresh at its end, as far as it has come;
between any two of its steps the others run. An add works on the rows it was started with
(`task[t].rows`) and writes to the rows there are now (`SetRow`). Choosing a photo is three steps,
the choice, the end of the reading and the end of the segmentation, of which the last two come at
whatever step the panel is by then: a late segmentation makes an adding panel idle. `books` tells
which row of which scan an actual is of; `overlapped` is a history variable. Boxes and crops are
numbers, since clamping them is where they could go wrong. The boxes that are found come in reading
order, and those that are equal in it in any order, since the code keeps them in a hash map; what is
read from a crop is any outcome.

**ClientStore.** A budget's content is its version, the number of its edits. `loading` is set from
the start (`store.ts:160`), when nothing is open yet.
`refresh` is split at its `await`: the start, the moment the server serves each
of the fetches, the end. `openBudget` continues after its refresh and connects the channel.
`fetched` and `failed` are history variables.

**Tokens.** Records of refresh tokens, the tokens clients hold, and (history)
the families in which a used token was presented. Any answer may be lost.

## The runs

| Run | Instance | Shows |
|---|---|---|
| `merge` | 2 replicas, an inserted and a base line, 1 field with a register and 1 without, 4 timestamps of 2 authors | `ShowsMergedOps`, `Converged`, `BufferBounded`, `RegisterNamesWriter` and `ImplementsOpSet` |
| `resurrection` | the same, one line | the replicas differ after insert, remove, re-insert and an edit that was minted meanwhile |
| `local_store` | 1 base line, 2 authors, wall clock 1..2, 3 confirmed edits of a base, one completed reset, any number of others | a restart shows the confirmed edits, but for those of an unfinished reset; log, base and session agree; the next edit wins |
| `purchase_orders` | 1 host, 3 uuids, 7 ops | no order is two actuals, no converted order lacks its cost |
| `orders_converged` | 2 hosts, 2 uuids | the two ops of a convert, in the other order, leave a host without the actual |
| `sync_room` | 1 peer and the server, wall clock 1..2, counters 0..1, 3 ops, channel of 2 | log, snapshot, follower and room agree; no op is logged twice |
| `client_store` | 2 budgets, 2 edits, 3 refreshes, 1 part | every op leads to a later refresh; the placeholder goes away |
| `tokens` | 2 addresses, 2 clients, 4 tokens | one usable token per family, none after a reuse |
| `access` | 2 users, 2 departments, 2 budgets, 1 library's names, 4 counted calls, 4 ops | snapshot and channel show a member's departments, and of others nothing later than the base; names stay unique but for submitted ops |
| `books` | 2 budgets of 3 lines, 2 globals, 3 fringes, 2 edits of any kind | globals mean their formulas; totals foot and reports agree but for rounding; suppressed lines leave no trace |
| `cash_flow` | the same | the year-to-date total counts undated payments twice |
| `receipt_scan` | 1 photo, chosen twice, 2 tasks at a time, 2 boxes, 2 scans, 2 actuals, 1 edit of boxes or rows | added rows can be undone; a row of a scan becomes one actual unless adds or undos overlap |

Three of the runs are counterexamples, one for each sentence of the repository
that they show the code not to keep; `PROJECT.json` quotes the sentences under
"findings". The other properties hold, and each is broken by a
mutant of the code, listed there too: the operators commented
"Faulty variant" in the modules.

*Bounds.* They cap minted timestamps (`Stamp`), ops (`MaxOps`), confirmed edits (`MaxLog`), bases
(`MaxBase`), edits (`MaxVersion`), refreshes (`MaxRefresh`), tokens (`Jti`) and photos under way
(`MaxPicks`), always as a guard on creating one more. Four ops are enough for the longest interplay
on one entity (insert, edit, removal, re-insert), in each order of arrival at two replicas; entities
do not interact, so two suffice, one of each kind. Three ops fill a channel of two and let a waiting
edit meet a removal and a re-insert; with one field, the interplay of fields is left to `merge`. In
`client_store` three refreshes are an `openBudget` and one per edit, the least with which two
overlap after a channel is live; one part is enough because its properties speak of each part by
itself. In `access` four counted calls are a budget, a membership and two edits under a live
channel, or two budgets and a library saved from one and applied to the other. In `books` each edit
is one that a property could trip over (a cyclic, a huge, a missing value; a repeated fringe; a
removed account), and two of them are a change and what it meets; formulas nest to a depth of two. A
number holds 250 of its last place there, which may be 1, 2 or 4 units, and the range ends at 1000,
4 units being a kurus: the sums of an edited budget need the larger places, so that they do differ
in another order, and a huge value takes them to the end of the range. In `receipt_scan` two tasks
are what the panel can have overlap in pairs, two scans and actuals let a row be added twice, and
two choices of the photo let a segmentation end while a row of the first is added. For everything
but liveness the proofs replace the bounds.

*Deadlock* is checked in `merge`, `local_store` and `sync_room`, where something (a
redelivery, a stop and reopening, a reload) can always happen. It is not
where the model ends by exhausting a bound: the timestamps of
`PurchaseOrders`, the refreshes of `ClientStore`, the tokens of `Tokens`, the calls of
`Access`, the edits of `Books`; and in `ReceiptScan`, where a throwing refresh leaves
the panel busy for good.

*Symmetry* is used over replicas, uuids, tokens, addresses, clients and tasks, which the
modules never order or name, and not in the run with a liveness property.

*Fairness* appears in `ClientStore` alone: weak fairness of the progress of each
refresh. A browser request is answered or fails in the end, and the event loop runs
the continuation of a settled promise. Users, other collaborators, channels and
the answers to edits owe nothing. `PlaceholderGoes` excuses a failing
fetch, since `refresh` then throws and nothing resets `loading`.

## Where code and text differ

The three counterexamples:

- `resurrection`: a re-insert overwrites the fields of an entity but claims only the registers it
  post-dates, so replicas with the same ops may differ (`ops/mod.rs:366`).
- `orders_converged`: a convert's two ops share one existence register, so the host that
  receives them in the other order has no actual.
- `cash_flow`: `view.rs:991` adds undated payments to a total that has them already.

Others are stated in the modules as formulas that no run checks; adding one as an INVARIANT to the
cfg named shows the trace.

- `ResetKeepsEdits` (`MCLocalStore`): the two statements of `reset` are no transaction. A stop or a
  failure between them leaves the old base without the edits that had been confirmed on it, against
  "edits survive a close and reopen" of `tests/persistence.rs`; `store.rs:79-88`.
- `LogIsSourceOfTruth` (`MCLocalStore`): an edit whose append fails returns an error and
  stays in the document in memory, `session.rs:85`.
- `CountedOnce` (`MCPurchaseOrders`): approving an order from a stale list after it was converted
  makes it a commitment again beside its actual, `lib.rs:1970`.
- `OkEditIsLogged` (`MCSyncRoom`): the server's clock does not observe submitted timestamps, so
  a REST edit after an op of a faster clock is stale, dropped and answered "ok", `lib.rs:1146`.
- `NamesValidated` (`MCAccess`): `validation.rs:3-5` says that the server runs its checks, that
  names of globals are unique among them (`:103-109`), before persisting ops. No handler calls them,
  and `submit_op` (`lib.rs:1019-1028`) accepts a second global of one name.
- `NothingOutOfScope` (`MCAccess`): `docs/adr/0002` says of department-scoped users that they "must
  never receive out-of-scope financial data", `rbac.rs:5-7` that the server filters their stream and
  snapshot. The base of a snapshot is not filtered (`lib.rs:988`), and an op whose line has no
  account in the budget, be it that it is gone or has not come, has no category and is sent to
  everybody (`lib.rs:988`, `1106`). That the report endpoints show every member the whole budget is
  a limitation the code states itself, above `get_actuals`. `SnapshotShowsScope` and
  `FollowerShowsScope` say what remains: from a department of neither membership a member has the
  base, and what a line was while its account was away, and nothing else.
- `FootsToTheDigit` (`MCBooks`): `calc/mod.rs:246` says "for a well-formed budget `atl + btl ==
  total`", `:417` "the split always sums back to `DetailCalc::fringe_total`", but each path adds the
  same amounts in an order of its own and a `Decimal` rounds beyond 28 digits; the comment at
  `:95-103` and `docs/adr/0003` know it. `TotalsFoot` grants each addition half of the last place.
- `ReportsTotal` (`MCBooks`): `actuals.rs:20-24` says that "any path fed by user-supplied amounts"
  stays total, as does `view.rs:1446` of the account report. Variances and balances are subtracted
  unchecked (`actuals.rs:212`, `view.rs:807`, `809`, `1455`, `1489`), so an estimate and an actual
  at opposite ends of the range panic.
- `SettledViewIsLatest` (`MCClientStore`): an older refresh that ends last overwrites the newer
  view, `store.ts:270`.

And these the models show by their guards and histories:

- `calc/mod.rs:36-37` calls `evaluate` total, but the arithmetic of globals (`calc/mod.rs:593`) and
  the sums of the fringe breakdown are unchecked and may panic. `Globals` and `Calc` have these
  outcomes. `TotalsFoot` also says that the breakdown does not panic while what is posted fits a
  `Decimal`; `GlobalsExact`, that a global without a value gets an error or panics.
- The receipt panel: undo is offered while an add runs, and whatever ends first makes the panel
  idle, so two adds may overlap and record a receipt twice; the same box scanned again is a new row,
  which may be recorded again, and the panel only warns (`ReceiptScanPanel.tsx:200`); an undo clears
  the marks of all rows, also of those added since it began; removals that fail are passed over; a
  refresh or a loading of actuals that throws leaves the panel busy. `RecordedOnce` says when a row
  of a scan is recorded once all the same.
- The last owner of an organisation, project or budget may be given another role.

## The proofs

Every invariant and action property of the passing runs is a theorem. The theorems
hold for every value of the constants that meets the assumptions, which the modules name and TLC
evaluates on each run:

- timestamps are triples of numbers and authors, hosts, peers and wall times numbers
  (`StampAssumption`, `HostAssumption`, `NumberAssumption`, `PeerAssumption`);
- values that mark an absence or a step are none of what they stand beside (`BaseValueAssumption`,
  `AbsentAssumption`, `CallAssumption`, `ClosedAssumption`, `NoneAssumption`, `NothingAssumption`,
  `NoTokenAssumption`, `UnissuedAssumption`);
- a uuid names one kind of entity, every entity has its place, and the budgets made from templates
  have each tool once (`TagsOfAssumption`, `BaseAssumption`, `IdAssumption`, `KindAssumption`,
  `SeedAssumption`);
- a channel holds a message (`CapacityAssumption`), a photo has a pixel and what is found on it
  lies in it (`PhotoAssumption`), and bounds are numbers (`BoundAssumption`, `RefreshAssumption`);
- names, lines and categories are finitely many and listed in an order (`NameAssumption`,
  `OrderAssumption`), and so are levels of fringes (`LevelAssumption`); the range, the depth of
  formulas and the rate 1 are numbers (`DepthAssumption`, `UnitAssumption`);
- a number holds some units, the largest one fills it at some last place, and places up to the kurus
  divide it (`PlacesAssumption`, `KurusAssumption`), as powers of ten do;
- a new budget has the type of one, and what is typed in is a formula, a bill, a receipt, a draft of
  an order or a choice of fringes (`SeedsAssumption`, `InputAssumption`).

In `Reducer` and `SyncRoom` what is minted is `Disciplined`, which is a guard of theirs;
`LocalStore`, `PurchaseOrders` and `Access` do without it, since there no op arrives late.

**MergeProofs**, which the two modules after it rest on. `Before` is a strict total order, and
`TickExceedsLast` and `ObserveExceedsBoth` say that minted timestamps increase whatever the wall
clock does. `EntityInv` is what the state of an entity says of the ops applied, in any order: the
existence register is the last insert or removal (`ExistsInv`); while present, each cell is the last
writer (`CellInv`) and each register its timestamp (`RegInv`); while absent, the waiting ops are the
last edit of each field that post-dates the removal (`PendingInv`, `AbsentInv`). There is one lemma
per branch of the reducer (an insert that wins, a removal that wins, either that loses, an edit that
waits, an edit of a present entity), then `ApplyInv`. The discipline is needed where a re-insert
overwrites all cells: without it a register could keep the timestamp of an edit whose value is gone.
`OrderedInv` is the simpler fact about ops that are applied in the order of their timestamps. An op
is `Superseded` if a later one has decided all it could; leaving it out of a log changes nothing. A
lemma about a log of any length is proved by `SetInduction`: the set of lengths for which it holds
has no least exception (`WFMin` of the library, which takes no operator).

**SyncProofs**, about two machines. For `Reducer`: the five invariants of `merge` and the refinement
of `OpSet`. `ShowsMergedOps` is not inductive: it speaks of what is shown, and an
arriving op is decided by registers and waiting ops, also of an absent entity.
`MachineInv` is `EntityInv` for every replica, and the theorems follow from it.

For `SyncRoom`: `RoomInv`, that what is logged has been applied, and what has been applied is not
logged again (`LoggedOnce`). `ServerInv` has four parts. The ops minted are disciplined
(`MintedInv`). The log replayed is the room, because each op that was applied and not logged is
superseded by the log (`SnapshotInv`): that is what makes dropping stale ops harmless. A peer has
applied its outbox and nothing else that the room has not (`PeerInv`). What the log has and a synced
peer lacks is in its channel, unless the channel lost something (`ChannelInv`).
`SnapshotRebuildsRoom` and `FollowerShowsRoom` follow by the merge: two documents of the same ops,
but for superseded ones, show the same.

**LocalStoreProofs.** `StoreInv` is about the database: the log is of the base beside it, and its
ops are the confirmed edits but for those a reset has deleted (`ConfirmedIsLogged`), which are none
unless a reset ended between its statements. `SessionInv` relates it to memory: replaying the log
gives a document in the order of timestamps; the session's clock is not behind any of its registers,
its waiting ops or the log; and unless a statement failed, the op being written is all that parts
the two. Hence `LogRebuildsSession`, `RestartShowsConfirmed` and `NextEditWins`, the last one though
a restart begins with another counter and another author.

**OrdersProofs.** `TypeOK`, `ConvertedIsRecorded` and `OneActualPerOrder` of
`Spec`. The strengthening says that a host's clock is ahead of its registers, so
each op it mints takes effect; that an actual has its order's id; and that a half
convert has its actual on record. This is why repeating a convert is harmless.

**ServerProofs**, what the server keeps about its users. `AccessInv` has two parts. `RoomInv`: the
budget is what the log, ascending in its numbers, has made of the base. `ChannelInv`: a follower's
view is never ahead of the budget and a removed entity is gone from it or its removal is in the
queue (`Behind`); for what both the channel's and the snapshot's membership show, whatever the view
lacks is in the queue (`CatchesUp`); and of what neither shows the view has the base, or something
older than the entity's account (`Withheld`). The subtle case is that log and messages are filtered
by today's budget, in which the op of an entity whose account is gone can no longer be assigned to a
department. It is shown to everybody then (`GoneReadable`, `VisibleReadable`), so that nobody misses
a removal; and since an account is inserted once, what was shown meanwhile stays older than it.
`SnapshotShowsScope` and `FollowerShowsScope` follow. For `NamesUnique` the invariant takes in the
stored libraries (`NamesInv`): what is inserted into one budget may come from another (`LibraryOps`,
`ApplyLibraryNames`). For `Tokens` the strengthening is that a family is founded by its first token,
so that a new session cannot join an old family, nor one that was revoked: `TokensTypeOK`,
`OneUsablePerFamily` and `ReuseEndsSession`.

**DesktopProofs**, what runs in the user's browser or desktop. For `ClientStore`: `ClientTypeOK` and
`LatestHasArrived`. That everything has arrived once nothing is on its way is not inductive;
`LatestOnItsWay` is: the latest version of the open budget is in the channel's queue, or in the
answers of a refresh that can only be of it, or has arrived, or the channel is about to be replaced.
`CallsUnique` and `FetchedBefore` say that channels are told apart and nothing comes from the
future.

For `ReceiptScan`: `AddedRowsCanBeUndone` holds in any interleaving. The strengthening,
`RecordedIsUnknown`, says that no undo and no other add knows an actual whose evidence is still
being kept, so it cannot go meanwhile. `RecordedOnce` needs `BooksInv`: rows are named after
scan and place, and no one knows those of a scan that is running (`ScansInv`, `NamesInv`); and while
nothing has overlapped (`OnceInv`), a single add or undo runs (`Alone`), an add has at most its
actual at hand in the books of what it has still to record (`LeftInv`), an undo goes through
everything undo is told of (`UndoneInv`), and a row whose receipt is in the books and which is not
in error is marked as added (`AccountedInv`). `PanelInv` gives `TypeOK`: there are boxes only for a
photo, and by `CropIsInFrame` what is cut out of another photo with them lies in it all the same.

**CalcProofs** is what the engine and its reports are built from.

- *Globals* (`ResolveRight`). The resolution ends because every call it makes weighs less: the names
  it does not visit yet, and then the depth of its formula (`Weight`). Each call is answered right
  (`CallsRight`), by induction over that weight, and leaves a memo that is `Sound`: a value in it is
  the name's meaning, an error stands for a name that has none. The subtle case is the error kept
  while a cycle is unwound, which depends on the names being visited. A global that means something
  has a `Rank`, the round in which it is settled, and refers to globals of lower rank only; so a
  name that is met again while it is visited has no meaning, and what runs into it has none
  (`Grounded`).
- *Sums.* An exact sum may be taken in any order (`GathersAnyOrder`), by any key and, a double one,
  by rows or columns. `Mass` is the sum of the magnitudes: signs may be mixed, so that the total
  fitting is not enough. If the sums of all parts are left alone by rounding, so is the sum
  (`GatheredExact`), as on whole kurus that fit the digits at the kurus (`SumUpExact`). Otherwise
  every addition is off by at most half a last place, and while the mass with these errors fits, a
  sum in any order or in a given one is off by at most their number (`GatheredNear`,
  `AccumulatedNear`). Rounding to the kurus moves an amount by half of one and at most doubles it
  (`RoundMoneyNear`); this is why what is rounded before it is summed has to fit *half* of what a
  sum holds.

**BooksProofs.** All eight properties of `Books`, for any number of lines, accounts, fringes and
papers, any range, digits and places and any depth of formulas. The state is simple and the
functions of it are not: `Kept` (a budget is of its type and its categories are in the order of
their positions) is inductive, with a lemma for each command (`AlwaysKept`), and everything else is
a lemma about what `Evaluate` and the reports make of a budget that is kept.

- *Totals* (`TotalsFoot`, `SheetAgrees`). The sides of the line, the accounts, the levels and the
  modes are keys by which the same charges are summed. `Additions` counts how often an amount is
  added on the way to a total, and `Slack` is what that many additions can be off on both paths: at
  the last place 1 it is zero, and the totals are equal. The national sheet sums at most three
  rounded cells of each line.
- *Suppression* (`SuppressedLeavesNoTrace`). Two budgets that differ in lines that do not count
  (`PartOf`) go through the same partial sums, so their totals are the same even where they are
  rounded and cut.
- *Reports* (`ReportsAgree`, `CashFlowComplete`). Each report sums the same amounts by another key:
  account, category, week, receipt. Whole kurus add up exactly as long as they fit the digits at the
  kurus (`Whole`); where a report sums amounts before it rounds them, there is a slack.
- *Conversion* (`ConvertKeepsCosts`). The grand totals are sums over all accounts, shown or not
  (`CostTotalsAre`). Only `ConvertOrder` turns an approved order into a converted one
  (`OnlyConversions`), and what it takes from `Owed` it adds to `Spent` on the same account
  (`ConvertedOutlays`).

*Only model-checked.* Liveness (`PlaceholderGoes`), which needs `ENABLED`. The properties of the
counterexamples do not hold.

## What is not modelled

- The width of the counter (`u32`): 2^32 edits within one reading of the wall clock.
- Payload contents, except where a module is about them (orders, books); serialization; SQL itself
  (a statement is atomic and durable, or fails without effect).
- Expiry and encoding of tokens, password hashing.
- Presence messages, which only use up the channel's capacity.
- The lexer and parser of formulas: pure functions of a text.
- Of the reports the cover sheet, the list of tools, labels and formatting.
- Scheduling, series, comparison and incentives: one formula per cell over finished results, without
  state; unit tests reach them.
- What is read from a receipt (image processing and a service outside), and so whether two rows are
  of one receipt; the settings of the panel, its warning of duplicates, closing it, and evidence
  that is left behind without an actual.
- Rounding below the unit: quotients and products are cut to the unit, in which `Decimal` has 28
  digits after the point.
- Export, importers and rates, templates, rendering: formatting, parsing and data
  without state of their own.

## Plan

Done, in this order: `Hlc`, `Document`, `Merge`, `OpSet`, `Reducer` (everything else relies on the
merge); `LocalStore`; `SyncRoom`; `PurchaseOrders`; `ClientStore`; `Tokens`; `Access`;
`Sums`, `Globals`, `Calc`, `Reports`, `Books`; `ReceiptScan`; and the proofs of all of them. Left:

1. `SyncRoom` with the scoped members of `Access`, so that late and refused ops of a peer meet
   a membership that changes; presence messages in its channel.
2. `ClientStore` with the offline mode's local calls, which have no channel.
3. Scheduling as a pure function of the strips, if it comes to keep state of its own.
