------------------------------- MODULE Books --------------------------------
(***************************************************************************)
(* A budget on one host as its commands edit it (the Tauri commands of     *)
(* apps/desktop/src-tauri/src/lib.rs; the server's handlers do the same),  *)
(* with what it evaluates to and what the reports say of it.  On one host  *)
(* every op is the latest, so a command's ops are edits of the budget.     *)
(* How hosts merge is the subject of Reducer and SyncRoom.                 *)
(***************************************************************************)
EXTENDS Reports

CONSTANTS
  Seeds,      \* the budgets there may be at first: what templates make
  Account,    \* account ids clients have seen, in the budget or not
  Fringe, Currency, Vendor, Expense,  \* ids of fringes and currencies, vendors, expense categories
  Ids,        \* [actuals, receipts, orders]: ids for new ones
  Bills,      \* actuals clients record
  Slips,      \* receipts they record
  Commitments,\* orders they draft
  Values,     \* formulas they type into a cell
  Choices,    \* lists of fringes they apply to a line
  Windows, Starts,  \* what they ask of the cost report and of the cash flow
  MaxEdits    \* bound: commands that change the budget

----------------------------------------------------------------------------
\* The entities of a budget (model/mod.rs, actuals.rs, po.rs, settlement.rs).
Optional(S) == S \union {None}
Applications == Seq([fringe : Fringe, rate : Optional(Decimal)])

CategoryType == [position : Int, hint : Optional({"ATL", "BTL"}), fringes : Applications]
AccountType == [category : Range(Categories), group : Group, fringes : Applications]
FringeType ==
  [kind : {"flat", "percent"}, mode : {"grossup", "additive"}, rate : Decimal, level : Level,
   cutoff : Optional(Decimal), cap : Optional(Decimal), currency : Currency]
DetailType(b) ==
  [account : Account, amount : Formula, multiplier : Formula, rate : Formula,
   unit : DOMAIN b.units, currency : DOMAIN b.currencies, fringes : Applications,
   groups : SUBSET DOMAIN b.groups]
Actual ==
  [account : Account, date : Optional(Int), net : Decimal, stopaj : Decimal, kdv : Decimal,
   tevkifat : Decimal]
Receipt == [category : Expense, gross : Decimal, rate : Decimal]
Status == {"draft", "approved", "converted"}
Order == [account : Account, amount : Decimal, date : Optional(Int), vendor : Vendor, status : Status]

Collections ==
  {"globals", "units", "currencies", "categories", "accounts", "fringes", "details", "groups",
   "actuals", "receipts", "orders"}
Fields == Collections \union {"base", "dividers", "applied", "charges", "credits"}

Map(f, T) == f \in [DOMAIN f -> T] /\ IsFiniteSet(DOMAIN f)

BudgetType(b) ==
  /\ b = [field \in Fields |-> b[field]]
  /\ Map(b.globals, Formula) /\ DOMAIN b.globals \subseteq Name
  /\ Map(b.units, Decimal) /\ DOMAIN b.units # {}
  /\ Map(b.currencies, Decimal) /\ b.base \in DOMAIN b.currencies
  /\ Map(b.categories, CategoryType) /\ DOMAIN b.categories \subseteq Range(Categories)
  /\ Map(b.accounts, AccountType)
  /\ Map(b.fringes, FringeType)
  /\ Map(b.details, DetailType(b)) /\ DOMAIN b.details \subseteq Range(Lines)
  /\ Map(b.groups, BOOLEAN)
  /\ Map(b.actuals, Actual) /\ Map(b.receipts, Receipt) /\ Map(b.orders, Order)
  /\ b.dividers \subseteq Int
  /\ b.applied \in Applications
  /\ b.charges \in Seq(Formula) /\ b.credits \in Seq(Formula)

\* Categories lists the categories in the order of their positions.
InPosition(b) ==
  \A i, j \in DOMAIN Categories :
    i < j /\ {Categories[i], Categories[j]} \subseteq DOMAIN b.categories =>
      b.categories[Categories[i]].position <= b.categories[Categories[j]].position

ASSUME SeedsAssumption == \A b \in Seeds : BudgetType(b) /\ InPosition(b)
ASSUME InputAssumption ==
  /\ Bills \subseteq Actual /\ Slips \subseteq Receipt
  /\ Commitments \subseteq {o \in Order : o.status = "draft"}
  /\ Values \subseteq Formula /\ Choices \subseteq Applications
  /\ Starts \subseteq Optional(Int) /\ MaxWeeks \in Nat \ {0} /\ MaxEdits \in Nat
ASSUME NoneAssumption == None \notin Account

VARIABLES
  budget,
  edits      \* commands so far

vars == <<budget, edits>>

Init == budget \in Seeds /\ edits = 0

Edit(b) ==
  /\ edits < MaxEdits
  /\ edits' = edits + 1
  /\ budget' = b

Put(b, map, id, x) ==
  [b EXCEPT ![map] = [y \in DOMAIN @ \union {id} |-> IF y = id THEN x ELSE @[y]]]
Drop(b, map, id) == [b EXCEPT ![map] = [y \in DOMAIN @ \ {id} |-> @[y]]]

\* set_global_by_name
SetGlobal(name, value) ==
  /\ name \in DOMAIN budget.globals
  /\ Edit(Put(budget, "globals", name, value))

\* set_detail_field: an amount, a multiplier or a rate.
SetDetailField(d, field, value) ==
  /\ d \in DOMAIN budget.details
  /\ Edit([budget EXCEPT !.details[d][field] = value])

\* set_detail_fringes: each is looked up.
SetDetailFringes(d, fringes) ==
  /\ d \in DOMAIN budget.details
  /\ Resolves(budget, fringes)
  /\ Edit([budget EXCEPT !.details[d].fringes = fringes])

\* add_line: a blank line under an account nobody looks up.
AddLine(d, a) ==
  /\ d \notin DOMAIN budget.details
  /\ Edit(Put(budget, "details", d,
              [account |-> a, amount |-> Num(1), multiplier |-> Num(1), rate |-> Num(0),
               unit |-> CHOOSE u \in DOMAIN budget.units : TRUE, currency |-> budget.base,
               fringes |-> <<>>, groups |-> {}]))

\* remove_line
RemoveLine(d) == d \in DOMAIN budget.details /\ Edit(Drop(budget, "details", d))

\* add_actual
AddActual(x, bill) == x \notin DOMAIN budget.actuals /\ Edit(Put(budget, "actuals", x, bill))

\* remove_actual
RemoveActual(x) == x \in DOMAIN budget.actuals /\ Edit(Drop(budget, "actuals", x))

\* add_receipt
AddReceipt(x, slip) == x \notin DOMAIN budget.receipts /\ Edit(Put(budget, "receipts", x, slip))

\* remove_receipt
RemoveReceipt(x) == x \in DOMAIN budget.receipts /\ Edit(Drop(budget, "receipts", x))

\* add_po: a draft.
AddOrder(o, commitment) ==
  /\ o \notin DOMAIN budget.orders
  /\ Edit(Put(budget, "orders", o, commitment))

\* approve_po
ApproveOrder(o) ==
  /\ o \in DOMAIN budget.orders
  /\ Edit([budget EXCEPT !.orders[o].status = "approved"])

\* The actual an order becomes.
AsActual(order) ==
  [account |-> order.account, date |-> order.date, net |-> order.amount,
   stopaj |-> 0, kdv |-> 0, tevkifat |-> 0]

\* convert_po: the actual has the id of the order.
ConvertOrder(o) ==
  /\ o \in DOMAIN budget.orders
  /\ budget.orders[o].status # "converted"
  /\ Edit([Put(budget, "actuals", o, AsActual(budget.orders[o]))
             EXCEPT !.orders[o].status = "converted"])

\* remove_po
RemoveOrder(o) == o \in DOMAIN budget.orders /\ Edit(Drop(budget, "orders", o))

\* Ops of other clients that no command mints (ops/mod.rs): an account, a
\* category, a fringe or a global is taken out, a group leaves the budget total.
Remove(map, id) == id \in DOMAIN budget[map] /\ Edit(Drop(budget, map, id))
InsertGroup(g, inTotal) == Edit(Put(budget, "groups", g, inTotal))

Next ==
  \/ \E name \in Name, value \in Values : SetGlobal(name, value)
  \/ \E d \in Range(Lines) :
       \/ \E field \in {"amount", "multiplier", "rate"}, value \in Values :
            SetDetailField(d, field, value)
       \/ \E fringes \in Choices : SetDetailFringes(d, fringes)
       \/ \E a \in Account : AddLine(d, a)
       \/ RemoveLine(d)
  \/ \E x \in Ids.actuals : \E bill \in Bills : AddActual(x, bill)
  \/ \E x \in DOMAIN budget.actuals : RemoveActual(x)
  \/ \E x \in Ids.receipts : \E slip \in Slips : AddReceipt(x, slip)
  \/ \E x \in DOMAIN budget.receipts : RemoveReceipt(x)
  \/ \E o \in Ids.orders : \E c \in Commitments : AddOrder(o, c)
  \/ \E o \in DOMAIN budget.orders : ApproveOrder(o) \/ ConvertOrder(o) \/ RemoveOrder(o)
  \/ \E map \in {"accounts", "categories", "fringes", "globals"} :
       \E id \in DOMAIN budget[map] : Remove(map, id)
  \/ \E g \in DOMAIN budget.groups, inTotal \in BOOLEAN : InsertGroup(g, inTotal)

Spec == Init /\ [][Next]_vars

----------------------------------------------------------------------------
\* The result of evaluate, of which a reader asks many questions.
Results(b) == {Evaluate(b)}

TypeOK ==
  /\ edits \in 0 .. MaxEdits
  /\ BudgetType(budget) /\ InPosition(budget)
  /\ Evaluate(budget).values \in [DOMAIN budget.globals -> Result]

\* Globals are resolved to what their formulas mean, and to an error exactly if
\* they are on or behind a cycle or a formula that has no value, though the
\* resolution remembers results while it is unwinding a cycle (calc/mod.rs,
\* eval_global).  A result beyond the range is none, be it an error or a panic.
GlobalsExact ==
  LET values  == Evaluate(budget).values
      meaning == Meaning(budget.globals)
  IN  \A name \in DOMAIN budget.globals :
        /\ IsOk(values[name]) <=> name \in DOMAIN meaning
        /\ IsOk(values[name]) => values[name] = meaning[name]

\* What the lines and their charges come to, whatever their signs.
LineVolume(calc) ==
  Abs(calc.subtotal) + Magnitude([i \in DOMAIN calc.charges |-> ValueOf(calc.charges[i].res, 0)])
Volume(r) == Sum([d \in DOMAIN r.details |-> LineVolume(r.details[d])])

\* How often an amount is added to another on the way to any one of the totals,
\* and what rounding each sum at a last place can make of it.
Additions(b, r) ==
  Sum([d \in DOMAIN r.details |-> Len(r.details[d].charges) + 2])
    + 2 * Cardinality(DOMAIN b.categories) + Cardinality(DOMAIN b.accounts) + 2
Slack(b, r, place) == 2 * Additions(b, r) * (place \div 2)

\* The most any sum of them can come to when its last place is at most this one.
Extent(b, r, place) == Volume(r) + Slack(b, r, place)
Apart(x, y, slack) == Abs(x - y) <= slack

FootWithin(b, r, slack) ==
  /\ ~ PostingPanics(b, r.details)
  /\ Apart(r.atl.total + r.btl.total, r.total.total, slack)
  /\ Apart(Sum([a \in DOMAIN r.accounts |-> r.accounts[a].total]), r.total.total, slack)
  /\ Apart(Sum(r.breakdown), r.total.fringes, slack)
  /\ \A d \in DOMAIN b.details :
       Apart(Sum(FringeSplit(b, d, r.details[d].subtotal)), r.details[d].fringes, slack)

FootIn(b, r) ==
  Valid(b) =>
    \A place \in Places :
      Extent(b, r, place) <= place * Digits => FootWithin(b, r, Slack(b, r, place))

\* In a well-formed budget the two sides of the line add up to the total and so do
\* the accounts, the breakdown of fringes by level is all of the fringes, and a
\* line's split by mode is all of its fringes: exactly, if every sum has a digit
\* for each unit, and otherwise but for half of the last place of the sums per
\* addition, since they are rounded in different orders (calc/mod.rs:95-103 and
\* docs/adr/0003).
TotalsFoot == \A r \in Results(budget) : FootIn(budget, r)

\* What calc/mod.rs says of any budget that does not overflow (246, "for a
\* well-formed budget `atl + btl == total`", and 417-418, "the split always sums
\* back to `DetailCalc::fringe_total`"): the sums are the same to the last digit.
\* No run checks this: rounding breaks it.
FootsToTheDigit ==
  \A r \in Results(budget) : Valid(budget) /\ Volume(r) <= Largest => FootWithin(budget, r, 0)

Suppressed == {d \in DOMAIN budget.details :
                 \E g \in budget.details[d].groups \intersect DOMAIN budget.groups : ~ budget.groups[g]}

SameTotals(b, r, without, s) ==
  /\ <<r.atl, r.btl, r.total, r.breakdown, r.net>> = <<s.atl, s.btl, s.total, s.breakdown, s.net>>
  /\ \A a \in DOMAIN b.accounts : r.accounts[a] = s.accounts[a]
  /\ NationalSheet(b, r).grand = NationalSheet(without, s).grand

WithoutLines(b, gone) == [b EXCEPT !.details = Restrict(@, DOMAIN @ \ gone)]
SameWithout(b, r, without) == \A s \in Results(without) : SameTotals(b, r, without, s)

\* Lines of a group that is out of the budget total leave no trace: every total
\* and the national sheet are those of the budget without them (model/mod.rs:
\* "lines in this group are excluded from all rollups").
SuppressedLeavesNoTrace ==
  \A r \in Results(budget) : SameWithout(budget, r, WithoutLines(budget, Suppressed))

\* At most half a kurus per rounded cell, besides what sums are rounded by.
Near(x, y, cells, slack) == 2 * Abs(x - y) <= cells * Kurus + 2 * slack

RowNear(r, row, lines, slack) ==
  Near(Sum([d \in {x \in DOMAIN lines : r.details[x].included} |-> lines[d].total]),
       row.total, Cardinality(DOMAIN lines) + 1, slack)

SheetNear(b, r, sheet, top, tree, cells) ==
  Valid(b) =>
    \A place \in {p \in Places : p <= Kurus} :
      2 * Extent(b, r, place) <= place * Digits =>
        LET slack == Slack(b, r, place)
        IN  /\ Near(sheet.atl.g, top.atl, cells, slack) /\ Near(sheet.btl.g, top.btl, cells, slack)
            /\ \A c \in DOMAIN tree : \A a \in DOMAIN tree[c] :
                 RowNear(r, tree[c][a].row, tree[c][a].lines, slack)

SheetAgreesIn(b, r) ==
  SheetNear(b, r, NationalSheet(b, r), Topsheet(b, r), Tree(b, r),
            3 * Cardinality(DOMAIN b.details) + 1)

\* The national sheet, which rounds cells and walks categories, accounts and
\* lines, agrees with the topsheet, which rounds what is summed over all lines:
\* both sides of the line differ by at most half a kurus per rounded cell and by
\* what TotalsFoot grants the sums, in a well-formed budget that fits half of the
\* digits at a last place up to the kurus.  So does every account's row of the
\* tree from its lines.
SheetAgrees == \A r \in Results(budget) : SheetAgreesIn(budget, r)

\* The magnitudes of what is on record, and the most a sum of whole kurus may come
\* to before it is rounded.
CostVolume(b) == Magnitude([x \in DOMAIN b.actuals |-> Cost(b.actuals[x])])
OrderVolume(b) == Magnitude([o \in Committed(b) |-> b.orders[o].amount])
ReceiptVolume(b) == Magnitude([x \in DOMAIN b.receipts |-> b.receipts[x].gross])
Whole == Kurus * Digits

SpentNear(b, spent, actuals, slack, most) ==
  2 * (CostVolume(b) + slack) <= most =>
    Near(spent, actuals.totals.actual, Cardinality(DOMAIN b.actuals) + Cardinality(DOMAIN actuals.rows),
         slack)

CostsAgree(b, actuals, grand) ==
  /\ 2 * OrderVolume(b) <= Whole => grand.commitments = OrderTotals(b).approved
  /\ \A place \in {p \in Places : p <= Kurus} :
       SpentNear(b, grand.toDate, actuals, Cardinality(DOMAIN b.actuals) * (place \div 2), place * Digits)
  /\ 2 * CostVolume(b) <= Whole /\ (\A x \in DOMAIN b.actuals : b.actuals[x].net >= 0) =>
       grand.period <= grand.toDate

PapersAgree(b, trial, settled, advance) ==
  /\ 2 * OrderVolume(b) <= Whole => SumUp(trial.deposits) = OrderTotals(b).approved
  /\ 2 * ReceiptVolume(b) <= Whole =>
       /\ SumUp(trial.advances) = settled.totals.gross
       /\ Abs(advance - settled.totals.gross) <= Whole =>
            settled.balance + settled.totals.gross = advance
  /\ 2 * ReceiptVolume(b) <= Digits =>
       Abs(settled.totals.gross - settled.totals.kdv - settled.totals.net)
         <= Cardinality(DOMAIN b.receipts) * Kurus

ReportsAgreeIn(b, r) ==
  \A window \in Windows : CostsAgree(b, ActualsReport(b, r), CostReport(b, r, window).grand)

\* Four reports on the same records agree, if what is on record fits half of the
\* digits at the kurus: what is committed is the same in the cost report, the
\* trial balance and the order list; what was spent in the cost report and in the
\* actuals, but for rounding of cells and of sums, and without credit notes no
\* period has more than there is to date; what is on receipts in the trial balance
\* and in the settlement, where VAT and net make up the gross and the balance is
\* what is left of the advance (view.rs, actuals.rs, settlement.rs).
ReportsAgree ==
  /\ \A r \in Results(budget) : ReportsAgreeIn(budget, r)
  /\ PapersAgree(budget, TrialBalance(budget, 0), Settlement(budget, 10 * Kurus), 10 * Kurus)

\* What was paid out on accounts of the budget.
OnAccount == {x \in DOMAIN budget.actuals : budget.actuals[x].account \in DOMAIN budget.accounts}
PaidOut == Sum(Pays(budget, OnAccount))

\* The cash flow loses no payment, whatever its start and number of weeks: the
\* weeks and what is undated make up the payments by account, and these are all
\* there are (view.rs, NetflixCashFlowDto: early and late ones are clamped), as
\* long as sums of whole kurus are exact.
CashFlowComplete ==
  Magnitude(Pays(budget, OnAccount)) <= Whole =>
    \A start \in Starts, weeks \in {None, 1} :
      LET flow == CashFlow(budget, [start |-> start, weeks |-> weeks, byCategory |-> FALSE])
      IN  /\ Sum([k \in DOMAIN flow.rows |-> flow.rows[k].ytd]) = PaidOut
          /\ Sum(flow.weekTotals) + flow.undated = PaidOut

CostTotals(b, r, window) ==
  LET grand == CostReport(b, r, window).grand IN <<grand.total, grand.efc>>
SameCosts(b, r, c, s) == \A window \in Windows : CostTotals(b, r, window) = CostTotals(c, s, window)
EstimateVolume(r) == Magnitude([a \in DOMAIN r.accounts |-> r.accounts[a].total])
FitsReport(b, r) == 2 * (EstimateVolume(r) + CostVolume(b) + OrderVolume(b)) <= Whole

\* Converting an approved order moves its amount from the commitments to the
\* actuals and leaves the cost report's totals as they are, as long as sums of whole
\* kurus are exact (view.rs:761, "Converted ones already became actuals").
ConvertKeepsCosts ==
  [][\A o \in DOMAIN budget.orders \intersect DOMAIN budget'.orders :
       /\ budget.orders[o].status = "approved" /\ o \notin DOMAIN budget.actuals
       /\ budget'.orders[o].status = "converted"
       /\ FitsReport(budget, Evaluate(budget))
       => SameCosts(budget, Evaluate(budget), budget', Evaluate(budget'))]_vars

\* What actuals.rs:20-24 says of variances, "any path fed by user-supplied amounts
\* must ... stay total", and view.rs:1446 of the report: no report panics.  No run
\* checks this: their differences are unchecked (actuals.rs:212, view.rs:807, 809,
\* 1455 and 1489), an estimate and an actual at opposite ends of the range panic.
ReportsTotal ==
  \A r \in Results(budget) :
    /\ ~ ActualsReport(budget, r).panics
    /\ \A window \in Windows :
         \A a \in DOMAIN CostReport(budget, r, window).rows :
           ~ CostReport(budget, r, window).rows[a].panics

\* What the cash flow says was paid to date is what was paid to date: cash from
\* undated actuals is "counted in YTD, shown separately" (view.rs:901).
YtdIsPaid ==
  \A start \in Starts :
    CashFlow(budget, [start |-> start, weeks |-> None, byCategory |-> FALSE]).ytdTotal = PaidOut
=============================================================================
