------------------------------ MODULE Reports -------------------------------
(***************************************************************************)
(* The reports on a budget (budgetcut-core: src/view.rs, src/actuals.rs,   *)
(* src/settlement.rs), as numbers: topsheet, tree, national sheet, cost    *)
(* report, cash flow, trial balance, actuals, purchase orders, settlement. *)
(* Each rounds its cells to the kurus first and adds up what it shows.     *)
(* Rows of accounts or categories with one number are merged by the cash   *)
(* flow (view.rs:931-947); here each has its own, which no sum can tell.   *)
(***************************************************************************)
EXTENDS Calc

CONSTANTS
  Group,     \* NetflixGroup
  MaxWeeks   \* the most columns a cash flow has

\* sat_add of the reports: any overflow ends at the largest amount.
OrLargest == [n \in Int |-> IF InRange(n) THEN Held[n] ELSE Largest]
AddOrLargest(a, b) == OrLargest[a + b]
SumUp(f) == Gathered(f, OrLargest)

\* The columns of some rows.
Totalled(rows, columns) == [column \in columns |-> SumUp([x \in DOMAIN rows |-> rows[x][column]])]

\* TopsheetDto::build
Shown(rollup) ==
  [subtotal |-> RoundMoney(rollup.subtotal), fringes |-> RoundMoney(rollup.fringes),
   total |-> RoundMoney(rollup.total)]

Topsheet(b, r) ==
  [categories |-> [c \in DOMAIN b.categories |-> Shown(r.categories[c])],
   atl |-> RoundMoney(r.atl.total), btl |-> RoundMoney(r.btl.total),
   fringes |-> RoundMoney(r.total.fringes), grand |-> RoundMoney(r.grand),
   charges |-> RoundMoney(r.charges), credits |-> RoundMoney(r.credits),
   net |-> RoundMoney(r.net)]

AccountsOf(b, c) == {a \in DOMAIN b.accounts : b.accounts[a].category = c}
DetailsOf(b, a) == {d \in DOMAIN b.details : b.details[d].account = a}

\* TreeDto::build: accounts under their categories, lines under their accounts.
Tree(b, r) ==
  [c \in DOMAIN b.categories |->
     [a \in AccountsOf(b, c) |->
        [row   |-> Shown(r.accounts[a]),
         lines |-> [d \in DetailsOf(b, a) |->
                      [total |-> RoundMoney(r.details[d].line), error |-> r.details[d].error]]]]]

----------------------------------------------------------------------------
\* A row of the national sheet: the total is the sum of the rounded cells.
NationalCells(net, stopaj, komisyon) ==
  [net |-> net, stopaj |-> stopaj, komisyon |-> komisyon,
   g |-> AddOrLargest(AddOrLargest(net, stopaj), komisyon)]
NationalLineWith(subtotal, split) ==
  NationalCells(RoundMoney(subtotal), RoundMoney(split.grossup), RoundMoney(split.additive))
NationalLine(b, r, d) ==
  NationalLineWith(r.details[d].subtotal, FringeSplit(b, d, r.details[d].subtotal))

\* Faulty variant: lines out of the budget total are listed too.
NationalLinesAll(b, r, c) == UNION {DetailsOf(b, a) : a \in AccountsOf(b, c)}

\* The lines of a category the sheet lists.
NationalLines(b, r, c) ==
  {d \in UNION {DetailsOf(b, a) : a \in AccountsOf(b, c)} : r.details[d].included}

\* NatAcc over some rows.
NatAcc(rows) == Totalled(rows, {"net", "stopaj", "komisyon", "g"})

Sections(b, subtotals) ==
  [side \in {"atl", "btl"} |->
     NatAcc([c \in {x \in DOMAIN b.categories : CategoryIsAtl(b, x) = (side = "atl")} |-> subtotals[c]])]

SheetOf(lines, sections) ==
  [lines |-> lines, atl |-> sections.atl, btl |-> sections.btl, grand |-> NatAcc(sections)]
SheetWith(b, lines) ==
  SheetOf(lines, Sections(b, [c \in DOMAIN lines |-> NatAcc(lines[c])]))

\* NationalSheetDto::build
NationalSheet(b, r) ==
  SheetWith(b, [c \in DOMAIN b.categories |->
                  [d \in NationalLines(b, r, c) |-> NationalLine(b, r, d)]])

----------------------------------------------------------------------------
\* invoice_breakdown.  A withholding rate outside (0, 1) withholds nothing; what
\* is beyond the range counts as nothing.
Brut(actual) ==
  LET grossed == (actual.net * One) \div (One - actual.stopaj)
  IN  IF actual.stopaj > 0 /\ actual.stopaj < One /\ InRange(grossed)
      THEN Held[grossed] ELSE actual.net

OrZero(n) == IF InRange(n) THEN Held[n] ELSE 0
Part(n, rate) == OrZero((n * rate) \div One)

BreakdownOf(net, brut, kdv, tevkifat) ==
  [brut |-> brut, stopaj |-> OrZero(brut - net), kdv |-> kdv, tevkifat |-> tevkifat,
   payable |-> OrZero(OrZero(AddOrLargest(brut, kdv) - OrZero(brut - net)) - tevkifat)]
BreakdownWith(actual, brut, kdv) ==
  BreakdownOf(actual.net, brut, kdv, Part(kdv, actual.tevkifat))
Breakdown(actual) == BreakdownWith(actual, Brut(actual), Part(Brut(actual), actual.kdv))

\* Actual::cost
Cost(actual) == Brut(actual)

ActualsOf(b, a) == {x \in DOMAIN b.actuals : b.actuals[x].account = a}

\* Faulty variant: what was converted stays committed.
CommittedUntilPaid(b) == {o \in DOMAIN b.orders : b.orders[o].status # "draft"}

\* The orders a report commits money to.
Committed(b) == {o \in DOMAIN b.orders : b.orders[o].status = "approved"}

Estimate(r, a) == IF a \in DOMAIN r.accounts THEN r.accounts[a].total ELSE 0

\* variance_report, as ActualsReportDto::build shows it: per account with an
\* estimate or an actual.
ActualOn(b, a) == SumUp([x \in ActualsOf(b, a) |-> Cost(b.actuals[x])])

ActualsRow(est, act) ==
  [estimate |-> est, actual |-> act, variance |-> Unchecked[est - act],
   efc |-> IF act > est THEN act ELSE est]

ActualsSummary(rows, totals, subtracted) ==
  [rows |-> rows, totals |-> totals,
   panics |-> ~ (subtracted /\ (\A a \in DOMAIN rows : InRange(rows[a].variance))
                   /\ InRange(totals.estimate - totals.actual))]
ActualsTotalled(rows, subtracted) ==
  ActualsSummary(rows, Totalled(rows, {"estimate", "actual", "efc"}), subtracted)

ActualsReport(b, r) ==
  LET shown == {a \in DOMAIN b.accounts \union {b.actuals[x].account : x \in DOMAIN b.actuals} :
                  Estimate(r, a) # 0 \/ ActualOn(b, a) # 0}
  IN  ActualsTotalled([a \in shown |->
                         ActualsRow(RoundMoney(Estimate(r, a)), RoundMoney(ActualOn(b, a)))],
                      \A a \in shown : InRange(Estimate(r, a) - ActualOn(b, a)))

----------------------------------------------------------------------------
\* in_window: an undated actual is in no period, and without bounds there is none.
InWindow(date, window) ==
  /\ window.start # None \/ window.end # None
  /\ date # None
  /\ window.start # None => date >= window.start
  /\ window.end # None => date =< window.end

\* A row of the cost report: what is left to spend is the budget's remainder.
CostRowOf(budget, period, toDate, committed, total, etc, efc) ==
  [period |-> period, toDate |-> toDate, commitments |-> committed, total |-> total,
   etc |-> etc, efc |-> efc, budget |-> budget, variance |-> Unchecked[budget - efc],
   panics |-> ~ (InRange(budget - total) /\ InRange(budget - efc))]
CostRowEfc(budget, period, toDate, committed, total, etc) ==
  CostRowOf(budget, period, toDate, committed, total, etc, AddOrLargest(total, etc))
CostRowEtc(budget, period, toDate, committed, total) ==
  CostRowEfc(budget, period, toDate, committed, total,
             IF budget > total THEN Unchecked[budget - total] ELSE 0)
CostRowWith(budget, period, toDate, committed) ==
  CostRowEtc(budget, period, toDate, committed, AddOrLargest(toDate, committed))

CostsOf(b, S) == SumUp([x \in S |-> RoundMoney(Cost(b.actuals[x]))])
AmountsOf(b, S) == SumUp([o \in S |-> RoundMoney(b.orders[o].amount)])

CostRow(b, r, window, a) ==
  CostRowWith(RoundMoney(Estimate(r, a)),
              CostsOf(b, {x \in ActualsOf(b, a) : InWindow(b.actuals[x].date, window)}),
              CostsOf(b, ActualsOf(b, a)),
              AmountsOf(b, {o \in Committed(b) : b.orders[o].account = a}))

\* CostAcc
CostAcc(rows) ==
  Totalled(rows, {"period", "toDate", "commitments", "total", "etc", "efc", "budget", "variance"})

GroupOf(b, a) == IF a \in DOMAIN b.accounts THEN b.accounts[a].group ELSE "OTHER"

CostSummary(b, rows) ==
  [rows   |-> rows,
   groups |-> [g \in Group |-> CostAcc([a \in {x \in DOMAIN rows : GroupOf(b, x) = g} |-> rows[a]])],
   grand  |-> CostAcc(rows)]

\* Accounts on which nothing was estimated, spent or committed are not shown.
NonEmpty(rows) ==
  [a \in {x \in DOMAIN rows : \/ rows[x].budget # 0 \/ rows[x].toDate # 0
                              \/ rows[x].commitments # 0} |-> rows[a]]

\* NetflixCostReportDto::build: per account that has an estimate, an actual or a
\* commitment, though it be gone from the budget; summed by group.
CostReport(b, r, window) ==
  LET accounts == DOMAIN b.accounts
                    \union {b.actuals[x].account : x \in DOMAIN b.actuals}
                    \union {b.orders[o].account : o \in Committed(b)}
  IN  CostSummary(b, NonEmpty([a \in accounts |-> CostRow(b, r, window, a)]))

----------------------------------------------------------------------------
\* Faulty variant: a payment beyond the last week is in none.
WeekOfUnclamped(date, start, weeks) ==
  LET late == IF date > start THEN date - start ELSE 0 IN (late \div 7) + 1

\* The column of a dated payment: an early one is in the first, a late one in
\* the last.
WeekOf(date, start, weeks) ==
  LET late == IF date > start THEN date - start ELSE 0
      week == (late \div 7) + 1
  IN  IF week > weeks THEN weeks ELSE week

Earliest(dates) == CHOOSE x \in dates : \A y \in dates : x <= y
Latest(dates) == CHOOSE x \in dates : \A y \in dates : y <= x

\* The row of a payment, by account or by category.
RowOf(b, x, byCategory) ==
  LET account == b.actuals[x].account
  IN  IF account \notin DOMAIN b.accounts THEN None
      ELSE IF ~ byCategory THEN account
      ELSE IF b.accounts[account].category \in DOMAIN b.categories
           THEN b.accounts[account].category ELSE None

\* What the actuals of S pay out.
Pays(b, S) == [x \in S |-> RoundMoney(Breakdown(b.actuals[x]).payable)]

CashFlowOf(rows, weeks, undated) ==
  [rows |-> rows, undated |-> undated,
   weekTotals |-> [w \in weeks |-> SumUp([k \in DOMAIN rows |-> rows[k].weekly[w]])],
   ytdTotal |-> AddOrLargest(SumUp([k \in DOMAIN rows |-> rows[k].ytd]), undated)]

CashFlowIn(b, start, weeks, dated, paid, row) ==
  CashFlowOf(
    [k \in {row[x] : x \in paid} |->
       [ytd |-> SumUp(Pays(b, {x \in paid : row[x] = k})),
        weekly |-> [w \in 1 .. weeks |->
          SumUp(Pays(b, {x \in paid \intersect dated :
                           row[x] = k /\ WeekOf(b.actuals[x].date, start, weeks) = w}))]]],
    1 .. weeks, SumUp(Pays(b, paid \ dated)))

\* NetflixCashFlowDto::build; input gives the start and the number of weeks, or None.
CashFlow(b, input) ==
  LET dated == {x \in DOMAIN b.actuals : b.actuals[x].date # None}
      dates == {b.actuals[x].date : x \in dated}
      start == IF input.start # None THEN input.start
               ELSE IF dates = {} THEN 0 ELSE Earliest(dates)
      last  == IF dates = {} THEN start ELSE Latest(dates)
      asked == IF input.weeks # None THEN input.weeks
               ELSE (IF last > start THEN (last - start) \div 7 ELSE 0) + 1
      weeks == IF asked < 1 THEN 1 ELSE IF asked > MaxWeeks THEN MaxWeeks ELSE asked
      row == [x \in DOMAIN b.actuals |-> RowOf(b, x, input.byCategory)]
  IN  CashFlowIn(b, start, weeks, dated, {x \in DOMAIN row : row[x] # None}, row)

----------------------------------------------------------------------------
TrialBalanceOf(bank, advances, deposits) ==
  [advances |-> advances, deposits |-> deposits,
   total |-> AddOrLargest(AddOrLargest(RoundMoney(bank), SumUp(advances)), SumUp(deposits))]

\* NetflixTrialBalanceDto::build: the bank balance, the receipts by expense
\* category, the open orders by vendor.
TrialBalance(b, bank) ==
  TrialBalanceOf(bank,
    [k \in {b.receipts[x].category : x \in DOMAIN b.receipts} |->
       SumUp([x \in {y \in DOMAIN b.receipts : b.receipts[y].category = k} |->
                RoundMoney(b.receipts[x].gross)])],
    [v \in {b.orders[o].vendor : o \in Committed(b)} |->
       AmountsOf(b, {o \in Committed(b) : b.orders[o].vendor = v})])

\* PurchaseOrdersDto::build, its totals by status.
OrderTotals(b) ==
  LET Total(status) == AmountsOf(b, {o \in DOMAIN b.orders : b.orders[o].status = status})
  IN  [draft |-> Total("draft"), approved |-> Total("approved"), converted |-> Total("converted"),
       committed |-> AddOrLargest(Total("approved"), Total("converted"))]

\* Faulty variant: the VAT is taken as if it came on top of the gross.
ExtractVatOnTop(gross, rate) ==
  LET kdv == (gross * rate) \div One IN [kdv |-> kdv, net |-> gross]

\* extract_vat from a VAT-inclusive amount.
ExtractVat(gross, rate) ==
  IF rate <= 0 THEN [kdv |-> 0, net |-> gross]
  ELSE LET net == Held[(gross * One) \div (One + rate)] IN [kdv |-> Held[gross - net], net |-> net]

Slip(gross, vat) ==
  [gross |-> RoundMoney(gross), kdv |-> RoundMoney(vat.kdv), net |-> RoundMoney(vat.net)]
SettledSlips(b) ==
  [x \in DOMAIN b.receipts |->
     Slip(b.receipts[x].gross, ExtractVat(b.receipts[x].gross, b.receipts[x].rate))]

SlipsOf(b, slips, k) == [x \in {y \in DOMAIN slips : b.receipts[y].category = k} |-> slips[x]]
SettlementWith(b, slips, grand, advance) ==
  [categories |-> [k \in {b.receipts[x].category : x \in DOMAIN slips} |->
                     Totalled(SlipsOf(b, slips, k), {"gross", "kdv", "net"})],
   totals |-> grand, balance |-> OrZero(RoundMoney(advance) - grand.gross)]
SettlementOn(b, slips, advance) ==
  SettlementWith(b, slips, Totalled(slips, {"gross", "kdv", "net"}), advance)

\* SettlementReportDto::build: by expense category, with what is left of the advance.
Settlement(b, advance) == SettlementOn(b, SettledSlips(b), advance)
=============================================================================
