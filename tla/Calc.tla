-------------------------------- MODULE Calc --------------------------------
(***************************************************************************)
(* The calculation engine (budgetcut-core: src/calc/mod.rs, on the budget  *)
(* of src/model/mod.rs): what a budget evaluates to.                       *)
(*                                                                         *)
(* Decimals are integers: money in a unit below the kurus, rates in parts  *)
(* of One.  A quotient is cut at the unit; it and every sum are rounded    *)
(* where they have more digits than a Decimal holds, so sums of the same   *)
(* amounts in another order may differ (calc/mod.rs:95-103).  Globals have *)
(* distinct names (see NamesUnique of Access) and stand for their ids.     *)
(***************************************************************************)
EXTENDS Globals

CONSTANTS
  Lines, Categories,  \* ids of detail lines and categories, in the order of their positions
  Level,    \* PostingLevel
  One,      \* the rate 1
  Kurus,    \* units of money in a kurus
  None

ASSUME UnitAssumption == {One, Kurus} \subseteq Nat \ {0}
ASSUME LevelAssumption == IsFiniteSet(Level)
ASSUME KurusAssumption == Kurus \in Places /\ \A place \in Places : place <= Kurus => Kurus % place = 0
ASSUME OrderAssumption == Listed(Lines, Range(Lines)) /\ Listed(Categories, Range(Categories))

At(f, x, default) == IF x \in DOMAIN f THEN f[x] ELSE default

\* sat_add, sat_sub: a total that overflows stays at the end of the range.
Clamp ==
  [n \in Int |-> IF n > Largest THEN Largest ELSE IF n < - Largest THEN - Largest ELSE Held[n]]
SatAdd(a, b) == Clamp[a + b]
SatSum(s) == Accumulated(s, Clamp)

\* Some values in the order of their keys.  One that is not there adds nothing.
InOrder(order, f) == [i \in DOMAIN order |-> At(f, order[i], 0)]

\* checked_mul
Times(a, n) == IF IsOk(a) THEN Within(a.val * n, "overflow") ELSE a

\* round_money: to the kurus, midpoints away from zero.
RoundMoney(n) ==
  LET rounded == ((2 * Abs(n) + Kurus) \div (2 * Kurus)) * Kurus
  IN  IF n < 0 THEN - rounded ELSE rounded

----------------------------------------------------------------------------
\* Category and AppliedFringe, as far as values go.
Applied(fringe, rate) == [fringe |-> fringe, rate |-> rate]   \* rate: an override or None

\* effective_fringes: of the budget, the category, the account and the line.
EffectiveFringes(b, d) ==
  LET account == At(b.accounts, b.details[d].account, None)
      category == IF account = None THEN None ELSE At(b.categories, account.category, None)
  IN  b.applied
        \o (IF category = None THEN <<>> ELSE category.fringes)
        \o (IF account = None THEN <<>> ELSE account.fringes)
        \o b.details[d].fringes

\* fringe_amount of an applied fringe on a base.  A percentage applies to at
\* most the cutoff; gross-up is what makes the base the net.
FringeAmount(b, applied, base) ==
  IF applied.fringe \notin DOMAIN b.fringes THEN Err("unknown")
  ELSE LET f    == b.fringes[applied.fringe]
           rate == IF applied.rate = None THEN f.rate ELSE applied.rate
           part == IF f.cutoff # None /\ base > f.cutoff THEN f.cutoff ELSE base
           raw  == CASE f.kind = "flat" -> Times(Ok(rate), At(b.currencies, f.currency, 1))
                     [] f.kind = "percent" /\ f.mode = "additive" ->
                          Within((part * rate) \div One, "overflow")
                     [] f.kind = "percent" /\ f.mode = "grossup" /\ rate >= One -> Err("zero")
                     [] OTHER -> Within((part * One) \div (One - rate) - part, "overflow")
       IN  IF IsOk(raw) /\ f.cap # None /\ raw.val > f.cap THEN Ok(f.cap) ELSE raw

\* What each of some fringes comes to; an error counts as 0.
Charged(b, fringes, base) ==
  [i \in DOMAIN fringes |->
     [fringe |-> fringes[i].fringe, res |-> FringeAmount(b, fringes[i], base)]]

FringesOf(b, d, subtotal) == Charged(b, EffectiveFringes(b, d), subtotal)

IsCharged(charge) == IsOk(charge.res)

\* A line counts unless one of its groups is out of the budget total.
Included(b, d) == \A g \in b.details[d].groups : At(b.groups, g, TRUE)

\* The subtotal of a line, from the results of its formulas: one in error counts
\* as 0, a multiplier as 1.
ValueOf(cell, default) == IF IsOk(cell) THEN cell.val ELSE default
Product(b, line, cells) ==
  Times(Times(Times(Times(Ok(ValueOf(cells.amount, 0)), At(b.units, line.unit, 1)),
                    ValueOf(cells.multiplier, 1)), ValueOf(cells.rate, 0)),
        At(b.currencies, line.currency, 1))

\* DetailCalc, with what the line's fringes come to.
DetailCalc(included, cells, product, charges) ==
  LET fringes == SatSum([i \in DOMAIN charges |-> ValueOf(charges[i].res, 0)])
  IN  [subtotal |-> product.val, fringes |-> fringes, line |-> SatAdd(product.val, fringes),
       multiplier |-> ValueOf(cells.multiplier, 1), rate |-> ValueOf(cells.rate, 0),
       included |-> included, charges |-> charges,
       error |-> ~ (/\ \A field \in DOMAIN cells : IsOk(cells[field])
                    /\ IsOk(product)
                    /\ \A i \in DOMAIN charges : IsCharged(charges[i]))]

DetailOn(b, d, cells, product) ==
  DetailCalc(Included(b, d), cells, product, FringesOf(b, d, product.val))
DetailWith(b, d, cells) == DetailOn(b, d, cells, Product(b, b.details[d], cells))

\* eval_detail: a product beyond the range counts as 0.
EvalDetail(b, values, d) ==
  DetailWith(b, d, [field \in {"amount", "multiplier", "rate"} |-> Eval(b.details[d][field], values)])

\* Those of a line's charges that some of the fringes bring.
ChargesOf(charges, fringes) ==
  [i \in DOMAIN charges |->
     IF IsCharged(charges[i]) /\ charges[i].fringe \in fringes THEN charges[i].res.val ELSE 0]

\* Faulty variant: suppressed lines post, too.
PostingsOfAll(b, calc, level) ==
  ChargesOf(calc.charges, {f \in DOMAIN b.fringes : b.fringes[f].level = level})

\* What a line posts to a level of the fringe breakdown, charge by charge.
Postings(b, calc, level) ==
  ChargesOf(calc.charges, {f \in DOMAIN b.fringes : calc.included /\ b.fringes[f].level = level})

\* A line's charges by mode.
ByMode(b, charges, mode) ==
  SatSum(ChargesOf(charges, {f \in DOMAIN b.fringes : b.fringes[f].mode = mode}))

\* Faulty variant: only the fringes of the line itself are split.
FringeSplitOfLine(b, d, subtotal) ==
  LET charges == Charged(b, b.details[d].fringes, subtotal)
  IN  [mode \in {"grossup", "additive"} |-> ByMode(b, charges, mode)]

\* detail_fringe_split: a line's fringes by mode, for the national sheet.
FringeSplit(b, d, subtotal) ==
  LET charges == FringesOf(b, d, subtotal)
  IN  [mode \in {"grossup", "additive"} |-> ByMode(b, charges, mode)]

\* category_is_atl: before the first production total if there is one.
CategoryIsAtl(b, c) ==
  IF b.dividers = {} THEN b.categories[c].hint = "ATL"
  ELSE \A position \in b.dividers : b.categories[c].position < position

----------------------------------------------------------------------------
\* Rollup::finalize
RollupOf(subtotal, fringes) ==
  [subtotal |-> subtotal, fringes |-> fringes, total |-> SatAdd(subtotal, fringes)]

\* Rollup, of what the included ones of some lines amount to.
Rolled(details, S) ==
  LET included == {d \in S : details[d].included}
  IN  RollupOf(SatSum(InOrder(Lines, [d \in included |-> details[d].subtotal])),
               SatSum(InOrder(Lines, [d \in included |-> details[d].fringes])))

\* Rollup::add_components, of some categories.
Combined(categories, S) ==
  RollupOf(SatSum(InOrder(Categories, [c \in S |-> categories[c].subtotal])),
           SatSum(InOrder(Categories, [c \in S |-> categories[c].fringes])))

\* A sum or difference nobody checks: what leaves the range panics, and stays there.
Unchecked == [n \in Int |-> IF InRange(n) THEN Held[n] ELSE n]
Posting(n) == [x \in Int |-> IF n # 0 /\ InRange(x) THEN Unchecked[x + n] ELSE x]

\* FringeBreakdown: what the lines post to a level, line by line and charge by charge.
Posts(charges) == [x \in Int |-> Run(x, [i \in DOMAIN charges |-> Posting(charges[i])])]
Posted(b, details, level) ==
  Run(0, [n \in DOMAIN Lines |-> Posts(IF Lines[n] \in DOMAIN details
                                        THEN Postings(b, details[Lines[n]], level) ELSE <<>>)])

PostingPanics(b, details) == \E level \in Level : ~ InRange(Posted(b, details, level))

\* The category a line rolls into.
CategoryOfLine(b, d) ==
  IF b.details[d].account \in DOMAIN b.accounts
  THEN b.accounts[b.details[d].account].category ELSE None

\* The rollups of lines by a key, which key gives for each line.
RolledBy(details, keys, key) ==
  [k \in keys |-> Rolled(details, {d \in DOMAIN details : key[d] = k})]

\* split_atl_btl: a side of the line, from the rollups of the categories.
SideOf(b, categories, atl) ==
  Combined(categories, {c \in DOMAIN b.categories : CategoryIsAtl(b, c) = atl})

\* Charges are added to the total, credits taken from it; one in error is not.
Amounts(formulas, values) ==
  SatSum([i \in DOMAIN formulas |-> ValueOf(Eval(formulas[i], values), 0)])

\* The breakdown's sums and the arithmetic of globals may panic.
Panics(b, values, details) ==
  (\E name \in DOMAIN values : values[name].err = "panic") \/ PostingPanics(b, details)

CalcResult(b, values, details, total, categories, charges, credits) ==
  [values     |-> values,
   details    |-> details,
   accounts   |-> RolledBy(details,
                           DOMAIN b.accounts \union {b.details[d].account : d \in DOMAIN b.details},
                           [d \in DOMAIN details |-> b.details[d].account]),
   categories |-> categories,
   breakdown  |-> [level \in Level |-> Posted(b, details, level)],
   atl        |-> SideOf(b, categories, TRUE),
   btl        |-> SideOf(b, categories, FALSE),
   total      |-> total,
   charges    |-> charges,
   grand      |-> SatAdd(total.total, charges),
   credits    |-> credits,
   net        |-> SatAdd(SatAdd(total.total, charges), - credits),
   panics     |-> Panics(b, values, details)]

EvaluateLines(b, values, details) ==
  CalcResult(b, values, details, Rolled(details, DOMAIN details),
             RolledBy(details,
                      DOMAIN b.categories
                        \union ({CategoryOfLine(b, d) : d \in DOMAIN b.details} \ {None}),
                      [d \in DOMAIN details |-> CategoryOfLine(b, d)]),
             Amounts(b.charges, values), Amounts(b.credits, values))

EvaluateWith(b, values) ==
  EvaluateLines(b, values, [d \in DOMAIN b.details |-> EvalDetail(b, values, d)])

\* evaluate
Evaluate(b) == EvaluateWith(b, ResolveGlobals(b.globals))

----------------------------------------------------------------------------
\* validate: every id a budget refers to is there.
Resolves(b, fringes) == \A i \in DOMAIN fringes : fringes[i].fringe \in DOMAIN b.fringes
Valid(b) ==
  /\ Resolves(b, b.applied)
  /\ \A c \in DOMAIN b.categories : Resolves(b, b.categories[c].fringes)
  /\ \A a \in DOMAIN b.accounts :
       b.accounts[a].category \in DOMAIN b.categories /\ Resolves(b, b.accounts[a].fringes)
  /\ \A d \in DOMAIN b.details :
       LET line == b.details[d]
       IN  /\ line.account \in DOMAIN b.accounts
           /\ line.unit \in DOMAIN b.units /\ line.currency \in DOMAIN b.currencies
           /\ Resolves(b, line.fringes)
           /\ line.groups \subseteq DOMAIN b.groups
  /\ \A a \in DOMAIN b.actuals : b.actuals[a].account \in DOMAIN b.accounts
=============================================================================
