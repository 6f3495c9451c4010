----------------------------- MODULE BooksProofs -----------------------------
(***************************************************************************)
(* What holds of a budget whatever is edited, in whatever order, for every *)
(* number of lines, accounts, globals, fringes, actuals, receipts and      *)
(* orders, every depth of formulas and every range of amounts.             *)
(*                                                                         *)
(* One invariant is enough for all of it, Kept: the budget is of its type  *)
(* and its categories are in the order of their positions.  The rest is    *)
(* about what Evaluate and the reports make of such a budget, from the     *)
(* sums of CalcProofs: what lines, charges, rollups, postings and records  *)
(* come to, and how far apart two ways of adding them up can be.           *)
(***************************************************************************)
EXTENDS CalcProofs

----------------------------------------------------------------------------
(***************************************************************************)
(* The invariant: a budget stays well kept, whatever is edited.            *)
(***************************************************************************)

\* What may take the place of a collection of a budget.
Fits(b, m, v) ==
  /\ m = "globals" => Map(v, Formula) /\ DOMAIN v \subseteq Name
  /\ m = "categories" => Map(v, CategoryType) /\ DOMAIN v \subseteq Range(Categories)
  /\ m = "accounts" => Map(v, AccountType)
  /\ m = "fringes" => Map(v, FringeType)
  /\ m = "details" => Map(v, DetailType(b)) /\ DOMAIN v \subseteq Range(Lines)
  /\ m = "groups" => Map(v, BOOLEAN) /\ DOMAIN v = DOMAIN b.groups
  /\ m = "actuals" => Map(v, Actual)
  /\ m = "receipts" => Map(v, Receipt)
  /\ m = "orders" => Map(v, Order)
Edited == Collections \ {"units", "currencies"}

\* A collection may be replaced by one that fits, and nothing else changes.
LEMMA ReplaceFits ==
  ASSUME NEW b, BudgetType(b), NEW m \in Edited, NEW v, Fits(b, m, v)
  PROVE  /\ BudgetType([b EXCEPT ![m] = v])
         /\ [b EXCEPT ![m] = v][m] = v
         /\ \A field \in Fields \ {m} : [b EXCEPT ![m] = v][field] = b[field]
<1> DEFINE c == [b EXCEPT ![m] = v]
<1>1. b = [field \in Fields |-> b[field]] /\ m \in Fields
  BY DEF BudgetType, Edited, Fields, Collections
<1>2. /\ c = [field \in Fields |-> c[field]]
      /\ c[m] = v
      /\ \A field \in Fields \ {m} : c[field] = b[field]
  BY <1>1
<1> HIDE DEF c
<1>3. /\ m # "units" /\ m # "currencies" /\ m \notin {"base", "dividers", "applied", "charges", "credits"}
      /\ {"globals", "units", "currencies", "categories", "accounts", "fringes", "details", "groups",
          "actuals", "receipts", "orders", "base", "dividers", "applied", "charges", "credits"} = Fields
  BY DEF Edited, Collections, Fields
<1>4. DetailType(c) = DetailType(b)
  <2>1. c.units = b.units /\ c.currencies = b.currencies
    BY <1>2, <1>3
  <2>2. DOMAIN c.groups = DOMAIN b.groups
    <3>1. CASE m = "groups"
      BY <1>2, <3>1 DEF Fits
    <3>2. CASE m # "groups"
      BY <1>2, <1>3, <3>2
    <3> QED BY <3>1, <3>2
  <2> QED BY <2>1, <2>2 DEF DetailType
<1> HIDE DEF Map
<1>5. /\ Map(c.globals, Formula) /\ DOMAIN c.globals \subseteq Name
  BY <1>2, <1>3 DEF BudgetType, Fits
<1>6. /\ Map(c.units, Decimal) /\ DOMAIN c.units # {}
      /\ Map(c.currencies, Decimal) /\ c.base \in DOMAIN c.currencies
      /\ c.dividers \subseteq Int
      /\ c.applied \in Applications
      /\ c.charges \in Seq(Formula) /\ c.credits \in Seq(Formula)
  <2>1. /\ c.units = b.units /\ c.currencies = b.currencies /\ c.base = b.base
        /\ c.dividers = b.dividers /\ c.applied = b.applied /\ c.charges = b.charges
        /\ c.credits = b.credits
    BY <1>2, <1>3
  <2> QED BY <2>1, Zenon DEF BudgetType
<1>7. Map(c.categories, CategoryType) /\ DOMAIN c.categories \subseteq Range(Categories)
  BY <1>2, <1>3 DEF BudgetType, Fits
<1>8. Map(c.accounts, AccountType) /\ Map(c.fringes, FringeType)
  <2>1. Map(c.accounts, AccountType)
    BY <1>2, <1>3 DEF BudgetType, Fits
  <2>2. Map(c.fringes, FringeType)
    BY <1>2, <1>3 DEF BudgetType, Fits
  <2> QED BY <2>1, <2>2
<1>9. Map(c.details, DetailType(b)) /\ DOMAIN c.details \subseteq Range(Lines)
  BY <1>2, <1>3 DEF BudgetType, Fits
<1>10. Map(c.groups, BOOLEAN)
  BY <1>2, <1>3 DEF BudgetType, Fits
<1>11. Map(c.actuals, Actual) /\ Map(c.receipts, Receipt) /\ Map(c.orders, Order)
  <2>1. Map(c.actuals, Actual)
    BY <1>2, <1>3 DEF BudgetType, Fits
  <2>2. Map(c.receipts, Receipt)
    BY <1>2, <1>3 DEF BudgetType, Fits
  <2>3. Map(c.orders, Order)
    BY <1>2, <1>3 DEF BudgetType, Fits
  <2> QED BY <2>1, <2>2, <2>3
<1>12. BudgetType(c)
  BY <1>2, <1>4, <1>5, <1>6, <1>7, <1>8, <1>9, <1>10, <1>11, Zenon DEF BudgetType
<1> QED BY <1>2, <1>12 DEF c

\* An entry more keeps a table's type.
LEMMA MapPut ==
  ASSUME NEW T, NEW f, Map(f, T), NEW id, NEW x \in T
  PROVE  LET g == [y \in DOMAIN f \union {id} |-> IF y = id THEN x ELSE f[y]]
         IN  Map(g, T) /\ DOMAIN g = DOMAIN f \union {id}
<1>1. IsFiniteSet(DOMAIN f \union {id})
  BY FS_AddElement DEF Map
<1> QED BY <1>1 DEF Map

\* An entry less keeps a table's type.
LEMMA MapDrop ==
  ASSUME NEW T, NEW f, Map(f, T), NEW id
  PROVE  LET g == [y \in DOMAIN f \ {id} |-> f[y]]
         IN  Map(g, T) /\ DOMAIN g = DOMAIN f \ {id} /\ \A y \in DOMAIN g : g[y] = f[y]
<1>1. IsFiniteSet(DOMAIN f \ {id})
  BY FS_RemoveElement DEF Map
<1> QED BY <1>1 DEF Map

\* Putting an entry into a collection keeps the budget's type.
LEMMA PutType ==
  ASSUME NEW b, BudgetType(b), NEW m \in Edited, NEW id, NEW x,
         Fits(b, m, [y \in DOMAIN b[m] \union {id} |-> IF y = id THEN x ELSE b[m][y]])
  PROVE  /\ BudgetType(Put(b, m, id, x))
         /\ \A field \in Fields \ {m} : Put(b, m, id, x)[field] = b[field]
<1> DEFINE v == [y \in DOMAIN b[m] \union {id} |-> IF y = id THEN x ELSE b[m][y]]
<1>1. Put(b, m, id, x) = [b EXCEPT ![m] = v]
  BY DEF Put
<1>2. Fits(b, m, v)
  OBVIOUS
<1> HIDE DEF v
<1>3. /\ BudgetType([b EXCEPT ![m] = v])
      /\ \A field \in Fields \ {m} : [b EXCEPT ![m] = v][field] = b[field]
  BY <1>2, ReplaceFits
<1> QED BY <1>1, <1>3, Zenon

\* What is left of a collection fits.
LEMMA DropFits ==
  ASSUME NEW b, BudgetType(b), NEW m \in Edited, m # "groups", NEW id
  PROVE  Fits(b, m, [y \in DOMAIN b[m] \ {id} |-> b[m][y]])
<1> DEFINE g == [y \in DOMAIN b[m] \ {id} |-> b[m][y]]
<1>1. \A T : Map(b[m], T) => Map(g, T) /\ DOMAIN g \subseteq DOMAIN b[m]
  BY MapDrop
<1> HIDE DEF Map, g
<1>2. /\ m = "globals" => Map(b[m], Formula) /\ DOMAIN b[m] \subseteq Name
      /\ m = "categories" => Map(b[m], CategoryType) /\ DOMAIN b[m] \subseteq Range(Categories)
      /\ m = "accounts" => Map(b[m], AccountType)
      /\ m = "fringes" => Map(b[m], FringeType)
      /\ m = "details" => Map(b[m], DetailType(b)) /\ DOMAIN b[m] \subseteq Range(Lines)
      /\ m = "actuals" => Map(b[m], Actual)
      /\ m = "receipts" => Map(b[m], Receipt)
      /\ m = "orders" => Map(b[m], Order)
  BY DEF BudgetType
<1> QED BY <1>1, <1>2 DEF Fits, g

\* Dropping an entry keeps the budget's type.
LEMMA DropType ==
  ASSUME NEW b, BudgetType(b), NEW m \in Edited, m # "groups", NEW id
  PROVE  /\ BudgetType(Drop(b, m, id))
         /\ Drop(b, m, id)[m] = [y \in DOMAIN b[m] \ {id} |-> b[m][y]]
         /\ \A field \in Fields \ {m} : Drop(b, m, id)[field] = b[field]
<1> DEFINE v == [y \in DOMAIN b[m] \ {id} |-> b[m][y]]
<1>1. Drop(b, m, id) = [b EXCEPT ![m] = v]
  BY DEF Drop
<1>2. Fits(b, m, v)
  BY DropFits
<1> HIDE DEF v
<1>3. /\ BudgetType([b EXCEPT ![m] = v])
      /\ [b EXCEPT ![m] = v][m] = v
      /\ \A field \in Fields \ {m} : [b EXCEPT ![m] = v][field] = b[field]
  BY <1>2, ReplaceFits
<1>4. v = [y \in DOMAIN b[m] \ {id} |-> b[m][y]]
  BY DEF v
<1> QED BY <1>1, <1>3, <1>4, Zenon

\* A budget the commands may edit.
WellKept(b) == BudgetType(b) /\ InPosition(b)

\* Positions are a matter of the categories alone.
LEMMA SamePlaces ==
  ASSUME NEW b, NEW c, InPosition(b), c.categories = b.categories
  PROVE  InPosition(c)
BY DEF InPosition

\* A number is a formula.
LEMMA NumIsFormula == \A n \in Decimal : Num(n) \in Formula
<1>1. 0 \in 0 .. MaxDepth
  BY DepthAssumption
<1>2. Leaves \subseteq Formula
  BY <1>1, NestedGrows, NestedIs
<1>3. \A n \in Decimal : Num(n) \in Leaves
  BY DEF Leaves, Num
<1> QED BY <1>2, <1>3

\* Replacing a collection other than the categories keeps a budget well kept.
LEMMA ReplaceKeeps ==
  ASSUME NEW b, WellKept(b), NEW m \in Edited \ {"categories"}, NEW v, Fits(b, m, v)
  PROVE  WellKept([b EXCEPT ![m] = v])
<1>1. /\ BudgetType([b EXCEPT ![m] = v])
      /\ \A field \in Fields \ {m} : [b EXCEPT ![m] = v][field] = b[field]
  BY ReplaceFits DEF WellKept
<1>2. "categories" \in Fields \ {m}
  BY DEF Fields, Collections
<1>3. [b EXCEPT ![m] = v].categories = b.categories
  BY <1>1, <1>2
<1> QED BY <1>1, <1>3, SamePlaces DEF WellKept

\* So does putting an entry into one.
LEMMA PutKeeps ==
  ASSUME NEW b, WellKept(b), NEW m \in Edited \ {"categories"}, NEW id, NEW x,
         Fits(b, m, [y \in DOMAIN b[m] \union {id} |-> IF y = id THEN x ELSE b[m][y]])
  PROVE  WellKept(Put(b, m, id, x))
<1> DEFINE v == [y \in DOMAIN b[m] \union {id} |-> IF y = id THEN x ELSE b[m][y]]
<1>1. Put(b, m, id, x) = [b EXCEPT ![m] = v]
  BY DEF Put
<1>2. Fits(b, m, v)
  OBVIOUS
<1> HIDE DEF v
<1>3. WellKept([b EXCEPT ![m] = v])
  BY <1>2, ReplaceKeeps
<1> QED BY <1>1, <1>3, Zenon

\* So does dropping one, also a category: the others stay in order.
LEMMA DropKeeps ==
  ASSUME NEW b, WellKept(b), NEW m \in Edited \ {"groups"}, NEW id
  PROVE  WellKept(Drop(b, m, id))
<1>1. /\ BudgetType(Drop(b, m, id))
      /\ Drop(b, m, id)[m] = [y \in DOMAIN b[m] \ {id} |-> b[m][y]]
      /\ \A field \in Fields \ {m} : Drop(b, m, id)[field] = b[field]
  BY DropType DEF WellKept
<1>2. CASE m = "categories"
  <2> DEFINE c == Drop(b, m, id)
  <2>1. DOMAIN c.categories \subseteq DOMAIN b.categories
        /\ \A y \in DOMAIN c.categories : c.categories[y] = b.categories[y]
    BY <1>1, <1>2
  <2> HIDE DEF c
  <2>2. InPosition(c)
    BY <2>1 DEF WellKept, InPosition
  <2> QED BY <1>1, <2>2 DEF WellKept, c
<1>3. CASE m # "categories"
  <2>1. "categories" \in Fields \ {m}
    BY <1>3 DEF Fields, Collections
  <2>2. Drop(b, m, id).categories = b.categories
    BY <1>1, <2>1
  <2> QED BY <1>1, <2>2, SamePlaces DEF WellKept
<1> QED BY <1>2, <1>3

\* So does changing a line.
LEMMA DetailKeeps ==
  ASSUME NEW b, WellKept(b), NEW d \in DOMAIN b.details, NEW line \in DetailType(b)
  PROVE  WellKept([b EXCEPT !.details[d] = line])
<1> DEFINE v == [b.details EXCEPT ![d] = line]
<1>1. [b EXCEPT !.details[d] = line] = [b EXCEPT !["details"] = v]
  OBVIOUS
<1>2. Map(v, DetailType(b)) /\ DOMAIN v \subseteq Range(Lines)
  BY DEF WellKept, BudgetType, Map
<1>3. Fits(b, "details", v)
  BY <1>2 DEF Fits
<1>4. "details" \in Edited \ {"categories"}
  BY DEF Edited, Collections
<1> HIDE DEF v
<1>5. WellKept([b EXCEPT !["details"] = v])
  BY <1>3, <1>4, ReplaceKeeps
<1> QED BY <1>1, <1>5, Zenon

\* So does changing an order's status.
LEMMA OrderKeeps ==
  ASSUME NEW b, WellKept(b), NEW o \in DOMAIN b.orders, NEW status \in Status
  PROVE  WellKept([b EXCEPT !.orders[o].status = status])
<1> DEFINE v == [b.orders EXCEPT ![o].status = status]
<1>1. [b EXCEPT !.orders[o].status = status] = [b EXCEPT !["orders"] = v]
  OBVIOUS
<1>2. Map(v, Order)
  BY DEF WellKept, BudgetType, Map, Order
<1>3. Fits(b, "orders", v)
  BY <1>2 DEF Fits
<1>4. "orders" \in Edited \ {"categories"}
  BY DEF Edited, Collections
<1> HIDE DEF v
<1>5. WellKept([b EXCEPT !["orders"] = v])
  BY <1>3, <1>4, ReplaceKeeps
<1> QED BY <1>1, <1>5, Zenon

\* A new actual, receipt or order fits its collection.
LEMMA PutFits ==
  ASSUME NEW b, NEW m \in {"actuals", "receipts", "orders"}, NEW T,
         Map(b[m], T), NEW id, NEW x \in T,
         T = IF m = "actuals" THEN Actual ELSE IF m = "receipts" THEN Receipt ELSE Order
  PROVE  Fits(b, m, [y \in DOMAIN b[m] \union {id} |-> IF y = id THEN x ELSE b[m][y]])
<1> DEFINE v == [y \in DOMAIN b[m] \union {id} |-> IF y = id THEN x ELSE b[m][y]]
<1>1. Map(v, T)
  BY MapPut
<1> HIDE DEF v, Map
<1>2. Fits(b, m, v)
  BY <1>1 DEF Fits
<1> QED BY <1>2 DEF v

\* Papers on record keep a budget well kept.
LEMMA PaperKeeps ==
  ASSUME NEW b, WellKept(b), NEW id
  PROVE  /\ \A x \in Actual : WellKept(Put(b, "actuals", id, x))
         /\ \A x \in Receipt : WellKept(Put(b, "receipts", id, x))
         /\ \A x \in Order : WellKept(Put(b, "orders", id, x))
<1>1. Map(b.actuals, Actual) /\ Map(b.receipts, Receipt) /\ Map(b.orders, Order)
  BY DEF WellKept, BudgetType
<1>2. {"actuals", "receipts", "orders"} \subseteq Edited \ {"categories"}
  BY DEF Edited, Collections
<1> HIDE DEF Map
<1>3. ASSUME NEW x \in Actual PROVE WellKept(Put(b, "actuals", id, x))
  <2>1. Fits(b, "actuals",
             [y \in DOMAIN b["actuals"] \union {id} |-> IF y = id THEN x ELSE b["actuals"][y]])
    BY <1>1, <1>3, PutFits
  <2> QED BY <1>2, <2>1, PutKeeps
<1>4. ASSUME NEW x \in Receipt PROVE WellKept(Put(b, "receipts", id, x))
  <2>1. Fits(b, "receipts",
             [y \in DOMAIN b["receipts"] \union {id} |-> IF y = id THEN x ELSE b["receipts"][y]])
    BY <1>1, <1>4, PutFits
  <2> QED BY <1>2, <2>1, PutKeeps
<1>5. ASSUME NEW x \in Order PROVE WellKept(Put(b, "orders", id, x))
  <2>1. Fits(b, "orders",
             [y \in DOMAIN b["orders"] \union {id} |-> IF y = id THEN x ELSE b["orders"][y]])
    BY <1>1, <1>5, PutFits
  <2> QED BY <1>2, <2>1, PutKeeps
<1> QED BY <1>3, <1>4, <1>5

\* The globals of a budget have formulas.
LEMMA BudgetGlobals == \A b : BudgetType(b) => Globals(b.globals)
BY DEF BudgetType, Map, Globals

\* The values of evaluate are the resolved globals.
LEMMA ValuesAre == \A b : Evaluate(b).values = ResolveGlobals(b.globals)
BY DEF Evaluate, EvaluateWith, EvaluateLines, CalcResult

\* A blank line is a line.
LEMMA NewLineType ==
  ASSUME NEW b, BudgetType(b), NEW a \in Account
  PROVE  [account |-> a, amount |-> Num(1), multiplier |-> Num(1), rate |-> Num(0),
          unit |-> CHOOSE u \in DOMAIN b.units : TRUE, currency |-> b.base,
          fringes |-> <<>>, groups |-> {}] \in DetailType(b)
<1>1. Num(0) \in Formula /\ Num(1) \in Formula
  <2>1. 0 \in Decimal /\ 1 \in Decimal
    BY DepthAssumption DEF Decimal
  <2> QED BY <2>1, NumIsFormula
<1>2. (CHOOSE u \in DOMAIN b.units : TRUE) \in DOMAIN b.units /\ b.base \in DOMAIN b.currencies
  BY DEF BudgetType
<1>3. <<>> \in Applications
  BY DEF Applications
<1> QED BY <1>1, <1>2, <1>3 DEF DetailType

\* An edit to a budget that is well kept keeps the invariant.
LEMMA EditKeeps ==
  ASSUME NEW b, Edit(b), edits \in 0 .. MaxEdits, WellKept(b)
  PROVE  edits' \in 0 .. MaxEdits /\ WellKept(budget')
BY InputAssumption DEF Edit

Kept == edits \in 0 .. MaxEdits /\ WellKept(budget)

\* The seeds are well kept.
LEMMA InitKept == Init => Kept
BY SeedsAssumption, InputAssumption DEF Init, Kept, WellKept

\* One lemma per command that keeps the invariant: set_global_by_name,
LEMMA SetGlobalKeeps ==
  ASSUME Kept, NEW name, NEW value \in Values, SetGlobal(name, value)
  PROVE  Kept'
<1> DEFINE b == Put(budget, "globals", name, value)
           v == [y \in DOMAIN budget["globals"] \union {name} |->
                   IF y = name THEN value ELSE budget["globals"][y]]
<1>1. Map(budget.globals, Formula) /\ DOMAIN budget.globals \subseteq Name
      /\ name \in DOMAIN budget.globals /\ value \in Formula
  BY InputAssumption DEF Kept, WellKept, BudgetType, SetGlobal
<1>2. Map(v, Formula) /\ DOMAIN v \subseteq Name
  BY <1>1, MapPut
<1>3. Fits(budget, "globals", v)
  BY <1>2 DEF Fits
<1>4. "globals" \in Edited \ {"categories"}
  BY DEF Edited, Collections
<1>5. WellKept(b)
  BY <1>3, <1>4, PutKeeps DEF Kept
<1>6. Edit(b)
  BY DEF SetGlobal
<1> QED BY <1>5, <1>6, EditKeeps DEF Kept

\* set_detail_field,
LEMMA SetDetailFieldKeeps ==
  ASSUME Kept, NEW d, NEW field \in {"amount", "multiplier", "rate"}, NEW value \in Values,
         SetDetailField(d, field, value)
  PROVE  Kept'
<1> DEFINE line == [budget.details[d] EXCEPT ![field] = value]
           b == [budget EXCEPT !.details[d] = line]
<1>1. value \in Formula /\ d \in DOMAIN budget.details
  BY InputAssumption DEF SetDetailField
<1>2. budget.details[d] \in DetailType(budget)
  BY <1>1 DEF Kept, WellKept, BudgetType, Map
<1>3. line \in DetailType(budget)
  BY <1>1, <1>2 DEF DetailType
<1>4. Edit([budget EXCEPT !.details[d][field] = value])
  BY DEF SetDetailField
<1>5. [budget EXCEPT !.details[d][field] = value] = b
  OBVIOUS
<1>6. WellKept(b)
  BY <1>1, <1>3, DetailKeeps DEF Kept
<1> HIDE DEF b
<1>7. Edit(b)
  BY <1>4, <1>5, Zenon
<1> QED BY <1>6, <1>7, EditKeeps DEF Kept

\* set_detail_fringes,
LEMMA SetDetailFringesKeeps ==
  ASSUME Kept, NEW d, NEW fringes \in Choices, SetDetailFringes(d, fringes)
  PROVE  Kept'
<1> DEFINE line == [budget.details[d] EXCEPT !.fringes = fringes]
           b == [budget EXCEPT !.details[d] = line]
<1>1. fringes \in Applications /\ d \in DOMAIN budget.details
  BY InputAssumption DEF SetDetailFringes
<1>2. budget.details[d] \in DetailType(budget)
  BY <1>1 DEF Kept, WellKept, BudgetType, Map
<1>3. line \in DetailType(budget)
  BY <1>1, <1>2 DEF DetailType
<1>4. Edit([budget EXCEPT !.details[d].fringes = fringes])
  BY DEF SetDetailFringes
<1>5. [budget EXCEPT !.details[d].fringes = fringes] = b
  OBVIOUS
<1>6. WellKept(b)
  BY <1>1, <1>3, DetailKeeps DEF Kept
<1> HIDE DEF b
<1>7. Edit(b)
  BY <1>4, <1>5, Zenon
<1> QED BY <1>6, <1>7, EditKeeps DEF Kept

\* add_line,
LEMMA AddLineKeeps ==
  ASSUME Kept, NEW d \in Range(Lines), NEW a \in Account, AddLine(d, a)
  PROVE  Kept'
<1> DEFINE line == [account |-> a, amount |-> Num(1), multiplier |-> Num(1), rate |-> Num(0),
                    unit |-> CHOOSE u \in DOMAIN budget.units : TRUE, currency |-> budget.base,
                    fringes |-> <<>>, groups |-> {}]
           b == Put(budget, "details", d, line)
           v == [y \in DOMAIN budget["details"] \union {d} |->
                   IF y = d THEN line ELSE budget["details"][y]]
<1>1. line \in DetailType(budget)
  BY NewLineType DEF Kept, WellKept
<1>2. Edit(b)
  BY DEF AddLine
<1>3. Map(budget.details, DetailType(budget)) /\ DOMAIN budget.details \subseteq Range(Lines)
  BY DEF Kept, WellKept, BudgetType
<1> HIDE DEF line
<1>4. Map(v, DetailType(budget)) /\ DOMAIN v \subseteq Range(Lines)
  BY <1>1, <1>3, MapPut
<1>5. Fits(budget, "details", v)
  BY <1>4 DEF Fits
<1>6. "details" \in Edited \ {"categories"}
  BY DEF Edited, Collections
<1>7. WellKept(b)
  BY <1>5, <1>6, PutKeeps DEF Kept
<1> QED BY <1>2, <1>7, EditKeeps DEF Kept

\* an inserted group,
LEMMA InsertGroupKeeps ==
  ASSUME Kept, NEW g \in DOMAIN budget.groups, NEW inTotal \in BOOLEAN, InsertGroup(g, inTotal)
  PROVE  Kept'
<1> DEFINE b == Put(budget, "groups", g, inTotal)
           v == [y \in DOMAIN budget["groups"] \union {g} |->
                   IF y = g THEN inTotal ELSE budget["groups"][y]]
<1>1. Map(budget.groups, BOOLEAN)
  BY DEF Kept, WellKept, BudgetType
<1>2. Map(v, BOOLEAN) /\ DOMAIN v = DOMAIN budget.groups
  BY <1>1, MapPut
<1>3. Fits(budget, "groups", v)
  BY <1>2 DEF Fits
<1>4. "groups" \in Edited \ {"categories"}
  BY DEF Edited, Collections
<1>5. WellKept(b)
  BY <1>3, <1>4, PutKeeps DEF Kept
<1>6. Edit(b)
  BY DEF InsertGroup
<1> QED BY <1>5, <1>6, EditKeeps DEF Kept

\* whatever takes an entry out,
LEMMA DropsKeep ==
  ASSUME Kept, NEW m \in Edited \ {"groups"}, NEW id, Edit(Drop(budget, m, id))
  PROVE  Kept'
BY DropKeeps, EditKeeps DEF Kept

\* whatever adds a paper,
LEMMA PapersKeep ==
  ASSUME Kept, NEW id,
         \/ \E x \in Actual : Edit(Put(budget, "actuals", id, x))
         \/ \E x \in Receipt : Edit(Put(budget, "receipts", id, x))
         \/ \E x \in Order : Edit(Put(budget, "orders", id, x))
  PROVE  Kept'
BY PaperKeeps, EditKeeps DEF Kept

\* approve_po,
LEMMA ApproveOrderKeeps ==
  ASSUME Kept, NEW o, ApproveOrder(o)
  PROVE  Kept'
<1>1. o \in DOMAIN budget.orders /\ "approved" \in Status
  BY DEF ApproveOrder, Status
<1>2. Edit([budget EXCEPT !.orders[o].status = "approved"])
  BY DEF ApproveOrder
<1>3. WellKept([budget EXCEPT !.orders[o].status = "approved"])
  BY <1>1, OrderKeeps DEF Kept
<1> QED BY <1>2, <1>3, EditKeeps DEF Kept

\* The actual an order becomes is one.
LEMMA AsActualType == \A order \in Order : AsActual(order) \in Actual
<1>1. 0 \in Decimal
  BY DepthAssumption DEF Decimal
<1> QED BY <1>1 DEF AsActual, Actual, Order

\* and convert_po.
LEMMA ConvertOrderKeeps ==
  ASSUME Kept, NEW o, ConvertOrder(o)
  PROVE  Kept'
<1> DEFINE c == Put(budget, "actuals", o, AsActual(budget.orders[o]))
           b == [c EXCEPT !.orders[o].status = "converted"]
<1>1. budget.orders[o] \in Order /\ o \in DOMAIN budget.orders
  BY DEF ConvertOrder, Kept, WellKept, BudgetType, Map
<1>2. WellKept(c)
  BY <1>1, AsActualType, PaperKeeps DEF Kept
<1>3. DOMAIN c.orders = DOMAIN budget.orders
  <2>1. "orders" # "actuals"
    OBVIOUS
  <2>2. c = [budget EXCEPT !["actuals"] =
               [y \in DOMAIN budget["actuals"] \union {o} |->
                  IF y = o THEN AsActual(budget.orders[o]) ELSE budget["actuals"][y]]]
    BY DEF Put
  <2> QED BY <2>1, <2>2 DEF Kept, WellKept, BudgetType, Fields, Collections
<1>4. Edit(b)
  BY DEF ConvertOrder
<1>5. "converted" \in Status
  BY DEF Status
<1> HIDE DEF c
<1>6. WellKept(b)
  BY <1>1, <1>2, <1>3, <1>5, OrderKeeps
<1> QED BY <1>4, <1>6, EditKeeps DEF Kept

\* Every command keeps the invariant.
LEMMA NextKeeps == Kept /\ Next => Kept'
<1> SUFFICES ASSUME Kept, Next PROVE Kept'
  OBVIOUS
<1>1. ASSUME NEW name \in Name, NEW value \in Values, SetGlobal(name, value) PROVE Kept'
  BY <1>1, SetGlobalKeeps
<1>2. ASSUME NEW d \in Range(Lines),
             \/ \E field \in {"amount", "multiplier", "rate"}, value \in Values :
                  SetDetailField(d, field, value)
             \/ \E fringes \in Choices : SetDetailFringes(d, fringes)
             \/ \E a \in Account : AddLine(d, a)
             \/ RemoveLine(d)
      PROVE  Kept'
  <2>1. ASSUME NEW field \in {"amount", "multiplier", "rate"}, NEW value \in Values,
               SetDetailField(d, field, value)
        PROVE  Kept'
    BY <2>1, SetDetailFieldKeeps
  <2>2. ASSUME NEW fringes \in Choices, SetDetailFringes(d, fringes) PROVE Kept'
    BY <2>2, SetDetailFringesKeeps
  <2>3. ASSUME NEW a \in Account, AddLine(d, a) PROVE Kept'
    BY <2>3, AddLineKeeps
  <2>4. CASE RemoveLine(d)
    BY <2>4, DropsKeep DEF RemoveLine, Edited, Collections
  <2> QED BY <1>2, <2>1, <2>2, <2>3, <2>4
<1>3. ASSUME NEW x, NEW bill \in Bills, AddActual(x, bill) PROVE Kept'
  BY <1>3, PapersKeep, InputAssumption DEF AddActual
<1>4. ASSUME NEW x, RemoveActual(x) PROVE Kept'
  BY <1>4, DropsKeep DEF RemoveActual, Edited, Collections
<1>5. ASSUME NEW x, NEW slip \in Slips, AddReceipt(x, slip) PROVE Kept'
  BY <1>5, PapersKeep, InputAssumption DEF AddReceipt
<1>6. ASSUME NEW x, RemoveReceipt(x) PROVE Kept'
  BY <1>6, DropsKeep DEF RemoveReceipt, Edited, Collections
<1>7. ASSUME NEW o, NEW c \in Commitments, AddOrder(o, c) PROVE Kept'
  BY <1>7, PapersKeep, InputAssumption DEF AddOrder
<1>8. ASSUME NEW o, ApproveOrder(o) \/ ConvertOrder(o) \/ RemoveOrder(o) PROVE Kept'
  <2>1. CASE RemoveOrder(o)
    BY <2>1, DropsKeep DEF RemoveOrder, Edited, Collections
  <2> QED BY <1>8, <2>1, ApproveOrderKeeps, ConvertOrderKeeps
<1>9. ASSUME NEW m \in {"accounts", "categories", "fringes", "globals"}, NEW id, Remove(m, id)
      PROVE  Kept'
  <2>1. m \in Edited \ {"groups"}
    BY DEF Edited, Collections
  <2> QED BY <1>9, <2>1, DropsKeep DEF Remove
<1>10. ASSUME NEW g \in DOMAIN budget.groups, NEW inTotal \in BOOLEAN, InsertGroup(g, inTotal)
       PROVE  Kept'
  BY <1>10, InsertGroupKeeps
<1> QED BY <1>1, <1>2, <1>3, <1>4, <1>5, <1>6, <1>7, <1>8, <1>9, <1>10 DEF Next

\* The inductive invariant: whatever is edited, a budget keeps its shape and its
\* categories the order of their positions.
THEOREM AlwaysKept == Spec => []Kept
<1>1. Kept /\ [Next]_vars => Kept'
  <2>1. CASE UNCHANGED vars
    BY <2>1 DEF vars, Kept, WellKept
  <2> QED BY <2>1, NextKeeps
<1> QED BY <1>1, InitKept, PTL DEF Spec

\* The invariant gives the type.
LEMMA KeptTyped == Kept => TypeOK
<1>1. ASSUME Kept PROVE Evaluate(budget).values \in [DOMAIN budget.globals -> Result]
  <2>1. Globals(budget.globals)
    BY <1>1, BudgetGlobals DEF Kept, WellKept
  <2> QED BY <2>1, ResolveRight, ValuesAre
<1> QED BY <1>1 DEF Kept, WellKept, TypeOK

\* Whatever is typed into it, a budget keeps its shape, its categories stay in
\* the order of their positions, and every global gets a result.
THEOREM BooksTyped == Spec => []TypeOK
BY AlwaysKept, KeptTyped, PTL

\* In a budget that is kept globals have their meaning.
LEMMA KeptExact == Kept => GlobalsExact
<1>1. ASSUME Kept PROVE GlobalsExact
  <2>1. Globals(budget.globals)
    BY <1>1, BudgetGlobals DEF Kept, WellKept
  <2>2. ASSUME NEW name \in DOMAIN budget.globals
        PROVE  /\ IsOk(Evaluate(budget).values[name]) <=> name \in DOMAIN Meaning(budget.globals)
               /\ IsOk(Evaluate(budget).values[name]) =>
                    Evaluate(budget).values[name] = Meaning(budget.globals)[name]
    BY <2>1, ResolveRight, ValuesAre
  <2> QED BY <2>2 DEF GlobalsExact
<1> QED BY <1>1

\* The depth-first resolution with its memo gives every global what its formula
\* means, and an error exactly if it is on or behind a cycle or has no value
\* (eval_global and resolve_globals).
THEOREM BooksGlobalsExact == Spec => []GlobalsExact
BY AlwaysKept, KeptExact, PTL

----------------------------------------------------------------------------
(***************************************************************************)
(* What was paid, and the cash flow.                                       *)
(***************************************************************************)

\* A rounded amount is a number of kurus.
LEMMA RoundMoneyWhole ==
  ASSUME NEW n \in Int
  PROVE  \E q \in Int : RoundMoney(n) = q * Kurus
<1> DEFINE q == (2 * Abs(n) + Kurus) \div (2 * Kurus)
<1>1. Kurus \in Nat \ {0} /\ Abs(n) \in Nat
  BY UnitAssumption, AbsType
<1>2. 2 * Abs(n) + Kurus \in Int /\ 2 * Kurus \in Nat \ {0}
  BY <1>1
<1>3. q \in Int
  BY <1>2
<1>4. RoundMoney(n) = IF n < 0 THEN - (q * Kurus) ELSE q * Kurus
  BY DEF RoundMoney
<1> HIDE DEF q
<1>5. - (q * Kurus) = (- q) * Kurus /\ - q \in Int
  BY <1>1, <1>3
<1> QED BY <1>3, <1>4, <1>5

LEMMA RoundMoneyKuruses == \A n \in Int : RoundMoney(n) \in Kuruses /\ RoundMoney(n) \in Int
<1> SUFFICES ASSUME NEW n \in Int PROVE RoundMoney(n) \in Kuruses /\ RoundMoney(n) \in Int
  OBVIOUS
<1>1. PICK q \in Int : RoundMoney(n) = q * Kurus
  BY RoundMoneyWhole
<1>2. Kurus \in Nat \ {0}
  BY UnitAssumption
<1>3. RoundMoney(n) \in Int /\ RoundMoney(n) = Kurus * q
  BY <1>1, <1>2
<1>4. RoundMoney(n) % Kurus = 0
  BY <1>2, <1>3, Multiples
<1> QED BY <1>3, <1>4 DEF Kuruses

\* A sum by key has no more mass than the sum itself.
LEMMA MassByKey ==
  ASSUME NEW f, NEW S, Summable(f, S), NEW key, NEW K, IsFiniteSet(K),
         \A x \in S : key[x] \in K
  PROVE  LET h == [k \in K |-> Over(f, {x \in S : key[x] = k})]
         IN  /\ Summable(h, K) /\ Over(h, K) = Over(f, S)
             /\ Mass(h, K) <= Mass(f, S)
<1> DEFINE Of(k) == {x \in S : key[x] = k}
           h == [k \in K |-> Over(f, Of(k))]
           a == [x \in S |-> Abs(f[x])]
           m == [k \in K |-> Over(a, Of(k))]
           n == [k \in K |-> Abs(h[k])]
<1>1. Summable(h, K) /\ Over(h, K) = Over(f, S)
  BY OverByKey
<1>2. Summable(a, S)
  BY MassSummable
<1>3. Summable(m, K) /\ Over(m, K) = Over(a, S)
  <2> HIDE DEF a
  <2> QED BY <1>2, OverByKey
<1>4. ASSUME NEW k \in K PROVE n[k] <= m[k]
  <2>1. Of(k) \in SUBSET S
    OBVIOUS
  <2> HIDE DEF Of
  <2>2. Summable(f, Of(k))
    BY <2>1, SubSummable
  <2>3. Abs(Over(f, Of(k))) <= Mass(f, Of(k))
    BY <2>2, MassType
  <2>4. Mass(f, Of(k)) = Over(a, Of(k))
    BY <2>1, MassSame
  <2> QED BY <2>3, <2>4
<1>5. Summable(n, K)
  <2> HIDE DEF h
  <2> QED BY <1>1, MassSummable
<1> HIDE DEF Of, h, a, m
<1>6. Over(n, K) <= Over(m, K)
  <2> HIDE DEF n
  <2> QED BY <1>3, <1>4, <1>5, OverMonotone
<1>7. Mass(h, K) = Over(n, K) /\ Mass(f, S) = Over(a, S)
  BY DEF Mass, a
<1>8. Mass(h, K) <= Mass(f, S)
  BY <1>3, <1>6, <1>7, Zenon
<1> QED BY <1>1, <1>8 DEF h, Of

\* A table of whole kurus by key adds up to the whole, if its digits hold that.
LEMMA SumUpByKey ==
  ASSUME NEW f, NEW S, IsFiniteSet(S), \A x \in S : f[x] \in Kuruses, Mass(f, S) <= Whole,
         NEW key, NEW K, IsFiniteSet(K),
         \A x \in S : key[x] \in K,
         NEW h, h = [k \in K |-> h[k]],
         \A k \in K : h[k] = SumUp([x \in {y \in S : key[y] = k} |-> f[x]])
  PROVE  /\ h = [k \in K |-> Over(f, {x \in S : key[x] = k})]
         /\ SumUp(h) = Over(f, S) /\ Over(f, S) \in Decimal /\ Summable(f, S)
         /\ \A k \in K : h[k] \in Kuruses
<1> DEFINE Of(k) == {x \in S : key[x] = k}
           g == [k \in K |-> Over(f, Of(k))]
<1>0. Summable(f, S) /\ Whole \in Nat
  BY WholeIs, OverKuruses
<1>1. ASSUME NEW k \in K PROVE h[k] = Over(f, Of(k)) /\ h[k] \in Kuruses
  <2>1. Of(k) \in SUBSET S
    OBVIOUS
  <2>2. h[k] = SumUp([x \in Of(k) |-> f[x]])
    OBVIOUS
  <2> HIDE DEF Of
  <2> DEFINE t == [x \in Of(k) |-> f[x]]
  <2>3. Summable(f, Of(k)) /\ Mass(f, Of(k)) \in Nat /\ Mass(f, S) \in Nat
        /\ Mass(f, Of(k)) <= Mass(f, S)
    BY <1>0, <2>1, MassMonotone
  <2>4. Mass(f, Of(k)) <= Whole
    BY <1>0, <2>3
  <2>5. \A x \in Of(k) : t[x] = f[x]
    OBVIOUS
  <2>6. t = [x \in Of(k) |-> t[x]]
    OBVIOUS
  <2>7. IsFiniteSet(Of(k)) /\ \A x \in Of(k) : t[x] \in Kuruses
    BY <2>1, <2>5, FS_Subset
  <2>8. Over(t, Of(k)) = Over(f, Of(k)) /\ Mass(t, Of(k)) = Mass(f, Of(k))
    <3>1. Over(t, Of(k)) = Over(f, Of(k))
      BY <2>5, OverSame
    <3>2. \A x \in Of(k) : [y \in Of(k) |-> Abs(t[y])][x] = [y \in Of(k) |-> Abs(f[y])][x]
      BY <2>5
    <3>3. Mass(t, Of(k)) = Mass(f, Of(k))
      BY <3>2, OverSame DEF Mass
    <3> QED BY <3>1, <3>3
  <2> HIDE DEF t
  <2>9. SumUp(t) = Over(t, Of(k)) /\ Over(t, Of(k)) \in Kuruses
    BY <2>4, <2>6, <2>7, <2>8, SumUpExact
  <2> QED BY <2>2, <2>8, <2>9, Zenon DEF t
<1>2. Summable(g, K) /\ Over(g, K) = Over(f, S) /\ Mass(g, K) <= Mass(f, S)
  BY <1>0, MassByKey
<1>3. Mass(f, S) \in Nat
  BY <1>0, MassType
<1>4. Mass(g, K) \in Nat
  <2> HIDE DEF g
  <2> QED BY <1>2, MassType
<1>5. h = g
  <2> HIDE DEF Of
  <2> QED BY <1>1
<1> HIDE DEF g
<1>6. Mass(h, K) <= Whole
  BY <1>0, <1>2, <1>3, <1>4, <1>5
<1>7. SumUp(h) = Over(h, K) /\ Over(h, K) \in Decimal
  BY <1>1, <1>6, SumUpExact
<1> QED BY <1>0, <1>1, <1>2, <1>5, <1>7 DEF g

\* Amounts shown in kurus.
LEMMA RoundedSum ==
  ASSUME NEW f, NEW S, Summable(f, S)
  PROVE  LET r == [x \in S |-> RoundMoney(f[x])]
         IN  /\ Summable(r, S)
             /\ Mass(r, S) \in Nat /\ Mass(f, S) \in Nat /\ Mass(r, S) <= 2 * Mass(f, S)
             /\ 2 * Abs(Over(r, S) - Over(f, S)) <= Cardinality(S) * Kurus
<1> DEFINE r == [x \in S |-> RoundMoney(f[x])]
<1>1. \A x \in S : f[x] \in Int
  BY DEF Summable
<1>2. \A x \in S : r[x] \in Int /\ 2 * Abs(r[x] - f[x]) <= Kurus /\ Abs(r[x]) <= 2 * Abs(f[x])
  BY <1>1, RoundMoneyNear
<1>3. Summable(r, S)
  BY <1>2 DEF Summable
<1> HIDE DEF r
<1>4. Kurus \in Nat /\ 2 \in Nat
  BY UnitAssumption
<1>5. Mass(r, S) \in Nat /\ Mass(f, S) \in Nat /\ Mass(r, S) <= 2 * Mass(f, S)
  BY <1>2, <1>3, <1>4, MassWithin
<1>6. 2 * Abs(Over(r, S) - Over(f, S)) <= Cardinality(S) * Kurus
  BY <1>2, <1>3, <1>4, OverNear
<1> QED BY <1>3, <1>5, <1>6 DEF r

\* What an actual costs and pays is an amount.
LEMMA ActualAmounts ==
  ASSUME NEW actual \in Actual
  PROVE  /\ Cost(actual) \in Decimal /\ Breakdown(actual).payable \in Decimal
         /\ Cost(actual) \in Int /\ Breakdown(actual).payable \in Int
         /\ actual.net >= 0 => Cost(actual) >= 0
         /\ actual.stopaj = 0 => Cost(actual) = actual.net
<1>1. Largest \in Nat \ {0} /\ One \in Nat \ {0}
  BY DepthAssumption, UnitAssumption
<1>2. /\ actual.net \in Decimal /\ actual.stopaj \in Decimal
      /\ actual.kdv \in Decimal /\ actual.tevkifat \in Decimal
  BY DEF Actual
<1>3. Decimal \subseteq Int /\ 0 \in Decimal
  BY <1>1 DEF Decimal
<1>4. Brut(actual) \in Decimal
  BY <1>2, HeldInRange DEF Brut, InRange
<1>5. actual.net >= 0 => Brut(actual) >= 0
  <2> DEFINE n == actual.net
             d == One - actual.stopaj
  <2>1. SUFFICES ASSUME n >= 0, actual.stopaj > 0, actual.stopaj < One PROVE (n * One) \div d >= 0
    BY HeldInRange DEF Brut, InRange
  <2>2. n \in Nat /\ d \in Nat \ {0}
    <3>1. n \in Int /\ actual.stopaj \in Int
      BY <1>2, <1>3, Zenon
    <3>2. n >= 0 /\ actual.stopaj < One
      BY <2>1
    <3>3. One \in Int
      BY <1>1
    <3> QED BY <3>1, <3>2, <3>3
  <2> HIDE DEF n, d
  <2>3. n * One \in Nat
    BY <1>1, <2>2
  <2> QED BY <2>2, <2>3
<1>6. actual.stopaj = 0 => Brut(actual) = actual.net
  BY DEF Brut
<1>7. Breakdown(actual).payable \in Decimal
  BY <1>3, HeldInRange DEF Breakdown, BreakdownWith, BreakdownOf, OrZero, InRange
<1> QED BY <1>3, <1>4, <1>5, <1>6, <1>7 DEF Cost

\* A finite set of numbers has a least and a greatest element.
LEMMA Extremes ==
  ASSUME NEW S \in SUBSET Int, IsFiniteSet(S), S # {}
  PROVE  /\ \E x \in S : \A y \in S : x <= y
         /\ \E x \in S : \A y \in S : y <= x
<1> DEFINE Bounded(T) == /\ \E x \in T : \A y \in T : x <= y
                         /\ \E x \in T : \A y \in T : y <= x
           G == {T \in SUBSET S : T = {} \/ Bounded(T)}
<1>1. {} \in G
  OBVIOUS
<1>2. ASSUME NEW T \in SUBSET S, NEW z \in S \ T, T \in G PROVE T \union {z} \in G
  <2>1. CASE T = {}
    <3>1. Bounded({z})
      OBVIOUS
    <3>2. T \union {z} = {z}
      BY <2>1
    <3> QED BY <3>1, <3>2
  <2>2. CASE Bounded(T)
    <3>1. PICK low \in T : \A y \in T : low <= y
      BY <2>2
    <3>2. PICK high \in T : \A y \in T : y <= high
      BY <2>2
    <3>3. low \in Int /\ high \in Int /\ z \in Int /\ T \subseteq Int
      OBVIOUS
    <3>4. \E x \in T \union {z} : \A y \in T \union {z} : x <= y
      <4>1. CASE low <= z
        BY <3>1, <4>1
      <4>2. CASE ~ (low <= z)
        <5>1. \A y \in T \union {z} : z <= y
          BY <3>1, <3>3, <4>2
        <5> QED BY <5>1
      <4> QED BY <4>1, <4>2
    <3>5. \E x \in T \union {z} : \A y \in T \union {z} : y <= x
      <4>1. CASE z <= high
        BY <3>2, <4>1
      <4>2. CASE ~ (z <= high)
        <5>1. \A y \in T \union {z} : y <= z
          BY <3>2, <3>3, <4>2
        <5> QED BY <5>1
      <4> QED BY <4>1, <4>2
    <3> QED BY <3>4, <3>5
  <2> QED BY <1>2, <2>1, <2>2
<1>3. S \in G
  <2> HIDE DEF G
  <2> QED BY <1>1, <1>2, FiniteInduction
<1> QED BY <1>3

\* The first and the last date are dates.
LEMMA EarliestLatest ==
  ASSUME NEW S \in SUBSET Int, IsFiniteSet(S), S # {}
  PROVE  Earliest(S) \in Int /\ Latest(S) \in Int
<1>1. Earliest(S) \in S
  BY Extremes DEF Earliest
<1>2. Latest(S) \in S
  BY Extremes DEF Latest
<1> QED BY <1>1, <1>2

\* Every date falls into one of the weeks: early and late ones are clamped.
LEMMA WeekOfType ==
  ASSUME NEW date \in Int, NEW start \in Int, NEW weeks \in Nat \ {0}
  PROVE  WeekOf(date, start, weeks) \in 1 .. weeks
<1> DEFINE late == IF date > start THEN date - start ELSE 0
<1>1. late \in Nat
  OBVIOUS
<1> HIDE DEF late
<1>2. late \div 7 \in Nat
  BY <1>1
<1> QED BY <1>2 DEF WeekOf, late

\* The image of a finite set is finite.
LEMMA ImageFinite ==
  ASSUME NEW S, IsFiniteSet(S), NEW f
  PROVE  IsFiniteSet({f[x] : x \in S})
<1> DEFINE K == {f[x] : x \in S}
           g == [x \in S |-> f[x]]
<1>1. g \in Surjection(S, K)
  BY DEF Surjection
<1> QED BY <1>1, FS_Surjection

\* Magnitude and Mass are the same of a table.
LEMMA MagnitudeIs == ASSUME NEW S, NEW f, f = [x \in S |-> f[x]] PROVE Magnitude(f) = Mass(f, S)
<1>1. DOMAIN f = S
  OBVIOUS
<1> QED BY <1>1 DEF Magnitude, Mass, Over

\* The payments of a budget.
Payments(b) == [x \in DOMAIN b.actuals |-> RoundMoney(Breakdown(b.actuals[x]).payable)]

\* The payments of some actuals, as part of those of all.
LEMMA PaymentsAre ==
  ASSUME NEW b, BudgetType(b), NEW S \in SUBSET DOMAIN b.actuals
  PROVE  /\ Pays(b, S) = [x \in S |-> Payments(b)[x]]
         /\ Summable(Payments(b), DOMAIN b.actuals) /\ Summable(Payments(b), S)
         /\ Sum(Pays(b, S)) = Over(Payments(b), S)
         /\ Magnitude(Pays(b, S)) = Mass(Payments(b), S)
         /\ \A x \in DOMAIN b.actuals : Payments(b)[x] \in Kuruses
<1> DEFINE f == Payments(b)
           D == DOMAIN b.actuals
           p == Pays(b, S)
<1>1. p = [x \in S |-> f[x]]
  BY DEF Pays, Payments
<1>2. IsFiniteSet(D) /\ \A x \in D : b.actuals[x] \in Actual
  BY DEF BudgetType, Map
<1>3. \A x \in D : f[x] \in Int /\ f[x] \in Kuruses
  BY <1>2, ActualAmounts, RoundMoneyKuruses DEF Payments
<1>4. Summable(f, D)
  BY <1>2, <1>3 DEF Summable
<1> HIDE DEF f
<1>5. Summable(f, S)
  BY <1>4, SubSummable
<1>6. Sum(p) = Over(f, S)
  BY <1>1 DEF Over
<1>7. p = [x \in S |-> p[x]] /\ \A x \in S : Abs(p[x]) = Abs(f[x])
  BY <1>1
<1> HIDE DEF p
<1>8. Magnitude(p) = Mass(p, S)
  BY <1>7, MagnitudeIs
<1>9. Mass(p, S) = Mass(f, S)
  <2>1. \A x \in S : [y \in S |-> Abs(p[y])][x] = [y \in S |-> Abs(f[y])][x]
    BY <1>7
  <2> QED BY <2>1, OverSame DEF Mass
<1> QED BY <1>1, <1>3, <1>4, <1>5, <1>6, <1>8, <1>9 DEF f, p

\* No payment is lost between the weeks, the accounts and what is undated.
LEMMA CashFlowAdds ==
  ASSUME NEW b, BudgetType(b), NEW start \in Int, NEW weeks \in Nat \ {0},
         NEW dated \in SUBSET DOMAIN b.actuals, \A x \in dated : b.actuals[x].date \in Int,
         NEW paid \in SUBSET DOMAIN b.actuals, NEW row,
         Magnitude(Pays(b, paid)) <= Whole
  PROVE  LET flow == CashFlowIn(b, start, weeks, dated, paid, row)
         IN  /\ Sum([k \in DOMAIN flow.rows |-> flow.rows[k].ytd]) = Sum(Pays(b, paid))
             /\ Sum(flow.weekTotals) + flow.undated = Sum(Pays(b, paid))
<1> DEFINE D == DOMAIN b.actuals
           f == Payments(b)
           K == {row[x] : x \in paid}
           week == [x \in dated |-> WeekOf(b.actuals[x].date, start, weeks)]
           W == 1 .. weeks
           on == paid \intersect dated
           In(w) == {x \in on : week[x] = w}
           flow == CashFlowIn(b, start, weeks, dated, paid, row)
           ytd == [k \in K |-> SumUp(Pays(b, {x \in paid : row[x] = k}))]
           cell == [k \in K |-> [w \in W |->
                      SumUp(Pays(b, {x \in on :
                              row[x] = k /\ WeekOf(b.actuals[x].date, start, weeks) = w}))]]
           total == [w \in W |-> SumUp([k \in K |-> cell[k][w]])]
<1>1. /\ [k \in DOMAIN flow.rows |-> flow.rows[k].ytd] = ytd
      /\ flow.weekTotals = total
      /\ flow.undated = SumUp(Pays(b, paid \ dated))
  BY DEF CashFlowIn, CashFlowOf
<1> HIDE DEF flow
<1>2. \A S \in SUBSET D :
        /\ Pays(b, S) = [x \in S |-> f[x]]
        /\ Summable(f, S)
        /\ Sum(Pays(b, S)) = Over(f, S)
        /\ Magnitude(Pays(b, S)) = Mass(f, S)
        /\ \A x \in S : f[x] \in Kuruses
  BY PaymentsAre
<1> HIDE DEF f
<1>3. Summable(f, paid) /\ Mass(f, paid) <= Whole /\ Sum(Pays(b, paid)) = Over(f, paid)
  BY <1>2
<1>4. \A S \in SUBSET paid :
        /\ Summable(f, S) /\ Mass(f, S) <= Whole
        /\ SumUp(Pays(b, S)) = Over(f, S) /\ Over(f, S) \in Int
  <2>1. SUFFICES ASSUME NEW S \in SUBSET paid
                 PROVE  /\ Summable(f, S) /\ Mass(f, S) <= Whole
                        /\ SumUp(Pays(b, S)) = Over(f, S) /\ Over(f, S) \in Int
    OBVIOUS
  <2>2. Summable(f, S) /\ Over(f, S) \in Int /\ Mass(f, S) \in Nat /\ Mass(f, paid) \in Nat
        /\ Mass(f, S) <= Mass(f, paid)
    BY <1>3, MassMonotone
  <2>3. Mass(f, S) <= Whole
    BY <1>3, <2>2, WholeIs
  <2> DEFINE t == Pays(b, S)
  <2>4. t = [x \in S |-> f[x]] /\ Magnitude(t) = Mass(f, S) /\ Sum(t) = Over(f, S)
    BY <1>2
  <2>5. t = [x \in S |-> t[x]] /\ \A x \in S : t[x] \in Int
    BY <2>2, <2>4 DEF Summable
  <2> HIDE DEF t
  <2>6. IsFiniteSet(S) /\ \A x \in S : t[x] \in Kuruses
    BY <1>2, <2>2, <2>4 DEF Summable
  <2>7. Mass(t, S) <= Whole
    BY <2>3, <2>4, <2>5, MagnitudeIs
  <2>8. SumUp(t) = Over(t, S)
    BY <2>5, <2>6, <2>7, SumUpExact
  <2>9. Over(t, S) = Sum(t)
    BY <2>5, SumOver
  <2> QED BY <2>2, <2>3, <2>4, <2>8, <2>9 DEF t
<1>5. IsFiniteSet(K)
  <2>1. IsFiniteSet(paid)
    BY <1>3 DEF Summable
  <2> QED BY <2>1, ImageFinite
<1>6. Sum(ytd) = Over(f, paid)
  <2>1. ytd = [k \in K |-> Over(f, {x \in paid : row[x] = k})]
    BY <1>4
  <2>2. \A x \in paid : row[x] \in K
    OBVIOUS
  <2> HIDE DEF K
  <2>3. Over([k \in K |-> Over(f, {x \in paid : row[x] = k})], K) = Over(f, paid)
    BY <1>3, <1>5, <2>2, OverByKey
  <2>4. Sum(ytd) = Over(ytd, K)
    BY SumOver
  <2> QED BY <2>1, <2>3, <2>4
<1>7. ASSUME NEW w \in W PROVE total[w] = Over(f, In(w))
  <2> DEFINE S == In(w)
             h == [k \in K |-> cell[k][w]]
  <2>1. S \in SUBSET paid
    OBVIOUS
  <2>2. ASSUME NEW k \in K PROVE h[k] = SumUp([x \in {y \in S : row[y] = k} |-> f[x]])
    <3> DEFINE C == {x \in on : row[x] = k /\ WeekOf(b.actuals[x].date, start, weeks) = w}
    <3>1. h[k] = SumUp(Pays(b, C))
      OBVIOUS
    <3>2. C = {y \in S : row[y] = k}
      OBVIOUS
    <3>3. C \in SUBSET D
      OBVIOUS
    <3> HIDE DEF C
    <3>4. Pays(b, C) = [x \in C |-> f[x]]
      BY <1>2, <3>3
    <3> QED BY <3>1, <3>2, <3>4
  <2>3. \A x \in S : row[x] \in K
    OBVIOUS
  <2>4. h = [k \in K |-> h[k]] /\ total[w] = SumUp(h)
    OBVIOUS
  <2>5. IsFiniteSet(S) /\ (\A x \in S : f[x] \in Kuruses) /\ Mass(f, S) <= Whole
    BY <1>2, <1>4, <2>1 DEF Summable
  <2> HIDE DEF S, h, K, total
  <2>6. SumUp(h) = Over(f, S)
    BY <1>5, <2>2, <2>3, <2>4, <2>5, SumUpByKey
  <2> QED BY <2>4, <2>6 DEF S
<1>8. Sum(total) = Over(f, on)
  <2>1. total = [w \in W |-> Over(f, {x \in on : week[x] = w})]
    <3> DEFINE other == [w \in W |-> Over(f, {x \in on : week[x] = w})]
    <3>1. \A w \in W : total[w] = other[w]
      BY <1>7
    <3>2. total = [w \in W |-> total[w]] /\ other = [w \in W |-> other[w]]
      OBVIOUS
    <3> HIDE DEF total, other
    <3>3. total = other
      BY <3>1, <3>2
    <3> QED BY <3>3 DEF other
  <2>2. \A x \in on : week[x] \in W
    BY WeekOfType
  <2>3. IsFiniteSet(W)
    BY FS_Interval
  <2>4. Summable(f, on)
    BY <1>4
  <2>5. total = [w \in W |-> total[w]]
    OBVIOUS
  <2> HIDE DEF W, on, week, total
  <2>6. Over([w \in W |-> Over(f, {x \in on : week[x] = w})], W) = Over(f, on)
    BY <2>2, <2>3, <2>4, OverByKey
  <2>7. Sum(total) = Over(total, W)
    BY <2>5, SumOver
  <2> QED BY <2>1, <2>6, <2>7
<1>9. Over(f, on) + SumUp(Pays(b, paid \ dated)) = Over(f, paid)
  <2>1. on \in SUBSET paid /\ paid \ dated \in SUBSET paid
        /\ on \union (paid \ dated) = paid /\ on \intersect (paid \ dated) = {}
    OBVIOUS
  <2> HIDE DEF on
  <2>2. Summable(f, on) /\ Summable(f, paid \ dated)
        /\ SumUp(Pays(b, paid \ dated)) = Over(f, paid \ dated)
    BY <1>4, <2>1
  <2>3. Over(f, on \union (paid \ dated)) = Over(f, on) + Over(f, paid \ dated)
    BY <2>1, <2>2, OverUnion
  <2> QED BY <2>1, <2>2, <2>3
<1> HIDE DEF ytd, total, on, K, W
<1>10. Sum(ytd) = Sum(Pays(b, paid))
  BY <1>3, <1>6
<1>11. Sum(total) + SumUp(Pays(b, paid \ dated)) = Sum(Pays(b, paid))
  BY <1>3, <1>8, <1>9
<1> QED BY <1>1, <1>10, <1>11 DEF flow

\* The cash flow, whatever its start and weeks come to.
LEMMA CashFlowIs ==
  ASSUME NEW b, BudgetType(b), NEW input, input.start \in Optional(Int),
         input.weeks \in Optional(Int), input.byCategory = FALSE
  PROVE  \E start \in Int, weeks \in Nat \ {0} : \E row :
           CashFlow(b, input) =
             CashFlowIn(b, start, weeks, {x \in DOMAIN b.actuals : b.actuals[x].date # None},
                        {x \in DOMAIN b.actuals : b.actuals[x].account \in DOMAIN b.accounts}, row)
<1> DEFINE D == DOMAIN b.actuals
           dated == {x \in D : b.actuals[x].date # None}
           dates == {b.actuals[x].date : x \in dated}
           start == IF input.start # None THEN input.start
                    ELSE IF dates = {} THEN 0 ELSE Earliest(dates)
           last  == IF dates = {} THEN start ELSE Latest(dates)
           asked == IF input.weeks # None THEN input.weeks
                    ELSE (IF last > start THEN (last - start) \div 7 ELSE 0) + 1
           weeks == IF asked < 1 THEN 1 ELSE IF asked > MaxWeeks THEN MaxWeeks ELSE asked
           row   == [x \in D |-> RowOf(b, x, FALSE)]
           paid  == {x \in D : row[x] # None}
<1>1. CashFlow(b, input) = CashFlowIn(b, start, weeks, dated, paid, row)
  BY DEF CashFlow
<1>2. \A x \in D : b.actuals[x] \in Actual
  BY DEF BudgetType, Map
<1>3. \A x \in D : b.actuals[x].date \in Optional(Int) /\ b.actuals[x].account \in Account
  BY <1>2 DEF Actual
<1>4. \A x \in dated : b.actuals[x].date \in Int
  BY <1>3 DEF Optional
<1>5. dates \in SUBSET Int /\ IsFiniteSet(dates)
  <2>1. IsFiniteSet(D)
    BY DEF BudgetType, Map
  <2>2. IsFiniteSet(dated)
    BY <2>1, FS_Subset
  <2> DEFINE f == [x \in dated |-> b.actuals[x].date]
  <2>3. dates = {f[x] : x \in dated}
    OBVIOUS
  <2> HIDE DEF f
  <2>4. IsFiniteSet(dates)
    <3> HIDE DEF dates, dated
    <3> QED BY <2>2, <2>3, ImageFinite
  <2> QED BY <1>4, <2>4
<1>6. start \in Int /\ last \in Int
  <2>1. dates # {} => Earliest(dates) \in Int /\ Latest(dates) \in Int
    BY <1>5, EarliestLatest
  <2> HIDE DEF dates
  <2> QED BY <2>1 DEF Optional
<1>7. weeks \in Nat \ {0}
  <2> HIDE DEF start, last
  <2>1. (IF last > start THEN (last - start) \div 7 ELSE 0) \in Int
    <3>1. last > start => last - start \in Int
      BY <1>6
    <3> QED BY <1>6, <3>1
  <2>2. asked \in Int
    BY <2>1 DEF Optional
  <2> HIDE DEF asked
  <2> QED BY <2>2, InputAssumption
<1>8. paid = {x \in D : b.actuals[x].account \in DOMAIN b.accounts}
  BY <1>3, NoneAssumption DEF RowOf
<1> HIDE DEF start, weeks, dated, row, paid
<1>9. CashFlow(b, input) =
        CashFlowIn(b, start, weeks, dated, {x \in D : b.actuals[x].account \in DOMAIN b.accounts}, row)
  BY <1>1, <1>8, Zenon
<1> QED BY <1>6, <1>7, <1>9 DEF dated

\* In a budget that is kept the cash flow loses no payment.
LEMMA KeptCashFlow == Kept => CashFlowComplete
<1> SUFFICES ASSUME Kept, Magnitude(Pays(budget, OnAccount)) <= Whole,
                    NEW start \in Starts, NEW weeks \in {None, 1}
             PROVE  LET flow == CashFlow(budget, [start |-> start, weeks |-> weeks, byCategory |-> FALSE])
                    IN  /\ Sum([k \in DOMAIN flow.rows |-> flow.rows[k].ytd]) = PaidOut
                        /\ Sum(flow.weekTotals) + flow.undated = PaidOut
  BY DEF CashFlowComplete
<1> DEFINE input == [start |-> start, weeks |-> weeks, byCategory |-> FALSE]
           dated == {x \in DOMAIN budget.actuals : budget.actuals[x].date # None}
<1>1. BudgetType(budget)
  BY DEF Kept, WellKept
<1>2. /\ input.start \in Optional(Int)
      /\ input.weeks \in Optional(Int)
      /\ input.byCategory = FALSE
  BY InputAssumption DEF Optional
<1> HIDE DEF input
<1>3. PICK from \in Int, columns \in Nat \ {0} :
        \E rows : CashFlow(budget, input) = CashFlowIn(budget, from, columns, dated, OnAccount, rows)
  BY <1>1, <1>2, CashFlowIs DEF OnAccount
<1>4. PICK row : CashFlow(budget, input) = CashFlowIn(budget, from, columns, dated, OnAccount, row)
  BY <1>3
<1>5. dated \in SUBSET DOMAIN budget.actuals /\ OnAccount \in SUBSET DOMAIN budget.actuals
  BY DEF OnAccount
<1>6. \A x \in dated : budget.actuals[x].date \in Int
  BY <1>1 DEF BudgetType, Map, Actual, Optional
<1> HIDE DEF dated
<1> DEFINE flow == CashFlowIn(budget, from, columns, dated, OnAccount, row)
<1>7. /\ Sum([k \in DOMAIN flow.rows |-> flow.rows[k].ytd]) = Sum(Pays(budget, OnAccount))
      /\ Sum(flow.weekTotals) + flow.undated = Sum(Pays(budget, OnAccount))
  BY <1>1, <1>5, <1>6, CashFlowAdds
<1> HIDE DEF flow
<1>8. CashFlow(budget, input) = flow
  BY <1>4 DEF flow
<1> QED BY <1>7, <1>8, Zenon DEF PaidOut, input

\* The cash flow loses no payment, whatever the dates, its start and its number
\* of weeks (NetflixCashFlowDto::build).
THEOREM BooksCashFlowComplete == Spec => []CashFlowComplete
BY AlwaysKept, KeptCashFlow, PTL

----------------------------------------------------------------------------
(***************************************************************************)
(* The cost report, the trial balance, the order list, the actuals and the *)
(* settlement.                                                             *)
(***************************************************************************)

\* A sum over what is shown, where what is not shown is zero.
LEMMA SumUpShown ==
  ASSUME NEW h, NEW K, IsFiniteSet(K), \A k \in K : h[k] \in Kuruses, Mass(h, K) <= Whole,
         NEW T \in SUBSET K, \A k \in K \ T : h[k] = 0
  PROVE  /\ Summable(h, T) /\ Mass(h, T) <= Mass(h, K) /\ Over(h, T) = Over(h, K)
         /\ SumUp([k \in T |-> h[k]]) = Over(h, K)
<1> DEFINE t == [k \in T |-> h[k]]
<1>0. Summable(h, K)
  BY OverKuruses
<1>1. /\ Summable(h, T) /\ Mass(h, T) \in Nat /\ Mass(h, K) \in Nat
      /\ Mass(h, T) <= Mass(h, K)
  BY <1>0, MassMonotone
<1>2. Over(h, T) = Over(h, K)
  BY <1>0, OverSupport
<1>3. Mass(h, T) <= Whole
  BY <1>1, WholeIs
<1>4. t = [k \in T |-> t[k]] /\ \A k \in T : t[k] = h[k]
  OBVIOUS
<1>5. IsFiniteSet(T) /\ \A k \in T : t[k] \in Kuruses
  BY <1>4, FS_Subset
<1> HIDE DEF t
<1>6. Over(t, T) = Over(h, T)
  BY <1>4, OverSame
<1>7. Mass(t, T) = Mass(h, T)
  <2>1. \A x \in T : [y \in T |-> Abs(t[y])][x] = [y \in T |-> Abs(h[y])][x]
    BY <1>4
  <2> QED BY <2>1, OverSame DEF Mass
<1>8. SumUp(t) = Over(t, T)
  BY <1>3, <1>4, <1>5, <1>7, SumUpExact
<1> QED BY <1>1, <1>2, <1>6, <1>8 DEF t

\* Rounded amounts that fit the digits.
LEMMA RoundedFits ==
  ASSUME NEW f, NEW S, Summable(f, S), 2 * Mass(f, S) <= Whole,
         NEW r, r = [x \in S |-> RoundMoney(f[x])]
  PROVE  /\ Summable(r, S) /\ Mass(r, S) <= Whole /\ Mass(r, S) <= 2 * Mass(f, S)
         /\ IsFiniteSet(S) /\ (\A x \in S : r[x] \in Kuruses)
         /\ SumUp(r) = Over(r, S) /\ Over(r, S) \in Decimal
         /\ 2 * Abs(Over(r, S) - Over(f, S)) <= Cardinality(S) * Kurus
<1>1. /\ Summable(r, S)
      /\ Mass(r, S) \in Nat /\ Mass(f, S) \in Nat /\ Mass(r, S) <= 2 * Mass(f, S)
      /\ 2 * Abs(Over(r, S) - Over(f, S)) <= Cardinality(S) * Kurus
  BY RoundedSum
<1>2. Mass(r, S) <= Whole
  BY <1>1, WholeIs
<1>3. r = [x \in S |-> r[x]] /\ IsFiniteSet(S) /\ \A x \in S : r[x] \in Kuruses
  BY RoundMoneyKuruses DEF Summable
<1>4. SumUp(r) = Over(r, S) /\ Over(r, S) \in Decimal
  BY <1>2, <1>3, SumUpExact
<1> QED BY <1>1, <1>2, <1>3, <1>4

\* What open orders come to, in kurus.
Open(b) == [o \in Committed(b) |-> RoundMoney(b.orders[o].amount)]

\* The approved orders, whose amounts fit, add up exactly.
LEMMA OpenOrders ==
  ASSUME NEW b, BudgetType(b), 2 * OrderVolume(b) <= Whole
  PROVE  /\ Summable(Open(b), Committed(b)) /\ Mass(Open(b), Committed(b)) <= Whole
         /\ IsFiniteSet(Committed(b)) /\ (\A o \in Committed(b) : Open(b)[o] \in Kuruses)
         /\ Mass(Open(b), Committed(b)) <= 2 * OrderVolume(b)
         /\ OrderTotals(b).approved = Over(Open(b), Committed(b))
<1> DEFINE C == Committed(b)
           f == [o \in C |-> b.orders[o].amount]
           r == Open(b)
<1>1. \A o \in DOMAIN b.orders : b.orders[o] \in Order
  BY DEF BudgetType, Map
<1>2. \A o \in C : f[o] \in Int
  BY <1>1, DepthAssumption DEF Order, Decimal, Committed
<1>3. IsFiniteSet(C)
  BY FS_Subset DEF BudgetType, Map, Committed
<1>4. Summable(f, C)
  BY <1>2, <1>3 DEF Summable
<1>5. OrderVolume(b) = Mass(f, C)
  <2>1. f = [o \in C |-> f[o]]
    OBVIOUS
  <2> HIDE DEF C
  <2>2. OrderVolume(b) = Magnitude(f)
    BY DEF OrderVolume, C
  <2> HIDE DEF f
  <2> QED BY <2>1, <2>2, MagnitudeIs
<1>6. r = [o \in C |-> RoundMoney(f[o])]
  BY DEF Open
<1>7. OrderTotals(b).approved = SumUp(r)
  BY DEF OrderTotals, AmountsOf, Open, Committed
<1> HIDE DEF C, f, r
<1>8. /\ Summable(r, C) /\ Mass(r, C) <= Whole /\ Mass(r, C) <= 2 * Mass(f, C)
      /\ IsFiniteSet(C) /\ (\A o \in C : r[o] \in Kuruses)
      /\ SumUp(r) = Over(r, C)
  BY <1>4, <1>5, <1>6, RoundedFits
<1> QED BY <1>5, <1>7, <1>8 DEF C, r

\* Open orders by vendor or by account.
LEMMA OpenByKey ==
  ASSUME NEW b, BudgetType(b), 2 * OrderVolume(b) <= Whole, NEW key, NEW K, IsFiniteSet(K),
         \A o \in Committed(b) : key[o] \in K,
         NEW h, h = [k \in K |-> h[k]],
         \A k \in K : h[k] = AmountsOf(b, {o \in Committed(b) : key[o] = k})
  PROVE  /\ Summable(h, K) /\ Mass(h, K) <= Mass(Open(b), Committed(b))
         /\ SumUp(h) = OrderTotals(b).approved /\ Over(h, K) = OrderTotals(b).approved
         /\ \A k \in K : h[k] \in Kuruses
<1> DEFINE C == Committed(b)
           f == Open(b)
<1>1. \A k \in K : h[k] = SumUp([x \in {y \in C : key[y] = k} |-> f[x]])
  BY DEF AmountsOf, Open
<1>2. Summable(f, C) /\ Mass(f, C) <= Whole /\ OrderTotals(b).approved = Over(f, C)
      /\ IsFiniteSet(C) /\ \A o \in C : f[o] \in Kuruses
  BY OpenOrders
<1>3. h = [k \in K |-> h[k]] /\ \A x \in C : key[x] \in K
  OBVIOUS
<1> HIDE DEF C, f
<1>4. /\ h = [k \in K |-> Over(f, {x \in C : key[x] = k})]
      /\ SumUp(h) = Over(f, C) /\ \A k \in K : h[k] \in Kuruses
  BY <1>1, <1>2, <1>3, SumUpByKey
<1>5. /\ Summable(h, K) /\ Over(h, K) = Over(f, C)
      /\ Mass(h, K) <= Mass(f, C)
  BY <1>2, <1>3, <1>4, MassByKey
<1> QED BY <1>2, <1>4, <1>5 DEF C, f

\* The trial balance shows what the order list does.
LEMMA DepositsAgree ==
  ASSUME NEW b, BudgetType(b), 2 * OrderVolume(b) <= Whole
  PROVE  SumUp(TrialBalance(b, 0).deposits) = OrderTotals(b).approved
<1> DEFINE C == Committed(b)
           key == [o \in C |-> b.orders[o].vendor]
           K == {b.orders[o].vendor : o \in C}
           h == [v \in K |-> AmountsOf(b, {o \in C : b.orders[o].vendor = v})]
<1>1. TrialBalance(b, 0).deposits = h
  BY DEF TrialBalance, TrialBalanceOf
<1>2. IsFiniteSet(C)
  BY FS_Subset DEF BudgetType, Map, Committed
<1>3. K = {key[o] : o \in C}
  OBVIOUS
<1>4. \A v \in K : h[v] = AmountsOf(b, {o \in C : key[o] = v})
  <2>1. \A v \in K : {o \in C : key[o] = v} = {o \in C : b.orders[o].vendor = v}
    OBVIOUS
  <2> QED BY <2>1
<1>5. h = [v \in K |-> h[v]]
  OBVIOUS
<1> HIDE DEF key, K, h
<1>6. IsFiniteSet(K)
  BY <1>2, <1>3, ImageFinite
<1>7. \A o \in Committed(b) : key[o] \in K
  BY <1>3
<1>8. SumUp(h) = OrderTotals(b).approved
  BY <1>4, <1>5, <1>6, <1>7, OpenByKey
<1> QED BY <1>1, <1>8

\* Products of numbers, for the leaves that only add.
LEMMA Products ==
  /\ \A a, c \in Int : a * c \in Int
  /\ \A a, c \in Nat : a * c \in Nat
  /\ \A a \in Int, c \in Int, n \in Nat : a <= c => a * n <= c * n
OBVIOUS

\* VAT and net make up a gross that has a digit for each unit, and neither is more.
LEMMA VatParts ==
  ASSUME NEW gross \in Int, NEW rate \in Int, Abs(gross) <= Digits
  PROVE  LET vat == ExtractVat(gross, rate)
         IN  /\ vat.kdv \in Int /\ vat.net \in Int
             /\ vat.kdv + vat.net = gross
             /\ Abs(vat.kdv) <= Abs(gross) /\ Abs(vat.net) <= Abs(gross)
<1> DEFINE o == One
           d == One + rate
           n == gross * One
           q == n \div d
<1>1. CASE rate <= 0
  BY <1>1 DEF ExtractVat, Abs
<1>2. CASE ~ (rate <= 0)
  <2>1. o \in Nat \ {0} /\ d \in Nat /\ o < d
    BY <1>2, UnitAssumption
  <2>2. n \in Int
    BY <2>1
  <2>3. ExtractVat(gross, rate) = [kdv |-> Held[gross - Held[q]], net |-> Held[q]]
    BY <1>2 DEF ExtractVat
  <2> DEFINE x == gross * d
  <2>4. gross >= 0 => n <= x /\ n >= 0
    BY <2>1, Products
  <2>5. gross <= 0 => x <= n /\ n <= 0
    <3>1. gross <= 0 => (-gross) * o <= (-gross) * d /\ (-gross) * o \in Nat
      BY <2>1, Products
    <3>2. (-gross) * o = - n /\ (-gross) * d = - x
      BY <2>1
    <3>3. x \in Int
      BY <2>1
    <3> HIDE DEF n, x
    <3> QED BY <2>2, <3>1, <3>2, <3>3
  <2>6. x \in Int
    BY <2>1
  <2> HIDE DEF o, d, n
  <2>7. q \in Int /\ q * d <= n /\ n < q * d + d
    BY <2>1, <2>2
  <2> HIDE DEF q
  <2>8. gross >= 0 => 0 <= q /\ q <= gross
    <3>1. SUFFICES ASSUME gross >= 0 PROVE 0 <= q /\ q <= gross
      OBVIOUS
    <3>2. q < 0 => q * d + d <= 0
      <4>1. q < 0 => (q + 1) * d <= 0 * d
        BY <2>1, <2>7, Products
      <4>2. (q + 1) * d = q * d + d /\ 0 * d = 0
        BY <2>1, <2>7
      <4> QED BY <4>1, <4>2
    <3>3. q > gross => x + d <= q * d
      <4>1. q > gross => (gross + 1) * d <= q * d
        BY <2>1, <2>7, Products
      <4>2. (gross + 1) * d = x + d
        BY <2>1
      <4> QED BY <4>1, <4>2
    <3>4. q * d \in Int
      BY <2>1, <2>7
    <3> HIDE DEF x
    <3> QED BY <2>1, <2>2, <2>4, <2>6, <2>7, <3>1, <3>2, <3>3, <3>4
  <2>9. gross <= 0 => gross <= q /\ q <= 0
    <3>1. SUFFICES ASSUME gross <= 0 PROVE gross <= q /\ q <= 0
      OBVIOUS
    <3>2. q > 0 => d <= q * d
      <4>1. q > 0 => 1 * d <= q * d
        BY <2>1, <2>7, Products
      <4> QED BY <2>1, <4>1
    <3>3. q < gross => q * d + d <= x
      <4>1. q < gross => (q + 1) * d <= gross * d
        BY <2>1, <2>7, Products
      <4>2. (q + 1) * d = q * d + d
        BY <2>1, <2>7
      <4> QED BY <4>1, <4>2
    <3>4. q * d \in Int
      BY <2>1, <2>7
    <3> HIDE DEF x
    <3> QED BY <2>1, <2>2, <2>5, <2>6, <2>7, <3>1, <3>2, <3>3, <3>4
  <2>10. /\ gross - q \in Int /\ q \in Int /\ (gross - q) + q = gross
         /\ Abs(gross - q) <= Abs(gross) /\ Abs(q) <= Abs(gross)
         /\ Abs(gross) \in Int /\ Abs(q) \in Int /\ Abs(gross - q) \in Int
    BY <2>7, <2>8, <2>9 DEF Abs
  <2>11. Held[q] = q /\ Held[gross - q] = gross - q
    <3>1. Abs(q) <= Digits /\ Abs(gross - q) <= Digits
      BY <2>10, PlacesAssumption
    <3> QED BY <2>10, <3>1, HeldExact
  <2> QED BY <2>3, <2>10, <2>11
<1> QED BY <1>1, <1>2

\* A multiple that is at most one and a half of k is at most k.
LEMMA SmallMultiple ==
  ASSUME NEW q \in Int, NEW k \in Nat \ {0}, 2 * Abs(q * k) <= 3 * k
  PROVE  Abs(q * k) <= k
<1>1. q * k \in Int
  OBVIOUS
<1>2. q >= 2 => 2 * k <= q * k
  BY Products
<1>3. q <= -2 => q * k <= (-2) * k
  BY Products
<1>4. q \in {-1, 0, 1} => Abs(q * k) <= k
  BY DEF Abs
<1>5. q >= 2 \/ q <= -2 \/ q \in {-1, 0, 1}
  OBVIOUS
<1> DEFINE x == q * k
<1>6. (-2) * k = - (2 * k)
  OBVIOUS
<1> HIDE DEF x
<1>7. CASE q >= 2
  <2>1. 2 * k <= x /\ 2 * Abs(x) <= 3 * k /\ x \in Int
    BY <1>1, <1>2, <1>7 DEF x
  <2> QED BY <2>1 DEF Abs
<1>8. CASE q <= -2
  <2>1. x <= - (2 * k) /\ 2 * Abs(x) <= 3 * k /\ x \in Int
    BY <1>1, <1>3, <1>6, <1>8 DEF x
  <2> QED BY <2>1 DEF Abs
<1> QED BY <1>4, <1>5, <1>7, <1>8

\* What a sum of two amounts and the amounts are rounded to differ by a kurus at most.
LEMMA RoundedParts ==
  ASSUME NEW m \in Int, NEW n \in Int
  PROVE  Abs(RoundMoney(m + n) - (RoundMoney(m) + RoundMoney(n))) <= Kurus
<1> DEFINE k == Kurus
           a == RoundMoney(m + n)
           c == RoundMoney(m)
           d == RoundMoney(n)
<1>0. k \in Nat \ {0}
  BY UnitAssumption
<1>1. PICK p \in Int, q \in Int, r \in Int : a = p * k /\ c = q * k /\ d = r * k
  <2>1. m + n \in Int
    OBVIOUS
  <2> QED BY <2>1, RoundMoneyWhole
<1>2. /\ a \in Int /\ c \in Int /\ d \in Int
      /\ 2 * Abs(a - (m + n)) <= k /\ 2 * Abs(c - m) <= k /\ 2 * Abs(d - n) <= k
  <2>1. m + n \in Int
    OBVIOUS
  <2> QED BY <2>1, RoundMoneyNear
<1> HIDE DEF a, c, d, k
<1>3. a - (c + d) = (p - q - r) * k /\ p - q - r \in Int
  BY <1>0, <1>1
<1>4. 2 * Abs(a - (c + d)) <= 3 * k
  BY <1>0, <1>2 DEF Abs
<1>5. Abs(a - (c + d)) <= k
  BY <1>0, <1>3, <1>4, SmallMultiple
<1> QED BY <1>5 DEF a, c, d, k

\* A whole number of kurus is not rounded.
LEMMA RoundWhole ==
  ASSUME NEW p \in Int
  PROVE  RoundMoney(p * Kurus) = p * Kurus
<1> DEFINE k == Kurus
           n == p * k
<1>0. k \in Nat \ {0}
  BY UnitAssumption
<1>1. n \in Int
  BY <1>0
<1>2. PICK q \in Int : RoundMoney(n) = q * k
  <2> HIDE DEF n
  <2> QED BY <1>1, RoundMoneyWhole
<1>3. 2 * Abs(q * k - p * k) <= k
  <2> HIDE DEF n
  <2>1. 2 * Abs(RoundMoney(n) - n) <= k
    BY <1>1, RoundMoneyNear
  <2> QED BY <1>2, <2>1 DEF n
<1>4. q > p => (p + 1) * k <= q * k
  BY <1>0, Products
<1>5. q < p => (q + 1) * k <= p * k
  BY <1>0, Products
<1>6. (p + 1) * k = p * k + k /\ (q + 1) * k = q * k + k /\ p * k \in Int /\ q * k \in Int
  BY <1>0
<1>7. q = p
  <2> DEFINE x == p * k
             y == q * k
  <2>1. /\ 2 * Abs(y - x) <= k /\ x \in Int /\ y \in Int
        /\ q > p => x + k <= y
        /\ q < p => y + k <= x
    BY <1>3, <1>4, <1>5, <1>6
  <2> HIDE DEF x, y, k
  <2>2. ~ (q > p) /\ ~ (q < p)
    BY <1>0, <2>1 DEF Abs
  <2> QED BY <2>2
<1> QED BY <1>2, <1>7

\* The receipts of a budget: gross, VAT and net, each in kurus.
Grosses(b) == [x \in DOMAIN b.receipts |-> RoundMoney(b.receipts[x].gross)]
Vats(b) ==
  [x \in DOMAIN b.receipts |-> RoundMoney(ExtractVat(b.receipts[x].gross, b.receipts[x].rate).kdv)]
Nets(b) ==
  [x \in DOMAIN b.receipts |-> RoundMoney(ExtractVat(b.receipts[x].gross, b.receipts[x].rate).net)]

\* The receipts' gross adds up exactly.
LEMMA GrossSums ==
  ASSUME NEW b, BudgetType(b), 2 * ReceiptVolume(b) <= Whole
  PROVE  LET D == DOMAIN b.receipts
         IN  /\ Summable(Grosses(b), D) /\ Mass(Grosses(b), D) <= Whole
             /\ IsFiniteSet(D) /\ (\A x \in D : Grosses(b)[x] \in Kuruses)
             /\ SumUp(Grosses(b)) = Over(Grosses(b), D) /\ Over(Grosses(b), D) \in Decimal
             /\ SumUp(Grosses(b)) \in Kuruses
<1> DEFINE D == DOMAIN b.receipts
           g == [x \in D |-> b.receipts[x].gross]
<1>1. IsFiniteSet(D) /\ \A x \in D : b.receipts[x] \in Receipt
  BY DEF BudgetType, Map
<1>2. \A x \in D : g[x] \in Int
  BY <1>1, DepthAssumption DEF Receipt, Decimal
<1>3. Summable(g, D)
  BY <1>1, <1>2 DEF Summable
<1>4. g = [x \in D |-> g[x]] /\ ReceiptVolume(b) = Magnitude(g)
  BY DEF ReceiptVolume
<1>5. Grosses(b) = [x \in D |-> RoundMoney(g[x])]
  BY DEF Grosses
<1> HIDE DEF D, g
<1>6. ReceiptVolume(b) = Mass(g, D)
  BY <1>4, MagnitudeIs
<1>7. /\ Summable(Grosses(b), D) /\ Mass(Grosses(b), D) <= Whole
      /\ IsFiniteSet(D) /\ (\A x \in D : Grosses(b)[x] \in Kuruses)
      /\ SumUp(Grosses(b)) = Over(Grosses(b), D) /\ Over(Grosses(b), D) \in Decimal
  BY <1>3, <1>5, <1>6, RoundedFits
<1>8. SumUp(Grosses(b)) \in Kuruses
  BY <1>7, OverKuruses
<1> QED BY <1>7, <1>8 DEF D

\* So do their VAT and net, if every unit of them has a digit.
LEMMA SlipSums ==
  ASSUME NEW b, BudgetType(b), 2 * ReceiptVolume(b) <= Digits
  PROVE  LET D == DOMAIN b.receipts
         IN  /\ \A x \in D : Abs(b.receipts[x].gross) <= Digits
             /\ Summable(Vats(b), D) /\ Summable(Nets(b), D)
             /\ SumUp(Vats(b)) = Over(Vats(b), D) /\ SumUp(Nets(b)) = Over(Nets(b), D)
<1> DEFINE D == DOMAIN b.receipts
           g == [x \in D |-> b.receipts[x].gross]
           v == [x \in D |-> ExtractVat(b.receipts[x].gross, b.receipts[x].rate).kdv]
           n == [x \in D |-> ExtractVat(b.receipts[x].gross, b.receipts[x].rate).net]
<1>1. IsFiniteSet(D) /\ \A x \in D : b.receipts[x] \in Receipt
  BY DEF BudgetType, Map
<1>2. \A x \in D : g[x] \in Int /\ b.receipts[x].rate \in Int
  BY <1>1, DepthAssumption DEF Receipt, Decimal
<1>3. Summable(g, D) /\ g = [x \in D |-> g[x]] /\ ReceiptVolume(b) = Magnitude(g)
  BY <1>1, <1>2 DEF Summable, ReceiptVolume
<1>4. \A x \in D : Abs(g[x]) <= Digits
  <2> HIDE DEF g, D
  <2>1. ReceiptVolume(b) = Mass(g, D)
    BY <1>3, MagnitudeIs
  <2>2. Mass(g, D) \in Nat /\ \A x \in D : Abs(g[x]) <= Mass(g, D) /\ Abs(g[x]) \in Nat
    BY <1>2, <1>3, MassType, MassElement, AbsType
  <2> QED BY <2>1, <2>2, WholeIs
<1>5. \A x \in D : v[x] \in Int /\ n[x] \in Int /\ Abs(v[x]) <= Abs(g[x]) /\ Abs(n[x]) <= Abs(g[x])
  BY <1>2, <1>4, VatParts
<1>6. Summable(v, D) /\ Summable(n, D)
  BY <1>1, <1>5 DEF Summable
<1>7. /\ Vats(b) = [x \in D |-> RoundMoney(v[x])]
      /\ Nets(b) = [x \in D |-> RoundMoney(n[x])]
  BY DEF Vats, Nets
<1>8. \A x \in D : Abs(b.receipts[x].gross) <= Digits
  BY <1>4
<1> HIDE DEF D, g, v, n
<1>9. ReceiptVolume(b) = Mass(g, D)
  BY <1>3, MagnitudeIs
<1>10. 2 * Mass(v, D) <= Whole /\ 2 * Mass(n, D) <= Whole
  <2>1. \A x \in D : Abs(v[x]) <= 1 * Abs(g[x]) /\ Abs(n[x]) <= 1 * Abs(g[x])
    BY <1>2, <1>5, AbsType
  <2>2. 1 \in Nat
    OBVIOUS
  <2>3. Mass(v, D) \in Nat /\ Mass(g, D) \in Nat /\ Mass(v, D) <= 1 * Mass(g, D)
    BY <1>3, <1>6, <2>1, <2>2, MassWithin
  <2>4. Mass(n, D) \in Nat /\ Mass(n, D) <= 1 * Mass(g, D)
    BY <1>3, <1>6, <2>1, <2>2, MassWithin
  <2> QED BY <1>9, <2>3, <2>4, WholeIs
<1>11. Summable(Vats(b), D) /\ SumUp(Vats(b)) = Over(Vats(b), D)
  BY <1>6, <1>7, <1>10, RoundedFits
<1>12. Summable(Nets(b), D) /\ SumUp(Nets(b)) = Over(Nets(b), D)
  BY <1>6, <1>7, <1>10, RoundedFits
<1> QED BY <1>8, <1>11, <1>12 DEF D

\* The totals of the settlement are these sums.
LEMMA SettledTotals ==
  ASSUME NEW b, NEW advance
  PROVE  LET settled == Settlement(b, advance)
         IN  /\ settled.totals.gross = SumUp(Grosses(b))
             /\ settled.totals.kdv = SumUp(Vats(b))
             /\ settled.totals.net = SumUp(Nets(b))
             /\ settled.balance = OrZero(RoundMoney(advance) - SumUp(Grosses(b)))
<1> DEFINE slips == SettledSlips(b)
           D == DOMAIN b.receipts
           grand == Totalled(slips, {"gross", "kdv", "net"})
<1>1. Settlement(b, advance).totals = grand
      /\ Settlement(b, advance).balance = OrZero(RoundMoney(advance) - grand.gross)
  BY DEF Settlement, SettlementOn, SettlementWith
<1>2. DOMAIN slips = D
  BY DEF SettledSlips
<1>3. \A x \in D : slips[x].gross = Grosses(b)[x] /\ slips[x].kdv = Vats(b)[x] /\ slips[x].net = Nets(b)[x]
  BY DEF SettledSlips, Slip, Grosses, Vats, Nets
<1> HIDE DEF slips
<1>4. /\ [x \in DOMAIN slips |-> slips[x]["gross"]] = Grosses(b)
      /\ [x \in DOMAIN slips |-> slips[x]["kdv"]] = Vats(b)
      /\ [x \in DOMAIN slips |-> slips[x]["net"]] = Nets(b)
  <2>1. /\ Grosses(b) = [x \in D |-> Grosses(b)[x]]
        /\ Vats(b) = [x \in D |-> Vats(b)[x]]
        /\ Nets(b) = [x \in D |-> Nets(b)[x]]
    BY DEF Grosses, Vats, Nets
  <2> QED BY <1>2, <1>3, <2>1
<1>5. /\ grand["gross"] = SumUp([x \in DOMAIN slips |-> slips[x]["gross"]])
      /\ grand["kdv"] = SumUp([x \in DOMAIN slips |-> slips[x]["kdv"]])
      /\ grand["net"] = SumUp([x \in DOMAIN slips |-> slips[x]["net"]])
  BY DEF Totalled
<1> HIDE DEF grand
<1>6. /\ grand.gross = SumUp(Grosses(b)) /\ grand.kdv = SumUp(Vats(b)) /\ grand.net = SumUp(Nets(b))
  BY <1>4, <1>5
<1> QED BY <1>1, <1>6

\* The trial balance shows the receipts' gross.
LEMMA AdvancesAgree ==
  ASSUME NEW b, BudgetType(b), 2 * ReceiptVolume(b) <= Whole
  PROVE  SumUp(TrialBalance(b, 0).advances) = SumUp(Grosses(b))
<1> DEFINE D == DOMAIN b.receipts
           f == Grosses(b)
           key == [x \in D |-> b.receipts[x].category]
           K == {b.receipts[x].category : x \in D}
           h == [k \in K |-> SumUp([x \in {y \in D : b.receipts[y].category = k} |->
                                      RoundMoney(b.receipts[x].gross)])]
<1>1. TrialBalance(b, 0).advances = h
  BY DEF TrialBalance, TrialBalanceOf
<1>2. IsFiniteSet(D)
  BY DEF BudgetType, Map
<1>3. K = {key[x] : x \in D}
  OBVIOUS
<1>4. \A k \in K : h[k] = SumUp([x \in {y \in D : key[y] = k} |-> f[x]])
  <2>1. SUFFICES ASSUME NEW k \in K
                 PROVE  h[k] = SumUp([x \in {y \in D : key[y] = k} |-> f[x]])
    OBVIOUS
  <2>2. {y \in D : key[y] = k} = {y \in D : b.receipts[y].category = k}
    OBVIOUS
  <2> DEFINE C == {y \in D : b.receipts[y].category = k}
  <2>3. h[k] = SumUp([x \in C |-> RoundMoney(b.receipts[x].gross)])
    OBVIOUS
  <2>4. [x \in C |-> RoundMoney(b.receipts[x].gross)] = [x \in C |-> f[x]]
    BY DEF Grosses
  <2> HIDE DEF C, K, h, f, key
  <2> QED BY <2>2, <2>3, <2>4 DEF C
<1>5. h = [k \in K |-> h[k]] /\ \A x \in D : key[x] \in K
  OBVIOUS
<1>6. /\ IsFiniteSet(D) /\ (\A x \in D : f[x] \in Kuruses)
      /\ Mass(f, D) <= Whole /\ SumUp(f) = Over(f, D)
  BY GrossSums
<1> HIDE DEF f, key, K, h, D
<1>7. IsFiniteSet(K)
  BY <1>2, <1>3, ImageFinite
<1>8. SumUp(h) = Over(f, D)
  BY <1>4, <1>5, <1>6, <1>7, SumUpByKey
<1> QED BY <1>1, <1>6, <1>8 DEF f

\* The volume of the receipts is a number.
LEMMA VolumeIs == ASSUME NEW b, BudgetType(b) PROVE ReceiptVolume(b) \in Nat
<1> DEFINE D == DOMAIN b.receipts
           g == [x \in D |-> b.receipts[x].gross]
<1>1. IsFiniteSet(D) /\ \A x \in D : b.receipts[x] \in Receipt
  BY DEF BudgetType, Map
<1>2. Summable(g, D) /\ g = [x \in D |-> g[x]] /\ ReceiptVolume(b) = Magnitude(g)
  BY <1>1, DepthAssumption DEF Summable, ReceiptVolume, Receipt, Decimal
<1> HIDE DEF g, D
<1> QED BY <1>2, MagnitudeIs, MassType

\* VAT and net make up the gross of all receipts, but for a kurus each.
LEMMA SlipsAdd ==
  ASSUME NEW b, BudgetType(b), 2 * ReceiptVolume(b) <= Digits
  PROVE  Abs(SumUp(Grosses(b)) - SumUp(Vats(b)) - SumUp(Nets(b)))
           <= Cardinality(DOMAIN b.receipts) * Kurus
<1> DEFINE D == DOMAIN b.receipts
           g == Grosses(b)
           v == Vats(b)
           n == Nets(b)
           h == [x \in D |-> v[x] + n[x]]
<1>1. /\ Summable(g, D) /\ Summable(v, D) /\ Summable(n, D)
      /\ SumUp(g) = Over(g, D) /\ SumUp(v) = Over(v, D) /\ SumUp(n) = Over(n, D)
      /\ \A x \in D : Abs(b.receipts[x].gross) <= Digits
  <2>1. 2 * ReceiptVolume(b) <= Whole
    <3>1. ReceiptVolume(b) \in Int
      BY VolumeIs
    <3> QED BY <3>1, WholeIs
  <2> QED BY <2>1, GrossSums, SlipSums
<1>2. ASSUME NEW x \in D PROVE 2 * Abs(g[x] - h[x]) <= 2 * Kurus
  <2> DEFINE vat == ExtractVat(b.receipts[x].gross, b.receipts[x].rate)
             part == vat.kdv
             rest == vat.net
  <2>1. b.receipts[x].gross \in Int /\ b.receipts[x].rate \in Int
    <3>1. b.receipts[x] \in Receipt
      BY DEF BudgetType, Map
    <3> QED BY <3>1, DepthAssumption DEF Receipt, Decimal
  <2>2. part \in Int /\ rest \in Int /\ part + rest = b.receipts[x].gross
    BY <1>1, <2>1, VatParts
  <2>3. g[x] = RoundMoney(b.receipts[x].gross) /\ h[x] = RoundMoney(part) + RoundMoney(rest)
    BY DEF Grosses, Vats, Nets
  <2> HIDE DEF part, rest, g, h
  <2>4. Abs(RoundMoney(part + rest) - (RoundMoney(part) + RoundMoney(rest))) <= Kurus
    BY <2>2, RoundedParts
  <2>5. Abs(g[x] - h[x]) <= Kurus
    BY <2>2, <2>3, <2>4
  <2>6. RoundMoney(part) \in Int /\ RoundMoney(rest) \in Int /\ RoundMoney(b.receipts[x].gross) \in Int
    BY <2>1, <2>2, RoundMoneyNear
  <2>7. Abs(g[x] - h[x]) \in Nat /\ Kurus \in Nat
    <3>1. g[x] - h[x] \in Int
      BY <2>3, <2>6
    <3> QED BY <3>1, AbsType, UnitAssumption
  <2> QED BY <2>5, <2>7
<1>3. \A x \in D : h[x] = v[x] + n[x]
  OBVIOUS
<1>4. Summable(h, D)
  BY <1>1 DEF Summable
<1> HIDE DEF g, v, n, h
<1>5. Over(h, D) = Over(v, D) + Over(n, D)
  BY <1>1, <1>3, OverPlus
<1>6. 2 * Kurus \in Nat /\ Kurus \in Nat
  BY UnitAssumption
<1>7. 2 * Abs(Over(g, D) - Over(h, D)) <= Cardinality(D) * (2 * Kurus)
  BY <1>1, <1>2, <1>4, <1>6, OverNear
<1>8. Cardinality(D) \in Nat /\ Over(g, D) \in Int /\ Over(v, D) \in Int /\ Over(n, D) \in Int
  BY <1>1, FS_CardinalityType, OverType DEF Summable
<1> DEFINE c == Cardinality(D)
           y == c * Kurus
<1>9. c * (2 * Kurus) = 2 * y /\ y \in Nat
  BY <1>6, <1>8
<1> HIDE DEF c, y
<1>10. Abs(Over(g, D) - Over(v, D) - Over(n, D)) <= y
  <2>1. 2 * Abs(Over(g, D) - Over(h, D)) <= 2 * y
    BY <1>7, <1>9 DEF c
  <2> QED BY <1>5, <1>8, <1>9, <2>1 DEF Abs
<1> QED BY <1>1, <1>10 DEF g, v, n, y, c

\* Trial balance, order list and settlement agree.
LEMMA PapersDoAgree ==
  ASSUME NEW b, BudgetType(b)
  PROVE  PapersAgree(b, TrialBalance(b, 0), Settlement(b, 10 * Kurus), 10 * Kurus)
<1> DEFINE settled == Settlement(b, 10 * Kurus)
           trial == TrialBalance(b, 0)
           advance == 10 * Kurus
<1>1. /\ settled.totals.gross = SumUp(Grosses(b))
      /\ settled.totals.kdv = SumUp(Vats(b))
      /\ settled.totals.net = SumUp(Nets(b))
      /\ settled.balance = OrZero(RoundMoney(advance) - SumUp(Grosses(b)))
  BY SettledTotals
<1>2. RoundMoney(advance) = advance /\ advance \in Int
  BY RoundWhole, UnitAssumption
<1> HIDE DEF settled, trial, advance
<1>3. ASSUME 2 * OrderVolume(b) <= Whole
      PROVE  SumUp(trial.deposits) = OrderTotals(b).approved
  BY <1>3, DepositsAgree DEF trial
<1>4. ASSUME 2 * ReceiptVolume(b) <= Whole
      PROVE  /\ SumUp(trial.advances) = settled.totals.gross
             /\ Abs(advance - settled.totals.gross) <= Whole =>
                  settled.balance + settled.totals.gross = advance
  <2>1. SumUp(trial.advances) = SumUp(Grosses(b))
    BY <1>4, AdvancesAgree DEF trial
  <2>2. SumUp(Grosses(b)) \in Kuruses /\ SumUp(Grosses(b)) \in Int
    BY <1>4, GrossSums DEF Kuruses
  <2>3. ASSUME Abs(advance - settled.totals.gross) <= Whole
        PROVE  settled.balance + settled.totals.gross = advance
    <3> DEFINE left == advance - SumUp(Grosses(b))
    <3>1. advance \in Kuruses
      BY <1>2, RoundMoneyKuruses
    <3>2. left \in Kuruses /\ Abs(left) <= Whole
      BY <1>1, <2>2, <2>3, <3>1, WholeIs
    <3> HIDE DEF left
    <3>3. Held[left] = left /\ InRange(left)
      BY <3>2, KurusesStay
    <3>4. settled.balance = left
      BY <1>1, <1>2, <3>3 DEF OrZero, left
    <3> QED BY <1>1, <1>2, <2>2, <3>4 DEF left
  <2> QED BY <1>1, <2>1, <2>3
<1>5. ASSUME 2 * ReceiptVolume(b) <= Digits
      PROVE  Abs(settled.totals.gross - settled.totals.kdv - settled.totals.net)
               <= Cardinality(DOMAIN b.receipts) * Kurus
  BY <1>1, <1>5, SlipsAdd
<1>6. PapersAgree(b, trial, settled, advance)
  BY <1>3, <1>4, <1>5 DEF PapersAgree
<1> QED BY <1>6 DEF trial, settled, advance

----------------------------------------------------------------------------
\* The accounts a cost report may show, and those it does.
Costed(b) ==
  DOMAIN b.accounts \union {b.actuals[x].account : x \in DOMAIN b.actuals}
    \union {b.orders[o].account : o \in Committed(b)}
Spent(b, a) == CostsOf(b, ActualsOf(b, a))
Owed(b, a) == AmountsOf(b, {o \in Committed(b) : b.orders[o].account = a})
ShownRows(b, r) ==
  {a \in Costed(b) : \/ RoundMoney(Estimate(r, a)) # 0 \/ Spent(b, a) # 0 \/ Owed(b, a) # 0}

Lately(b, window, a) ==
  CostsOf(b, {x \in ActualsOf(b, a) : InWindow(b.actuals[x].date, window)})
Outlay(b, a) == AddOrLargest(Spent(b, a), Owed(b, a))
Forecast(b, r, a) ==
  AddOrLargest(Outlay(b, a),
               IF RoundMoney(Estimate(r, a)) > Outlay(b, a)
               THEN Unchecked[RoundMoney(Estimate(r, a)) - Outlay(b, a)] ELSE 0)

\* The columns of a cost row.
LEMMA CostRowIs ==
  ASSUME NEW b, NEW r, NEW window, NEW a
  PROVE  /\ CostRow(b, r, window, a)["period"] = Lately(b, window, a)
         /\ CostRow(b, r, window, a)["toDate"] = Spent(b, a)
         /\ CostRow(b, r, window, a)["commitments"] = Owed(b, a)
         /\ CostRow(b, r, window, a)["total"] = Outlay(b, a)
         /\ CostRow(b, r, window, a)["budget"] = RoundMoney(Estimate(r, a))
         /\ CostRow(b, r, window, a)["efc"] = Forecast(b, r, a)
BY DEF CostRow, CostRowWith, CostRowEtc, CostRowEfc, CostRowOf, Spent, Owed, Outlay, Forecast,
       Lately

\* A grand total is the sum of its column.
LEMMA CostGrand ==
  ASSUME NEW b, NEW r, NEW window,
         NEW column \in {"period", "toDate", "commitments", "total", "etc", "efc", "budget", "variance"},
         NEW h, h = [a \in ShownRows(b, r) |-> CostRow(b, r, window, a)[column]]
  PROVE  CostReport(b, r, window).grand[column] = SumUp(h)
<1> DEFINE rows == [a \in Costed(b) |-> CostRow(b, r, window, a)]
           shown == NonEmpty(rows)
           kept == {x \in DOMAIN rows : \/ rows[x].budget # 0 \/ rows[x].toDate # 0
                                        \/ rows[x].commitments # 0}
<1>1. CostReport(b, r, window).grand = CostAcc(shown)
  BY DEF CostReport, CostSummary, Costed
<1>2. shown = [a \in kept |-> rows[a]]
  BY DEF NonEmpty
<1>3. kept = ShownRows(b, r)
  <2>1. DOMAIN rows = Costed(b)
    OBVIOUS
  <2>2. \A a \in Costed(b) :
          /\ rows[a].budget = RoundMoney(Estimate(r, a)) /\ rows[a].toDate = Spent(b, a)
          /\ rows[a].commitments = Owed(b, a)
    <3> SUFFICES ASSUME NEW a \in Costed(b)
                 PROVE  /\ rows[a].budget = RoundMoney(Estimate(r, a)) /\ rows[a].toDate = Spent(b, a)
                        /\ rows[a].commitments = Owed(b, a)
      OBVIOUS
    <3>1. rows[a] = CostRow(b, r, window, a)
      OBVIOUS
    <3> HIDE DEF rows
    <3> QED BY <3>1, CostRowIs
  <2> HIDE DEF rows
  <2> QED BY <2>1, <2>2 DEF ShownRows
<1>4. [a \in DOMAIN shown |-> shown[a][column]] = h
  <2>1. DOMAIN shown = ShownRows(b, r)
    BY <1>2, <1>3
  <2>2. \A a \in ShownRows(b, r) : shown[a] = CostRow(b, r, window, a)
    BY <1>2, <1>3 DEF ShownRows
  <2> HIDE DEF shown
  <2> QED BY <2>1, <2>2
<1> HIDE DEF shown
<1>5. CostAcc(shown)[column] = SumUp([a \in DOMAIN shown |-> shown[a][column]])
  BY DEF CostAcc, Totalled
<1> QED BY <1>1, <1>4, <1>5, Zenon

\* Finitely many accounts have costs.
LEMMA CostedFinite ==
  ASSUME NEW b, BudgetType(b)
  PROVE  IsFiniteSet(Costed(b))
<1>1. IsFiniteSet(DOMAIN b.accounts) /\ IsFiniteSet(DOMAIN b.actuals) /\ IsFiniteSet(DOMAIN b.orders)
  BY DEF BudgetType, Map
<1>2. IsFiniteSet(Committed(b))
  BY <1>1, FS_Subset DEF Committed
<1> DEFINE f == [x \in DOMAIN b.actuals |-> b.actuals[x].account]
           g == [o \in Committed(b) |-> b.orders[o].account]
           A == {b.actuals[x].account : x \in DOMAIN b.actuals}
           O == {b.orders[o].account : o \in Committed(b)}
<1>3. A = {f[x] : x \in DOMAIN b.actuals} /\ O = {g[o] : o \in Committed(b)}
  OBVIOUS
<1>4. Costed(b) = (DOMAIN b.accounts \union A) \union O
  BY DEF Costed
<1> HIDE DEF f, g, A, O
<1>5. IsFiniteSet(A)
  BY <1>1, <1>3, ImageFinite
<1>6. IsFiniteSet(O)
  BY <1>2, <1>3, ImageFinite
<1>7. IsFiniteSet(DOMAIN b.accounts \union A)
  BY <1>1, <1>5, FS_Union
<1> QED BY <1>4, <1>6, <1>7, FS_Union

\* What is committed by account is what is committed.
LEMMA OwedAgrees ==
  ASSUME NEW b, BudgetType(b), 2 * OrderVolume(b) <= Whole
  PROVE  LET h == [a \in Costed(b) |-> Owed(b, a)]
         IN  /\ Summable(h, Costed(b)) /\ Mass(h, Costed(b)) <= 2 * OrderVolume(b)
             /\ Mass(h, Costed(b)) <= Whole
             /\ IsFiniteSet(Costed(b)) /\ (\A a \in Costed(b) : h[a] \in Kuruses)
             /\ Over(h, Costed(b)) = OrderTotals(b).approved
<1> DEFINE K == Costed(b)
           h == [a \in K |-> Owed(b, a)]
           key == [o \in Committed(b) |-> b.orders[o].account]
<1>1. IsFiniteSet(K)
  BY CostedFinite
<1>2. \A o \in Committed(b) : key[o] \in K
  BY DEF Costed
<1>3. h = [a \in K |-> h[a]]
  OBVIOUS
<1>4. \A a \in K : h[a] = AmountsOf(b, {o \in Committed(b) : key[o] = a})
  <2>1. \A a \in K : {o \in Committed(b) : key[o] = a} = {o \in Committed(b) : b.orders[o].account = a}
    OBVIOUS
  <2> QED BY <2>1 DEF Owed
<1> HIDE DEF K, h, key
<1>5. Summable(h, K) /\ Mass(h, K) <= Mass(Open(b), Committed(b))
      /\ Over(h, K) = OrderTotals(b).approved /\ \A a \in K : h[a] \in Kuruses
  BY <1>1, <1>2, <1>3, <1>4, OpenByKey
<1>6. Mass(Open(b), Committed(b)) <= Whole /\ Mass(Open(b), Committed(b)) <= 2 * OrderVolume(b)
      /\ Summable(Open(b), Committed(b))
  BY OpenOrders
<1>7. Mass(h, K) \in Nat /\ Mass(Open(b), Committed(b)) \in Nat
  BY <1>5, <1>6, MassType
<1>8. OrderVolume(b) \in Int
  <2> DEFINE C == Committed(b)
             f == [o \in C |-> b.orders[o].amount]
  <2>1. \A o \in C : f[o] \in Int
    BY DepthAssumption DEF BudgetType, Map, Order, Decimal, Committed
  <2>2. Summable(f, C)
    BY <1>6, <2>1 DEF Summable
  <2>3. f = [o \in C |-> f[o]] /\ OrderVolume(b) = Magnitude(f)
    BY DEF OrderVolume
  <2> HIDE DEF C, f
  <2> QED BY <2>2, <2>3, MagnitudeIs, MassType
<1>9. Mass(h, K) <= 2 * OrderVolume(b) /\ Mass(h, K) <= Whole
  BY <1>5, <1>6, <1>7, <1>8, WholeIs
<1> QED BY <1>1, <1>5, <1>9 DEF h, K

\* The cost report's commitments are the approved orders, account by account.
LEMMA CommitmentsAgree ==
  ASSUME NEW b, BudgetType(b), 2 * OrderVolume(b) <= Whole, NEW r, NEW window
  PROVE  CostReport(b, r, window).grand.commitments = OrderTotals(b).approved
<1> DEFINE K == Costed(b)
           T == ShownRows(b, r)
           h == [a \in K |-> Owed(b, a)]
           t == [a \in T |-> CostRow(b, r, window, a)["commitments"]]
<1>1. /\ IsFiniteSet(K) /\ (\A a \in K : h[a] \in Kuruses)
      /\ Mass(h, K) <= Whole /\ Over(h, K) = OrderTotals(b).approved
  BY OwedAgrees
<1>2. T \in SUBSET K /\ \A a \in K \ T : h[a] = 0
  BY DEF ShownRows
<1>3. t = [a \in T |-> h[a]]
  <2>1. \A a \in T : CostRow(b, r, window, a)["commitments"] = h[a]
    <3> SUFFICES ASSUME NEW a \in T PROVE CostRow(b, r, window, a)["commitments"] = h[a]
      OBVIOUS
    <3>1. h[a] = Owed(b, a)
      BY <1>2
    <3> QED BY <3>1, CostRowIs
  <2> HIDE DEF h
  <2> QED BY <2>1
<1>4. CostReport(b, r, window).grand["commitments"] = SumUp(t)
  BY CostGrand
<1> HIDE DEF K, T, h, t
<1>5. SumUp([a \in T |-> h[a]]) = Over(h, K)
  BY <1>1, <1>2, SumUpShown
<1> QED BY <1>1, <1>3, <1>4, <1>5

\* What the actuals cost, exactly and in kurus.
Costs(b) == [x \in DOMAIN b.actuals |-> Cost(b.actuals[x])]
CostsShown(b) == [x \in DOMAIN b.actuals |-> RoundMoney(Cost(b.actuals[x]))]

\* The costs are amounts.
LEMMA CostsAre ==
  ASSUME NEW b, BudgetType(b)
  PROVE  LET D == DOMAIN b.actuals
         IN  /\ Summable(Costs(b), D) /\ Mass(Costs(b), D) = CostVolume(b)
             /\ CostVolume(b) \in Nat /\ Cardinality(D) \in Nat /\ IsFiniteSet(D)
<1> DEFINE D == DOMAIN b.actuals
           f == Costs(b)
<1>1. IsFiniteSet(D) /\ \A x \in D : b.actuals[x] \in Actual
  BY DEF BudgetType, Map
<1>2. \A x \in D : f[x] \in Int
  BY <1>1, ActualAmounts DEF Costs
<1>3. Summable(f, D)
  BY <1>1, <1>2 DEF Summable
<1>4. f = [x \in D |-> f[x]] /\ CostVolume(b) = Magnitude(f)
  BY DEF Costs, CostVolume
<1> HIDE DEF D, f
<1>5. CostVolume(b) = Mass(f, D)
  BY <1>4, MagnitudeIs
<1> QED BY <1>1, <1>3, <1>5, MassType, FS_CardinalityType DEF D, f

\* What is shown of them adds up exactly.
LEMMA CostSums ==
  ASSUME NEW b, BudgetType(b), 2 * CostVolume(b) <= Whole
  PROVE  LET D == DOMAIN b.actuals
         IN  /\ Summable(CostsShown(b), D) /\ Mass(CostsShown(b), D) <= Whole
             /\ IsFiniteSet(D) /\ (\A x \in D : CostsShown(b)[x] \in Kuruses)
             /\ Mass(CostsShown(b), D) <= 2 * CostVolume(b)
             /\ 2 * Abs(Over(CostsShown(b), D) - Over(Costs(b), D)) <= Cardinality(D) * Kurus
<1> DEFINE D == DOMAIN b.actuals
           f == Costs(b)
           r == CostsShown(b)
<1>1. Summable(f, D) /\ Mass(f, D) = CostVolume(b)
  BY CostsAre
<1>2. r = [x \in D |-> RoundMoney(f[x])]
  BY DEF Costs, CostsShown
<1> HIDE DEF D, f, r
<1>3. /\ Summable(r, D) /\ Mass(r, D) <= Whole /\ Mass(r, D) <= 2 * Mass(f, D)
      /\ IsFiniteSet(D) /\ (\A x \in D : r[x] \in Kuruses)
      /\ 2 * Abs(Over(r, D) - Over(f, D)) <= Cardinality(D) * Kurus
  BY <1>1, <1>2, RoundedFits
<1> QED BY <1>1, <1>3 DEF D, f, r

\* What was spent by account is what was spent.
LEMMA SpentAgrees ==
  ASSUME NEW b, BudgetType(b), 2 * CostVolume(b) <= Whole
  PROVE  LET h == [a \in Costed(b) |-> Spent(b, a)]
             D == DOMAIN b.actuals
         IN  /\ h = [a \in Costed(b) |-> Over(CostsShown(b), ActualsOf(b, a))]
             /\ Summable(h, Costed(b)) /\ Mass(h, Costed(b)) <= 2 * CostVolume(b)
             /\ Mass(h, Costed(b)) <= Whole
             /\ IsFiniteSet(Costed(b)) /\ (\A a \in Costed(b) : h[a] \in Kuruses)
             /\ Over(h, Costed(b)) = Over(CostsShown(b), D)
<1> DEFINE D == DOMAIN b.actuals
           K == Costed(b)
           f == CostsShown(b)
           h == [a \in K |-> Spent(b, a)]
           g == [a \in K |-> Over(f, ActualsOf(b, a))]
           key == [x \in D |-> b.actuals[x].account]
<1>1. IsFiniteSet(K)
  BY CostedFinite
<1>2. \A x \in D : key[x] \in K
  BY DEF Costed
<1>3. h = [a \in K |-> h[a]]
  OBVIOUS
<1>4. \A a : ActualsOf(b, a) = {x \in D : key[x] = a}
  BY DEF ActualsOf
<1>5. ASSUME NEW a \in K PROVE h[a] = SumUp([x \in {y \in D : key[y] = a} |-> f[x]])
  <2>1. h[a] = SumUp([x \in ActualsOf(b, a) |-> RoundMoney(Cost(b.actuals[x]))])
    BY DEF Spent, CostsOf
  <2>2. ActualsOf(b, a) \subseteq D
    BY DEF ActualsOf
  <2>3. [x \in ActualsOf(b, a) |-> RoundMoney(Cost(b.actuals[x]))] = [x \in ActualsOf(b, a) |-> f[x]]
    BY <2>2 DEF CostsShown
  <2> HIDE DEF h, f, key
  <2> QED BY <1>4, <2>1, <2>3
<1>6. /\ Summable(f, D) /\ Mass(f, D) <= Whole
      /\ IsFiniteSet(D) /\ (\A x \in D : f[x] \in Kuruses)
      /\ Mass(f, D) <= 2 * CostVolume(b) /\ CostVolume(b) \in Nat
  BY CostsAre, CostSums
<1>7. g = [a \in K |-> Over(f, {x \in D : key[x] = a})]
  BY <1>4
<1> HIDE DEF D, K, f, h, g, key
<1>8. h = [a \in K |-> Over(f, {x \in D : key[x] = a})] /\ \A a \in K : h[a] \in Kuruses
  BY <1>1, <1>2, <1>3, <1>5, <1>6, SumUpByKey
<1>9. /\ Summable(h, K) /\ Over(h, K) = Over(f, D)
      /\ Mass(h, K) <= Mass(f, D)
  BY <1>1, <1>2, <1>6, <1>8, MassByKey
<1>10. Mass(h, K) \in Nat /\ Mass(f, D) \in Nat
  BY <1>6, <1>9, MassType
<1>11. Mass(h, K) <= 2 * CostVolume(b) /\ Mass(h, K) <= Whole
  BY <1>6, <1>9, <1>10, WholeIs
<1>12. h = g
  BY <1>7, <1>8
<1> QED BY <1>1, <1>8, <1>9, <1>11, <1>12 DEF D, K, f, h, g

\* The cost report's column to date has every actual.
LEMMA ToDateIs ==
  ASSUME NEW b, BudgetType(b), 2 * CostVolume(b) <= Whole, NEW r, NEW window
  PROVE  CostReport(b, r, window).grand.toDate = Over(CostsShown(b), DOMAIN b.actuals)
<1> DEFINE K == Costed(b)
           T == ShownRows(b, r)
           h == [a \in K |-> Spent(b, a)]
           t == [a \in T |-> CostRow(b, r, window, a)["toDate"]]
<1>1. /\ IsFiniteSet(K) /\ (\A a \in K : h[a] \in Kuruses)
      /\ Mass(h, K) <= Whole /\ Over(h, K) = Over(CostsShown(b), DOMAIN b.actuals)
  BY SpentAgrees
<1>2. T \in SUBSET K /\ \A a \in K \ T : h[a] = 0
  BY DEF ShownRows
<1>3. t = [a \in T |-> h[a]]
  <2>1. \A a \in T : CostRow(b, r, window, a)["toDate"] = h[a]
    <3> SUFFICES ASSUME NEW a \in T PROVE CostRow(b, r, window, a)["toDate"] = h[a]
      OBVIOUS
    <3>1. h[a] = Spent(b, a)
      BY <1>2
    <3> QED BY <3>1, CostRowIs
  <2> HIDE DEF h
  <2> QED BY <2>1
<1>4. CostReport(b, r, window).grand["toDate"] = SumUp(t)
  BY CostGrand
<1> HIDE DEF K, T, h, t
<1>5. SumUp([a \in T |-> h[a]]) = Over(h, K)
  BY <1>1, <1>2, SumUpShown
<1> QED BY <1>1, <1>3, <1>4, <1>5

\* Without credit notes no period has more than there is to date.
LEMMA PeriodWithin ==
  ASSUME NEW b, BudgetType(b), 2 * CostVolume(b) <= Whole, NEW r, NEW window,
         \A x \in DOMAIN b.actuals : b.actuals[x].net >= 0
  PROVE  CostReport(b, r, window).grand.period <= CostReport(b, r, window).grand.toDate
<1> DEFINE D == DOMAIN b.actuals
           K == Costed(b)
           T == ShownRows(b, r)
           f == CostsShown(b)
           All(a) == ActualsOf(b, a)
           In(a) == {x \in All(a) : InWindow(b.actuals[x].date, window)}
           h == [a \in K |-> Spent(b, a)]
           p == [a \in T |-> CostRow(b, r, window, a)["period"]]
           t == [a \in T |-> CostRow(b, r, window, a)["toDate"]]
<1>1. /\ h = [a \in K |-> Over(f, All(a))]
      /\ Summable(h, K) /\ Mass(h, K) <= Whole /\ \A a \in K : h[a] \in Kuruses
  BY SpentAgrees
<1>2. Summable(f, D) /\ Mass(f, D) <= Whole /\ \A x \in D : f[x] \in Kuruses
  BY CostSums
<1>3. \A x \in D : f[x] >= 0
  <2>1. \A x \in D : b.actuals[x] \in Actual
    BY DEF BudgetType, Map
  <2>2. \A x \in D : Cost(b.actuals[x]) \in Int /\ Cost(b.actuals[x]) >= 0
    BY <2>1, ActualAmounts
  <2> QED BY <2>2, RoundMoneyNear DEF CostsShown
<1>4. T \in SUBSET K
  BY DEF ShownRows
<1>5. ASSUME NEW a \in T
      PROVE  /\ t[a] = Over(f, All(a)) /\ p[a] = Over(f, In(a))
             /\ p[a] \in Int /\ t[a] \in Int /\ 0 <= p[a] /\ p[a] <= t[a]
             /\ p[a] \in Kuruses /\ t[a] \in Kuruses
  <2>1. t[a] = Spent(b, a) /\ p[a] = Lately(b, window, a)
    BY CostRowIs
  <2>2. Spent(b, a) = Over(f, All(a))
    <3>1. h[a] = Spent(b, a)
      BY <1>4
    <3> HIDE DEF h, T, K
    <3> QED BY <1>1, <1>4, <3>1
  <2>3. All(a) \in SUBSET D /\ In(a) \in SUBSET All(a) /\ In(a) \in SUBSET D
    BY DEF ActualsOf
  <2>4. Lately(b, window, a) = SumUp([x \in In(a) |-> f[x]])
    <3>1. Lately(b, window, a) = SumUp([x \in In(a) |-> RoundMoney(Cost(b.actuals[x]))])
      BY DEF Lately, CostsOf
    <3>2. [x \in In(a) |-> RoundMoney(Cost(b.actuals[x]))] = [x \in In(a) |-> f[x]]
      BY <2>3 DEF CostsShown
    <3> QED BY <3>1, <3>2
  <2> DEFINE S == In(a)
             A == All(a)
             z == [x \in D |-> IF x \in S THEN f[x] ELSE 0]
             o == [x \in D |-> 0]
             g == [x \in S |-> f[x]]
  <2>5. /\ Summable(f, S) /\ Mass(f, S) \in Nat /\ Mass(f, D) \in Nat /\ Mass(f, S) <= Mass(f, D)
        /\ Over(f, S) \in Int
    BY <1>2, <2>3, MassMonotone
  <2>6. Summable(f, A) /\ Over(f, A) \in Int
    BY <1>2, <2>3, MassMonotone
  <2>7. SumUp(g) = Over(f, S) /\ Over(f, S) \in Kuruses
    <3>1. Mass(f, S) <= Whole
      BY <1>2, <2>5, WholeIs
    <3>2. g = [x \in S |-> g[x]] /\ \A x \in S : g[x] = f[x]
      OBVIOUS
    <3> HIDE DEF g, S, f
    <3>3. Over(g, S) = Over(f, S)
      BY <3>2, OverSame
    <3>4. Mass(g, S) = Mass(f, S)
      <4>1. \A x \in S : [y \in S |-> Abs(g[y])][x] = [y \in S |-> Abs(f[y])][x]
        BY <3>2
      <4> QED BY <4>1, OverSame DEF Mass
    <3>5. IsFiniteSet(S) /\ \A x \in S : g[x] \in Kuruses
      BY <1>2, <2>3, <2>5, <3>2 DEF Summable, S, f
    <3> QED BY <3>1, <3>2, <3>3, <3>4, <3>5, SumUpExact
  <2>8. Over(z, A) = Over(f, S)
    <3>1. Summable(z, A)
      BY <2>3, <2>6 DEF Summable
    <3>2. \A x \in A \ S : z[x] = 0
      BY <2>3
    <3>3. \A x \in S : z[x] = f[x]
      BY <2>3
    <3> HIDE DEF z, S, A
    <3>4. S \in SUBSET A
      BY <2>3 DEF S, A
    <3> QED BY <3>1, <3>2, <3>3, <3>4, OverSupport, OverSame
  <2>9. Summable(z, A) /\ \A x \in A : z[x] <= f[x]
    BY <1>3, <2>3, <2>6 DEF Summable
  <2>10. Summable(o, S) /\ Over(o, S) = 0
    <3>1. \A x \in S : o[x] = 0
      BY <2>3
    <3>2. IsFiniteSet(S)
      BY <2>5 DEF Summable
    <3> HIDE DEF o, S
    <3> QED BY <3>1, <3>2, OverZero
  <2>11. \A x \in S : o[x] <= f[x]
    BY <1>3, <2>3
  <2> HIDE DEF z, o, S, A, f, g, p, t
  <2>12. Over(z, A) <= Over(f, A)
    BY <2>6, <2>9, OverMonotone
  <2>13. Over(o, S) <= Over(f, S)
    BY <2>5, <2>10, <2>11, OverMonotone
  <2>14. t[a] = Over(f, A) /\ p[a] = Over(f, S)
    BY <2>1, <2>2, <2>4, <2>7 DEF A, S, g
  <2>15. p[a] \in Int /\ t[a] \in Int /\ 0 <= p[a] /\ p[a] <= t[a]
    BY <2>5, <2>6, <2>8, <2>10, <2>12, <2>13, <2>14
  <2>16. p[a] \in Kuruses /\ t[a] \in Kuruses
    <3>1. Over(f, A) \in Kuruses
      <4>1. IsFiniteSet(A) /\ \A x \in A : f[x] \in Kuruses
        BY <1>2, <2>3, <2>6 DEF Summable, A
      <4> QED BY <4>1, OverKuruses
    <3> QED BY <2>7, <2>14, <3>1
  <2> QED BY <2>14, <2>15, <2>16 DEF A, S
<1>6. Summable(h, T) /\ Mass(h, T) <= Mass(h, K) /\ Mass(h, T) \in Nat /\ Mass(h, K) \in Nat
  <2> HIDE DEF h
  <2> QED BY <1>1, <1>4, MassMonotone
<1>7. \A a \in T : t[a] = h[a]
  BY <1>1, <1>4, <1>5
<1>8. t = [a \in T |-> t[a]] /\ p = [a \in T |-> p[a]]
  OBVIOUS
<1>9. CostReport(b, r, window).grand["period"] = SumUp(p)
      /\ CostReport(b, r, window).grand["toDate"] = SumUp(t)
  BY CostGrand
<1> HIDE DEF D, K, T, f, All, In, h, p, t
<1>10. IsFiniteSet(T)
  BY <1>6 DEF Summable
<1>11. Summable(t, T) /\ Summable(p, T)
  BY <1>5, <1>10 DEF Summable
<1>12. Mass(t, T) = Mass(h, T)
  <2>1. \A x \in T : [y \in T |-> Abs(t[y])][x] = [y \in T |-> Abs(h[y])][x]
    BY <1>7
  <2> QED BY <2>1, OverSame DEF Mass
<1>13. Mass(p, T) <= 1 * Mass(t, T) /\ Mass(p, T) \in Nat /\ Mass(t, T) \in Nat
  <2>1. \A a \in T : Abs(p[a]) <= 1 * Abs(t[a])
    BY <1>5 DEF Abs
  <2>2. 1 \in Nat
    OBVIOUS
  <2> QED BY <1>11, <2>1, <2>2, MassWithin
<1>14. Mass(t, T) <= Whole /\ Mass(p, T) <= Whole
  BY <1>1, <1>6, <1>12, <1>13, WholeIs
<1>15. SumUp(t) = Over(t, T) /\ SumUp(p) = Over(p, T)
  BY <1>5, <1>8, <1>10, <1>14, SumUpExact
<1>16. Over(p, T) <= Over(t, T)
  BY <1>5, <1>11, OverMonotone
<1> QED BY <1>9, <1>15, <1>16

\* Tables that are the same on a set have the same sums over it.
LEMMA MassAlike ==
  ASSUME NEW f, NEW g, NEW S, \A x \in S : f[x] = g[x], Summable(g, S)
  PROVE  Summable(f, S) /\ Over(f, S) = Over(g, S) /\ Mass(f, S) = Mass(g, S)
<1>1. Over(f, S) = Over(g, S)
  BY OverSame
<1>2. \A x \in S : [y \in S |-> Abs(f[y])][x] = [y \in S |-> Abs(g[y])][x]
  OBVIOUS
<1>3. Mass(f, S) = Mass(g, S)
  BY <1>2, OverSame DEF Mass
<1> QED BY <1>1, <1>3 DEF Summable

\* What is so much off adds so much to the mass.
LEMMA MassApart ==
  ASSUME NEW f, NEW g, NEW e, NEW S, Summable(f, S), Summable(g, S), Summable(e, S),
         \A x \in S : Abs(f[x] - g[x]) <= e[x]
  PROVE  Mass(f, S) <= Mass(g, S) + Over(e, S) /\ Mass(f, S) \in Nat /\ Mass(g, S) \in Nat
<1> DEFINE a == [x \in S |-> Abs(f[x])]
           c == [x \in S |-> Abs(g[x])]
           d == [x \in S |-> c[x] + e[x]]
<1>1. Summable(a, S) /\ Summable(c, S)
  BY MassSummable
<1>2. \A x \in S : f[x] \in Int /\ g[x] \in Int /\ e[x] \in Int /\ IsFiniteSet(S)
  BY DEF Summable
<1>3. \A x \in S : /\ a[x] = Abs(f[x]) /\ c[x] = Abs(g[x]) /\ d[x] = c[x] + e[x]
  OBVIOUS
<1> HIDE DEF a, c, d
<1>4. \A x \in S : a[x] <= d[x] /\ d[x] \in Int
  <2>1. \A x \in S : Abs(f[x]) <= Abs(g[x]) + e[x] /\ Abs(g[x]) \in Int
    BY <1>2 DEF Abs
  <2> QED BY <1>2, <1>3, <2>1
<1>5. Summable(d, S)
  BY <1>1, <1>4 DEF Summable
<1>6. Over(a, S) <= Over(d, S)
  BY <1>1, <1>4, <1>5, OverMonotone
<1>7. Over(d, S) = Over(c, S) + Over(e, S)
  BY <1>1, <1>3, OverPlus
<1>8. Mass(f, S) = Over(a, S) /\ Mass(g, S) = Over(c, S)
  BY DEF Mass, a, c
<1> QED BY <1>6, <1>7, <1>8, MassType

\* So has the actuals report, but for the rounding of its rows and of their sums.
LEMMA ActualsAgree ==
  ASSUME NEW b, BudgetType(b), NEW r, NEW place \in Places, place <= Kurus,
         NEW slack, slack = Cardinality(DOMAIN b.actuals) * (place \div 2),
         2 * (CostVolume(b) + slack) <= place * Digits
  PROVE  LET report == ActualsReport(b, r)
             shown == DOMAIN report.rows
         IN  /\ Cardinality(shown) \in Nat
             /\ report.totals.actual \in Int
             /\ 2 * Abs(report.totals.actual - Over(Costs(b), DOMAIN b.actuals))
                  <= Cardinality(shown) * Kurus + 2 * slack
<1> DEFINE D == DOMAIN b.actuals
           f == Costs(b)
           K == DOMAIN b.accounts \union {b.actuals[x].account : x \in D}
           T == {a \in K : Estimate(r, a) # 0 \/ ActualOn(b, a) # 0}
           key == [x \in D |-> b.actuals[x].account]
           h == [a \in K |-> ActualOn(b, a)]
           rows == [a \in T |-> ActualsRow(RoundMoney(Estimate(r, a)), RoundMoney(ActualOn(b, a)))]
           t == [a \in T |-> RoundMoney(h[a])]
<1>1. ActualsReport(b, r).rows = rows
      /\ ActualsReport(b, r).totals = Totalled(rows, {"estimate", "actual", "efc"})
  BY DEF ActualsReport, ActualsTotalled, ActualsSummary
<1>2. DOMAIN rows = T /\ Totalled(rows, {"estimate", "actual", "efc"}).actual = SumUp(t)
  <2>1. DOMAIN rows = T
    OBVIOUS
  <2>2. Totalled(rows, {"estimate", "actual", "efc"}).actual
          = SumUp([a \in DOMAIN rows |-> rows[a]["actual"]])
    <3> HIDE DEF rows
    <3> QED BY DEF Totalled
  <2>3. [a \in T |-> rows[a]["actual"]] = t
    <3>1. \A a \in T : rows[a]["actual"] = t[a]
      BY DEF ActualsRow
    <3>2. t = [a \in T |-> t[a]]
      OBVIOUS
    <3> HIDE DEF rows, t
    <3> QED BY <3>1, <3>2
  <2> HIDE DEF rows, t
  <2> QED BY <2>1, <2>2, <2>3
<1>3. IsFiniteSet(K)
  <2>1. IsFiniteSet(D) /\ IsFiniteSet(DOMAIN b.accounts)
    BY DEF BudgetType, Map
  <2>2. {b.actuals[x].account : x \in D} = {key[x] : x \in D}
    OBVIOUS
  <2> HIDE DEF key, D
  <2>3. IsFiniteSet({key[x] : x \in D})
    BY <2>1, ImageFinite
  <2> QED BY <2>1, <2>2, <2>3, FS_Union
<1>4. \A x \in D : key[x] \in K
  OBVIOUS
<1>5. h = [a \in K |-> h[a]]
  OBVIOUS
<1>6. ASSUME NEW a \in K PROVE h[a] = SumUp([x \in {y \in D : key[y] = a} |-> f[x]])
  <2>1. h[a] = SumUp([x \in ActualsOf(b, a) |-> Cost(b.actuals[x])])
    BY DEF ActualOn
  <2>2. ActualsOf(b, a) = {y \in D : key[y] = a} /\ ActualsOf(b, a) \subseteq D
    BY DEF ActualsOf
  <2>3. [x \in ActualsOf(b, a) |-> Cost(b.actuals[x])] = [x \in ActualsOf(b, a) |-> f[x]]
    BY <2>2 DEF Costs
  <2> HIDE DEF h, f, key, K
  <2> QED BY <2>1, <2>2, <2>3
<1>7. T \in SUBSET K /\ \A a \in K \ T : h[a] = 0
  OBVIOUS
<1>8. /\ Summable(f, D) /\ Mass(f, D) = CostVolume(b) /\ CostVolume(b) \in Nat /\ IsFiniteSet(D)
      /\ Cardinality(D) \in Nat
  BY CostsAre
<1> HIDE DEF D, f, K, T, key, h, rows
<1> DEFINE q == place \div 2
           e == Each(D, q)
           Of(a) == {x \in D : key[x] = a}
           g == [a \in K |-> Over(f, Of(a))]
           err == [a \in K |-> Over(e, Of(a))]
<1>9. q \in Nat /\ place \in Nat /\ place * Digits \in Nat /\ place * Digits <= Whole
  <2>1. \A x, y, n \in Nat : x <= y => x * n <= y * n
    OBVIOUS
  <2> QED BY <2>1, PlaceIsNat, WholeIs DEF Whole
<1> HIDE DEF q
<1>10. \A S \in SUBSET D :
         /\ Summable(e, S) /\ Over(e, S) \in Nat /\ Over(e, S) <= Over(e, D)
         /\ Over(e, S) = Cardinality(S) * q /\ Over(Each(S, q), S) = Over(e, S)
  BY <1>8, <1>9, EachType
<1>11. Summable(e, D) /\ Over(e, D) = slack /\ slack \in Nat
  BY <1>10 DEF q, D
<1> HIDE DEF e
<1>12. ASSUME NEW a \in K PROVE h[a] \in Int /\ Abs(h[a] - g[a]) <= err[a]
  <2> DEFINE S == Of(a)
             v == [x \in S |-> f[x]]
  <2>1. S \in SUBSET D /\ h[a] = SumUp(v) /\ g[a] = Over(f, S) /\ err[a] = Over(e, S)
    BY <1>6
  <2>2. v = [x \in S |-> v[x]] /\ \A x \in S : v[x] = f[x]
    OBVIOUS
  <2> HIDE DEF S, v, g, err
  <2>3. Summable(f, S) /\ Mass(f, S) \in Nat /\ Mass(f, S) <= Mass(f, D)
    BY <1>8, <2>1, MassMonotone
  <2>4. Summable(v, S) /\ Over(v, S) = Over(f, S) /\ Mass(v, S) = Mass(f, S)
    BY <2>2, <2>3, MassAlike
  <2>5. Cardinality(S) * (place \div 2) = Over(e, S) /\ Over(e, S) \in Nat /\ Over(e, S) <= slack
    BY <1>10, <1>11, <2>1 DEF q
  <2>6. Mass(v, S) + Cardinality(S) * (place \div 2) <= place * Digits
    BY <1>8, <1>9, <1>11, <2>3, <2>4, <2>5
  <2>7. SumUp(v) \in Int /\ Abs(SumUp(v) - Over(v, S)) <= Cardinality(S) * (place \div 2)
    BY <2>2, <2>4, <2>6, SumUpNear
  <2> QED BY <2>1, <2>4, <2>5, <2>7
<1>13. Summable(g, K) /\ Over(g, K) = Over(f, D) /\ Mass(g, K) <= Mass(f, D)
  BY <1>3, <1>4, <1>8, MassByKey
<1>14. Summable(err, K) /\ Over(err, K) = slack
  BY <1>3, <1>4, <1>11, OverByKey
<1>15. Summable(h, K)
  BY <1>3, <1>12 DEF Summable
<1> HIDE DEF g, err, Of
<1>16. /\ Over(h, K) \in Int /\ Abs(Over(h, K) - Over(f, D)) <= slack
       /\ Mass(h, K) \in Nat /\ Mass(h, K) <= Mass(g, K) + slack
  <2>1. Abs(Over(h, K) - Over(g, K)) <= Over(err, K)
    BY <1>12, <1>13, <1>14, <1>15, OverApart
  <2>2. Mass(h, K) <= Mass(g, K) + Over(err, K) /\ Mass(h, K) \in Nat
    BY <1>12, <1>13, <1>14, <1>15, MassApart
  <2> QED BY <1>13, <1>14, <1>15, <2>1, <2>2, OverType
<1>17. /\ Summable(h, T) /\ Mass(h, T) \in Nat /\ Mass(h, T) <= Mass(h, K)
  BY <1>7, <1>15, MassMonotone
<1>18. Over(h, T) = Over(h, K)
  BY <1>7, <1>15, OverSupport
<1>19. 2 * Mass(h, T) <= Whole
  <2>1. Mass(g, K) \in Nat
    BY <1>13, MassType
  <2> QED BY <1>8, <1>9, <1>11, <1>13, <1>16, <1>17, <2>1, WholeIs
<1>20. t = [a \in T |-> RoundMoney(h[a])]
  OBVIOUS
<1> HIDE DEF t
<1>21. /\ SumUp(t) = Over(t, T) /\ Summable(t, T)
       /\ 2 * Abs(Over(t, T) - Over(h, T)) <= Cardinality(T) * Kurus
  BY <1>17, <1>19, <1>20, RoundedFits
<1>22. Over(t, T) \in Int /\ Over(f, D) \in Int /\ Cardinality(T) \in Nat /\ Kurus \in Nat
  BY <1>8, <1>17, <1>21, OverType, FS_CardinalityType, UnitAssumption DEF Summable
<1>23. ActualsReport(b, r).totals.actual = Over(t, T) /\ DOMAIN ActualsReport(b, r).rows = T
  BY <1>1, <1>2, <1>21
<1>24. 2 * Abs(Over(t, T) - Over(f, D)) <= Cardinality(T) * Kurus + 2 * slack
  <2>1. \A x, y, z, u, v \in Int :
          2 * Abs(x - y) <= u /\ Abs(y - z) <= v => 2 * Abs(x - z) <= u + 2 * v
    BY DEF Abs
  <2>2. Cardinality(T) * Kurus \in Int
    BY <1>22
  <2> QED BY <1>11, <1>16, <1>18, <1>21, <1>22, <2>1, <2>2
<1> QED BY <1>22, <1>23, <1>24 DEF f, D

\* Cost report and actuals agree.
LEMMA CostsDoAgree ==
  ASSUME NEW b, BudgetType(b), NEW r, NEW window
  PROVE  CostsAgree(b, ActualsReport(b, r), CostReport(b, r, window).grand)
<1> DEFINE grand == CostReport(b, r, window).grand
           actuals == ActualsReport(b, r)
           D == DOMAIN b.actuals
<1>1. ASSUME 2 * OrderVolume(b) <= Whole
      PROVE  grand.commitments = OrderTotals(b).approved
  BY <1>1, CommitmentsAgree
<1>2. ASSUME NEW place \in Places, place <= Kurus
      PROVE  SpentNear(b, grand.toDate, actuals, Cardinality(D) * (place \div 2), place * Digits)
  <2> DEFINE slack == Cardinality(D) * (place \div 2)
             m == Cardinality(D)
             n == Cardinality(DOMAIN actuals.rows)
             x == grand.toDate
             y == actuals.totals.actual
             z == Over(Costs(b), D)
  <2>1. SUFFICES ASSUME 2 * (CostVolume(b) + slack) <= place * Digits
                 PROVE  2 * Abs(x - y) <= (m + n) * Kurus + 2 * slack
    BY DEF SpentNear, Near
  <2>2. /\ n \in Nat /\ y \in Int
        /\ 2 * Abs(y - z) <= n * Kurus + 2 * slack
    BY <1>2, <2>1, ActualsAgree
  <2>3. Summable(Costs(b), D) /\ CostVolume(b) \in Nat /\ m \in Nat
    BY CostsAre
  <2>4. slack \in Nat /\ 2 * CostVolume(b) <= Whole
    <3>1. \A u, v, w \in Nat : (u <= v => u * w <= v * w) /\ u * w \in Nat
      OBVIOUS
    <3>2. slack \in Nat
      BY <2>3, <3>1, PlaceIsNat
    <3>3. place * Digits <= Whole /\ place * Digits \in Nat
      BY <1>2, <3>1, PlaceIsNat, WholeIs DEF Whole
    <3> HIDE DEF slack
    <3> QED BY <2>1, <2>3, <3>2, <3>3, WholeIs
  <2>5. /\ Summable(CostsShown(b), D)
        /\ 2 * Abs(Over(CostsShown(b), D) - Over(Costs(b), D)) <= Cardinality(D) * Kurus
    BY <2>4, CostSums
  <2>6. x = Over(CostsShown(b), D)
    BY <2>4, ToDateIs
  <2>7. x \in Int /\ z \in Int /\ Kurus \in Nat
    BY <2>3, <2>5, <2>6, OverType, UnitAssumption
  <2>8. 2 * Abs(x - z) <= m * Kurus
    BY <2>5, <2>6
  <2> HIDE DEF slack, m, n, x, y, z
  <2>9. (m + n) * Kurus = m * Kurus + n * Kurus /\ m * Kurus \in Int /\ n * Kurus \in Int
    BY <2>2, <2>3, <2>7
  <2> DEFINE u == m * Kurus
             v == n * Kurus
  <2>10. /\ 2 * Abs(x - z) <= u /\ 2 * Abs(y - z) <= v + 2 * slack /\ u \in Int /\ v \in Int
         /\ (m + n) * Kurus = u + v
    BY <2>2, <2>8, <2>9
  <2> HIDE DEF u, v
  <2>11. 2 * Abs(x - y) <= u + v + 2 * slack
    BY <2>2, <2>4, <2>7, <2>10 DEF Abs
  <2> QED BY <2>10, <2>11
<1>3. ASSUME 2 * CostVolume(b) <= Whole, \A w \in D : b.actuals[w].net >= 0
      PROVE  grand.period <= grand.toDate
  BY <1>3, PeriodWithin
<1> HIDE DEF grand, actuals
<1>4. CostsAgree(b, actuals, grand)
  BY <1>1, <1>2, <1>3 DEF CostsAgree
<1> QED BY <1>4 DEF grand, actuals

\* In a budget that is kept the reports agree.
LEMMA KeptReports == Kept => ReportsAgree
<1> SUFFICES ASSUME Kept PROVE ReportsAgree
  OBVIOUS
<1>1. BudgetType(budget)
  BY DEF Kept, WellKept
<1>2. \A r \in Results(budget) : ReportsAgreeIn(budget, r)
  BY <1>1, CostsDoAgree DEF ReportsAgreeIn
<1>3. PapersAgree(budget, TrialBalance(budget, 0), Settlement(budget, 10 * Kurus), 10 * Kurus)
  BY <1>1, PapersDoAgree
<1> QED BY <1>2, <1>3 DEF ReportsAgree

\* The cost report, the actuals, the orders, the trial balance and the settlement
\* agree on what was committed, spent and paid in cash (view.rs, settlement.rs).
THEOREM BooksReportsAgree == Spec => []ReportsAgree
BY AlwaysKept, KeptReports, PTL

----------------------------------------------------------------------------
(***************************************************************************)
(* Lines, charges, rollups and postings.                                   *)
(***************************************************************************)

\* A double sum may be taken in either order.
RowSums(f, S, T) == [x \in S |-> Over(f[x], T)]
ColumnSums(f, S, T) == [y \in T |-> Over([x \in S |-> f[x][y]], S)]

\* By rows or by columns, the sum is the same.
LEMMA OverSwap ==
  ASSUME NEW S, NEW T, IsFiniteSet(S), IsFiniteSet(T), NEW f,
         \A x \in S : \A y \in T : f[x][y] \in Int
  PROVE  /\ Summable(RowSums(f, S, T), S)
         /\ Summable(ColumnSums(f, S, T), T)
         /\ Over(RowSums(f, S, T), S) = Over(ColumnSums(f, S, T), T)
<1> DEFINE row == [x \in S |-> Over(f[x], T)]
           col == [y \in T |-> [x \in S |-> f[x][y]]]
           part(U) == [y \in T |-> Over(col[y], U)]
           G == {U \in SUBSET S : Over(row, U) = Over(part(U), T)}
<1>1. \A x \in S : Summable(f[x], T)
  BY DEF Summable
<1>2. \A y \in T : Summable(col[y], S)
  BY DEF Summable
<1>3. Summable(row, S)
  <2>1. \A x \in S : row[x] \in Int
    BY <1>1, OverType
  <2> HIDE DEF row
  <2> QED BY <2>1 DEF Summable
<1>4. \A U \in SUBSET S : Summable(part(U), T)
  <2>1. SUFFICES ASSUME NEW U \in SUBSET S PROVE Summable(part(U), T)
    OBVIOUS
  <2>2. \A y \in T : part(U)[y] \in Int
    <3>1. SUFFICES ASSUME NEW y \in T PROVE Over(col[y], U) \in Int
      OBVIOUS
    <3> HIDE DEF col
    <3>2. Summable(col[y], U)
      BY <1>2, SubSummable
    <3> QED BY <3>2, OverType
  <2> HIDE DEF part
  <2> QED BY <2>2 DEF Summable
<1>5. {} \in G
  <2>1. Over(row, {}) = 0
    BY OverEmpty
  <2>2. \A y \in T : part({})[y] = 0
    BY OverEmpty
  <2> HIDE DEF part, row
  <2>3. Over(part({}), T) = 0
    BY <2>2, OverZero
  <2> QED BY <2>1, <2>3
<1>6. ASSUME NEW U \in SUBSET S, NEW z \in S \ U, U \in G PROVE U \union {z} \in G
  <2> DEFINE V == U \union {z}
             p == part(U)
             q == part(V)
             h == f[z]
  <2>1. Summable(row, U) /\ row[z] \in Int /\ row[z] = Over(h, T)
    BY <1>3, SubSummable DEF Summable
  <2>2. Over(row, V) = Over(row, U) + Over(h, T)
    <3> HIDE DEF row, h
    <3> QED BY <2>1, OverAdd
  <2>3. \A y \in T : q[y] = p[y] + h[y]
    <3>1. SUFFICES ASSUME NEW y \in T PROVE Over(col[y], V) = Over(col[y], U) + h[y]
      OBVIOUS
    <3>2. col[y][z] = h[y] /\ h[y] \in Int
      OBVIOUS
    <3> HIDE DEF col
    <3>3. Summable(col[y], U)
      BY <1>2, SubSummable
    <3> HIDE DEF h
    <3> QED BY <3>2, <3>3, OverAdd
  <2>4. Summable(p, T) /\ Summable(h, T)
    BY <1>1, <1>4
  <2>5. Over(row, U) = Over(p, T)
    BY <1>6
  <2> HIDE DEF p, q, h, row, V
  <2>6. Over(q, T) = Over(p, T) + Over(h, T)
    BY <2>3, <2>4, OverPlus
  <2>7. Over(row, V) = Over(q, T)
    BY <2>2, <2>5, <2>6
  <2> QED BY <2>7 DEF q, V
<1>7. S \in G
  <2> HIDE DEF G
  <2> QED BY <1>5, <1>6, FiniteInduction
<1>9. Summable(part(S), T)
  <2>1. S \in SUBSET S
    OBVIOUS
  <2> HIDE DEF part
  <2> QED BY <1>4, <2>1
<1>10. row = RowSums(f, S, T) /\ part(S) = ColumnSums(f, S, T)
  BY DEF RowSums, ColumnSums
<1>11. Over(row, S) = Over(part(S), T)
  BY <1>7
<1> HIDE DEF row, part
<1> QED BY <1>3, <1>9, <1>10, <1>11

----------------------------------------------------------------------------
\* Lines and their charges.
Worth(charges) == [i \in DOMAIN charges |-> ValueOf(charges[i].res, 0)]

\* An amount within the range or an error is a result.
LEMMA WithinType ==
  ASSUME NEW n, NEW e \in Errors PROVE Within(n, e) \in Result
BY ResultIs, HeldInRange DEF Within, InRange

\* So is a checked product.
LEMMA TimesType ==
  ASSUME NEW a \in Result, NEW n PROVE Times(a, n) \in Result
<1>1. "overflow" \in Errors
  BY DEF Errors
<1> QED BY <1>1, WithinType DEF Times

\* The effective fringes are applied fringes.
LEMMA FringesApplied ==
  ASSUME NEW b, BudgetType(b), NEW d \in DOMAIN b.details
  PROVE  EffectiveFringes(b, d) \in Applications
<1>1. b.applied \in Applications
  BY DEF BudgetType
<1>2. b.details[d].fringes \in Applications
  BY DEF BudgetType, Map, DetailType
<1> DEFINE account == At(b.accounts, b.details[d].account, None)
           category == IF account = None THEN None ELSE At(b.categories, account.category, None)
<1>3. account # None => account.fringes \in Applications
  BY DEF At, BudgetType, Map, AccountType
<1>4. category # None => category.fringes \in Applications
  BY DEF At, BudgetType, Map, CategoryType
<1>5. <<>> \in Applications
  BY DEF Applications
<1>6. \A s, t \in Applications : s \o t \in Applications
  BY DEF Applications
<1> DEFINE c == IF category = None THEN <<>> ELSE category.fringes
           a == IF account = None THEN <<>> ELSE account.fringes
<1>7. c \in Applications /\ a \in Applications
  BY <1>3, <1>4, <1>5
<1>8. EffectiveFringes(b, d) = b.applied \o c \o a \o b.details[d].fringes
  BY DEF EffectiveFringes
<1> HIDE DEF a, c
<1> QED BY <1>1, <1>2, <1>6, <1>7, <1>8

\* A fringe comes to an amount only if it is there.
LEMMA FringeAmountType ==
  ASSUME NEW b, BudgetType(b), NEW applied, NEW base
  PROVE  /\ FringeAmount(b, applied, base) \in Result
         /\ IsOk(FringeAmount(b, applied, base)) => applied.fringe \in DOMAIN b.fringes
<1>0. {"unknown", "zero", "overflow"} \subseteq Errors
  BY DEF Errors
<1>1. CASE applied.fringe \notin DOMAIN b.fringes
  BY <1>0, <1>1, ResultIs DEF FringeAmount
<1>2. CASE applied.fringe \in DOMAIN b.fringes
  <2> DEFINE f == b.fringes[applied.fringe]
             rate == IF applied.rate = None THEN f.rate ELSE applied.rate
             part == IF f.cutoff # None /\ base > f.cutoff THEN f.cutoff ELSE base
             raw == CASE f.kind = "flat" -> Times(Ok(rate), At(b.currencies, f.currency, 1))
                      [] f.kind = "percent" /\ f.mode = "additive" ->
                           Within((part * rate) \div One, "overflow")
                      [] f.kind = "percent" /\ f.mode = "grossup" /\ rate >= One -> Err("zero")
                      [] OTHER -> Within((part * One) \div (One - rate) - part, "overflow")
  <2>1. f \in FringeType
    BY <1>2 DEF BudgetType, Map
  <2>2. f.cap \in Optional(Decimal) /\ f.kind \in {"flat", "percent"}
    BY <2>1 DEF FringeType
  <2>3. FringeAmount(b, applied, base) = IF IsOk(raw) /\ f.cap # None /\ raw.val > f.cap THEN Ok(f.cap) ELSE raw
    BY <1>2 DEF FringeAmount
  <2>4. \/ raw = Times(Ok(rate), At(b.currencies, f.currency, 1))
        \/ raw = Within((part * rate) \div One, "overflow")
        \/ raw = Err("zero")
        \/ raw = Within((part * One) \div (One - rate) - part, "overflow")
    <3> HIDE DEF f, rate, part
    <3> QED OBVIOUS
  <2>5. \A n : Within(n, "overflow") \in Result
    BY <1>0, WithinType
  <2>6. \A n : Times(Ok(rate), n) \in Result
    BY <2>5 DEF Times, Ok, IsOk
  <2> HIDE DEF f, raw, rate, part
  <2>7. raw \in Result
    BY <1>0, <2>4, <2>5, <2>6, ResultIs
  <2> QED BY <1>2, <2>2, <2>3, <2>7, ResultIs DEF Optional
<1> QED BY <1>1, <1>2

\* Some charges: each has a result, and those that are made are of known fringes.
Charges(charges, F) ==
  /\ IsFiniteSet(DOMAIN charges)
  /\ \A i \in DOMAIN charges :
       /\ charges[i].res \in Result
       /\ IsCharged(charges[i]) => charges[i].fringe \in F

\* The charges of a line can be summed; one in error counts as zero.
LEMMA WorthSums ==
  ASSUME NEW charges, NEW F, Charges(charges, F)
  PROVE  /\ Summable(Worth(charges), DOMAIN charges)
         /\ \A i \in DOMAIN charges :
              /\ Worth(charges)[i] \in Int
              /\ IsCharged(charges[i]) => Worth(charges)[i] = charges[i].res.val
              /\ ~ IsCharged(charges[i]) => Worth(charges)[i] = 0
         /\ Magnitude(Worth(charges)) = Mass(Worth(charges), DOMAIN charges)
<1>1. \A i \in DOMAIN charges :
        /\ Worth(charges)[i] \in Int
        /\ IsCharged(charges[i]) => Worth(charges)[i] = charges[i].res.val
        /\ ~ IsCharged(charges[i]) => Worth(charges)[i] = 0
  <2>1. \A i \in DOMAIN charges : charges[i].res.val \in Int
    BY ResultIs DEF Charges
  <2> QED BY <2>1 DEF Worth, ValueOf, IsCharged
<1>2. Summable(Worth(charges), DOMAIN charges)
  BY <1>1 DEF Summable, Charges
<1>3. Worth(charges) = [i \in DOMAIN charges |-> Worth(charges)[i]]
  BY DEF Worth
<1>4. Magnitude(Worth(charges)) = Mass(Worth(charges), DOMAIN charges)
  BY <1>3, MagnitudeIs
<1> QED BY <1>1, <1>2, <1>4

\* What charges come to may be told by any attribute of their fringes.
Sharing(share, charges, F, key, K) ==
  \A k \in K : share[k] = ChargesOf(charges, {f \in F : key[f] = k})

\* Charges shared out by a key of their fringe add up to all charges.
LEMMA ChargesByKey ==
  ASSUME NEW charges, NEW F, Charges(charges, F), NEW key, NEW K, IsFiniteSet(K),
         \A f \in F : key[f] \in K,
         NEW share, Sharing(share, charges, F, key, K)
  PROVE  LET N == DOMAIN charges
             h == [k \in K |-> Over(share[k], N)]
         IN  /\ \A k \in K : /\ share[k] = [i \in N |-> share[k][i]]
                             /\ Summable(share[k], N)
                             /\ Mass(share[k], N) <= Mass(Worth(charges), N)
             /\ Summable(h, K) /\ Over(h, K) = Over(Worth(charges), N)
             /\ Mass(h, K) <= Mass(Worth(charges), N)
<1> DEFINE N == DOMAIN charges
           w == Worth(charges)
           made == {i \in N : IsCharged(charges[i])}
           owner == [i \in made |-> key[charges[i].fringe]]
           Of(k) == {i \in made : owner[i] = k}
           h == [k \in K |-> Over(share[k], N)]
<1>1. /\ Summable(w, N)
      /\ \A i \in N : /\ w[i] \in Int
                      /\ IsCharged(charges[i]) => w[i] = charges[i].res.val
                      /\ ~ IsCharged(charges[i]) => w[i] = 0
  BY WorthSums
<1> HIDE DEF w
<1>2. \A i \in made : charges[i].fringe \in F /\ owner[i] \in K
  BY DEF Charges
<1>3. ASSUME NEW k \in K
      PROVE  /\ share[k] = [i \in N |-> share[k][i]]
             /\ \A i \in N : /\ i \in Of(k) => share[k][i] = w[i]
                             /\ i \notin Of(k) => share[k][i] = 0
  <2> DEFINE s == ChargesOf(charges, {f \in F : key[f] = k})
  <2>1. share[k] = s
    BY DEF Sharing
  <2>2. s = [i \in N |-> s[i]]
    BY DEF ChargesOf
  <2>3. \A i \in N : s[i] = IF IsCharged(charges[i]) /\ charges[i].fringe \in F /\ key[charges[i].fringe] = k
                            THEN charges[i].res.val ELSE 0
    BY DEF ChargesOf
  <2>4. \A i \in N : i \in Of(k) <=> /\ IsCharged(charges[i]) /\ charges[i].fringe \in F
                                     /\ key[charges[i].fringe] = k
    BY <1>2
  <2> HIDE DEF s, Of
  <2> QED BY <1>1, <2>1, <2>2, <2>3, <2>4
<1>4. made \in SUBSET N
  OBVIOUS
<1>5. \A k \in K : Of(k) \in SUBSET N /\ Of(k) \in SUBSET made
  OBVIOUS
<1>6. ASSUME NEW k \in K
      PROVE  /\ Summable(share[k], N)
             /\ Mass(share[k], N) <= Mass(w, N)
             /\ h[k] = Over(w, Of(k))
  <2> DEFINE s == share[k]
             S == Of(k)
  <2>1. \A i \in N : (i \in S => s[i] = w[i]) /\ (i \notin S => s[i] = 0)
    BY <1>3
  <2>2. S \in SUBSET N
    BY <1>5
  <2>3. h[k] = Over(s, N)
    OBVIOUS
  <2> HIDE DEF s, S, N, h
  <2>4. Summable(s, N)
    BY <1>1, <2>1 DEF Summable
  <2>5. Over(s, N) = Over(s, S)
    <3>1. \A i \in N \ S : s[i] = 0
      BY <2>1
    <3> QED BY <2>2, <2>4, <3>1, OverSupport
  <2>6. Over(s, S) = Over(w, S)
    BY <2>1, <2>2, OverSame
  <2>7. Mass(s, N) <= 1 * Mass(w, N) /\ Mass(w, N) \in Nat
    <3>1. \A i \in N : Abs(s[i]) <= 1 * Abs(w[i])
      BY <1>1, <2>1, AbsType DEF Abs
    <3>2. 1 \in Nat
      OBVIOUS
    <3> QED BY <1>1, <2>4, <3>1, <3>2, MassWithin
  <2> QED BY <2>3, <2>4, <2>5, <2>6, <2>7 DEF s, S
<1>7. Summable(w, made) /\ Mass(w, made) <= Mass(w, N) /\ Mass(w, made) \in Nat /\ Mass(w, N) \in Nat
  BY <1>1, <1>4, MassMonotone
<1>8. Over(w, made) = Over(w, N)
  <2>1. \A i \in N \ made : w[i] = 0
    BY <1>1
  <2> QED BY <1>1, <1>4, <2>1, OverSupport
<1> DEFINE g == [k \in K |-> Over(w, {i \in made : owner[i] = k})]
<1>9. Summable(g, K) /\ Over(g, K) = Over(w, made) /\ Mass(g, K) <= Mass(w, made)
  <2> HIDE DEF made, owner
  <2> QED BY <1>2, <1>7, MassByKey
<1>10. h = g
  <2> HIDE DEF made, owner
  <2> QED BY <1>6
<1> HIDE DEF g
<1>11. Mass(g, K) \in Nat
  BY <1>9, MassType
<1>12. Mass(h, K) <= Mass(w, N)
  BY <1>7, <1>9, <1>10, <1>11
<1>13. Summable(h, K) /\ Over(h, K) = Over(w, N)
  BY <1>8, <1>9, <1>10
<1> QED BY <1>3, <1>6, <1>12, <1>13 DEF w

----------------------------------------------------------------------------
\* The results of lines are those of eval_detail on the resolved globals.
LEMMA DetailsAre ==
  ASSUME NEW b
  PROVE  Evaluate(b).details = [d \in DOMAIN b.details |-> EvalDetail(b, ResolveGlobals(b.globals), d)]
BY DEF Evaluate, EvaluateWith, EvaluateLines, CalcResult

\* The fringes of a line are charges.
LEMMA FringesOfType ==
  ASSUME NEW b, BudgetType(b), NEW d \in DOMAIN b.details, NEW base
  PROVE  /\ Charges(FringesOf(b, d, base), DOMAIN b.fringes)
         /\ \E n \in Nat : DOMAIN FringesOf(b, d, base) = 1 .. n
         /\ FringesOf(b, d, base) = [i \in DOMAIN FringesOf(b, d, base) |-> FringesOf(b, d, base)[i]]
<1> DEFINE fringes == EffectiveFringes(b, d)
           charges == FringesOf(b, d, base)
<1>1. fringes \in Applications
  BY FringesApplied
<1>2. Len(fringes) \in Nat /\ DOMAIN fringes = 1 .. Len(fringes)
  BY <1>1 DEF Applications
<1> HIDE DEF fringes
<1>3. charges = [i \in DOMAIN fringes |->
                   [fringe |-> fringes[i].fringe, res |-> FringeAmount(b, fringes[i], base)]]
  BY DEF FringesOf, Charged, fringes
<1> HIDE DEF charges
<1>4. IsFiniteSet(DOMAIN charges)
  <2>1. \A n \in Nat : IsFiniteSet(1 .. n)
    BY FS_Interval
  <2> QED BY <1>2, <1>3, <2>1
<1>5. \A i \in DOMAIN charges :
        /\ charges[i].res \in Result
        /\ IsCharged(charges[i]) => charges[i].fringe \in DOMAIN b.fringes
  BY <1>3, FringeAmountType DEF IsCharged
<1> QED BY <1>2, <1>3, <1>4, <1>5 DEF charges, Charges

\* What evaluate makes of a line.
LEMMA LineIs ==
  ASSUME NEW b, BudgetType(b), NEW d \in DOMAIN b.details
  PROVE  LET calc == Evaluate(b).details[d]
         IN  /\ calc.subtotal \in Decimal /\ calc.subtotal \in Int
             /\ calc.charges = FringesOf(b, d, calc.subtotal)
             /\ calc.fringes = SatSum(Worth(calc.charges))
             /\ calc.line = SatAdd(calc.subtotal, calc.fringes)
             /\ calc.included = Included(b, d)
<1> DEFINE values == ResolveGlobals(b.globals)
           line == b.details[d]
           cells == [field \in {"amount", "multiplier", "rate"} |-> Eval(line[field], values)]
           product == Product(b, line, cells)
           calc == Evaluate(b).details[d]
<1>1. calc = DetailOn(b, d, cells, product)
  BY DetailsAre DEF EvalDetail, DetailWith
<1>2. Known(values)
  BY BudgetGlobals, ResolveRight DEF Known
<1>3. line \in DetailType(b)
  BY DEF BudgetType, Map
<1>4. cells.amount \in Result /\ cells.multiplier \in Result /\ cells.rate \in Result
  <2>1. line["amount"] \in Formula /\ line["multiplier"] \in Formula /\ line["rate"] \in Formula
    BY <1>3 DEF DetailType
  <2> HIDE DEF line, values
  <2> QED BY <1>2, <2>1, EvalType
<1>5. product \in Result
  <2>1. ValueOf(cells.amount, 0) \in Decimal
    BY <1>4, ResultIs, DepthAssumption DEF ValueOf, Decimal
  <2> HIDE DEF cells
  <2>2. Ok(ValueOf(cells.amount, 0)) \in Result
    BY <2>1, ResultIs
  <2> QED BY <2>2, TimesType DEF Product
<1>6. product.val \in Decimal /\ product.val \in Int
  BY <1>5, ResultIs
<1> HIDE DEF product, cells
<1>7. /\ calc.subtotal = product.val
      /\ calc.charges = FringesOf(b, d, product.val)
      /\ calc.included = Included(b, d)
      /\ calc.fringes = SatSum(Worth(calc.charges))
      /\ calc.line = SatAdd(calc.subtotal, calc.fringes)
  BY <1>1 DEF DetailOn, DetailCalc, Worth
<1> QED BY <1>6, <1>7

\* The lines of a result as tables.
Subs(r) == [d \in DOMAIN r.details |-> r.details[d].subtotal]
Frgs(r) == [d \in DOMAIN r.details |-> r.details[d].fringes]
Wholes(r) == [d \in DOMAIN r.details |-> r.details[d].subtotal + r.details[d].fringes]
Vols(r) == [d \in DOMAIN r.details |-> LineVolume(r.details[d])]
ChargeMass(r, d) == Mass(Worth(r.details[d].charges), DOMAIN r.details[d].charges)
Counted(r) == {d \in DOMAIN r.details : r.details[d].included}

\* Every line has a result.
LEMMA ResultLines ==
  ASSUME NEW b, BudgetType(b), NEW r, r = Evaluate(b)
  PROVE  /\ DOMAIN r.details = DOMAIN b.details
         /\ IsFiniteSet(DOMAIN b.details) /\ DOMAIN b.details \in SUBSET Range(Lines)
BY DetailsAre DEF BudgetType, Map

\* The volume of a budget is that of its lines.
LEMMA VolsAre ==
  ASSUME NEW b, BudgetType(b), NEW r, r = Evaluate(b)
  PROVE  LET D == DOMAIN b.details
         IN  /\ Summable(Vols(r), D) /\ Over(Vols(r), D) = Volume(r) /\ Volume(r) \in Nat
             /\ Mass(Vols(r), D) = Volume(r)
             /\ \A d \in D : /\ Vols(r)[d] \in Nat /\ ChargeMass(r, d) \in Nat
                             /\ Vols(r)[d] = Abs(r.details[d].subtotal) + ChargeMass(r, d)
                             /\ Vols(r)[d] <= Volume(r)
<1> DEFINE D == DOMAIN b.details
           v == Vols(r)
<1>1. DOMAIN r.details = D /\ IsFiniteSet(D)
  BY ResultLines
<1>2. ASSUME NEW d \in D
      PROVE  /\ v[d] \in Nat /\ ChargeMass(r, d) \in Nat
             /\ v[d] = Abs(r.details[d].subtotal) + ChargeMass(r, d)
  <2> DEFINE charges == r.details[d].charges
  <2>1. r.details[d].subtotal \in Int /\ charges = FringesOf(b, d, r.details[d].subtotal)
    BY LineIs
  <2>2. Charges(charges, DOMAIN b.fringes)
    BY <2>1, FringesOfType
  <2> HIDE DEF charges
  <2>3. Summable(Worth(charges), DOMAIN charges)
        /\ Magnitude(Worth(charges)) = Mass(Worth(charges), DOMAIN charges)
    BY <2>2, WorthSums
  <2>4. Mass(Worth(charges), DOMAIN charges) \in Nat
    BY <2>3, MassType
  <2>5. v[d] = Abs(r.details[d].subtotal) + Magnitude(Worth(charges))
    BY <1>1 DEF Vols, LineVolume, Worth, charges
  <2>6. Abs(r.details[d].subtotal) \in Nat
    BY <2>1, AbsType
  <2> QED BY <2>3, <2>4, <2>5, <2>6 DEF ChargeMass, charges
<1>3. v = [d \in D |-> v[d]] /\ Volume(r) = Sum(v)
  BY <1>1 DEF Vols, Volume
<1> HIDE DEF v, D
<1>4. Summable(v, D)
  BY <1>1, <1>2 DEF Summable
<1>5. Over(v, D) = Volume(r)
  BY <1>3, SumOver
<1>6. Mass(v, D) = Over(v, D)
  <2>1. \A d \in D : [x \in D |-> Abs(v[x])][d] = v[d]
    BY <1>2 DEF Abs
  <2> QED BY <2>1, OverSame DEF Mass
<1>7. Mass(v, D) \in Nat
  BY <1>4, MassType
<1>8. \A d \in D : v[d] <= Volume(r)
  <2>1. SUFFICES ASSUME NEW d \in D PROVE v[d] <= Volume(r)
    OBVIOUS
  <2>2. Abs(v[d]) <= Mass(v, D) /\ v[d] \in Nat
    BY <1>2, <1>4, MassElement
  <2>3. Abs(v[d]) = v[d]
    BY <2>2 DEF Abs
  <2> QED BY <1>5, <1>6, <2>2, <2>3
<1> QED BY <1>2, <1>4, <1>5, <1>6, <1>7, <1>8 DEF v, D

\* A sum of multiples.
Multiple(x, y, n) == x = y * n
LEMMA OverScale ==
  ASSUME NEW f, NEW g, NEW S, Summable(f, S), NEW n \in Int, \A x \in S : Multiple(g[x], f[x], n)
  PROVE  Summable(g, S) /\ Multiple(Over(g, S), Over(f, S), n)
<1> DEFINE G == {T \in SUBSET S : Over(g, T) = Over(f, T) * n}
<1>1. Summable(g, S)
  BY DEF Summable, Multiple
<1>2. {} \in G
  <2>1. 0 * n = 0
    OBVIOUS
  <2> QED BY <2>1, OverEmpty
<1>3. ASSUME NEW T \in SUBSET S, NEW x \in S \ T, T \in G PROVE T \union {x} \in G
  <2>1. Summable(f, T) /\ Summable(g, T) /\ f[x] \in Int /\ g[x] = f[x] * n /\ g[x] \in Int
    BY <1>1, SubSummable DEF Summable, Multiple
  <2>2. /\ Over(f, T \union {x}) = Over(f, T) + f[x] /\ Over(f, T) \in Int
        /\ Over(g, T \union {x}) = Over(g, T) + g[x]
    BY <2>1, OverAdd
  <2>3. \A a, c \in Int : (a + c) * n = a * n + c * n
    OBVIOUS
  <2>4. Over(g, T) = Over(f, T) * n
    BY <1>3
  <2>5. Over(g, T \union {x}) = Over(f, T \union {x}) * n
    BY <2>1, <2>2, <2>3, <2>4
  <2> QED BY <2>5
<1>4. S \in G
  <2>1. IsFiniteSet(S)
    BY DEF Summable
  <2> HIDE DEF G
  <2> QED BY <1>2, <1>3, <2>1, FiniteInduction
<1> QED BY <1>1, <1>4 DEF Multiple

\* Half of the last place for each charge of a line.
Roughs(r, q) ==
  [d \in DOMAIN r.details |-> Over(Each(DOMAIN r.details[d].charges, q), DOMAIN r.details[d].charges)]
All(S, q) == Over(Each(S, q), S)

\* A budget whose sums fit the digits at a place, with its result and half of the place.
Fitting(b, r, place, q) ==
  /\ BudgetType(b) /\ r = Evaluate(b)
  /\ place \in Places /\ q = place \div 2 /\ Extent(b, r, place) <= place * Digits

\* Each charge of a line can be half of a last place off.
LEMMA RoughIs ==
  ASSUME NEW b, BudgetType(b), NEW r, r = Evaluate(b), NEW q \in Nat, NEW d \in DOMAIN b.details
  PROVE  LET N == DOMAIN r.details[d].charges
         IN  /\ Charges(r.details[d].charges, DOMAIN b.fringes)
             /\ N = 1 .. Len(r.details[d].charges) /\ Len(r.details[d].charges) \in Nat /\ IsFiniteSet(N)
             /\ Roughs(r, q)[d] = All(N, q) /\ Roughs(r, q)[d] \in Nat
             /\ Multiple(Roughs(r, q)[d], Len(r.details[d].charges), q)
<1> DEFINE charges == r.details[d].charges
           N == DOMAIN charges
<1>1. r.details[d].charges = FringesOf(b, d, r.details[d].subtotal)
  BY LineIs
<1>2. Charges(charges, DOMAIN b.fringes) /\ IsFiniteSet(N)
  BY <1>1, FringesOfType DEF Charges
<1>3. PICK n \in Nat : N = 1 .. n
  BY <1>1, FringesOfType
<1>4. DOMAIN r.details = DOMAIN b.details
  BY ResultLines
<1>5. Roughs(r, q)[d] = All(N, q)
  BY <1>4 DEF Roughs, All
<1>6. charges = [i \in N |-> charges[i]]
  BY <1>1, FringesOfType
<1> HIDE DEF N, charges
<1>7. Len(charges) = n
  BY <1>3, <1>6
<1>8. Cardinality(N) = n
  BY <1>3, FS_Interval
<1>9. All(N, q) \in Nat /\ All(N, q) = Cardinality(N) * q
  <2>1. N \in SUBSET N
    OBVIOUS
  <2> QED BY <1>2, <2>1, EachType DEF All
<1>10. Multiple(All(N, q), Len(charges), q)
  BY <1>7, <1>8, <1>9 DEF Multiple
<1> QED BY <1>2, <1>3, <1>5, <1>7, <1>9, <1>10 DEF N, charges

\* A result and half of a place.
Placed(b, r, place, q) ==
  BudgetType(b) /\ r = Evaluate(b) /\ place \in Places /\ q = place \div 2

\* The slack, as what every charge, line, category and account adds to it.
LEMMA SlackIs ==
  ASSUME NEW b, NEW r, NEW place, NEW q, Placed(b, r, place, q)
  PROVE  LET D == DOMAIN b.details
             e == Roughs(r, q)
             K == Over(e, D)
             N == All(D, q)
             C == All(DOMAIN b.categories, q)
             A == All(DOMAIN b.accounts, q)
         IN  /\ q \in Nat /\ place \in Nat /\ place * Digits \in Nat /\ place * Digits <= Largest
             /\ Largest \in Nat /\ Cuts(Clamp, place * Digits, q) /\ Cuts(Unchecked, place * Digits, q)
             /\ Summable(e, D) /\ \A d \in D : e[d] \in Nat /\ e[d] <= K
             /\ K \in Nat /\ N \in Nat /\ C \in Nat /\ A \in Nat /\ Volume(r) \in Nat
             /\ Slack(b, r, place) = 2 * K + 4 * N + 4 * C + 2 * A + 4 * q
<1> DEFINE D == DOMAIN b.details
           e == Roughs(r, q)
           k == [d \in D |-> Len(r.details[d].charges)]
           two == [d \in D |-> 2]
           f == [d \in D |-> Len(r.details[d].charges) + 2]
           c == Cardinality(DOMAIN b.categories)
           a == Cardinality(DOMAIN b.accounts)
<1>1. /\ q \in Nat /\ place \in Nat /\ place * Digits \in Nat /\ place * Digits <= Largest
      /\ Largest \in Nat
  BY PlaceIsNat DEF Placed
<1>2. Cuts(Clamp, place * Digits, q) /\ Cuts(Unchecked, place * Digits, q)
  BY ClampFits DEF Placed
<1>3. DOMAIN r.details = D /\ IsFiniteSet(D)
  BY ResultLines DEF Placed
<1>4. \A d \in D : e[d] \in Nat /\ Len(r.details[d].charges) \in Nat /\ Multiple(e[d], k[d], q)
  <2>1. \A d \in D : /\ e[d] \in Nat /\ Len(r.details[d].charges) \in Nat
                      /\ Multiple(e[d], Len(r.details[d].charges), q)
    <3>1. r = Evaluate(b) /\ BudgetType(b)
      BY DEF Placed
    <3> HIDE DEF e
    <3> QED BY <1>1, <3>1, RoughIs DEF e
  <2>2. \A d \in D : k[d] = Len(r.details[d].charges)
    OBVIOUS
  <2> HIDE DEF k, e
  <2> QED BY <2>1, <2>2
<1>5. /\ IsFiniteSet(DOMAIN b.categories) /\ IsFiniteSet(DOMAIN b.accounts)
      /\ Volume(r) \in Nat
  BY VolsAre DEF Placed, BudgetType, Map
<1>6. /\ All(D, q) \in Nat /\ All(D, q) = Cardinality(D) * q /\ Cardinality(D) \in Nat
      /\ All(DOMAIN b.categories, q) \in Nat /\ All(DOMAIN b.categories, q) = c * q /\ c \in Nat
      /\ All(DOMAIN b.accounts, q) \in Nat /\ All(DOMAIN b.accounts, q) = a * q /\ a \in Nat
  <2>1. \A S : IsFiniteSet(S) => /\ All(S, q) \in Nat /\ All(S, q) = Cardinality(S) * q
                                /\ Cardinality(S) \in Nat
    <3>1. SUFFICES ASSUME NEW S, IsFiniteSet(S)
                   PROVE  /\ All(S, q) \in Nat /\ All(S, q) = Cardinality(S) * q
                          /\ Cardinality(S) \in Nat
      OBVIOUS
    <3>2. S \in SUBSET S
      OBVIOUS
    <3> QED BY <1>1, <3>1, <3>2, EachType DEF All
  <2> QED BY <1>3, <1>5, <2>1
<1>7. /\ Summable(e, D) /\ Over(e, D) \in Nat
      /\ \A d \in D : e[d] <= Over(e, D)
  BY <1>3, <1>4, OverNat
<1>8. Additions(b, r) = Sum(f) + 2 * c + a + 2
  BY <1>3 DEF Additions
<1>9. /\ \A d \in D : k[d] \in Int /\ two[d] = 2 /\ f[d] = k[d] + two[d]
      /\ f = [d \in D |-> f[d]]
  BY <1>4
<1> HIDE DEF k, two, f, e, D, c, a
<1>10. Summable(k, D)
  BY <1>3, <1>9 DEF Summable
<1>11. Summable(two, D) /\ Over(two, D) = Cardinality(D) * 2
  <2>1. 2 \in Int /\ \A d \in D : two[d] = 2
    BY <1>9
  <2> QED BY <1>3, <2>1, OverEach
<1>12. Sum(f) = Over(k, D) + Cardinality(D) * 2
  BY <1>9, <1>10, <1>11, OverPlus, SumOver
<1> DEFINE x == Over(k, D)
           n == Cardinality(D)
           h == Over(e, D)
           i == All(D, q)
           j == All(DOMAIN b.categories, q)
           l == All(DOMAIN b.accounts, q)
<1>13. /\ x \in Int /\ h = x * q /\ n \in Int /\ i = n * q /\ c \in Int /\ j = c * q
       /\ a \in Int /\ l = a * q
  <2>1. q \in Int /\ \A d \in D : Multiple(e[d], k[d], q)
    BY <1>1, <1>4
  <2>2. Multiple(Over(e, D), Over(k, D), q) /\ Over(k, D) \in Int
    BY <1>10, <2>1, OverScale, OverType
  <2> QED BY <1>6, <2>2 DEF Multiple
<1>14. Slack(b, r, place) = 2 * ((x + n * 2) + 2 * c + a + 2) * q
  BY <1>8, <1>12 DEF Slack, Placed
<1> HIDE DEF x, n, h, i, j, l
<1>15. Slack(b, r, place) = 2 * h + 4 * i + 4 * j + 2 * l + 4 * q
  <2>1. \A y, z \in Int : (y + z) * q = y * q + z * q /\ (2 * y) * q = 2 * (y * q)
    BY <1>1
  <2>2. (x + n * 2) + 2 * c + a + 2 = x + (2 * n + (2 * c + (a + 2)))
    BY <1>13
  <2>3. /\ (a + 2) * q = l + 2 * q /\ (2 * c) * q = 2 * j /\ (2 * n) * q = 2 * i
        /\ a + 2 \in Int /\ 2 * c \in Int /\ 2 * n \in Int
    BY <1>1, <1>13
  <2>4. (2 * c + (a + 2)) * q = 2 * j + (l + 2 * q) /\ 2 * c + (a + 2) \in Int
    <3>1. (2 * c + (a + 2)) * q = (2 * c) * q + (a + 2) * q
      BY <1>1, <1>13
    <3> QED BY <2>3, <3>1
  <2>5. (2 * n + (2 * c + (a + 2))) * q = 2 * i + (2 * j + (l + 2 * q)) /\ 2 * n + (2 * c + (a + 2)) \in Int
    <3>1. (2 * n + (2 * c + (a + 2))) * q = (2 * n) * q + (2 * c + (a + 2)) * q
      BY <1>1, <1>13
    <3> QED BY <2>3, <2>4, <3>1
  <2>6. (x + (2 * n + (2 * c + (a + 2)))) * q = h + (2 * i + (2 * j + (l + 2 * q)))
    BY <1>13, <2>1, <2>5
  <2> DEFINE u == (x + n * 2) + 2 * c + a + 2
  <2>7. u \in Int /\ u * q = h + (2 * i + (2 * j + (l + 2 * q)))
    BY <1>13, <2>2, <2>6
  <2> HIDE DEF u
  <2>8. 2 * u * q = 2 * (u * q)
    BY <1>1, <2>7
  <2>9. h \in Int /\ i \in Int /\ j \in Int /\ l \in Int
    BY <1>1, <1>13
  <2>10. Slack(b, r, place) = 2 * (h + (2 * i + (2 * j + (l + 2 * q))))
    BY <1>14, <2>7, <2>8 DEF u
  <2> HIDE DEF u
  <2> QED BY <1>1, <2>9, <2>10
<1> QED BY <1>1, <1>2, <1>4, <1>5, <1>6, <1>7, <1>15 DEF e, D, h, i, j, l

\* And there is room for all of it.
LEMMA RoomIs ==
  ASSUME NEW b, NEW r, NEW place, NEW q, Fitting(b, r, place, q)
  PROVE  LET D == DOMAIN b.details
             e == Roughs(r, q)
             K == Over(e, D)
             N == All(D, q)
             C == All(DOMAIN b.categories, q)
             A == All(DOMAIN b.accounts, q)
         IN  /\ q \in Nat /\ place \in Nat /\ place * Digits \in Nat /\ place * Digits <= Largest
             /\ Largest \in Nat /\ Cuts(Clamp, place * Digits, q) /\ Cuts(Unchecked, place * Digits, q)
             /\ Summable(e, D) /\ \A d \in D : e[d] \in Nat /\ e[d] <= K
             /\ K \in Nat /\ N \in Nat /\ C \in Nat /\ A \in Nat /\ Volume(r) \in Nat
             /\ Slack(b, r, place) = 2 * K + 4 * N + 4 * C + 2 * A + 4 * q
             /\ Volume(r) + (2 * K + 4 * N + 4 * C + 2 * A + 4 * q) <= place * Digits
<1>1. Placed(b, r, place, q)
  BY DEF Fitting, Placed
<1>2. Volume(r) + Slack(b, r, place) <= place * Digits
  BY DEF Fitting, Extent
<1> QED BY <1>1, <1>2, SlackIs

\* A line's fringes are the sum of its charges, and the line is both together, up to
\* rounding.
LEMMA LineNear ==
  ASSUME NEW b, NEW r, NEW place, NEW q, Fitting(b, r, place, q), NEW d \in DOMAIN b.details
  PROVE  LET calc == r.details[d]
             e == Roughs(r, q)[d]
         IN  /\ calc.subtotal \in Int /\ calc.fringes \in Int /\ calc.line \in Int
             /\ Abs(calc.fringes - Over(Worth(calc.charges), DOMAIN calc.charges)) <= e
             /\ Over(Worth(calc.charges), DOMAIN calc.charges) \in Int
             /\ Abs(calc.fringes) <= ChargeMass(r, d) + e
             /\ Abs(calc.line - calc.subtotal - calc.fringes) <= q
<1> DEFINE calc == r.details[d]
           charges == calc.charges
           w == Worth(charges)
           N == DOMAIN charges
           e == Roughs(r, q)[d]
           L == place * Digits
<1>1. /\ calc.subtotal \in Int
      /\ calc.fringes = SatSum(w)
      /\ calc.line = SatAdd(calc.subtotal, calc.fringes)
  BY LineIs DEF Fitting
<1>2. /\ q \in Nat /\ L \in Nat /\ Cuts(Clamp, L, q)
      /\ e \in Nat /\ e <= Over(Roughs(r, q), DOMAIN b.details)
      /\ Over(Roughs(r, q), DOMAIN b.details) \in Nat /\ Volume(r) \in Nat
      /\ Volume(r) + 2 * Over(Roughs(r, q), DOMAIN b.details) + 4 * q <= L
  <2> DEFINE K == Over(Roughs(r, q), DOMAIN b.details)
             M == All(DOMAIN b.details, q)
             C == All(DOMAIN b.categories, q)
             A == All(DOMAIN b.accounts, q)
  <2>1. /\ q \in Nat /\ L \in Nat /\ Cuts(Clamp, L, q)
        /\ K \in Nat /\ M \in Nat /\ C \in Nat /\ A \in Nat /\ Volume(r) \in Nat
        /\ Volume(r) + (2 * K + 4 * M + 4 * C + 2 * A + 4 * q) <= L
    BY RoomIs
  <2>2. e \in Nat /\ e <= K
    BY RoomIs
  <2> HIDE DEF K, M, C, A, e, L
  <2> QED BY <2>1, <2>2 DEF K
<1>3. /\ Charges(charges, DOMAIN b.fringes)
      /\ N = 1 .. Len(charges) /\ Len(charges) \in Nat /\ IsFiniteSet(N)
      /\ e = All(N, q)
  <2>1. r = Evaluate(b) /\ BudgetType(b)
    BY DEF Fitting
  <2>2. q \in Nat
    BY <1>2
  <2>3. /\ Charges(r.details[d].charges, DOMAIN b.fringes)
        /\ DOMAIN r.details[d].charges = 1 .. Len(r.details[d].charges)
        /\ Len(r.details[d].charges) \in Nat /\ IsFiniteSet(DOMAIN r.details[d].charges)
        /\ Roughs(r, q)[d] = All(DOMAIN r.details[d].charges, q)
    BY <2>1, <2>2, RoughIs
  <2> QED BY <2>3
<1>4. ChargeMass(r, d) = Mass(w, N)
  BY DEF ChargeMass
<1>5. /\ Vols(r)[d] \in Nat /\ ChargeMass(r, d) \in Nat
      /\ Vols(r)[d] = Abs(calc.subtotal) + ChargeMass(r, d)
      /\ Vols(r)[d] <= Volume(r)
  BY VolsAre DEF Fitting
<1>6. Abs(calc.subtotal) \in Nat
  BY <1>1, AbsType
<1>7. DOMAIN w = N
  BY DEF Worth
<1> HIDE DEF w, calc, charges
<1>8. Summable(w, N)
  BY <1>3, WorthSums DEF w
<1> DEFINE n == Len(charges)
           c == Each(N, q)
           m == Mass(w, N)
           x == calc.subtotal
           y == calc.fringes
           v == Volume(r)
           k == Over(Roughs(r, q), DOMAIN b.details)
<1>9. Abs(x) + m <= v /\ m \in Nat /\ e <= k /\ v + 2 * k + 4 * q <= L
  BY <1>2, <1>4, <1>5
<1>10. \A i \in N : c[i] = q
  BY DEF Each
<1>11. Over(c, N) = e
  BY <1>3 DEF All
<1> HIDE DEF n, c, m, N, e, L, x, y, v, k
<1>12. /\ Abs(x) \in Nat /\ m \in Nat /\ e \in Nat /\ k \in Nat /\ v \in Nat /\ L \in Nat
  BY <1>2, <1>6, <1>9 DEF k, v, x
<1>13. SatSum(w) \in Int /\ Abs(SatSum(w) - Over(w, N)) <= e
  <2>1. m + Over(c, N) <= L
    BY <1>2, <1>9, <1>11, <1>12
  <2>2. n \in Nat /\ N = 1 .. n
    BY <1>3 DEF n
  <2>3. /\ DOMAIN w = 1 .. n /\ Summable(w, 1 .. n) /\ Mass(w, 1 .. n) + Over(c, 1 .. n) <= L
        /\ \A i \in 1 .. n : c[i] \in Nat /\ (w[i] # 0 => q <= c[i])
    BY <1>2, <1>7, <1>8, <1>10, <2>1, <2>2 DEF m
  <2>4. /\ Accumulated(w, Clamp) \in Int
        /\ Abs(Accumulated(w, Clamp) - Over(w, 1 .. n)) <= Over(c, 1 .. n)
    BY <1>2, <2>2, <2>3, AccumulatedNear
  <2> QED BY <1>11, <2>2, <2>4 DEF SatSum
<1>14. Over(w, N) \in Int /\ Abs(Over(w, N)) <= m
  BY <1>8, OverType, MassType DEF m
<1>15. Abs(y) <= m + e /\ y \in Int
  BY <1>1, <1>12, <1>13, <1>14 DEF Abs, y
<1>16. Clamp[x + y] \in Int /\ Abs(Clamp[x + y] - (x + y)) <= q
  <2>1. x \in Int
    BY <1>1 DEF x
  <2>2. x + y \in Int /\ Abs(x + y) <= L
    BY <1>2, <1>9, <1>12, <1>15, <2>1 DEF Abs
  <2> QED BY <1>2, <2>2 DEF Cuts
<1>17. Abs(Clamp[x + y] - x - y) <= q /\ x \in Int
  BY <1>1, <1>15, <1>16 DEF x, Abs
<1> QED BY <1>1, <1>4, <1>13, <1>14, <1>15, <1>16, <1>17 DEF SatAdd, x, y, m, N, e, calc, charges, w

\* The lines and their sums, which leave room for what rounding does to them.
LEMMA LineMasses ==
  ASSUME NEW b, NEW r, NEW place, NEW q, Fitting(b, r, place, q)
  PROVE  LET D == DOMAIN b.details
         IN  /\ IsFiniteSet(D) /\ DOMAIN r.details = D /\ D \in SUBSET Range(Lines)
             /\ Counted(r) \in SUBSET D
             /\ Summable(Subs(r), D) /\ Summable(Frgs(r), D) /\ Summable(Wholes(r), D)
             /\ \A d \in D : /\ Subs(r)[d] \in Int /\ Frgs(r)[d] \in Int
                            /\ Subs(r)[d] = r.details[d].subtotal
                            /\ Frgs(r)[d] = r.details[d].fringes
                            /\ Wholes(r)[d] = Subs(r)[d] + Frgs(r)[d]
                            /\ r.details[d].line \in Int
                            /\ Abs(r.details[d].line - Wholes(r)[d]) <= q
             /\ Mass(Subs(r), D) \in Nat /\ Mass(Frgs(r), D) \in Nat
             /\ Mass(Subs(r), D) + Mass(Frgs(r), D) <= Volume(r) + Over(Roughs(r, q), D)
             /\ Mass(Subs(r), D) + Mass(Frgs(r), D)
                  + (4 * All(D, q) + 4 * All(DOMAIN b.categories, q) + 4 * q) <= place * Digits
<1> DEFINE D == DOMAIN b.details
           s == Subs(r)
           f == Frgs(r)
           w == Wholes(r)
           v == Vols(r)
           e == Roughs(r, q)
<1>1. IsFiniteSet(D) /\ DOMAIN r.details = D /\ D \in SUBSET Range(Lines)
  BY ResultLines DEF Fitting
<1>2. /\ Summable(v, D) /\ Over(v, D) = Volume(r) /\ Volume(r) \in Nat
      /\ \A d \in D : v[d] \in Nat /\ ChargeMass(r, d) \in Nat
                     /\ v[d] = Abs(r.details[d].subtotal) + ChargeMass(r, d)
  BY VolsAre DEF Fitting
<1>r. /\ Summable(e, D) /\ Over(e, D) \in Nat /\ \A d \in D : e[d] \in Nat
      /\ All(D, q) \in Nat /\ All(DOMAIN b.categories, q) \in Nat /\ All(DOMAIN b.accounts, q) \in Nat
      /\ q \in Nat /\ place * Digits \in Nat
      /\ Volume(r) + (2 * Over(e, D) + 4 * All(D, q) + 4 * All(DOMAIN b.categories, q)
                        + 2 * All(DOMAIN b.accounts, q) + 4 * q) <= place * Digits
  BY RoomIs
<1>3. ASSUME NEW d \in D
      PROVE  /\ s[d] \in Int /\ f[d] \in Int /\ w[d] = s[d] + f[d]
             /\ s[d] = r.details[d].subtotal /\ f[d] = r.details[d].fringes
             /\ r.details[d].line \in Int /\ Abs(r.details[d].line - w[d]) <= q
             /\ Abs(s[d]) + Abs(f[d]) <= v[d] + e[d]
  <2>1. s[d] = r.details[d].subtotal /\ f[d] = r.details[d].fringes
        /\ w[d] = r.details[d].subtotal + r.details[d].fringes
    BY <1>1 DEF Subs, Frgs, Wholes
  <2>2. /\ r.details[d].subtotal \in Int /\ r.details[d].fringes \in Int /\ r.details[d].line \in Int
        /\ Abs(r.details[d].fringes) <= ChargeMass(r, d) + e[d]
        /\ Abs(r.details[d].line - r.details[d].subtotal - r.details[d].fringes) <= q
    BY LineNear
  <2>3. v[d] = Abs(r.details[d].subtotal) + ChargeMass(r, d) /\ ChargeMass(r, d) \in Nat
    BY <1>2
  <2>4. Abs(s[d]) \in Nat /\ Abs(f[d]) \in Nat
    BY <2>1, <2>2, AbsType
  <2>5. e[d] \in Nat
    BY <1>r
  <2>6. r.details[d].line - w[d] = r.details[d].line - r.details[d].subtotal - r.details[d].fringes
    BY <2>1, <2>2
  <2> HIDE DEF s, f, w, v, e
  <2> QED BY <2>1, <2>2, <2>3, <2>4, <2>5, <2>6
<1>c. Counted(r) \in SUBSET D
  BY <1>1 DEF Counted
<1> HIDE DEF s, f, w, v, D, e
<1>4. Summable(s, D) /\ Summable(f, D) /\ Summable(w, D)
  <2>1. \A d \in D : w[d] \in Int
    BY <1>3
  <2> QED BY <1>1, <1>3, <2>1 DEF Summable
<1> DEFINE p == [d \in D |-> Abs(s[d])]
           o == [d \in D |-> Abs(f[d])]
           t == [d \in D |-> p[d] + o[d]]
           u == [d \in D |-> v[d] + e[d]]
<1>5. Summable(p, D) /\ Summable(o, D) /\ Mass(s, D) = Over(p, D) /\ Mass(f, D) = Over(o, D)
  BY <1>4, MassSummable DEF Mass
<1>6. Mass(s, D) \in Nat /\ Mass(f, D) \in Nat
  BY <1>4, MassType
<1>7. \A d \in D : t[d] = p[d] + o[d] /\ t[d] <= u[d] /\ t[d] \in Int /\ u[d] = v[d] + e[d] /\ u[d] \in Int
  <2>1. \A d \in D : p[d] \in Int /\ o[d] \in Int
    BY <1>5 DEF Summable
  <2>2. \A d \in D : p[d] + o[d] <= u[d]
    BY <1>3
  <2>3. \A d \in D : t[d] = p[d] + o[d] /\ u[d] = v[d] + e[d]
    OBVIOUS
  <2>4. \A d \in D : v[d] \in Nat /\ e[d] \in Nat
    BY <1>2, <1>r
  <2> HIDE DEF p, o, t, u
  <2> QED BY <2>1, <2>2, <2>3, <2>4
<1> HIDE DEF p, o, t, u
<1>8. Summable(t, D) /\ Summable(u, D)
  BY <1>1, <1>7 DEF Summable
<1>9. Over(t, D) = Over(p, D) + Over(o, D)
  BY <1>5, <1>7, OverPlus
<1>9a. Over(u, D) = Over(v, D) + Over(e, D)
  BY <1>2, <1>r, <1>7, OverPlus
<1>10. Over(t, D) <= Over(u, D)
  BY <1>7, <1>8, OverMonotone
<1>11. Mass(s, D) + Mass(f, D) <= Volume(r) + Over(e, D)
  BY <1>2, <1>5, <1>9, <1>9a, <1>10
<1> DEFINE x == All(D, q)
           y == All(DOMAIN b.categories, q)
           z == All(DOMAIN b.accounts, q)
           L == place * Digits
           k == Over(e, D)
           m == Mass(s, D)
           n == Mass(f, D)
<1>12. /\ x \in Nat /\ y \in Nat /\ z \in Nat /\ L \in Nat /\ k \in Nat /\ m \in Nat /\ n \in Nat
       /\ Volume(r) + (2 * k + 4 * x + 4 * y + 2 * z + 4 * q) <= L
       /\ m + n <= Volume(r) + k
  BY <1>r, <1>6, <1>11 DEF D, e
<1> HIDE DEF x, y, z, L, k, m, n
<1>13. m + n + (4 * x + 4 * y + 4 * q) <= L
  BY <1>2, <1>r, <1>12
<1> QED BY <1>1, <1>3, <1>4, <1>6, <1>11, <1>13, <1>c DEF D, s, f, w, x, y, L, m, n, e

\* How far sums over some of the lines are off.
LEMMA AllOf ==
  ASSUME NEW D, IsFiniteSet(D), NEW q \in Nat, NEW S \in SUBSET D
  PROVE  /\ All(S, q) \in Nat /\ All(D, q) \in Nat /\ All(S, q) <= All(D, q)
         /\ All(S, q) = Over(Each(D, q), S) /\ Summable(Each(D, q), S)
<1>1. D \in SUBSET D
  OBVIOUS
<1> QED BY <1>1, EachType DEF All

\* A rollup is the sum of what its lines amount to, up to rounding.
LEMMA RolledNear ==
  ASSUME NEW b, NEW r, NEW place, NEW q, Fitting(b, r, place, q), NEW S \in SUBSET DOMAIN b.details
  PROVE  LET T == S \intersect Counted(r)
             rolled == Rolled(r.details, S)
         IN  /\ Abs(rolled.subtotal - Over(Subs(r), T)) <= All(T, q)
             /\ Abs(rolled.fringes - Over(Frgs(r), T)) <= All(T, q)
             /\ Abs(rolled.total - Over(Wholes(r), T)) <= 2 * All(T, q) + q
             /\ rolled.subtotal \in Int /\ rolled.fringes \in Int /\ rolled.total \in Int
             /\ Over(Subs(r), T) \in Int /\ Over(Frgs(r), T) \in Int /\ Over(Wholes(r), T) \in Int
             /\ T \in SUBSET DOMAIN b.details /\ All(T, q) \in Nat
<1> DEFINE D == DOMAIN b.details
           T == S \intersect Counted(r)
           included == {d \in S : r.details[d].included}
           s == Subs(r)
           f == Frgs(r)
           w == Wholes(r)
           cs == [d \in included |-> r.details[d].subtotal]
           cf == [d \in included |-> r.details[d].fringes]
           L == place * Digits
<1>1. /\ IsFiniteSet(D) /\ DOMAIN r.details = D /\ D \in SUBSET Range(Lines)
      /\ Summable(s, D) /\ Summable(f, D) /\ Summable(w, D)
      /\ \A d \in D : /\ s[d] \in Int /\ f[d] \in Int
                     /\ s[d] = r.details[d].subtotal
                     /\ f[d] = r.details[d].fringes
                     /\ w[d] = s[d] + f[d]
      /\ Mass(s, D) \in Nat /\ Mass(f, D) \in Nat
      /\ Mass(s, D) + Mass(f, D) + (4 * All(D, q) + 4 * All(DOMAIN b.categories, q) + 4 * q) <= L
  BY LineMasses
<1>r. q \in Nat /\ L \in Nat /\ All(D, q) \in Nat /\ All(DOMAIN b.categories, q) \in Nat
      /\ place \in Places /\ q = place \div 2 /\ Cuts(Clamp, L, q)
  BY RoomIs DEF Fitting
<1>2. included = T /\ T \in SUBSET D
  BY <1>1 DEF Counted
<1>3. Rolled(r.details, S) = RollupOf(SatSum(InOrder(Lines, cs)), SatSum(InOrder(Lines, cf)))
  BY DEF Rolled
<1>5. cs = [d \in T |-> cs[d]] /\ cf = [d \in T |-> cf[d]]
      /\ \A d \in T : cs[d] = s[d] /\ cf[d] = f[d]
  <2> HIDE DEF s, f
  <2> QED BY <1>1, <1>2
<1> HIDE DEF cs, cf, s, f, w, D, T, L
<1>6. /\ Summable(s, T) /\ Over(s, T) \in Int /\ Mass(s, T) \in Nat /\ Mass(s, T) <= Mass(s, D)
      /\ Summable(f, T) /\ Over(f, T) \in Int /\ Mass(f, T) \in Nat /\ Mass(f, T) <= Mass(f, D)
      /\ Abs(Over(s, T)) <= Mass(s, D) /\ Abs(Over(f, T)) <= Mass(f, D)
  BY <1>1, <1>2, MassMonotone
<1>7. Mass(cs, T) = Mass(s, T) /\ Over(cs, T) = Over(s, T)
      /\ Mass(cf, T) = Mass(f, T) /\ Over(cf, T) = Over(f, T)
  BY <1>5, <1>6, MassAlike
<1> DEFINE t == All(T, q)
           u == All(D, q)
           v == All(DOMAIN b.categories, q)
<1>a. t \in Nat /\ u \in Nat /\ t <= u
  BY <1>1, <1>2, <1>r, AllOf
<1>b. /\ v \in Nat /\ Mass(s, D) + Mass(f, D) + (4 * u + 4 * v + 4 * q) <= L
  BY <1>1, <1>r
<1>c. Over(Each(T, q), T) = t
  BY DEF All
<1> HIDE DEF t, u, v
<1>8. /\ SatSum(InOrder(Lines, cs)) \in Int
      /\ Abs(SatSum(InOrder(Lines, cs)) - Over(s, T)) <= t
  <2>1. T \in SUBSET Range(Lines) /\ \A x \in T : cs[x] \in Int
    BY <1>1, <1>2, <1>5
  <2>2. Mass(cs, T) + Over(Each(T, q), T) <= L
    BY <1>1, <1>6, <1>7, <1>a, <1>b, <1>c, <1>r
  <2> QED BY <1>5, <1>7, <1>c, <1>r, <2>1, <2>2, OrderAssumption, InOrderNear DEF L
<1>9. /\ SatSum(InOrder(Lines, cf)) \in Int
      /\ Abs(SatSum(InOrder(Lines, cf)) - Over(f, T)) <= t
  <2>1. T \in SUBSET Range(Lines) /\ \A x \in T : cf[x] \in Int
    BY <1>1, <1>2, <1>5
  <2>2. Mass(cf, T) + Over(Each(T, q), T) <= L
    BY <1>1, <1>6, <1>7, <1>a, <1>b, <1>c, <1>r
  <2> QED BY <1>5, <1>7, <1>c, <1>r, <2>1, <2>2, OrderAssumption, InOrderNear DEF L
<1>10. Over(w, T) = Over(s, T) + Over(f, T) /\ Over(w, T) \in Int
  <2>1. \A d \in T : w[d] = s[d] + f[d]
    BY <1>1, <1>2
  <2>2. Over(w, T) = Over(s, T) + Over(f, T)
    BY <1>6, <2>1, OverPlus
  <2> QED BY <1>6, <2>2
<1> DEFINE x == SatSum(InOrder(Lines, cs))
           y == SatSum(InOrder(Lines, cf))
           a == Over(s, T)
           c == Over(f, T)
           m == Mass(s, D)
           n == Mass(f, D)
<1>11. /\ x \in Int /\ y \in Int /\ a \in Int /\ c \in Int /\ m \in Nat /\ n \in Nat
       /\ Abs(x - a) <= t /\ Abs(y - c) <= t /\ Abs(a) <= m /\ Abs(c) <= n
       /\ m + n + (4 * u + 4 * v + 4 * q) <= L
  BY <1>1, <1>6, <1>8, <1>9, <1>b
<1> HIDE DEF x, y, a, c, m, n
<1>12. x + y \in Int /\ Abs(x + y) <= L
  BY <1>11, <1>a, <1>b, <1>r DEF Abs
<1>13. Clamp[x + y] \in Int /\ Abs(Clamp[x + y] - (x + y)) <= q
  BY <1>12, <1>r DEF Cuts
<1>14. Abs(Clamp[x + y] - (a + c)) <= 2 * t + q
  BY <1>11, <1>13, <1>a, <1>r DEF Abs
<1> QED BY <1>2, <1>3, <1>8, <1>9, <1>10, <1>11, <1>13, <1>14, <1>a
        DEF RollupOf, SatAdd, s, f, w, D, T, x, y, a, c, t

\* The rollups by a key add up to the whole.
Keyed(r, key, k) == {d \in Counted(r) : key[d] = k}

RollsUp(rolls, b, r, key, K) ==
  /\ DOMAIN rolls = K
  /\ \A k \in K : rolls[k] = Rolled(r.details, {d \in DOMAIN b.details : key[d] = k})

\* A rollup is the sum of its lines, up to rounding.
LEMMA RolledEach ==
  ASSUME NEW b, NEW r, NEW place, NEW q, Fitting(b, r, place, q), NEW key, NEW K,
         NEW rolls, RollsUp(rolls, b, r, key, K), NEW k \in K
  PROVE  /\ rolls[k].total \in Int
         /\ Abs(rolls[k].total - Over(Wholes(r), Keyed(r, key, k))) <= 2 * All(Keyed(r, key, k), q) + q
<1> DEFINE S == {d \in DOMAIN b.details : key[d] = k}
<1>1. S \in SUBSET DOMAIN b.details
  OBVIOUS
<1>2. S \intersect Counted(r) = Keyed(r, key, k)
  <2>1. Counted(r) \in SUBSET DOMAIN b.details
    BY LineMasses
  <2> QED BY <2>1 DEF Keyed
<1>3. rolls[k] = Rolled(r.details, S)
  BY DEF RollsUp
<1> HIDE DEF S
<1>4. LET T == S \intersect Counted(r)
      IN  /\ Rolled(r.details, S).total \in Int
          /\ Abs(Rolled(r.details, S).total - Over(Wholes(r), T)) <= 2 * All(T, q) + q
  BY <1>1, RolledNear
<1> QED BY <1>2, <1>3, <1>4

\* The rollups by a key of each line add up to all lines that count, up to rounding.
LEMMA RolledByAdds ==
  ASSUME NEW b, NEW r, NEW place, NEW q, Fitting(b, r, place, q), NEW key, NEW K, IsFiniteSet(K),
         \A d \in DOMAIN b.details : key[d] \in K,
         NEW rolls, RollsUp(rolls, b, r, key, K)
  PROVE  LET sum == Sum([k \in DOMAIN rolls |-> rolls[k].total])
         IN  /\ sum \in Int
             /\ Abs(sum - Over(Wholes(r), Counted(r))) <= 2 * All(DOMAIN b.details, q) + All(K, q)
<1> DEFINE D == DOMAIN b.details
           w == Wholes(r)
           C == Counted(r)
           Of(k) == {d \in C : key[d] = k}
           h == [k \in K |-> rolls[k].total]
           g == [k \in K |-> Over(w, Of(k))]
           a == [k \in K |-> Over(Each(C, q), Of(k))]
           o == [k \in K |-> q]
           i == [k \in K |-> a[k] + o[k]]
           e == [k \in K |-> a[k] + i[k]]
<1>1. IsFiniteSet(D) /\ C \in SUBSET D /\ Summable(w, C) /\ IsFiniteSet(C)
  <2>1. IsFiniteSet(D) /\ Summable(w, D) /\ C \in SUBSET D
    BY LineMasses
  <2> HIDE DEF w, C, D
  <2> QED BY <2>1, SubSummable DEF Summable
<1>2. q \in Nat
  BY RoomIs
<1>3. \A k \in K : Of(k) \in SUBSET C /\ Keyed(r, key, k) = Of(k)
  BY DEF Keyed
<1>4. \A k \in K : /\ a[k] = All(Of(k), q) /\ a[k] \in Nat
                  /\ o[k] = q /\ i[k] = a[k] + o[k] /\ e[k] = a[k] + i[k]
  <2>1. SUFFICES ASSUME NEW k \in K
                 PROVE  All(Of(k), q) = Over(Each(C, q), Of(k)) /\ All(Of(k), q) \in Nat
    OBVIOUS
  <2>2. Of(k) \in SUBSET C
    BY <1>3
  <2> HIDE DEF Of, C
  <2> QED BY <1>1, <1>2, <2>2, AllOf
<1>5. \A k \in K : h[k] \in Int /\ Abs(h[k] - g[k]) <= e[k] /\ e[k] \in Int
  <2>1. SUFFICES ASSUME NEW k \in K PROVE h[k] \in Int /\ Abs(h[k] - g[k]) <= e[k] /\ e[k] \in Int
    OBVIOUS
  <2>2. /\ rolls[k].total \in Int
        /\ Abs(rolls[k].total - Over(w, Of(k))) <= 2 * All(Of(k), q) + q
    <3>1. /\ rolls[k].total \in Int
          /\ Abs(rolls[k].total - Over(w, Keyed(r, key, k))) <= 2 * All(Keyed(r, key, k), q) + q
      BY RolledEach
    <3> QED BY <1>3, <3>1
  <2>3. h[k] = rolls[k].total /\ g[k] = Over(w, Of(k))
    OBVIOUS
  <2>4. e[k] = 2 * All(Of(k), q) + q /\ e[k] \in Int
    <3> HIDE DEF a, o, i, e, Of
    <3> QED BY <1>2, <1>4
  <2> HIDE DEF h, g, e
  <2> QED BY <2>2, <2>3, <2>4
<1>6. Summable(g, K) /\ Over(g, K) = Over(w, C)
  <2>1. \A d \in C : key[d] \in K
    BY <1>1
  <2> HIDE DEF w, C
  <2> QED BY <1>1, <2>1, OverByKey
<1>7. Summable(a, K) /\ Over(a, K) = All(C, q)
  <2>1. \A d \in C : key[d] \in K
    BY <1>1
  <2>2. C \in SUBSET C
    OBVIOUS
  <2> HIDE DEF C
  <2>3. Summable(Each(C, q), C)
    BY <1>1, <1>2, <2>2, AllOf
  <2> QED BY <2>1, <2>3, OverByKey DEF All
<1>8. All(C, q) <= All(D, q) /\ All(C, q) \in Nat /\ All(D, q) \in Nat
  <2> HIDE DEF C, D
  <2> QED BY <1>1, <1>2, AllOf
<1>9. Sum([k \in DOMAIN rolls |-> rolls[k].total]) = Over(h, K)
  <2>1. [k \in DOMAIN rolls |-> rolls[k].total] = h
    BY DEF RollsUp
  <2>2. h = [k \in K |-> h[k]]
    OBVIOUS
  <2> HIDE DEF h
  <2> QED BY <2>1, <2>2, SumOver
<1>10. Summable(o, K) /\ Over(o, K) = All(K, q) /\ Over(o, K) \in Int
  <2>1. o = Each(K, q) /\ K \in SUBSET K
    BY DEF Each
  <2> HIDE DEF o
  <2> QED BY <1>2, <2>1, AllOf, OverType DEF All
<1> HIDE DEF h, g, a, o, i, e, C, D, w, Of
<1>11. Summable(h, K) /\ Summable(e, K) /\ Summable(i, K)
  BY <1>2, <1>4, <1>5 DEF Summable
<1>12. Abs(Over(h, K) - Over(g, K)) <= Over(e, K) /\ Over(h, K) \in Int
  BY <1>5, <1>6, <1>11, OverApart, OverType
<1>13. Over(i, K) = Over(a, K) + Over(o, K) /\ Over(e, K) = Over(a, K) + Over(i, K)
  <2>1. Over(i, K) = Over(a, K) + Over(o, K)
    BY <1>4, <1>7, <1>10, OverPlus
  <2>2. Over(e, K) = Over(a, K) + Over(i, K)
    BY <1>4, <1>7, <1>11, OverPlus
  <2> QED BY <2>1, <2>2
<1>14. Over(e, K) <= 2 * All(D, q) + All(K, q) /\ Over(e, K) \in Int
  BY <1>7, <1>8, <1>10, <1>13
<1>15. Abs(Over(h, K) - Over(w, C)) <= 2 * All(D, q) + All(K, q)
  <2>1. Abs(Over(h, K) - Over(w, C)) \in Int
    BY <1>6, <1>12, AbsType, OverType
  <2>2. 2 * All(D, q) + All(K, q) \in Int
    BY <1>8, <1>10
  <2> QED BY <1>6, <1>12, <1>14, <2>1, <2>2
<1> QED BY <1>9, <1>12, <1>15 DEF C, D, w

\* The category of each line, and the lines of the budget total on a side of the line.
Categorised(b) == [d \in DOMAIN b.details |-> CategoryOfLine(b, d)]
SideLines(b, r, atl) == {d \in Counted(r) : CategoryIsAtl(b, Categorised(b)[d]) = atl}
SideCategories(b, atl) == {c \in DOMAIN b.categories : CategoryIsAtl(b, c) = atl}

\* Which rollups evaluate makes.
LEMMA RollupsAre ==
  ASSUME NEW b, NEW r, r = Evaluate(b), DOMAIN r.details = DOMAIN b.details
  PROVE  /\ r.total = Rolled(r.details, DOMAIN b.details)
         /\ r.accounts = RolledBy(r.details,
                           DOMAIN b.accounts \union {b.details[d].account : d \in DOMAIN b.details},
                           [d \in DOMAIN b.details |-> b.details[d].account])
         /\ r.categories = RolledBy(r.details,
                             DOMAIN b.categories
                               \union ({CategoryOfLine(b, d) : d \in DOMAIN b.details} \ {None}),
                             Categorised(b))
         /\ r.atl = SideOf(b, r.categories, TRUE) /\ r.btl = SideOf(b, r.categories, FALSE)
<1> DEFINE values == ResolveGlobals(b.globals)
           details == [d \in DOMAIN b.details |-> EvalDetail(b, values, d)]
<1>1. r = EvaluateLines(b, values, details)
  BY DEF Evaluate, EvaluateWith
<1> HIDE DEF values, details
<1>2. r.details = details
  BY <1>1 DEF EvaluateLines, CalcResult
<1> QED BY <1>1, <1>2 DEF EvaluateLines, CalcResult, Categorised

\* In a valid budget every line has a category.
LEMMA CategoriesAre ==
  ASSUME NEW b, Valid(b)
  PROVE  /\ \A d \in DOMAIN b.details : /\ b.details[d].account \in DOMAIN b.accounts
                                       /\ Categorised(b)[d] = b.accounts[b.details[d].account].category
                                       /\ Categorised(b)[d] \in DOMAIN b.categories
         /\ DOMAIN b.categories \union ({CategoryOfLine(b, d) : d \in DOMAIN b.details} \ {None})
              = DOMAIN b.categories
         /\ DOMAIN b.accounts \union {b.details[d].account : d \in DOMAIN b.details} = DOMAIN b.accounts
<1>1. \A d \in DOMAIN b.details : b.details[d].account \in DOMAIN b.accounts
  BY DEF Valid
<1>2. \A a \in DOMAIN b.accounts : b.accounts[a].category \in DOMAIN b.categories
  BY DEF Valid
<1>3. \A d \in DOMAIN b.details : /\ CategoryOfLine(b, d) = b.accounts[b.details[d].account].category
                                /\ CategoryOfLine(b, d) \in DOMAIN b.categories
  BY <1>1, <1>2 DEF CategoryOfLine
<1>4. {CategoryOfLine(b, d) : d \in DOMAIN b.details} \subseteq DOMAIN b.categories
  BY <1>3
<1>5. {b.details[d].account : d \in DOMAIN b.details} \subseteq DOMAIN b.accounts
  BY <1>1
<1> QED BY <1>1, <1>3, <1>4, <1>5 DEF Categorised

\* A category is on one side of the line.
LEMMA AtlOrNot == \A b, c : CategoryIsAtl(b, c) \in BOOLEAN
BY DEF CategoryIsAtl

\* Some sums of lines, of each category, and the categories of one side.
SumsNear(h, b, r, f, q, S) ==
  \A c \in S :
    LET T == {d \in DOMAIN b.details : Categorised(b)[d] = c} \intersect Counted(r)
    IN  h[c] \in Int /\ Abs(h[c] - Over(f, T)) <= All(T, q)

LEMMA SideColumn ==
  ASSUME NEW b, NEW r, NEW place, NEW q, Fitting(b, r, place, q), Valid(b), NEW atl \in BOOLEAN,
         NEW f, Summable(f, DOMAIN b.details),
         Mass(f, DOMAIN b.details) + (All(DOMAIN b.details, q) + All(DOMAIN b.categories, q))
           <= place * Digits,
         NEW h, h = [c \in SideCategories(b, atl) |-> h[c]],
         SumsNear(h, b, r, f, q, SideCategories(b, atl))
  PROVE  LET L == SideLines(b, r, atl)
             sum == SatSum(InOrder(Categories, h))
         IN  /\ sum \in Int /\ Over(f, L) \in Int
             /\ Abs(sum - Over(f, L)) <= All(L, q) + All(DOMAIN b.categories, q)
             /\ L \in SUBSET DOMAIN b.details
<1> DEFINE D == DOMAIN b.details
           B == DOMAIN b.categories
           C == Counted(r)
           key == Categorised(b)
           S == SideCategories(b, atl)
           L == SideLines(b, r, atl)
           g == [k \in S |-> Over(f, {d \in L : key[d] = k})]
           e == [k \in S |-> Over(Each(L, q), {d \in L : key[d] = k})]
           M == place * Digits
<1>1. C \in SUBSET D /\ IsFiniteSet(D)
  BY LineMasses
<1>r. /\ q \in Nat /\ M \in Nat /\ place \in Places /\ q = place \div 2
  BY RoomIs DEF Fitting
<1>2. \A d \in D : key[d] \in DOMAIN b.categories
  BY CategoriesAre
<1>3. L \in SUBSET D /\ \A d \in L : key[d] \in S
  <2> HIDE DEF key, D
  <2> QED BY <1>1, <1>2 DEF SideLines, SideCategories, key
<1>4. \A c \in S : {d \in L : key[d] = c} = {d \in D : key[d] = c} \intersect C
  <2> HIDE DEF key, D, C
  <2> QED BY <1>1, <1>2 DEF SideLines, SideCategories, key, C
<1>5. S \in SUBSET Range(Categories) /\ IsFiniteSet(S) /\ S \in SUBSET B /\ IsFiniteSet(B)
  <2>1. DOMAIN b.categories \in SUBSET Range(Categories) /\ IsFiniteSet(DOMAIN b.categories)
    BY DEF Fitting, BudgetType, Map
  <2>2. S \in SUBSET DOMAIN b.categories
    BY DEF SideCategories
  <2>3. IsFiniteSet(S)
    BY <2>1, <2>2, FS_Subset
  <2> QED BY <2>1, <2>2, <2>3
<1>f. IsFiniteSet(L)
  <2> HIDE DEF L, D
  <2> QED BY <1>1, <1>3, FS_Subset
<1>6. \A c \in S : /\ h[c] \in Int /\ Abs(h[c] - g[c]) <= e[c]
                  /\ e[c] = All({d \in L : key[d] = c}, q)
  <2>1. SUFFICES ASSUME NEW c \in S
                 PROVE  /\ h[c] \in Int /\ Abs(h[c] - g[c]) <= e[c]
                        /\ e[c] = All({d \in L : key[d] = c}, q)
    OBVIOUS
  <2> DEFINE T == {d \in L : key[d] = c}
  <2>2. T = {d \in D : key[d] = c} \intersect C /\ T \in SUBSET L
    BY <1>4
  <2>3. h[c] \in Int /\ Abs(h[c] - Over(f, T)) <= All(T, q)
    BY <2>2 DEF SumsNear
  <2>4. g[c] = Over(f, T) /\ e[c] = Over(Each(L, q), T)
    OBVIOUS
  <2>5. All(T, q) = Over(Each(L, q), T)
    <3> HIDE DEF T, L
    <3> QED BY <1>f, <1>r, <2>2, AllOf
  <2> HIDE DEF g, e, L, S, key, D, C
  <2> QED BY <2>3, <2>4, <2>5
<1> HIDE DEF D, C, key, S, L, B, M
<1>7. Summable(f, L) /\ Mass(f, L) <= Mass(f, D) /\ Mass(f, L) \in Nat /\ Mass(f, D) \in Nat
  BY <1>3, MassMonotone DEF D
<1>8. Summable(g, S) /\ Over(g, S) = Over(f, L) /\ Mass(g, S) <= Mass(f, L)
  BY <1>3, <1>5, <1>7, MassByKey
<1>a. /\ All(L, q) \in Nat /\ All(D, q) \in Nat /\ All(L, q) <= All(D, q)
      /\ All(S, q) \in Nat /\ All(B, q) \in Nat /\ All(S, q) <= All(B, q)
      /\ Summable(Each(L, q), L) /\ All(L, q) = Over(Each(L, q), L)
      /\ All(S, q) = Over(Each(S, q), S)
  <2>1. L \in SUBSET L
    OBVIOUS
  <2> QED BY <1>1, <1>3, <1>5, <1>f, <1>r, <2>1, AllOf DEF All
<1>b. Summable(e, S) /\ Over(e, S) = All(L, q)
  BY <1>3, <1>5, <1>a, OverByKey
<1> HIDE DEF g, e
<1>9. Summable(h, S)
  BY <1>5, <1>6 DEF Summable
<1>10. Mass(h, S) <= Mass(g, S) + Over(e, S) /\ Mass(h, S) \in Nat /\ Mass(g, S) \in Nat
  BY <1>6, <1>8, <1>9, <1>b, MassApart
<1>11. Abs(Over(h, S) - Over(g, S)) <= Over(e, S) /\ Over(h, S) \in Int /\ Over(g, S) \in Int
  BY <1>6, <1>8, <1>9, <1>b, OverApart, OverType
<1>12. Mass(h, S) + Over(Each(S, q), S) <= M
  <2>1. Mass(f, D) + (All(D, q) + All(B, q)) <= M
    BY DEF D, B, M
  <2> QED BY <1>7, <1>8, <1>10, <1>a, <1>b, <1>r, <2>1
<1>13. SatSum(InOrder(Categories, h)) \in Int
       /\ Abs(SatSum(InOrder(Categories, h)) - Over(h, S)) <= All(S, q)
  <2>1. h = [c \in S |-> h[c]] /\ \A c \in S : h[c] \in Int
    BY <1>6 DEF S
  <2> QED BY <1>5, <1>12, <1>a, <1>r, <2>1, OrderAssumption, InOrderNear DEF M
<1> DEFINE x == SatSum(InOrder(Categories, h))
           y == Over(h, S)
           z == Over(f, L)
           u == All(L, q)
           v == All(S, q)
           w == All(B, q)
<1>14. /\ x \in Int /\ y \in Int /\ z \in Int /\ u \in Nat /\ v \in Nat /\ w \in Nat /\ v <= w
       /\ Abs(x - y) <= v /\ Abs(y - z) <= u
  BY <1>8, <1>11, <1>13, <1>a, <1>b
<1> HIDE DEF x, y, z, u, v, w
<1>15. Abs(x - z) <= u + w
  BY <1>14 DEF Abs
<1> QED BY <1>3, <1>14, <1>15 DEF L, D, B, x, z, u, w

\* A side of the line is the sum of its lines, up to rounding.
LEMMA SideNear ==
  ASSUME NEW b, NEW r, NEW place, NEW q, Fitting(b, r, place, q), Valid(b), NEW atl \in BOOLEAN
  PROVE  LET L == SideLines(b, r, atl)
             side == SideOf(b, r.categories, atl)
             e == All(L, q) + All(DOMAIN b.categories, q)
         IN  /\ side.subtotal \in Int /\ side.fringes \in Int /\ side.total \in Int
             /\ Abs(side.subtotal - Over(Subs(r), L)) <= e
             /\ Abs(side.fringes - Over(Frgs(r), L)) <= e
             /\ Abs(side.total - Over(Wholes(r), L)) <= 2 * e + q
             /\ Over(Subs(r), L) \in Int /\ Over(Frgs(r), L) \in Int /\ Over(Wholes(r), L) \in Int
             /\ L \in SUBSET DOMAIN b.details
<1> DEFINE D == DOMAIN b.details
           B == DOMAIN b.categories
           S == SideCategories(b, atl)
           L == SideLines(b, r, atl)
           Of(c) == {d \in D : Categorised(b)[d] = c}
           hs == [c \in S |-> r.categories[c].subtotal]
           hf == [c \in S |-> r.categories[c].fringes]
           s == Subs(r)
           f == Frgs(r)
           w == Wholes(r)
           M == place * Digits
<1>1. /\ DOMAIN r.details = D /\ IsFiniteSet(D)
      /\ Summable(s, D) /\ Summable(f, D) /\ Summable(w, D)
      /\ \A d \in D : w[d] = s[d] + f[d]
      /\ Mass(s, D) \in Nat /\ Mass(f, D) \in Nat
      /\ Mass(s, D) + Mass(f, D) + (4 * All(D, q) + 4 * All(B, q) + 4 * q) <= M
  BY LineMasses
<1>r. q \in Nat /\ M \in Nat /\ All(D, q) \in Nat /\ All(B, q) \in Nat /\ Cuts(Clamp, M, q)
  BY RoomIs
<1>2. \A c \in DOMAIN b.categories : r.categories[c] = Rolled(r.details, Of(c))
  <2> DEFINE Met == DOMAIN b.categories
                      \union ({CategoryOfLine(b, d) : d \in DOMAIN b.details} \ {None})
  <2>0. r = Evaluate(b)
    BY DEF Fitting
  <2>1a. r.categories = RolledBy(r.details, Met, Categorised(b))
    BY <1>1, <2>0, RollupsAre
  <2>1b. Met = DOMAIN b.categories
    BY CategoriesAre
  <2> HIDE DEF Met
  <2>1. r.categories = RolledBy(r.details, DOMAIN b.categories, Categorised(b))
    BY <2>1a, <2>1b
  <2> QED BY <1>1, <2>1 DEF RolledBy
<1>3. SideOf(b, r.categories, atl)
        = RollupOf(SatSum(InOrder(Categories, hs)), SatSum(InOrder(Categories, hf)))
  BY DEF SideOf, Combined, SideCategories
<1>4. SumsNear(hs, b, r, s, q, S) /\ SumsNear(hf, b, r, f, q, S)
  <2>1. SUFFICES ASSUME NEW c \in S
                 PROVE  LET T == Of(c) \intersect Counted(r)
                        IN  /\ hs[c] \in Int /\ Abs(hs[c] - Over(s, T)) <= All(T, q)
                            /\ hf[c] \in Int /\ Abs(hf[c] - Over(f, T)) <= All(T, q)
    BY DEF SumsNear
  <2>2. hs[c] = Rolled(r.details, Of(c)).subtotal /\ hf[c] = Rolled(r.details, Of(c)).fringes
    BY <1>2 DEF SideCategories
  <2>3. Of(c) \in SUBSET D
    OBVIOUS
  <2> HIDE DEF Of, hs, hf, s, f
  <2> QED BY <2>2, <2>3, RolledNear DEF s, f
<1> DEFINE m == Mass(s, D)
           n == Mass(f, D)
           u == All(D, q)
           v == All(B, q)
<1>5. m \in Nat /\ n \in Nat /\ u \in Nat /\ v \in Nat /\ m + n + (4 * u + 4 * v + 4 * q) <= M
  BY <1>1, <1>r
<1>5a. m + (u + v) <= M /\ n + (u + v) <= M
  <2> HIDE DEF m, n, u, v, M
  <2> QED BY <1>5, <1>r
<1> DEFINE x == SatSum(InOrder(Categories, hs))
           y == SatSum(InOrder(Categories, hf))
           a == Over(s, L)
           c == Over(f, L)
           t == All(L, q)
           e == t + v
<1>6. x \in Int /\ a \in Int /\ Abs(x - a) <= e /\ L \in SUBSET D
  <2>1. hs = [k \in S |-> hs[k]]
    OBVIOUS
  <2> HIDE DEF hs, s
  <2> QED BY <1>1, <1>4, <1>5a, <2>1, SideColumn
<1>7. y \in Int /\ c \in Int /\ Abs(y - c) <= e
  <2>1. hf = [k \in S |-> hf[k]]
    OBVIOUS
  <2> HIDE DEF hf, f
  <2> QED BY <1>1, <1>4, <1>5a, <2>1, SideColumn
<1> HIDE DEF D, S, L, Of, hs, hf, s, f, w, M, B
<1>8. /\ Summable(s, L) /\ Abs(a) <= m
      /\ Summable(f, L) /\ Abs(c) <= n
  BY <1>1, <1>6, MassMonotone
<1>9. Over(w, L) = a + c
  <2>1. \A d \in L : w[d] = s[d] + f[d]
    BY <1>1, <1>6
  <2> QED BY <1>8, <2>1, OverPlus
<1>10. t \in Nat /\ t <= u
  BY <1>1, <1>6, <1>r, AllOf
<1> HIDE DEF x, y, a, c, t, m, n, u, v
<1>12. x + y \in Int /\ Abs(x + y) <= M
  BY <1>5, <1>6, <1>7, <1>8, <1>10, <1>r DEF Abs
<1>13. Clamp[x + y] \in Int /\ Abs(Clamp[x + y] - (x + y)) <= q
  BY <1>12, <1>r DEF Cuts
<1>14. Abs(Clamp[x + y] - (a + c)) <= 2 * e + q /\ a + c \in Int
  BY <1>5, <1>6, <1>7, <1>10, <1>13, <1>r DEF Abs
<1> QED BY <1>3, <1>6, <1>7, <1>9, <1>13, <1>14 DEF RollupOf, SatAdd, s, f, w, L, D, B, x, y, a, c, t, v

\* Which lines are on the sides of the line.
LEMMA SidesPart ==
  ASSUME NEW b, NEW r
  PROVE  /\ SideLines(b, r, TRUE) \intersect SideLines(b, r, FALSE) = {}
         /\ SideLines(b, r, TRUE) \union SideLines(b, r, FALSE) = Counted(r)
BY AtlOrNot DEF SideLines

\* The two sides of the line, and the accounts, add up to the total, up to rounding.
LEMMA SidesFoot ==
  ASSUME NEW b, NEW r, NEW place, NEW q, Fitting(b, r, place, q), Valid(b)
  PROVE  /\ r.total.total \in Int /\ r.total.fringes \in Int /\ Over(Frgs(r), Counted(r)) \in Int
         /\ Abs(r.total.fringes - Over(Frgs(r), Counted(r))) <= All(DOMAIN b.details, q)
         /\ r.atl.total + r.btl.total \in Int
         /\ Abs((r.atl.total + r.btl.total) - r.total.total) <= Slack(b, r, place)
         /\ Sum([a \in DOMAIN r.accounts |-> r.accounts[a].total]) \in Int
         /\ Abs(Sum([a \in DOMAIN r.accounts |-> r.accounts[a].total]) - r.total.total)
              <= Slack(b, r, place)
<1> DEFINE D == DOMAIN b.details
           C == Counted(r)
           w == Wholes(r)
           key == [d \in D |-> b.details[d].account]
           K == DOMAIN b.accounts
           G == DOMAIN b.categories
           u == All(D, q)
           v == All(G, q)
           o == All(K, q)
           k == Over(Roughs(r, q), D)
           slack == Slack(b, r, place)
<1>1. DOMAIN r.details = D /\ Summable(w, D) /\ IsFiniteSet(D) /\ C \in SUBSET D /\ D \intersect C = C
  BY LineMasses
<1>r. /\ q \in Nat /\ u \in Nat /\ v \in Nat /\ o \in Nat /\ k \in Nat
      /\ slack = 2 * k + 4 * u + 4 * v + 2 * o + 4 * q
  BY RoomIs
<1>3. /\ r.total = Rolled(r.details, D)
      /\ r.accounts = RolledBy(r.details, K, key)
      /\ r.atl = SideOf(b, r.categories, TRUE) /\ r.btl = SideOf(b, r.categories, FALSE)
  <2> DEFINE Met == DOMAIN b.accounts \union {b.details[d].account : d \in DOMAIN b.details}
  <2>1. r = Evaluate(b)
    BY DEF Fitting
  <2>2. /\ r.total = Rolled(r.details, D) /\ r.accounts = RolledBy(r.details, Met, key)
        /\ r.atl = SideOf(b, r.categories, TRUE) /\ r.btl = SideOf(b, r.categories, FALSE)
    BY <1>1, <2>1, RollupsAre
  <2>3. Met = K
    BY CategoriesAre
  <2> HIDE DEF Met, key, K, D
  <2> QED BY <2>2, <2>3
<1>c. All(C, q) \in Nat /\ All(C, q) <= u
  <2> HIDE DEF C, D
  <2> QED BY <1>1, <1>r, AllOf
<1> DEFINE z == Over(w, C)
<1>4. /\ r.total.total \in Int /\ r.total.fringes \in Int /\ z \in Int /\ Over(Frgs(r), C) \in Int
      /\ Abs(r.total.total - z) <= 2 * All(C, q) + q
      /\ Abs(r.total.fringes - Over(Frgs(r), C)) <= All(C, q)
  <2>1. D \in SUBSET D
    OBVIOUS
  <2> HIDE DEF C, D, w
  <2> QED BY <1>1, <1>3, <2>1, RolledNear DEF D, w, C
<1>5. /\ r.atl.total + r.btl.total \in Int
      /\ Abs((r.atl.total + r.btl.total) - z) <= 2 * u + 4 * v + 2 * q
  <2> DEFINE A == SideLines(b, r, TRUE)
             B == SideLines(b, r, FALSE)
             x == r.atl.total
             y == r.btl.total
             a == Over(w, A)
             c == Over(w, B)
             i == All(A, q)
             j == All(B, q)
  <2>1. /\ x \in Int /\ Abs(x - a) <= 2 * (i + v) + q /\ A \in SUBSET D /\ a \in Int
        /\ y \in Int /\ Abs(y - c) <= 2 * (j + v) + q /\ B \in SUBSET D /\ c \in Int
    BY <1>3, SideNear
  <2>2. A \intersect B = {} /\ A \union B = C
    BY SidesPart
  <2>e. A \in SUBSET C /\ B \in SUBSET C /\ IsFiniteSet(C)
    BY <1>1, <2>2, FS_Subset
  <2> HIDE DEF A, B, w, D, C
  <2>3. Summable(w, A) /\ Summable(w, B)
    BY <1>1, <2>1, SubSummable
  <2>4. z = a + c
    BY <2>2, <2>3, OverUnion
  <2>5. i \in Nat /\ j \in Nat /\ i + j = All(C, q)
    <3>1. /\ i \in Nat /\ i = Over(Each(C, q), A) /\ Summable(Each(C, q), A)
          /\ j \in Nat /\ j = Over(Each(C, q), B) /\ Summable(Each(C, q), B)
      BY <1>r, <2>e, AllOf
    <3>2. Over(Each(C, q), A \union B) = Over(Each(C, q), A) + Over(Each(C, q), B)
      BY <2>2, <3>1, OverUnion
    <3> QED BY <2>2, <3>1, <3>2 DEF All
  <2> HIDE DEF x, y, a, c, i, j, z, u, v
  <2>6. x + y \in Int /\ Abs((x + y) - (a + c)) <= 2 * (i + j) + 4 * v + 2 * q
    BY <1>r, <2>1, <2>5 DEF Abs
  <2>7. Abs((x + y) - (a + c)) \in Int
    BY <2>1, AbsType
  <2> QED BY <1>c, <1>r, <2>4, <2>5, <2>6, <2>7 DEF x, y
<1>6. LET sum == Sum([a \in DOMAIN r.accounts |-> r.accounts[a].total])
      IN  sum \in Int /\ Abs(sum - z) <= 2 * u + o
  <2>1. IsFiniteSet(K)
    BY DEF Fitting, BudgetType, Map
  <2>2. \A d \in D : key[d] \in K
    BY CategoriesAre
  <2>3. RollsUp(r.accounts, b, r, key, K)
    <3> HIDE DEF key, K
    <3> QED BY <1>1, <1>3 DEF RolledBy, RollsUp
  <2> HIDE DEF key, K
  <2> QED BY <2>1, <2>2, <2>3, RolledByAdds DEF K
<1> DEFINE x == r.atl.total + r.btl.total
           y == Sum([a \in DOMAIN r.accounts |-> r.accounts[a].total])
           t == r.total.total
           i == All(C, q)
           f == r.total.fringes
           g == Over(Frgs(r), C)
<1>7. /\ x \in Int /\ y \in Int /\ t \in Int /\ z \in Int /\ i \in Nat /\ i <= u /\ f \in Int /\ g \in Int
      /\ Abs(x - z) <= 2 * u + 4 * v + 2 * q /\ Abs(y - z) <= 2 * u + o /\ Abs(t - z) <= 2 * i + q
      /\ Abs(f - g) <= i
  <2>1. x \in Int /\ Abs(x - z) <= 2 * u + 4 * v + 2 * q
    BY <1>5
  <2>2. y \in Int /\ Abs(y - z) <= 2 * u + o
    BY <1>6
  <2>3. t \in Int /\ f \in Int /\ z \in Int /\ g \in Int /\ Abs(t - z) <= 2 * i + q /\ Abs(f - g) <= i
    BY <1>4
  <2>4. i \in Nat /\ i <= u
    BY <1>c
  <2> HIDE DEF x, y, t, z, i, u, v, o, f, g
  <2> QED BY <2>1, <2>2, <2>3, <2>4
<1> HIDE DEF x, y, t, z, i, u, v, o, k, slack, f, g
<1>8. Abs(x - t) <= slack /\ Abs(y - t) <= slack /\ Abs(f - g) <= u
  BY <1>7, <1>r DEF Abs
<1>9. r.total.total \in Int /\ r.total.fringes \in Int /\ Over(Frgs(r), Counted(r)) \in Int
  BY <1>7 DEF t, f, g, C
<1>10. Abs(r.total.fringes - Over(Frgs(r), Counted(r))) <= All(DOMAIN b.details, q)
  BY <1>8 DEF f, g, u, C, D
<1>11. r.atl.total + r.btl.total \in Int
       /\ Abs((r.atl.total + r.btl.total) - r.total.total) <= Slack(b, r, place)
  BY <1>7, <1>8 DEF x, t, slack
<1>12. Abs(Sum([a \in DOMAIN r.accounts |-> r.accounts[a].total]) - r.total.total) <= Slack(b, r, place)
  BY <1>8 DEF y, t, slack
<1>13. Sum([a \in DOMAIN r.accounts |-> r.accounts[a].total]) \in Int
  BY <1>7 DEF y
<1> QED BY <1>9, <1>10, <1>11, <1>12, <1>13

----------------------------------------------------------------------------
\* What the charges of a line come to, by mode and by level.
LEMMA OverTwo ==
  ASSUME NEW f, NEW x, NEW y, x # y, f[x] \in Int, f[y] \in Int
  PROVE  Over(f, {x, y}) = f[x] + f[y] /\ Mass(f, {x, y}) = Abs(f[x]) + Abs(f[y])
<1>1. ASSUME NEW g, g[x] \in Int, g[y] \in Int
      PROVE  Over(g, {x, y}) = g[x] + g[y]
  <2>1. Summable(g, {}) /\ Over(g, {}) = 0
    BY FS_EmptySet, OverEmpty DEF Summable
  <2>2. Summable(g, {} \union {x}) /\ Over(g, {} \union {x}) = 0 + g[x]
    BY <1>1, <2>1, OverAdd
  <2>3. {} \union {x} = {x} /\ {x} \union {y} = {x, y} /\ y \notin {x}
    OBVIOUS
  <2>4. Over(g, {x} \union {y}) = Over(g, {x}) + g[y]
    BY <1>1, <2>2, <2>3, OverAdd
  <2>5. Over(g, {x}) = 0 + g[x] /\ Over(g, {x, y}) = Over(g, {x}) + g[y]
    BY <2>2, <2>3, <2>4
  <2> QED BY <1>1, <2>5, SMT
<1> DEFINE h == [z \in {x, y} |-> Abs(f[z])]
<1>2. h[x] = Abs(f[x]) /\ h[y] = Abs(f[y])
  OBVIOUS
<1>3. Abs(f[x]) \in Nat /\ Abs(f[y]) \in Nat
  BY AbsType
<1>4. Mass(f, {x, y}) = Over(h, {x, y})
  BY DEF Mass
<1> HIDE DEF h
<1>5. Over(h, {x, y}) = Abs(f[x]) + Abs(f[y])
  <2>1. h[x] \in Int /\ h[y] \in Int
    BY <1>2, <1>3
  <2>2. Over(h, {x, y}) = h[x] + h[y]
    BY <1>1, <2>1
  <2> QED BY <1>2, <2>2
<1>6. Over(f, {x, y}) = f[x] + f[y]
  BY <1>1
<1> QED BY <1>4, <1>5, <1>6

Modes == {"grossup", "additive"}
ModeOf(b) == [f \in DOMAIN b.fringes |-> b.fringes[f].mode]
LevelOf(b) == [f \in DOMAIN b.fringes |-> b.fringes[f].level]

\* What rounding can make of each charge, as charges of the same fringes.
Roughed(charges, q) ==
  [i \in DOMAIN charges |->
     [fringe |-> charges[i].fringe, res |-> IF IsCharged(charges[i]) THEN Ok(q) ELSE charges[i].res]]

\* What rounding can make of a share of the charges.
Spares(rough, charges, q) ==
  \A fringes : \A i \in DOMAIN charges :
    /\ ChargesOf(rough, fringes)[i] \in Nat
    /\ ChargesOf(charges, fringes)[i] # 0 => ChargesOf(rough, fringes)[i] = q

LEMMA RoughedAre ==
  ASSUME NEW charges, NEW F, Charges(charges, F), NEW q \in Nat, q <= Largest
  PROVE  LET N == DOMAIN charges
             rough == Roughed(charges, q)
         IN  /\ Charges(rough, F) /\ DOMAIN rough = N
             /\ Over(Worth(rough), N) \in Nat /\ Over(Worth(rough), N) <= All(N, q)
             /\ Spares(rough, charges, q)
<1> DEFINE N == DOMAIN charges
           rough == Roughed(charges, q)
           w == Worth(rough)
<1>1. Largest \in Nat /\ Ok(q) \in Result /\ IsOk(Ok(q)) /\ Ok(q).val = q
  BY DepthAssumption, ResultIs DEF Ok, IsOk, Decimal
<1>2. DOMAIN rough = N
  BY DEF Roughed
<1>3. \A i \in N :
        /\ rough[i].fringe = charges[i].fringe
        /\ IsCharged(charges[i]) => rough[i].res = Ok(q)
        /\ ~ IsCharged(charges[i]) => rough[i].res = charges[i].res
  BY DEF Roughed
<1>4. \A i \in N : IsCharged(rough[i]) <=> IsCharged(charges[i])
  BY <1>1, <1>3 DEF IsCharged
<1>5. IsFiniteSet(N)
  BY DEF Charges
<1> HIDE DEF rough, N, w
<1>6. Charges(rough, F)
  <2>1. \A i \in N : charges[i].res \in Result /\ (IsCharged(charges[i]) => charges[i].fringe \in F)
    BY DEF Charges, N
  <2> QED BY <1>1, <1>2, <1>3, <1>4, <1>5, <2>1 DEF Charges
<1>7. \A i \in N : w[i] \in Nat /\ w[i] <= Each(N, q)[i] /\ Each(N, q)[i] \in Nat
  <2>1. \A i \in N : w[i] = ValueOf(rough[i].res, 0) /\ Each(N, q)[i] = q
    BY <1>2 DEF Worth, w, Each
  <2>2. \A i \in N : IsCharged(charges[i]) => ValueOf(rough[i].res, 0) = q
    BY <1>1, <1>3 DEF ValueOf
  <2>3. \A i \in N : ~ IsCharged(charges[i]) => ValueOf(rough[i].res, 0) = 0
    BY <1>3 DEF ValueOf, IsCharged
  <2> QED BY <2>1, <2>2, <2>3
<1>8. Over(w, N) \in Nat /\ Over(w, N) <= All(N, q)
  <2>1. Summable(w, N) /\ Over(w, N) \in Nat
    BY <1>5, <1>7, OverNat
  <2>2. Summable(Each(N, q), N)
    BY <1>5, <1>7, OverNat
  <2> QED BY <1>7, <2>1, <2>2, OverMonotone DEF All
<1>9. ASSUME NEW fringes, NEW i \in N
      PROVE  /\ ChargesOf(rough, fringes)[i] \in Nat
             /\ ChargesOf(charges, fringes)[i] # 0 => ChargesOf(rough, fringes)[i] = q
  <2>1. ChargesOf(charges, fringes)[i] =
          IF IsCharged(charges[i]) /\ charges[i].fringe \in fringes THEN charges[i].res.val ELSE 0
    BY DEF ChargesOf, N
  <2>2. ChargesOf(rough, fringes)[i] =
          IF IsCharged(rough[i]) /\ rough[i].fringe \in fringes THEN rough[i].res.val ELSE 0
    BY <1>2 DEF ChargesOf
  <2>3. IsCharged(charges[i]) => rough[i].res.val = q
    BY <1>1, <1>3
  <2> QED BY <1>3, <1>4, <2>1, <2>2, <2>3
<1>10. Spares(rough, charges, q)
  BY <1>9 DEF Spares, N
<1> QED BY <1>2, <1>6, <1>8, <1>10 DEF N, rough, w

\* A line's charges and what rounding can make of them.
LEMMA LineCharges ==
  ASSUME NEW b, NEW r, NEW place, NEW q, Fitting(b, r, place, q), NEW d \in DOMAIN b.details
  PROVE  LET charges == r.details[d].charges
             N == DOMAIN charges
         IN  /\ charges = FringesOf(b, d, r.details[d].subtotal)
             /\ Charges(charges, DOMAIN b.fringes)
             /\ N = 1 .. Len(charges) /\ Len(charges) \in Nat /\ IsFiniteSet(N)
             /\ ChargeMass(r, d) = Mass(Worth(charges), N) /\ ChargeMass(r, d) \in Nat
             /\ Over(Worth(charges), N) \in Int /\ r.details[d].fringes \in Int
             /\ Abs(r.details[d].fringes - Over(Worth(charges), N)) <= Roughs(r, q)[d]
             /\ Charges(Roughed(charges, q), DOMAIN b.fringes)
             /\ DOMAIN Roughed(charges, q) = N
             /\ Over(Worth(Roughed(charges, q)), N) \in Nat /\ Roughs(r, q)[d] \in Nat
             /\ Over(Worth(Roughed(charges, q)), N) <= Roughs(r, q)[d]
             /\ Spares(Roughed(charges, q), charges, q)
             /\ ChargeMass(r, d) + Roughs(r, q)[d] <= place * Digits
<1> DEFINE charges == r.details[d].charges
           N == DOMAIN charges
<1>1. charges = FringesOf(b, d, r.details[d].subtotal)
  BY LineIs DEF Fitting
<1>r. /\ q \in Nat /\ place \in Nat /\ place * Digits \in Nat /\ place * Digits <= Largest
      /\ Largest \in Nat /\ place \in Places /\ q = place \div 2
  BY RoomIs DEF Fitting
<1>q. q <= Largest
  <2>1. place <= place * Digits
    <3>1. Digits \in Nat \ {0}
      BY PlacesAssumption
    <3>2. place * (Digits - 1) \in Nat /\ place * (Digits - 1) = place * Digits - place
      <4>1. Digits - 1 \in Nat
        BY <3>1
      <4>2. \A x, y \in Nat : x * y \in Nat
        OBVIOUS
      <4>3. \A x, y \in Int : x * (y - 1) = x * y - x
        OBVIOUS
      <4> QED BY <1>r, <3>1, <4>1, <4>2, <4>3
    <3> QED BY <1>r, <3>2
  <2>2. q <= place
    BY <1>r
  <2> QED BY <1>r, <2>1, <2>2
<1>2. /\ Charges(charges, DOMAIN b.fringes)
      /\ N = 1 .. Len(charges) /\ Len(charges) \in Nat /\ IsFiniteSet(N)
      /\ Roughs(r, q)[d] = All(N, q) /\ Roughs(r, q)[d] \in Nat
  <2>1. r = Evaluate(b) /\ BudgetType(b) /\ q \in Nat
    BY <1>r DEF Fitting
  <2> QED BY <2>1, RoughIs
<1>3. /\ r.details[d].fringes \in Int /\ Over(Worth(charges), N) \in Int
      /\ Abs(r.details[d].fringes - Over(Worth(charges), N)) <= Roughs(r, q)[d]
  BY LineNear
<1>4. /\ Vols(r)[d] \in Nat /\ ChargeMass(r, d) \in Nat /\ r.details[d].subtotal \in Int
      /\ Vols(r)[d] = Abs(r.details[d].subtotal) + ChargeMass(r, d)
      /\ Vols(r)[d] <= Volume(r) /\ Volume(r) \in Nat
  BY VolsAre, LineIs DEF Fitting
<1>5. Abs(r.details[d].subtotal) \in Nat
  BY <1>4, AbsType
<1>6. ChargeMass(r, d) + Roughs(r, q)[d] <= place * Digits
  <2> DEFINE k == Over(Roughs(r, q), DOMAIN b.details)
             u == All(DOMAIN b.details, q)
             v == All(DOMAIN b.categories, q)
             o == All(DOMAIN b.accounts, q)
             e == Roughs(r, q)[d]
             L == place * Digits
  <2>1. /\ k \in Nat /\ u \in Nat /\ v \in Nat /\ o \in Nat /\ q \in Nat
        /\ Volume(r) + (2 * k + 4 * u + 4 * v + 2 * o + 4 * q) <= L
    BY RoomIs
  <2>2. e \in Nat /\ e <= k
    BY RoomIs
  <2>3. L \in Nat
    BY <1>r
  <2> HIDE DEF k, u, v, o, e, L
  <2> QED BY <1>4, <1>5, <2>1, <2>2, <2>3 DEF e, L
<1> DEFINE rough == Roughed(charges, q)
<1>7. /\ Charges(rough, DOMAIN b.fringes) /\ DOMAIN rough = N
      /\ Over(Worth(rough), N) \in Nat /\ Over(Worth(rough), N) <= All(N, q)
      /\ Spares(rough, charges, q)
  <2> HIDE DEF charges
  <2> QED BY <1>2, <1>q, <1>r, RoughedAre
<1> QED BY <1>1, <1>2, <1>3, <1>4, <1>6, <1>7 DEF ChargeMass

\* The split of a line's fringes by mode is all of them, up to rounding.
LEMMA SplitFoots ==
  ASSUME NEW b, NEW r, NEW place, NEW q, Fitting(b, r, place, q), NEW d \in DOMAIN b.details
  PROVE  LET split == FringeSplit(b, d, r.details[d].subtotal)
             e == Roughs(r, q)[d]
         IN  /\ split["grossup"] \in Int /\ split["additive"] \in Int
             /\ Abs((split["grossup"] + split["additive"]) - r.details[d].fringes) <= 2 * e
             /\ Abs(split["grossup"]) + Abs(split["additive"]) <= ChargeMass(r, d) + e
             /\ Sum(split) = split["grossup"] + split["additive"]
<1> DEFINE charges == r.details[d].charges
           rough == Roughed(charges, q)
           N == DOMAIN charges
           F == DOMAIN b.fringes
           key == ModeOf(b)
           share == [m \in Modes |-> ChargesOf(charges, {f \in F : key[f] = m})]
           spare == [m \in Modes |-> ChargesOf(rough, {f \in F : key[f] = m})]
           h == [m \in Modes |-> Over(share[m], N)]
           g == [m \in Modes |-> Over(spare[m], N)]
           split == FringeSplit(b, d, r.details[d].subtotal)
           e == Roughs(r, q)[d]
           L == place * Digits
<1>1. /\ charges = FringesOf(b, d, r.details[d].subtotal)
      /\ Charges(charges, F)
      /\ N = 1 .. Len(charges) /\ Len(charges) \in Nat
      /\ ChargeMass(r, d) = Mass(Worth(charges), N) /\ ChargeMass(r, d) \in Nat
      /\ Over(Worth(charges), N) \in Int /\ r.details[d].fringes \in Int
      /\ Abs(r.details[d].fringes - Over(Worth(charges), N)) <= e
      /\ Charges(rough, F) /\ DOMAIN rough = N
      /\ Over(Worth(rough), N) \in Nat /\ e \in Nat /\ Over(Worth(rough), N) <= e
      /\ Spares(rough, charges, q)
      /\ ChargeMass(r, d) + e <= L
  <2>1. /\ charges = FringesOf(b, d, r.details[d].subtotal)
        /\ Charges(charges, F)
        /\ N = 1 .. Len(charges) /\ Len(charges) \in Nat
        /\ ChargeMass(r, d) = Mass(Worth(charges), N) /\ ChargeMass(r, d) \in Nat
    BY LineCharges
  <2>2. /\ Over(Worth(charges), N) \in Int /\ r.details[d].fringes \in Int
        /\ Abs(r.details[d].fringes - Over(Worth(charges), N)) <= e
        /\ ChargeMass(r, d) + e <= L
    BY LineCharges
  <2>3. /\ Charges(rough, F) /\ DOMAIN rough = N
        /\ Over(Worth(rough), N) \in Nat /\ e \in Nat /\ Over(Worth(rough), N) <= e
    BY LineCharges
  <2>4. Spares(rough, charges, q)
    BY LineCharges
  <2> HIDE DEF charges, rough, N, F, e, L
  <2> QED BY <2>1, <2>2, <2>3, <2>4
<1>r. q \in Nat /\ L \in Nat /\ Cuts(Clamp, L, q)
  BY RoomIs
<1>2. \A f \in F : key[f] \in Modes /\ key[f] = b.fringes[f].mode
  BY DEF Fitting, BudgetType, Map, FringeType, ModeOf, Modes
<1>3. split = [m \in Modes |-> SatSum(share[m])]
  <2>1. \A m \in Modes : {f \in F : b.fringes[f].mode = m} = {f \in F : key[f] = m}
    BY <1>2
  <2>2. \A m \in Modes : ByMode(b, charges, m) = SatSum(share[m])
    BY <2>1 DEF ByMode
  <2>3. split = [m \in Modes |-> ByMode(b, charges, m)]
    BY <1>1 DEF FringeSplit, Modes
  <2> HIDE DEF share, split
  <2> QED BY <2>2, <2>3
<1>4. IsFiniteSet(Modes)
  <2>1. IsFiniteSet({} \union {"grossup"})
    BY FS_EmptySet, FS_AddElement
  <2>2. IsFiniteSet(({} \union {"grossup"}) \union {"additive"})
    BY <2>1, FS_AddElement
  <2>3. ({} \union {"grossup"}) \union {"additive"} = Modes
    BY DEF Modes
  <2> QED BY <2>2, <2>3
<1>5. Sharing(share, charges, F, key, Modes) /\ Sharing(spare, rough, F, key, Modes)
  BY DEF Sharing
<1>6. \A f \in F : key[f] \in Modes
  BY <1>2
<1>6a. \A m \in Modes : \A i \in N : spare[m][i] \in Nat /\ (share[m][i] # 0 => spare[m][i] = q)
  <2>1. Spares(rough, charges, q)
    BY <1>1
  <2> HIDE DEF rough, charges
  <2> QED BY <2>1 DEF Spares, N
<1> HIDE DEF charges, rough, key, share, spare, split, F, e, L
<1>7. /\ \A m \in Modes : /\ share[m] = [i \in N |-> share[m][i]]
                          /\ Summable(share[m], N)
                          /\ Mass(share[m], N) <= Mass(Worth(charges), N)
      /\ Summable(h, Modes) /\ Over(h, Modes) = Over(Worth(charges), N)
      /\ Mass(h, Modes) <= Mass(Worth(charges), N)
  <2>1. Charges(charges, F)
    BY <1>1
  <2> QED BY <1>4, <1>5, <1>6, <2>1, ChargesByKey
<1>7a. /\ \A m \in Modes : Summable(spare[m], N)
       /\ Summable(g, Modes) /\ Over(g, Modes) = Over(Worth(rough), N)
  <2> HIDE DEF N, g
  <2>1. /\ \A m \in Modes : Summable(spare[m], DOMAIN rough)
        /\ Summable([m \in Modes |-> Over(spare[m], DOMAIN rough)], Modes)
        /\ Over([m \in Modes |-> Over(spare[m], DOMAIN rough)], Modes) = Over(Worth(rough), DOMAIN rough)
    <3>1. Charges(rough, F)
      BY <1>1
    <3>2. \A m \in Modes : Summable(spare[m], DOMAIN rough)
      BY <1>4, <1>5, <1>6, <3>1, ChargesByKey
    <3>3. Summable([m \in Modes |-> Over(spare[m], DOMAIN rough)], Modes)
      BY <1>4, <1>5, <1>6, <3>1, ChargesByKey
    <3>4. Over([m \in Modes |-> Over(spare[m], DOMAIN rough)], Modes) = Over(Worth(rough), DOMAIN rough)
      BY <1>4, <1>5, <1>6, <3>1, ChargesByKey
    <3> QED BY <3>2, <3>3, <3>4
  <2>2. DOMAIN rough = N
    BY <1>1
  <2> QED BY <2>1, <2>2 DEF g
<1>7b. \A m \in Modes : g[m] \in Nat /\ g[m] <= e
  <2>1. \A m \in Modes : g[m] \in Nat
    <3>1. SUFFICES ASSUME NEW m \in Modes PROVE Over(spare[m], N) \in Nat
      OBVIOUS
    <3>2. \A i \in N : spare[m][i] \in Nat
      BY <1>6a
    <3>3. IsFiniteSet(N)
      BY <1>7a DEF Summable
    <3> QED BY <3>2, <3>3, OverNat
  <2> HIDE DEF g, N
  <2>2. \A m \in Modes : g[m] <= Over(g, Modes)
    BY <1>4, <2>1, OverNat
  <2>3. Over(g, Modes) <= e /\ Over(g, Modes) \in Nat /\ e \in Nat
    BY <1>1, <1>7a DEF N
  <2> QED BY <2>1, <2>2, <2>3
<1>8. ASSUME NEW m \in Modes PROVE split[m] \in Int /\ Abs(split[m] - h[m]) <= g[m]
  <2> DEFINE s == share[m]
             t == spare[m]
             n == Len(charges)
  <2>1. s = [i \in N |-> s[i]] /\ Summable(s, N) /\ Mass(s, N) <= Mass(Worth(charges), N)
    BY <1>7
  <2>2. h[m] = Over(s, N) /\ g[m] = Over(t, N) /\ split[m] = SatSum(s)
    BY <1>3
  <2>3. g[m] \in Nat /\ g[m] <= e
    BY <1>7b
  <2>4. \A i \in N : t[i] \in Nat /\ (s[i] # 0 => q <= t[i])
    BY <1>6a, <1>r
  <2>5. N = 1 .. n /\ n \in Nat
    BY <1>1
  <2> HIDE DEF s, t, n, h, g, N
  <2>6. Mass(s, N) + Over(t, N) <= L
    <3>1. Mass(s, N) \in Nat
      BY <2>1, MassType
    <3>2. Mass(Worth(charges), N) \in Nat /\ Mass(Worth(charges), N) + e <= L /\ e \in Nat
      BY <1>1 DEF N
    <3> QED BY <1>r, <2>1, <2>2, <2>3, <3>1, <3>2
  <2>7. DOMAIN s = 1 .. n
    BY <2>1, <2>5
  <2>8. Accumulated(s, Clamp) \in Int /\ Abs(Accumulated(s, Clamp) - Over(s, 1 .. n)) <= Over(t, 1 .. n)
    <3>1. Summable(s, 1 .. n) /\ \A i \in 1 .. n : t[i] \in Nat /\ (s[i] # 0 => q <= t[i])
      BY <2>1, <2>4, <2>5
    <3>2. Mass(s, 1 .. n) + Over(t, 1 .. n) <= L
      BY <2>5, <2>6
    <3> QED BY <1>r, <2>5, <2>7, <3>1, <3>2, AccumulatedNear
  <2> QED BY <2>2, <2>5, <2>8 DEF SatSum
<1>9. split = [m \in Modes |-> split[m]]
  BY <1>3
<1>10. \A m \in Modes : h[m] \in Int
  BY <1>7 DEF Summable
<1> DEFINE x == split["grossup"]
           y == split["additive"]
           a == h["grossup"]
           c == h["additive"]
           i == g["grossup"]
           j == g["additive"]
           f == r.details[d].fringes
           w == Over(Worth(charges), N)
           k == Over(Worth(rough), N)
           m == ChargeMass(r, d)
<1>11. /\ x \in Int /\ y \in Int /\ a \in Int /\ c \in Int /\ i \in Nat /\ j \in Nat
       /\ Abs(x - a) <= i /\ Abs(y - c) <= j
  <2>1. "grossup" \in Modes /\ "additive" \in Modes
    BY DEF Modes
  <2> HIDE DEF h, g
  <2> QED BY <1>7b, <1>8, <1>10, <2>1
<1>12. /\ Over(h, Modes) = a + c /\ Mass(h, Modes) = Abs(a) + Abs(c)
       /\ Over(g, Modes) = i + j /\ Over(split, Modes) = x + y
  <2>1. "grossup" # "additive"
    OBVIOUS
  <2> HIDE DEF h, g
  <2>2. /\ h["grossup"] \in Int /\ h["additive"] \in Int /\ g["grossup"] \in Int
        /\ g["additive"] \in Int /\ split["grossup"] \in Int /\ split["additive"] \in Int
    BY <1>11
  <2>3. Over(h, Modes) = a + c /\ Mass(h, Modes) = Abs(a) + Abs(c)
    BY <2>1, <2>2, OverTwo DEF Modes
  <2>4. Over(g, Modes) = i + j
    BY <2>1, <2>2, OverTwo DEF Modes
  <2>5. Over(split, Modes) = x + y
    BY <2>1, <2>2, OverTwo DEF Modes
  <2> QED BY <2>3, <2>4, <2>5
<1>13. a + c = w /\ i + j = k /\ k <= e /\ Abs(a) + Abs(c) <= m /\ w \in Int /\ e \in Nat /\ m \in Nat
       /\ f \in Int /\ Abs(f - w) <= e
  <2> HIDE DEF h, g, N
  <2>1. /\ Over(h, Modes) = w /\ Mass(h, Modes) <= Mass(Worth(charges), N)
    BY <1>7
  <2>2. Over(g, Modes) = k
    BY <1>7a
  <2>3. /\ w \in Int /\ e \in Nat /\ m \in Nat /\ f \in Int /\ Abs(f - w) <= e /\ k <= e
        /\ m = Mass(Worth(charges), N)
    BY <1>1 DEF N
  <2> HIDE DEF w, k, m, f, a, c, i, j
  <2> QED BY <1>12, <2>1, <2>2, <2>3
<1>14. Sum(split) = Over(split, Modes)
  BY <1>9, SumOver
<1> HIDE DEF h, g, x, y, a, c, i, j, f, w, k, m
<1>15. Abs((x + y) - f) <= 2 * e /\ Abs(x) + Abs(y) <= m + e
  BY <1>11, <1>13 DEF Abs
<1> QED BY <1>11, <1>12, <1>14, <1>15 DEF x, y, f, m, e, split


----------------------------------------------------------------------------
\* What charges post to each level, in all.
PostedBy(b, calc) == [level \in Level |-> Over(Postings(b, calc, level), DOMAIN calc.charges)]

\* A share of some charges.
ShareOf(line, charges) ==
  LET N == DOMAIN charges
  IN  /\ line = [i \in N |-> line[i]] /\ Summable(line, N)
      /\ Mass(line, N) \in Nat /\ Mass(line, N) <= Mass(Worth(charges), N)

\* A line posts all of its charges, each to one level, or nothing if it does not count.
LEMMA LinePostings ==
  ASSUME NEW b, NEW calc, Charges(calc.charges, DOMAIN b.fringes), calc.included \in BOOLEAN,
         \A f \in DOMAIN b.fringes : b.fringes[f].level \in Level
  PROVE  /\ \A level \in Level : ShareOf(Postings(b, calc, level), calc.charges)
         /\ Summable(PostedBy(b, calc), Level)
         /\ Over(PostedBy(b, calc), Level)
              = IF calc.included THEN Over(Worth(calc.charges), DOMAIN calc.charges) ELSE 0
<1> DEFINE charges == calc.charges
           N == DOMAIN charges
           F == DOMAIN b.fringes
           key == LevelOf(b)
           share == [m \in Level |-> ChargesOf(charges, {f \in F : key[f] = m})]
           h == [m \in Level |-> Over(share[m], N)]
           P(level) == Postings(b, calc, level)
           p == PostedBy(b, calc)
<1>1. Charges(charges, F) /\ Mass(Worth(charges), N) \in Nat
  BY WorthSums, MassType
<1>2. \A f \in F : key[f] \in Level /\ key[f] = b.fringes[f].level
  BY DEF LevelOf
<1>3. IsFiniteSet(N)
  BY <1>1 DEF Charges
<1>4. CASE calc.included
  <2>1. \A m \in Level : P(m) = share[m]
    <3>1. \A m \in Level : {f \in F : calc.included /\ b.fringes[f].level = m} = {f \in F : key[f] = m}
      BY <1>2, <1>4
    <3> QED BY <3>1 DEF Postings
  <2>2. Sharing(share, charges, F, key, Level)
    BY DEF Sharing
  <2>3. \A f \in F : key[f] \in Level
    BY <1>2
  <2> HIDE DEF charges, key, share, F, P, p
  <2>4. /\ \A m \in Level : /\ share[m] = [i \in N |-> share[m][i]]
                            /\ Summable(share[m], N)
                            /\ Mass(share[m], N) <= Mass(Worth(charges), N)
        /\ Summable(h, Level) /\ Over(h, Level) = Over(Worth(charges), N)
    BY <1>1, <2>2, <2>3, LevelAssumption, ChargesByKey
  <2>5. p = h
    <3>1. p = [m \in Level |-> Over(P(m), N)]
      BY DEF p, PostedBy, P, N, charges
    <3> QED BY <2>1, <3>1
  <2>6. ASSUME NEW m \in Level PROVE ShareOf(P(m), charges)
    <3> DEFINE s == P(m)
    <3>1. s = [i \in N |-> s[i]] /\ Summable(s, N) /\ Mass(s, N) <= Mass(Worth(charges), N)
      BY <2>1, <2>4
    <3> HIDE DEF s, N
    <3>2. Mass(s, N) \in Nat
      BY <3>1, MassType
    <3> QED BY <3>1, <3>2 DEF ShareOf, s, N
  <2> HIDE DEF h, N
  <2>7. Summable(p, Level) /\ Over(p, Level) = Over(Worth(charges), N)
    BY <2>4, <2>5
  <2> QED BY <1>4, <2>6, <2>7 DEF P, p, charges, N
<1>5. CASE ~ calc.included
  <2> DEFINE zero == [i \in N |-> 0]
  <2>1. \A m \in Level : P(m) = zero
    <3>1. \A m \in Level : {f \in F : calc.included /\ b.fringes[f].level = m} = {}
      BY <1>5
    <3> QED BY <3>1 DEF Postings, ChargesOf
  <2>2. zero = [i \in DOMAIN zero |-> zero[i]] /\ DOMAIN zero = N /\ \A i \in N : zero[i] = 0
    OBVIOUS
  <2>p. \A m \in Level : p[m] = Over(P(m), N)
    BY DEF PostedBy
  <2> HIDE DEF zero, P, N, p, charges
  <2>3. Summable(zero, N) /\ Over(zero, N) = 0
    BY <1>3, <2>2, OverZero
  <2>4. Mass(zero, N) = 0
    <3> DEFINE a == [i \in N |-> Abs(zero[i])]
    <3>1. \A i \in N : a[i] = 0
      BY <2>2 DEF Abs
    <3> HIDE DEF a
    <3>2. Over(a, N) = 0
      BY <1>3, <3>1, OverZero
    <3> QED BY <3>2 DEF Mass, a
  <2>5. ShareOf(zero, charges)
    BY <1>1, <2>2, <2>3, <2>4 DEF ShareOf, N
  <2>6. \A m \in Level : p[m] = 0 /\ ShareOf(P(m), charges)
    BY <2>1, <2>3, <2>5, <2>p
  <2>7. Summable(p, Level) /\ Over(p, Level) = 0
    BY <2>6, LevelAssumption, OverZero
  <2> QED BY <1>5, <2>6, <2>7 DEF P, p, charges
<1> QED BY <1>4, <1>5

\* Adding a posting to a running sum.
LEMMA PostingStep ==
  ASSUME NEW most \in Nat, most <= Largest, Largest \in Nat, NEW q \in Nat, Cuts(Unchecked, most, q),
         NEW n \in Int, NEW e \in Nat, n # 0 => q <= e
  PROVE  Step(Posting(n), n, Abs(n), e, most)
<1>1. Abs(n) \in Nat /\ Abs(n) <= Abs(n)
  BY AbsType
<1>2. ASSUME NEW x \in Int, Abs(x) + Abs(n) + e <= most
      PROVE  Posting(n)[x] \in Int /\ Abs(Posting(n)[x] - x - n) <= e
  <2>1. /\ Abs(x) \in Nat /\ InRange(x) /\ x + n \in Int /\ Abs(x + n) <= most
    <3>1. Abs(x) \in Nat /\ Abs(x) <= Largest /\ x + n \in Int /\ Abs(x + n) <= most
      BY <1>1, <1>2 DEF Abs
    <3>2. InRange(x)
      BY <3>1 DEF InRange, Decimal, Abs
    <3> QED BY <3>1, <3>2
  <2>2. Posting(n)[x] = IF n # 0 THEN Unchecked[x + n] ELSE x
    BY <2>1 DEF Posting
  <2>3. Unchecked[x + n] \in Int /\ Abs(Unchecked[x + n] - (x + n)) <= q
    BY <2>1 DEF Cuts
  <2> QED BY <2>2, <2>3 DEF Abs
<1> QED BY <1>1, <1>2 DEF Step

\* Taking no step.
LEMMA NoStep ==
  ASSUME NEW most \in Nat
  PROVE  Step(Posts(<<>>), 0, 0, 0, most)
<1>1. ASSUME NEW x \in Int, Abs(x) <= most PROVE Posts(<<>>)[x] = x
  <2> DEFINE steps == [i \in DOMAIN <<>> |-> Posting(<<>>[i])]
  <2>1. Posts(<<>>)[x] = Run(x, steps)
    BY DEF Posts
  <2>2. Len(steps) = 0
    OBVIOUS
  <2> HIDE DEF steps
  <2>3. PICK at : Running(at, x, steps) /\ Run(x, steps) = at[0]
    BY <2>2, RunIs
  <2>4. at[0] = x
    BY <2>2, <2>3 DEF Running
  <2> QED BY <2>1, <2>3, <2>4
<1>2. \A x \in Int : Abs(x) + 0 + 0 <= most => Posts(<<>>)[x] \in Int /\ Abs(Posts(<<>>)[x] - x - 0) <= 0
  <2>1. SUFFICES ASSUME NEW x \in Int, Abs(x) + 0 + 0 <= most
                 PROVE  Posts(<<>>)[x] \in Int /\ Abs(Posts(<<>>)[x] - x - 0) <= 0
    OBVIOUS
  <2>2. Abs(x) \in Nat
    BY AbsType
  <2>3. Posts(<<>>)[x] = x
    BY <1>1, <2>1, <2>2
  <2>4. x - x - 0 = 0
    OBVIOUS
  <2> QED BY <2>3, <2>4 DEF Abs
<1>3. Abs(0) <= 0
  BY DEF Abs
<1> QED BY <1>2, <1>3 DEF Step

\* What rounding can make of what a line posts.
RoughCalc(calc, q) == [included |-> calc.included, charges |-> Roughed(calc.charges, q)]

\* What a line posts to a level, charge by charge, is all of it up to rounding.
LEMMA LinePosts ==
  ASSUME NEW b, NEW r, NEW place, NEW q, Fitting(b, r, place, q), NEW d \in DOMAIN b.details,
         NEW level \in Level
  PROVE  LET calc == r.details[d]
             line == Postings(b, calc, level)
             t == PostedBy(b, calc)[level]
             e == PostedBy(b, RoughCalc(calc, q))[level]
             m == Mass(line, DOMAIN calc.charges)
         IN  /\ Step(Posts(line), t, m, e, place * Digits)
             /\ t \in Int /\ m \in Nat /\ m <= ChargeMass(r, d) /\ e \in Nat /\ e <= Roughs(r, q)[d]
<1> DEFINE calc == r.details[d]
           charges == calc.charges
           rough == RoughCalc(calc, q)
           line == Postings(b, calc, level)
           spare == Postings(b, rough, level)
           N == Len(charges)
           t == PostedBy(b, calc)[level]
           e == PostedBy(b, rough)[level]
           m == Mass(line, DOMAIN charges)
           a == [i \in 1 .. N |-> Abs(line[i])]
           L == place * Digits
           F == DOMAIN b.fringes
<1>1. /\ Charges(charges, F) /\ DOMAIN charges = 1 .. N /\ N \in Nat
      /\ ChargeMass(r, d) = Mass(Worth(charges), DOMAIN charges)
      /\ IsFiniteSet(1 .. N)
  <2>1. /\ Charges(charges, F) /\ DOMAIN charges = 1 .. N /\ N \in Nat
        /\ ChargeMass(r, d) = Mass(Worth(charges), DOMAIN charges)
    BY LineCharges
  <2>2. IsFiniteSet(DOMAIN charges)
    BY <2>1 DEF Charges
  <2> QED BY <2>1, <2>2
<1>2. /\ rough.charges = Roughed(charges, q) /\ rough.included = calc.included
      /\ Charges(rough.charges, F) /\ DOMAIN rough.charges = DOMAIN charges
      /\ Over(Worth(rough.charges), DOMAIN charges) \in Nat /\ Roughs(r, q)[d] \in Nat
      /\ Over(Worth(rough.charges), DOMAIN charges) <= Roughs(r, q)[d]
  <2>1. rough.charges = Roughed(charges, q) /\ rough.included = calc.included
    BY DEF RoughCalc
  <2>2. /\ Charges(Roughed(charges, q), F) /\ DOMAIN Roughed(charges, q) = DOMAIN charges
        /\ Over(Worth(Roughed(charges, q)), DOMAIN charges) \in Nat /\ Roughs(r, q)[d] \in Nat
        /\ Over(Worth(Roughed(charges, q)), DOMAIN charges) <= Roughs(r, q)[d]
    BY LineCharges
  <2> HIDE DEF rough, charges, calc, F
  <2> QED BY <2>1, <2>2
<1>3. Spares(rough.charges, charges, q)
  <2>1. Spares(Roughed(charges, q), charges, q)
    BY LineCharges
  <2> HIDE DEF rough, charges, calc
  <2> QED BY <1>2, <2>1
<1>4. calc.included \in BOOLEAN /\ \A f \in F : b.fringes[f].level \in Level
  <2>1. r = Evaluate(b) /\ BudgetType(b)
    BY DEF Fitting
  <2>2. calc.included = Included(b, d)
    BY <2>1, LineIs
  <2>3. \A f \in F : b.fringes[f].level \in Level
    BY <2>1 DEF BudgetType, Map, FringeType
  <2> QED BY <2>2, <2>3 DEF Included
<1>5. \A i \in 1 .. N : spare[i] \in Nat /\ (line[i] # 0 => spare[i] = q)
  <2> DEFINE fringes == {f \in F : calc.included /\ b.fringes[f].level = level}
  <2>1. line = ChargesOf(charges, fringes) /\ spare = ChargesOf(rough.charges, fringes)
    BY <1>2 DEF Postings
  <2> HIDE DEF fringes, line, spare, rough, charges, calc, N
  <2> QED BY <1>1, <1>3, <2>1 DEF Spares
<1>r. /\ q \in Nat /\ L \in Nat /\ L <= Largest /\ Largest \in Nat /\ Cuts(Unchecked, L, q)
  BY RoomIs
<1>6. /\ ShareOf(line, charges) /\ t = Over(line, DOMAIN charges)
      /\ e = Over(spare, DOMAIN charges)
      /\ e <= Over(Worth(rough.charges), DOMAIN charges) /\ e \in Nat
  <2>1. ShareOf(line, charges)
    <3> HIDE DEF F
    <3>1. Charges(calc.charges, F)
      BY <1>1
    <3> HIDE DEF calc
    <3> QED BY <1>4, <3>1, LinePostings DEF F
  <2>2. t = Over(line, DOMAIN charges) /\ e = Over(spare, DOMAIN rough.charges)
    BY DEF PostedBy
  <2>3. e \in Nat
    <3>1. \A i \in DOMAIN charges : spare[i] \in Nat
      BY <1>1, <1>5
    <3> HIDE DEF spare, e, rough, charges, calc, N
    <3> QED BY <1>1, <1>2, <2>2, <3>1, OverNat
  <2>4. /\ Summable(PostedBy(b, rough), Level)
        /\ Over(PostedBy(b, rough), Level)
             = IF rough.included THEN Over(Worth(rough.charges), DOMAIN rough.charges) ELSE 0
    <3> HIDE DEF F, calc, charges
    <3>1. Charges(rough.charges, F) /\ rough.included \in BOOLEAN
      BY <1>2, <1>4
    <3> HIDE DEF rough
    <3> QED BY <1>4, <3>1, LinePostings DEF F
  <2>5. \A l \in Level : PostedBy(b, rough)[l] \in Nat
    <3>1. SUFFICES ASSUME NEW l \in Level PROVE PostedBy(b, rough)[l] \in Nat
      OBVIOUS
    <3> DEFINE fringes == {f \in F : calc.included /\ b.fringes[f].level = l}
               s == ChargesOf(rough.charges, fringes)
    <3>2. PostedBy(b, rough)[l] = Over(s, DOMAIN rough.charges)
      BY <1>2 DEF PostedBy, Postings
    <3> HIDE DEF fringes, rough, charges, calc, N
    <3>3. \A i \in DOMAIN rough.charges : s[i] \in Nat
      BY <1>2, <1>3 DEF Spares
    <3> HIDE DEF s
    <3> QED BY <1>1, <1>2, <3>2, <3>3, OverNat
  <2> HIDE DEF rough, charges, calc, line, spare, t
  <2>6. PostedBy(b, rough)[level] <= Over(PostedBy(b, rough), Level)
    <3> DEFINE p == PostedBy(b, rough)
    <3>1. \A l \in Level : p[l] \in Nat
      BY <2>5
    <3> HIDE DEF p
    <3>2. p[level] <= Over(p, Level)
      BY <3>1, LevelAssumption, OverNat
    <3> QED BY <3>2 DEF p
  <2>7. e <= Over(Worth(rough.charges), DOMAIN charges)
    <3> HIDE DEF e
    <3>1. e = PostedBy(b, rough)[level]
      BY DEF e
    <3> QED BY <1>2, <2>3, <2>4, <2>6, <3>1
  <2> QED BY <1>2, <2>1, <2>2, <2>3, <2>7
<1> HIDE DEF rough, charges, line, spare, N, t, e, m, a, L, F
<1>7. /\ line = [i \in 1 .. N |-> line[i]] /\ DOMAIN line = 1 .. N /\ Summable(line, 1 .. N)
      /\ m = Mass(line, 1 .. N) /\ m = Over(a, 1 .. N) /\ m \in Nat /\ m <= ChargeMass(r, d)
      /\ t = Over(line, 1 .. N) /\ t \in Int /\ Abs(t) <= m
      /\ e = Over(spare, 1 .. N) /\ e \in Nat /\ e <= Roughs(r, q)[d]
  <2>1. /\ line = [i \in 1 .. N |-> line[i]] /\ Summable(line, 1 .. N)
        /\ Mass(line, 1 .. N) \in Nat /\ Mass(line, 1 .. N) <= ChargeMass(r, d)
    BY <1>1, <1>6 DEF ShareOf
  <2>2. m = Mass(line, 1 .. N) /\ m = Over(a, 1 .. N)
    BY <1>1 DEF m, a, Mass
  <2>3. Over(line, 1 .. N) \in Int /\ Abs(Over(line, 1 .. N)) <= Mass(line, 1 .. N)
    BY <2>1, MassType, OverType
  <2>4. e <= Roughs(r, q)[d]
    BY <1>2, <1>6
  <2> QED BY <1>1, <1>6, <2>1, <2>2, <2>3, <2>4
<1>8. ASSUME NEW x \in Int, Abs(x) + m + e <= L
      PROVE  Posts(line)[x] \in Int /\ Abs(Posts(line)[x] - x - t) <= e
  <2> DEFINE steps == [i \in 1 .. N |-> Posting(line[i])]
  <2>1. Posts(line)[x] = Run(x, steps) /\ Len(steps) = N
    BY <1>1, <1>7 DEF Posts
  <2>2. ASSUME NEW i \in 1 .. N PROVE Step(steps[i], line[i], a[i], spare[i], L)
    <3>1. steps[i] = Posting(line[i]) /\ a[i] = Abs(line[i])
      BY DEF a
    <3>2. line[i] \in Int /\ spare[i] \in Nat /\ (line[i] # 0 => q <= spare[i])
      BY <1>5, <1>7, <1>r DEF Summable
    <3> HIDE DEF steps
    <3> QED BY <1>r, <3>1, <3>2, PostingStep
  <2> HIDE DEF steps
  <2>3. Steps(steps, line, a, spare, N, L)
    BY <2>2 DEF Steps
  <2>4. Abs(x) + Over(a, 1 .. N) + Over(spare, 1 .. N) <= L
    BY <1>7, <1>8
  <2>5. /\ Run(x, steps) \in Int
        /\ Abs(Run(x, steps) - x - Over(line, 1 .. N)) <= Over(spare, 1 .. N)
    BY <1>1, <1>r, <2>1, <2>3, <2>4, RunNear
  <2> QED BY <1>7, <2>1, <2>5
<1>9. Step(Posts(line), t, m, e, L)
  BY <1>7, <1>8 DEF Step
<1> QED BY <1>7, <1>9 DEF calc, charges, rough, line, t, e, m, L

\* What all lines post to a level, as a sum over lines, and what rounding can make of it.
Postable(b, r, level) == [d \in DOMAIN b.details |-> PostedBy(b, r.details[d])[level]]
PostedRough(b, r, q, level) ==
  [d \in DOMAIN b.details |-> PostedBy(b, RoughCalc(r.details[d], q))[level]]

LEMMA PostedNear ==
  ASSUME NEW b, NEW r, NEW place, NEW q, Fitting(b, r, place, q), NEW level \in Level
  PROVE  LET D == DOMAIN b.details
             t == Postable(b, r, level)
             e == PostedRough(b, r, q, level)
         IN  /\ Summable(t, D) /\ Summable(e, D)
             /\ Posted(b, r.details, level) \in Int
             /\ Abs(Posted(b, r.details, level) - Over(t, D)) <= Over(e, D)
             /\ InRange(Posted(b, r.details, level))
<1> DEFINE D == DOMAIN b.details
           t == Postable(b, r, level)
           e == PostedRough(b, r, q, level)
           m == [d \in D |-> Mass(Postings(b, r.details[d], level), DOMAIN r.details[d].charges)]
           N == Len(Lines)
           steps == [n \in DOMAIN Lines |->
                       Posts(IF Lines[n] \in DOMAIN r.details
                             THEN Postings(b, r.details[Lines[n]], level) ELSE <<>>)]
           L == place * Digits
           tt == InOrder(Lines, t)
           mm == InOrder(Lines, m)
           ee == InOrder(Lines, e)
<1>1. DOMAIN r.details = D /\ D \in SUBSET Range(Lines) /\ IsFiniteSet(D)
  BY ResultLines DEF Fitting
<1>2. ASSUME NEW d \in D
      PROVE  /\ Step(Posts(Postings(b, r.details[d], level)), t[d], m[d], e[d], L)
             /\ t[d] \in Int /\ m[d] \in Nat /\ e[d] \in Nat
             /\ m[d] <= Vols(r)[d] /\ e[d] <= Roughs(r, q)[d]
  <2> DEFINE calc == r.details[d]
  <2>1. /\ t[d] = PostedBy(b, calc)[level] /\ e[d] = PostedBy(b, RoughCalc(calc, q))[level]
        /\ m[d] = Mass(Postings(b, calc, level), DOMAIN calc.charges)
    BY DEF Postable, PostedRough
  <2> HIDE DEF t, e, m, L
  <2>2. /\ Step(Posts(Postings(b, calc, level)), PostedBy(b, calc)[level],
                Mass(Postings(b, calc, level), DOMAIN calc.charges),
                PostedBy(b, RoughCalc(calc, q))[level], L)
        /\ PostedBy(b, calc)[level] \in Int
        /\ Mass(Postings(b, calc, level), DOMAIN calc.charges) \in Nat
        /\ Mass(Postings(b, calc, level), DOMAIN calc.charges) <= ChargeMass(r, d)
        /\ PostedBy(b, RoughCalc(calc, q))[level] \in Nat
        /\ PostedBy(b, RoughCalc(calc, q))[level] <= Roughs(r, q)[d]
    BY LinePosts DEF L
  <2>3. /\ Vols(r)[d] \in Nat /\ ChargeMass(r, d) \in Nat /\ r.details[d].subtotal \in Int
        /\ Vols(r)[d] = Abs(r.details[d].subtotal) + ChargeMass(r, d)
    BY VolsAre, LineIs DEF Fitting
  <2>4. Abs(r.details[d].subtotal) \in Nat
    BY <2>3, AbsType
  <2> HIDE DEF calc
  <2> QED BY <2>1, <2>2, <2>3, <2>4 DEF calc
<1>3. /\ t = [d \in D |-> t[d]] /\ e = [d \in D |-> e[d]] /\ m = [d \in D |-> m[d]]
      /\ DOMAIN t = D /\ DOMAIN e = D /\ DOMAIN m = D
  BY DEF Postable, PostedRough
<1>r. /\ L \in Nat /\ L <= Largest /\ Largest \in Nat
      /\ Over(Roughs(r, q), D) \in Nat /\ Summable(Roughs(r, q), D)
      /\ Volume(r) \in Nat /\ Volume(r) + Over(Roughs(r, q), D) <= L
  <2> DEFINE k == Over(Roughs(r, q), DOMAIN b.details)
             u == All(DOMAIN b.details, q)
             v == All(DOMAIN b.categories, q)
             o == All(DOMAIN b.accounts, q)
             x == Volume(r)
  <2>1. /\ k \in Nat /\ u \in Nat /\ v \in Nat /\ o \in Nat /\ q \in Nat
        /\ L \in Nat /\ L <= Largest /\ Largest \in Nat /\ x \in Nat
        /\ Summable(Roughs(r, q), D)
        /\ x + (2 * k + 4 * u + 4 * v + 2 * o + 4 * q) <= L
    BY RoomIs
  <2> HIDE DEF k, u, v, o, L, x
  <2>2. x + k <= L
    BY <2>1
  <2> QED BY <2>1, <2>2 DEF k, x, D
<1>v. /\ Summable(Vols(r), D) /\ Over(Vols(r), D) = Volume(r)
  BY VolsAre DEF Fitting
<1>p. Posted(b, r.details, level) = Run(0, steps)
  BY DEF Posted
<1>n. N \in Nat /\ DOMAIN Lines = 1 .. N /\ Len(steps) = N
  BY OrderAssumption DEF Listed
<1> HIDE DEF D, t, e, m, N, L
<1>4. /\ Summable(t, D) /\ Summable(e, D) /\ Summable(m, D)
      /\ Over(m, D) \in Nat /\ Over(m, D) <= Volume(r)
      /\ Over(e, D) \in Nat /\ Over(e, D) <= Over(Roughs(r, q), D)
      /\ Mass(t, D) <= Over(m, D) /\ Over(t, D) \in Int
  <2>1. Summable(t, D)
    BY <1>1, <1>2 DEF Summable
  <2>2. Summable(e, D) /\ Over(e, D) \in Nat
    BY <1>1, <1>2, OverNat
  <2>3. Summable(m, D) /\ Over(m, D) \in Nat
    BY <1>1, <1>2, OverNat
  <2>4. Over(m, D) <= Volume(r)
    BY <1>2, <1>v, <2>3, OverMonotone
  <2>5. Over(e, D) <= Over(Roughs(r, q), D)
    BY <1>2, <1>r, <2>2, OverMonotone
  <2>6. Mass(t, D) <= Over(m, D)
    <3> DEFINE a == [d \in D |-> Abs(t[d])]
    <3>1. Summable(a, D) /\ Mass(t, D) = Over(a, D)
      BY <2>1, MassSummable DEF Mass
    <3>2. \A d \in D : a[d] <= m[d]
      BY <1>2 DEF Step
    <3> HIDE DEF a
    <3> QED BY <2>3, <3>1, <3>2, OverMonotone
  <2> QED BY <2>1, <2>2, <2>3, <2>4, <2>5, <2>6, OverType
<1>5. /\ Over(tt, 1 .. N) = Over(t, D) /\ Over(mm, 1 .. N) = Over(m, D)
      /\ Over(ee, 1 .. N) = Over(e, D)
  <2>0. Listed(Lines, Range(Lines))
    BY OrderAssumption
  <2>1. \A d \in D : t[d] \in Int /\ m[d] \in Int /\ e[d] \in Int
    BY <1>2
  <2>2. /\ Len(tt) = N /\ Len(mm) = N /\ Len(ee) = N
    BY <1>n DEF InOrder
  <2> HIDE DEF tt, mm, ee
  <2>3. Over(tt, 1 .. Len(tt)) = Over(t, D)
    BY <1>1, <1>3, <2>0, <2>1, InOrderSums DEF tt
  <2>4. Over(mm, 1 .. Len(mm)) = Over(m, D)
    BY <1>1, <1>3, <2>0, <2>1, InOrderSums DEF mm
  <2>5. Over(ee, 1 .. Len(ee)) = Over(e, D)
    BY <1>1, <1>3, <2>0, <2>1, InOrderSums DEF ee
  <2> QED BY <2>2, <2>3, <2>4, <2>5
<1>6. ASSUME NEW i \in 1 .. N PROVE Step(steps[i], tt[i], mm[i], ee[i], L)
  <2> DEFINE d == Lines[i]
  <2>0. i \in DOMAIN Lines
    BY <1>n
  <2>1. CASE d \in D
    <3>1. tt[i] = t[d] /\ mm[i] = m[d] /\ ee[i] = e[d]
      BY <1>3, <2>0, <2>1 DEF InOrder, At
    <3>2. steps[i] = Posts(Postings(b, r.details[d], level))
      BY <1>1, <2>0, <2>1
    <3> HIDE DEF steps, tt, mm, ee, d
    <3> QED BY <1>2, <2>1, <3>1, <3>2
  <2>2. CASE d \notin D
    <3>1. tt[i] = 0 /\ mm[i] = 0 /\ ee[i] = 0
      BY <1>3, <2>0, <2>2 DEF InOrder, At
    <3>2. steps[i] = Posts(<<>>)
      BY <1>1, <2>0, <2>2
    <3> HIDE DEF steps, tt, mm, ee
    <3> QED BY <1>r, <3>1, <3>2, NoStep
  <2> QED BY <2>1, <2>2
<1> HIDE DEF steps, tt, mm, ee
<1>7. Steps(steps, tt, mm, ee, N, L)
  BY <1>6 DEF Steps
<1>8. 0 \in Int /\ Abs(0) + Over(mm, 1 .. N) + Over(ee, 1 .. N) <= L
  <2>1. Abs(0) = 0
    BY DEF Abs
  <2> QED BY <1>4, <1>5, <1>r, <2>1
<1>9. /\ Run(0, steps) \in Int
      /\ Abs(Run(0, steps) - 0 - Over(tt, 1 .. N)) <= Over(ee, 1 .. N)
  BY <1>7, <1>8, <1>n, <1>r, RunNear
<1> DEFINE x == Run(0, steps)
           y == Over(t, D)
<1>10. /\ x \in Int /\ y \in Int /\ Abs(x - y) <= Over(e, D) /\ Abs(y) <= Over(m, D)
  <2>1. x - 0 - y = x - y
    BY <1>4, <1>9
  <2>2. Abs(y) <= Mass(t, D) /\ Mass(t, D) \in Nat
    BY <1>4, MassType
  <2>3. Abs(y) \in Nat
    BY <1>4, AbsType
  <2> QED BY <1>4, <1>5, <1>9, <2>1, <2>2, <2>3
<1> HIDE DEF x, y
<1>11. InRange(x)
  <2> DEFINE f == Over(e, D)
             g == Over(m, D)
  <2>1. f \in Nat /\ g \in Nat /\ g + f <= Largest
    BY <1>4, <1>r
  <2> HIDE DEF f, g
  <2>2. x <= Largest /\ - Largest <= x
    BY <1>10, <1>r, <2>1 DEF f, g, Abs
  <2> QED BY <1>10, <1>r, <2>2 DEF InRange, Decimal
<1> QED BY <1>4, <1>10, <1>11, <1>p DEF x, y, t, e, D

\* The breakdown of evaluate is what the lines post.
LEMMA BreakdownIs ==
  \A b : Evaluate(b).breakdown = [level \in Level |-> Posted(b, Evaluate(b).details, level)]
BY DEF Evaluate, EvaluateWith, EvaluateLines, CalcResult

\* The breakdown of fringes by level is all of the fringes, up to rounding.
LEMMA BreakdownFoots ==
  ASSUME NEW b, NEW r, NEW place, NEW q, Fitting(b, r, place, q)
  PROVE  LET k == Over(Roughs(r, q), DOMAIN b.details)
         IN  /\ Sum(r.breakdown) \in Int
             /\ Abs(Sum(r.breakdown) - Over(Frgs(r), Counted(r))) <= 2 * k
             /\ ~ PostingPanics(b, r.details)
<1> DEFINE D == DOMAIN b.details
           C == Counted(r)
           k == Over(Roughs(r, q), D)
           f == [level \in Level |-> Postable(b, r, level)]
           g == [level \in Level |-> PostedRough(b, r, q, level)]
           row == RowSums(f, Level, D)
           col == ColumnSums(f, Level, D)
           rrow == RowSums(g, Level, D)
           rcol == ColumnSums(g, Level, D)
           w == [d \in D |-> Over(Worth(r.details[d].charges), DOMAIN r.details[d].charges)]
           h == r.breakdown
<1>1. DOMAIN r.details = D /\ IsFiniteSet(D) /\ C \in SUBSET D /\ IsFiniteSet(Level)
  <2>1. DOMAIN r.details = D /\ IsFiniteSet(D)
    BY ResultLines DEF Fitting
  <2> QED BY <2>1, LevelAssumption DEF Counted
<1>2. h = [level \in Level |-> Posted(b, r.details, level)]
  <2>1. r = Evaluate(b)
    BY DEF Fitting
  <2> QED BY <2>1, BreakdownIs
<1>k. Summable(Roughs(r, q), D) /\ k \in Nat /\ \A d \in D : Roughs(r, q)[d] \in Nat
  BY RoomIs
<1>3. ASSUME NEW level \in Level
      PROVE  /\ Summable(f[level], D) /\ Summable(g[level], D)
             /\ h[level] \in Int /\ InRange(h[level])
             /\ Abs(h[level] - row[level]) <= rrow[level]
  <2>1. /\ Summable(Postable(b, r, level), D) /\ Summable(PostedRough(b, r, q, level), D)
        /\ Posted(b, r.details, level) \in Int /\ InRange(Posted(b, r.details, level))
        /\ Abs(Posted(b, r.details, level) - Over(Postable(b, r, level), D))
             <= Over(PostedRough(b, r, q, level), D)
    BY PostedNear
  <2>2. /\ f[level] = Postable(b, r, level) /\ g[level] = PostedRough(b, r, q, level)
        /\ row[level] = Over(f[level], D) /\ rrow[level] = Over(g[level], D)
    BY DEF RowSums
  <2>3. h[level] = Posted(b, r.details, level)
    BY <1>2
  <2> HIDE DEF h, f, g, row, rrow, D
  <2> QED BY <2>1, <2>2, <2>3
<1>4. ASSUME NEW d \in D
      PROVE  /\ col[d] = IF d \in C THEN w[d] ELSE 0
             /\ rcol[d] <= Roughs(r, q)[d]
             /\ w[d] \in Int /\ r.details[d].fringes \in Int
             /\ Abs(w[d] - r.details[d].fringes) <= Roughs(r, q)[d]
  <2> DEFINE calc == r.details[d]
             charges == calc.charges
             rough == RoughCalc(calc, q)
             N == DOMAIN charges
             F == DOMAIN b.fringes
  <2>1. /\ Charges(charges, F) /\ Over(Worth(charges), N) \in Int /\ calc.fringes \in Int
        /\ Abs(calc.fringes - Over(Worth(charges), N)) <= Roughs(r, q)[d]
    BY LineCharges
  <2>2. /\ Charges(Roughed(charges, q), F) /\ DOMAIN Roughed(charges, q) = N
        /\ Over(Worth(Roughed(charges, q)), N) \in Nat /\ Roughs(r, q)[d] \in Nat
        /\ Over(Worth(Roughed(charges, q)), N) <= Roughs(r, q)[d]
    BY LineCharges
  <2>3. rough.charges = Roughed(charges, q) /\ rough.included = calc.included
    BY DEF RoughCalc
  <2>4. /\ calc.included \in BOOLEAN /\ \A x \in F : b.fringes[x].level \in Level
        /\ (d \in C <=> calc.included)
    <3>1. r = Evaluate(b) /\ BudgetType(b)
      BY DEF Fitting
    <3>2. calc.included = Included(b, d)
      BY <3>1, LineIs
    <3>3. \A x \in F : b.fringes[x].level \in Level
      BY <3>1 DEF BudgetType, Map, FringeType
    <3>4. d \in C <=> calc.included
      BY <1>1 DEF Counted
    <3> QED BY <3>2, <3>3, <3>4 DEF Included
  <2>5. col[d] = Over(PostedBy(b, calc), Level) /\ rcol[d] = Over(PostedBy(b, rough), Level)
    <3> DEFINE x == [level \in Level |-> f[level][d]]
               y == [level \in Level |-> g[level][d]]
    <3>1. \A level \in Level : x[level] = PostedBy(b, calc)[level] /\ y[level] = PostedBy(b, rough)[level]
      BY DEF Postable, PostedRough
    <3>2. col[d] = Over(x, Level) /\ rcol[d] = Over(y, Level)
      BY DEF ColumnSums
    <3> HIDE DEF x, y, col, rcol, calc, rough
    <3> QED BY <3>1, <3>2, OverSame
  <2>6. Over(PostedBy(b, calc), Level) = IF calc.included THEN Over(Worth(charges), N) ELSE 0
    <3>1. Charges(calc.charges, F)
      BY <2>1
    <3> HIDE DEF calc, F
    <3> QED BY <2>4, <3>1, LinePostings DEF F
  <2>7. Over(PostedBy(b, rough), Level)
          = IF rough.included THEN Over(Worth(rough.charges), DOMAIN rough.charges) ELSE 0
    <3> HIDE DEF calc, F, charges
    <3>1. Charges(rough.charges, F) /\ rough.included \in BOOLEAN
      BY <2>2, <2>3, <2>4
    <3> HIDE DEF rough
    <3> QED BY <2>4, <3>1, LinePostings DEF F
  <2>8. w[d] = Over(Worth(charges), N)
    OBVIOUS
  <2>9. r.details[d].fringes = calc.fringes
    OBVIOUS
  <2> HIDE DEF calc, rough, charges, N, F, w, col, rcol, C
  <2>10. /\ w[d] \in Int /\ calc.fringes \in Int /\ Roughs(r, q)[d] \in Nat
         /\ Abs(calc.fringes - w[d]) <= Roughs(r, q)[d]
    BY <2>1, <2>2, <2>8
  <2>11. Abs(w[d] - calc.fringes) <= Roughs(r, q)[d]
    BY <2>10 DEF Abs
  <2>12. rcol[d] <= Roughs(r, q)[d]
    BY <2>2, <2>3, <2>5, <2>7
  <2> QED BY <2>4, <2>5, <2>6, <2>8, <2>9, <2>10, <2>11, <2>12
<1>5. /\ Summable(col, D) /\ Over(row, Level) = Over(col, D) /\ Summable(row, Level)
      /\ Summable(rcol, D) /\ Over(rrow, Level) = Over(rcol, D) /\ Summable(rrow, Level)
  <2>1. \A level \in Level : \A d \in D : f[level][d] \in Int /\ g[level][d] \in Int
    BY <1>3 DEF Summable
  <2> HIDE DEF f, g, D
  <2> QED BY <1>1, <2>1, OverSwap
<1>6. Sum(h) = Over(h, Level)
  <2>1. h = [level \in Level |-> h[level]]
    BY <1>2
  <2> HIDE DEF h
  <2> QED BY <2>1, SumOver
<1>7. ~ PostingPanics(b, r.details)
  <2>1. \A level \in Level : InRange(Posted(b, r.details, level))
    BY <1>2, <1>3
  <2> QED BY <2>1 DEF PostingPanics
<1>8. \A d \in D : d \in C => Frgs(r)[d] = r.details[d].fringes
  BY <1>1 DEF Frgs
<1> HIDE DEF f, g, row, col, rrow, rcol, w, h, D, C
<1>9. Summable(h, Level) /\ Over(h, Level) \in Int
      /\ Abs(Over(h, Level) - Over(row, Level)) <= Over(rrow, Level)
  <2>1. Summable(h, Level)
    BY <1>1, <1>3 DEF Summable
  <2>2. \A level \in Level : Abs(h[level] - row[level]) <= rrow[level]
    BY <1>3
  <2> QED BY <1>5, <2>1, <2>2, OverApart, OverType
<1>10. Over(rrow, Level) <= k /\ Over(rrow, Level) \in Int
  <2>1. Over(rcol, D) <= Over(Roughs(r, q), D)
    BY <1>4, <1>5, <1>k, OverMonotone
  <2> QED BY <1>5, <2>1, OverType DEF D
<1>11. Over(row, Level) = Over(col, C) /\ Summable(col, C) /\ Over(row, Level) \in Int
  <2>1. \A d \in D \ C : col[d] = 0
    BY <1>4
  <2> QED BY <1>1, <1>5, <2>1, OverSupport, OverType
<1>12. /\ Abs(Over(col, C) - Over(Frgs(r), C)) <= Over(Roughs(r, q), C)
       /\ Over(Roughs(r, q), C) <= k /\ Over(Roughs(r, q), C) \in Nat /\ Over(Frgs(r), C) \in Int
  <2>1. \A d \in C : /\ Frgs(r)[d] \in Int /\ Abs(col[d] - Frgs(r)[d]) <= Roughs(r, q)[d]
    BY <1>1, <1>4, <1>8
  <2>2. IsFiniteSet(C)
    BY <1>11 DEF Summable
  <2>3. Summable(Frgs(r), C)
    BY <2>1, <2>2 DEF Summable
  <2>4. /\ Summable(Roughs(r, q), C) /\ Over(Roughs(r, q), C) <= Over(Roughs(r, q), D)
        /\ Over(Roughs(r, q), C) \in Nat
    BY <1>1, <1>k, OverNat
  <2>5. Over(Roughs(r, q), D) = k
    BY DEF D
  <2> QED BY <1>11, <2>1, <2>3, <2>4, <2>5, OverApart, OverType
<1> DEFINE x == Over(h, Level)
           y == Over(row, Level)
           z == Over(Frgs(r), C)
           i == Over(rrow, Level)
           j == Over(Roughs(r, q), C)
<1>13. /\ x \in Int /\ y \in Int /\ z \in Int /\ i \in Int /\ j \in Int /\ k \in Nat
       /\ Abs(x - y) <= i /\ Abs(y - z) <= j /\ i <= k /\ j <= k
  BY <1>9, <1>10, <1>11, <1>12, <1>k
<1> HIDE DEF x, y, z, i, j, k
<1>14. Abs(x - z) <= 2 * k
  BY <1>13 DEF Abs
<1> QED BY <1>6, <1>7, <1>13, <1>14 DEF x, z, k, h, C, D

\* Valid lines that fit the digits add up, but for rounding, in every way the result
\* sums them.
LEMMA ResultsFoot ==
  ASSUME NEW b, BudgetType(b)
  PROVE  FootIn(b, Evaluate(b))
<1> DEFINE r == Evaluate(b)
<1>1. SUFFICES ASSUME Valid(b), NEW place \in Places, Extent(b, r, place) <= place * Digits
               PROVE  FootWithin(b, r, Slack(b, r, place))
  BY DEF FootIn
<1> DEFINE q == place \div 2
           D == DOMAIN b.details
           k == Over(Roughs(r, q), D)
           u == All(D, q)
           v == All(DOMAIN b.categories, q)
           o == All(DOMAIN b.accounts, q)
           slack == Slack(b, r, place)
           x == Sum(r.breakdown)
           y == Over(Frgs(r), Counted(r))
           z == r.total.fringes
<1>2. Fitting(b, r, place, q)
  BY <1>1 DEF Fitting
<1> HIDE DEF r, q
<1>3. /\ q \in Nat /\ k \in Nat /\ u \in Nat /\ v \in Nat /\ o \in Nat
      /\ slack = 2 * k + 4 * u + 4 * v + 2 * o + 4 * q
      /\ \A d \in D : Roughs(r, q)[d] \in Nat /\ Roughs(r, q)[d] <= k
  BY <1>2, RoomIs
<1>4. /\ z \in Int /\ y \in Int /\ Abs(z - y) <= u
      /\ Abs((r.atl.total + r.btl.total) - r.total.total) <= slack
      /\ Abs(Sum([a \in DOMAIN r.accounts |-> r.accounts[a].total]) - r.total.total) <= slack
  BY <1>1, <1>2, SidesFoot
<1>5. x \in Int /\ Abs(x - y) <= 2 * k /\ ~ PostingPanics(b, r.details)
  BY <1>2, BreakdownFoots
<1>6. ASSUME NEW d \in D
      PROVE  Abs(Sum(FringeSplit(b, d, r.details[d].subtotal)) - r.details[d].fringes) <= slack
  <2> DEFINE split == FringeSplit(b, d, r.details[d].subtotal)
             s == Sum(split)
             f == r.details[d].fringes
             e == Roughs(r, q)[d]
  <2>1. /\ split["grossup"] \in Int /\ split["additive"] \in Int
        /\ Abs((split["grossup"] + split["additive"]) - f) <= 2 * e
        /\ s = split["grossup"] + split["additive"]
    BY <1>2, SplitFoots
  <2>2. e \in Nat /\ e <= k
    BY <1>3
  <2> HIDE DEF split, s, f, e, k, u, v, o, slack
  <2>3. Abs(s - f) <= 2 * e
    BY <2>1
  <2>4. 2 * e <= slack
    BY <1>3, <2>2
  <2>5. r.details[d].fringes = f
    BY DEF f
  <2> HIDE DEF Abs
  <2>6. Abs(s - f) <= slack
    <3>1. f \in Int
      <4>1. r.details[d].fringes \in Int
        BY <1>2, LineCharges
      <4> QED BY <4>1 DEF f
    <3>2. s - f \in Int /\ slack \in Nat /\ 2 * e \in Nat
      BY <1>3, <2>1, <2>2, <3>1
    <3>3. Abs(s - f) \in Nat
      BY <3>2, AbsType
    <3> QED BY <2>3, <2>4, <3>2, <3>3
  <2> QED BY <2>6 DEF s, f, split
<1>7. Abs(x - z) <= slack
  <2> HIDE DEF x, y, z, k, u, v, o, slack
  <2> QED BY <1>3, <1>4, <1>5 DEF Abs
<1> HIDE DEF x, z, slack, D
<1> QED BY <1>4, <1>5, <1>6, <1>7 DEF FootWithin, Apart, x, z, slack, D

\* In a budget that is kept the totals foot.
LEMMA KeptFoots == Kept => TotalsFoot
BY ResultsFoot DEF Kept, WellKept, TotalsFoot, Results

\* Whatever is edited in whatever order, the two sides of the line, the accounts,
\* the breakdown of fringes by level and every line's split by mode add up to the
\* total they break down, but for half of a last place for each amount added on the
\* way, and no posting panics, as long as the budget is well formed and its amounts
\* fit the digits; exactly so if the last place is the unit (calc/mod.rs: Rollup,
\* FringeBreakdown, split_atl_btl, detail_fringe_split; the rounding, 95-103).
THEOREM BooksTotalsFoot == Spec => []TotalsFoot
<1>1. Kept => TotalsFoot
  BY KeptFoots
<1> QED BY <1>1, AlwaysKept, PTL
----------------------------------------------------------------------------
(***************************************************************************)
(* The national sheet, the topsheet and the tree.                          *)
(***************************************************************************)

\* What the national sheet shows of each line, and what it would show unrounded.
Cells(b, r) == [d \in DOMAIN b.details |-> NationalLine(b, r, d)["g"]]
Exacts(b, r) ==
  [d \in DOMAIN b.details |->
     r.details[d].subtotal + (FringeSplit(b, d, r.details[d].subtotal)["grossup"]
                                + FringeSplit(b, d, r.details[d].subtotal)["additive"])]

\* A budget that fits half of the digits at a place up to the kurus.
Halved(b, r, place, q) ==
  Fitting(b, r, place, q) /\ place <= Kurus /\ 2 * Extent(b, r, place) <= place * Digits

LEMMA HalfRoom ==
  ASSUME NEW b, NEW r, NEW place, NEW q, Halved(b, r, place, q)
  PROVE  LET K == Over(Roughs(r, q), DOMAIN b.details)
         IN  /\ Fitting(b, r, place, q)
             /\ Volume(r) \in Nat /\ K \in Nat /\ 2 * (Volume(r) + K) <= Whole
<1> DEFINE K == Over(Roughs(r, q), DOMAIN b.details)
           u == All(DOMAIN b.details, q)
           v == All(DOMAIN b.categories, q)
           o == All(DOMAIN b.accounts, q)
           x == Volume(r)
           slack == Slack(b, r, place)
           L == place * Digits
<1>1. Fitting(b, r, place, q) /\ place <= Kurus /\ 2 * (x + slack) <= L
  BY DEF Halved, Extent
<1>2. /\ K \in Nat /\ u \in Nat /\ v \in Nat /\ o \in Nat /\ q \in Nat /\ L \in Nat /\ x \in Nat
      /\ slack = 2 * K + 4 * u + 4 * v + 2 * o + 4 * q /\ place \in Nat
  BY <1>1, RoomIs
<1>3. L <= Whole
  <2>1. Digits \in Nat /\ Kurus \in Nat /\ Whole = Kurus * Digits
    BY WholeIs DEF Whole
  <2>2. place * Digits <= Kurus * Digits
    BY <1>1, <1>2, <2>1, Products
  <2> QED BY <2>1, <2>2
<1>4. Whole \in Nat
  BY WholeIs
<1> HIDE DEF K, u, v, o, x, slack, L
<1>5. 2 * (x + K) <= Whole
  BY <1>1, <1>2, <1>3, <1>4
<1> QED BY <1>1, <1>2, <1>5 DEF x, K

\* Three rounded cells and their sum.
LEMMA ThreeCells ==
  ASSUME NEW s \in Int, NEW p \in Int, NEW q \in Int, NEW v \in Nat,
         Abs(s) + Abs(p) + Abs(q) <= v, 2 * v <= Whole
  PROVE  LET g == AddOrLargest(AddOrLargest(RoundMoney(s), RoundMoney(p)), RoundMoney(q))
         IN  g \in Kuruses /\ Abs(g) <= 2 * v /\ 2 * Abs(g - (s + (p + q))) <= 3 * Kurus
<1> DEFINE x == RoundMoney(s)
           y == RoundMoney(p)
           z == RoundMoney(q)
<1>0. Whole \in Nat /\ Kurus \in Nat
  BY WholeIs
<1>1. /\ x \in Int /\ 2 * Abs(x - s) <= Kurus /\ Abs(x) <= 2 * Abs(s)
      /\ y \in Int /\ 2 * Abs(y - p) <= Kurus /\ Abs(y) <= 2 * Abs(p)
      /\ z \in Int /\ 2 * Abs(z - q) <= Kurus /\ Abs(z) <= 2 * Abs(q)
  BY RoundMoneyNear
<1>2. x \in Kuruses /\ y \in Kuruses /\ z \in Kuruses
  BY RoundMoneyKuruses
<1> HIDE DEF x, y, z
<1>3. /\ Abs(x + y) <= 2 * v /\ Abs((x + y) + z) <= 2 * v
      /\ 2 * Abs(((x + y) + z) - (s + (p + q))) <= 3 * Kurus
  BY <1>0, <1>1 DEF Abs
<1>4. x + y \in Kuruses /\ (x + y) + z \in Kuruses
  BY <1>2, WholeIs
<1>5. Abs(x + y) <= Whole /\ Abs((x + y) + z) <= Whole
  <2>1. x + y \in Int /\ (x + y) + z \in Int
    BY <1>1
  <2>2. Abs(x + y) \in Nat /\ Abs((x + y) + z) \in Nat
    BY <2>1, AbsType
  <2> QED BY <1>0, <1>3, <2>2
<1>6. AddOrLargest(x, y) = x + y /\ AddOrLargest(x + y, z) = (x + y) + z
  BY <1>4, <1>5, KurusesStay DEF AddOrLargest
<1>7. AddOrLargest(AddOrLargest(x, y), z) = (x + y) + z
  BY <1>6
<1> QED BY <1>3, <1>4, <1>7 DEF x, y, z

\* What the national sheet shows of a line is near what the line comes to.
LEMMA CellsNear ==
  ASSUME NEW b, NEW r, NEW place, NEW q, Halved(b, r, place, q)
  PROVE  LET D == DOMAIN b.details
             g == Cells(b, r)
             c == Exacts(b, r)
         IN  /\ \A d \in D : g[d] \in Kuruses
             /\ Summable(g, D) /\ Mass(g, D) <= Whole /\ Summable(c, D)
             /\ \A d \in D : /\ 2 * Abs(g[d] - c[d]) <= 3 * Kurus
                            /\ Abs(c[d] - Wholes(r)[d]) <= 2 * Roughs(r, q)[d]
<1> DEFINE D == DOMAIN b.details
           g == Cells(b, r)
           c == Exacts(b, r)
           v == Vols(r)
           rough == Roughs(r, q)
           u == [d \in D |-> v[d] + rough[d]]
           K == Over(rough, D)
<1>0. /\ Fitting(b, r, place, q) /\ Whole \in Nat /\ Volume(r) \in Nat /\ K \in Nat
      /\ 2 * (Volume(r) + K) <= Whole
  BY HalfRoom, WholeIs
<1>r. Summable(rough, D) /\ \A d \in D : rough[d] \in Nat /\ rough[d] <= K
  BY <1>0, RoomIs
<1>2. /\ IsFiniteSet(D) /\ Summable(v, D) /\ Over(v, D) = Volume(r)
      /\ \A d \in D : v[d] \in Nat /\ v[d] <= Volume(r)
  BY <1>0, ResultLines, VolsAre DEF Fitting
<1>1. ASSUME NEW d \in D
      PROVE  /\ g[d] \in Kuruses /\ c[d] \in Int /\ Abs(g[d]) <= 2 * u[d]
             /\ 2 * Abs(g[d] - c[d]) <= 3 * Kurus /\ Abs(c[d] - Wholes(r)[d]) <= 2 * rough[d]
  <2> DEFINE s == r.details[d].subtotal
             split == FringeSplit(b, d, s)
             p == split["grossup"]
             t == split["additive"]
             f == r.details[d].fringes
             e == rough[d]
  <2>1. /\ p \in Int /\ t \in Int /\ Abs((p + t) - f) <= 2 * e
        /\ Abs(p) + Abs(t) <= ChargeMass(r, d) + e
    BY <1>0, SplitFoots
  <2>2. ChargeMass(r, d) \in Nat /\ v[d] = Abs(s) + ChargeMass(r, d)
    BY <1>0, VolsAre DEF Fitting
  <2>3. /\ Wholes(r)[d] = s + f /\ s \in Int /\ f \in Int
    <3>1. Wholes(r)[d] = Subs(r)[d] + Frgs(r)[d] /\ Subs(r)[d] = s /\ Frgs(r)[d] = f
      BY <1>0, LineMasses
    <3>2. Subs(r)[d] \in Int /\ Frgs(r)[d] \in Int
      BY <1>0, LineMasses
    <3> HIDE DEF s, f
    <3> QED BY <3>1, <3>2
  <2>4. g[d] = AddOrLargest(AddOrLargest(RoundMoney(s), RoundMoney(p)), RoundMoney(t))
    BY DEF Cells, NationalLine, NationalLineWith, NationalCells
  <2>5. c[d] = s + (p + t)
    BY DEF Exacts
  <2>6. u[d] = v[d] + e
    OBVIOUS
  <2>7. e \in Nat /\ e <= K
    BY <1>r
  <2> HIDE DEF s, p, t, f, e, g, c, u, v, K, rough
  <2>8. Abs(s) \in Nat /\ Abs(p) \in Nat /\ Abs(t) \in Nat
    BY <2>1, <2>3, AbsType
  <2>9. Abs(s) + Abs(p) + Abs(t) <= u[d] /\ 2 * u[d] <= Whole /\ u[d] \in Nat
    BY <1>0, <1>2, <2>1, <2>2, <2>6, <2>7, <2>8
  <2>10. g[d] \in Kuruses /\ Abs(g[d]) <= 2 * u[d] /\ 2 * Abs(g[d] - (s + (p + t))) <= 3 * Kurus
    BY <2>1, <2>3, <2>4, <2>9, ThreeCells
  <2>11. Abs((s + (p + t)) - (s + f)) <= 2 * e
    <3>1. (s + (p + t)) - (s + f) = (p + t) - f
      BY <2>1, <2>3
    <3> QED BY <2>1, <3>1
  <2> QED BY <2>1, <2>3, <2>5, <2>10, <2>11 DEF e
<1>u. Summable(u, D) /\ Over(u, D) = Volume(r) + K /\ \A d \in D : u[d] \in Nat
  <2>1. \A d \in D : u[d] = v[d] + rough[d]
    OBVIOUS
  <2>2. Summable(u, D)
    BY <1>2, <1>r DEF Summable
  <2> HIDE DEF v, rough, D
  <2>3. Over(u, D) = Over(v, D) + Over(rough, D)
    BY <1>2, <1>r, OverPlus
  <2> QED BY <1>2, <1>r, <2>1, <2>2, <2>3
<1> HIDE DEF g, c, v, u, D, rough, K
<1>3. Summable(g, D) /\ Summable(c, D)
  BY <1>1, <1>2 DEF Summable, Kuruses
<1>4. Mass(g, D) <= 2 * Mass(u, D) /\ Mass(g, D) \in Nat /\ Mass(u, D) \in Nat
  <2>1. \A d \in D : Abs(g[d]) <= 2 * Abs(u[d])
    BY <1>1, <1>u DEF Abs
  <2>2. 2 \in Nat
    OBVIOUS
  <2> QED BY <1>3, <1>u, <2>1, <2>2, MassWithin
<1>5. Mass(u, D) = Over(u, D)
  <2> DEFINE a == [d \in D |-> Abs(u[d])]
  <2>1. \A d \in D : a[d] = u[d]
    BY <1>u DEF Abs
  <2> HIDE DEF a
  <2>2. Over(a, D) = Over(u, D)
    BY <2>1, OverSame
  <2> QED BY <2>2 DEF Mass, a
<1>6. Mass(g, D) <= Whole
  BY <1>0, <1>4, <1>5, <1>u
<1> QED BY <1>1, <1>3, <1>6 DEF g, c, D, rough

\* The lines a category of the sheet lists are those of the budget total.
LEMMA ListedLines ==
  ASSUME NEW b, NEW r, Valid(b), DOMAIN r.details = DOMAIN b.details, NEW c
  PROVE  NationalLines(b, r, c) = {d \in Counted(r) : Categorised(b)[d] = c}
<1>1. ASSUME NEW d PROVE d \in NationalLines(b, r, c) <=> d \in Counted(r) /\ Categorised(b)[d] = c
  <2>1. d \in NationalLines(b, r, c) <=>
          /\ d \in DOMAIN b.details /\ r.details[d].included
          /\ b.details[d].account \in DOMAIN b.accounts
          /\ b.accounts[b.details[d].account].category = c
    BY DEF NationalLines, DetailsOf, AccountsOf
  <2>2. d \in DOMAIN b.details =>
          /\ b.details[d].account \in DOMAIN b.accounts
          /\ Categorised(b)[d] = b.accounts[b.details[d].account].category
    BY CategoriesAre
  <2>3. d \in Counted(r) <=> d \in DOMAIN b.details /\ r.details[d].included
    BY DEF Counted
  <2> QED BY <2>1, <2>2, <2>3
<1> QED BY <1>1

SideName(atl) == IF atl THEN "atl" ELSE "btl"
ListedCells(b, r, c) == SumUp([d \in NationalLines(b, r, c) |-> Cells(b, r)[d]])

\* The sheet's sum of a side, as a sum of sums of cells.
LEMMA SheetSide ==
  ASSUME NEW b, NEW r, DOMAIN r.details = DOMAIN b.details, NEW atl \in BOOLEAN,
         NEW h, h = [c \in SideCategories(b, atl) |-> ListedCells(b, r, c)]
  PROVE  NationalSheet(b, r)[SideName(atl)].g = SumUp(h)
<1> DEFINE lines == [c \in DOMAIN b.categories |->
                      [d \in NationalLines(b, r, c) |-> NationalLine(b, r, d)]]
           subtotals == [c \in DOMAIN lines |-> NatAcc(lines[c])]
           side == SideName(atl)
           rows == [c \in {x \in DOMAIN b.categories : CategoryIsAtl(b, x) = (side = "atl")} |-> subtotals[c]]
           sections == Sections(b, subtotals)
<1>1. NationalSheet(b, r) = SheetOf(lines, sections)
  BY DEF NationalSheet, SheetWith
<1>2. side \in {"atl", "btl"} /\ (side = "atl") = atl
  BY DEF SideName
<1>3. NationalSheet(b, r)[side] = sections[side]
  <2>1. atl = TRUE \/ atl = FALSE
    OBVIOUS
  <2> HIDE DEF lines, subtotals, sections
  <2> QED BY <1>1, <2>1 DEF SheetOf, SideName
<1>4. sections[side] = NatAcc(rows)
  <2> HIDE DEF subtotals, side
  <2> QED BY <1>2 DEF Sections
<1>5. NatAcc(rows).g = SumUp([c \in DOMAIN rows |-> rows[c]["g"]])
  <2> HIDE DEF rows
  <2> QED BY DEF NatAcc, Totalled
<1>6. DOMAIN rows = SideCategories(b, atl)
  <2> HIDE DEF side
  <2> QED BY <1>2 DEF SideCategories
<1>7. \A c \in DOMAIN b.categories : NatAcc(lines[c])["g"] = ListedCells(b, r, c)
  <2>1. SUFFICES ASSUME NEW c \in DOMAIN b.categories PROVE NatAcc(lines[c])["g"] = ListedCells(b, r, c)
    OBVIOUS
  <2> DEFINE l == [d \in NationalLines(b, r, c) |-> NationalLine(b, r, d)]
             x == [d \in DOMAIN l |-> l[d]["g"]]
             y == [d \in NationalLines(b, r, c) |-> Cells(b, r)[d]]
  <2>2. NatAcc(l)["g"] = SumUp(x)
    <3> HIDE DEF l
    <3> QED BY DEF NatAcc, Totalled
  <2>3. \A d \in NationalLines(b, r, c) : Cells(b, r)[d] = NationalLine(b, r, d)["g"]
    <3>1. \A d \in NationalLines(b, r, c) : d \in DOMAIN b.details
      BY DEF NationalLines, DetailsOf
    <3> QED BY <3>1 DEF Cells
  <2>4. x = y
    BY <2>3
  <2> HIDE DEF x, y, l
  <2>5. lines[c] = l
    BY DEF l
  <2> QED BY <2>2, <2>4, <2>5 DEF ListedCells, y
<1>8. [c \in DOMAIN rows |-> rows[c]["g"]] = h
  <2>1. \A c \in DOMAIN rows : c \in DOMAIN b.categories /\ rows[c] = NatAcc(lines[c])
    OBVIOUS
  <2> HIDE DEF rows, lines
  <2> QED BY <1>6, <1>7, <2>1
<1> QED BY <1>3, <1>4, <1>5, <1>8

\* A side of the sheet is as near to that of the result as its cells are.
LEMMA SheetSideNear ==
  ASSUME NEW b, NEW r, NEW place, NEW q, Halved(b, r, place, q), Valid(b), NEW atl \in BOOLEAN
  PROVE  Near(NationalSheet(b, r)[SideName(atl)].g,
              RoundMoney(SideOf(b, r.categories, atl).total), 3 * Cardinality(DOMAIN b.details) + 1,
              Slack(b, r, place))
<1> DEFINE D == DOMAIN b.details
           g == Cells(b, r)
           c == Exacts(b, r)
           w == Wholes(r)
           rough == Roughs(r, q)
           twice == [d \in D |-> 2 * rough[d]]
           key == Categorised(b)
           S == SideCategories(b, atl)
           L == SideLines(b, r, atl)
           h == [x \in S |-> ListedCells(b, r, x)]
           side == SideOf(b, r.categories, atl).total
<1>0. Fitting(b, r, place, q)
  BY HalfRoom
<1>1. DOMAIN r.details = D /\ IsFiniteSet(D) /\ Summable(w, D)
  BY <1>0, LineMasses
<1>2. /\ Summable(g, D) /\ Mass(g, D) <= Whole /\ Summable(c, D)
      /\ \A d \in D : g[d] \in Kuruses
      /\ \A d \in D : 2 * Abs(g[d] - c[d]) <= 3 * Kurus /\ Abs(c[d] - w[d]) <= 2 * rough[d]
  BY CellsNear
<1>3. /\ side \in Int /\ L \in SUBSET D
      /\ Abs(side - Over(w, L)) <= 2 * (All(L, q) + All(DOMAIN b.categories, q)) + q
  BY <1>0, SideNear
<1>4. NationalSheet(b, r)[SideName(atl)].g = SumUp(h)
  BY <1>1, SheetSide
<1>5. IsFiniteSet(S)
  <2>1. IsFiniteSet(DOMAIN b.categories) /\ S \in SUBSET DOMAIN b.categories
    BY <1>0 DEF Fitting, BudgetType, Map, SideCategories
  <2> QED BY <2>1, FS_Subset
<1>6. \A d \in L : key[d] \in S
  <2>1. \A d \in D : key[d] \in DOMAIN b.categories
    BY CategoriesAre
  <2> HIDE DEF key, D
  <2> QED BY <1>3, <2>1 DEF SideLines, SideCategories, key
<1>7. \A x \in S : NationalLines(b, r, x) = {d \in L : key[d] = x}
  <2>1. \A x \in S : NationalLines(b, r, x) = {d \in Counted(r) : key[d] = x}
    BY <1>1, ListedLines
  <2>2. \A x \in S : {d \in Counted(r) : key[d] = x} = {d \in L : key[d] = x}
    <3> HIDE DEF key
    <3> QED BY DEF SideLines, SideCategories, key
  <2> QED BY <2>1, <2>2
<1>r. /\ Summable(rough, D) /\ \A d \in D : rough[d] \in Nat
  BY <1>0, RoomIs
<1>s. /\ Over(rough, D) \in Nat /\ All(D, q) \in Nat /\ All(DOMAIN b.categories, q) \in Nat
      /\ All(DOMAIN b.accounts, q) \in Nat /\ q \in Nat
      /\ Slack(b, r, place) = 2 * Over(rough, D) + 4 * All(D, q) + 4 * All(DOMAIN b.categories, q)
                                + 2 * All(DOMAIN b.accounts, q) + 4 * q
  BY <1>0, RoomIs
<1>t. \A d \in D : twice[d] = 2 * rough[d] /\ twice[d] = rough[d] + rough[d] /\ twice[d] \in Nat
  BY <1>r
<1> HIDE DEF D, g, c, w, key, S, L, rough, twice, side
<1>8. h = [x \in S |-> h[x]]
  OBVIOUS
<1>9. \A x \in S : h[x] = SumUp([d \in {y \in L : key[y] = x} |-> g[d]])
  BY <1>7 DEF ListedCells, g
<1> HIDE DEF h
<1>10. /\ Summable(g, L) /\ Mass(g, L) <= Mass(g, D) /\ Mass(g, L) \in Nat /\ Mass(g, D) \in Nat
       /\ Over(g, L) \in Int
  BY <1>2, <1>3, MassMonotone
<1>10a. Summable(w, L) /\ Over(w, L) \in Int /\ Summable(c, L) /\ Over(c, L) \in Int
  BY <1>1, <1>2, <1>3, MassMonotone
<1>11. SumUp(h) = Over(g, L)
  <2>1. Mass(g, L) <= Whole
    BY <1>2, <1>10, WholeIs
  <2>2. IsFiniteSet(L) /\ \A d \in L : g[d] \in Kuruses
    BY <1>2, <1>3, <1>10 DEF Summable
  <2> QED BY <1>5, <1>6, <1>8, <1>9, <2>1, <2>2, SumUpByKey
<1>12. 2 * Abs(Over(g, L) - Over(c, L)) <= Cardinality(L) * (3 * Kurus)
  <2> DEFINE k == 3 * Kurus
  <2>1. k \in Nat
    BY UnitAssumption
  <2>2. \A d \in L : 2 * Abs(g[d] - c[d]) <= k
    BY <1>2, <1>3
  <2> HIDE DEF k
  <2>3. 2 * Abs(Over(g, L) - Over(c, L)) <= Cardinality(L) * k
    BY <1>10, <1>10a, <2>1, <2>2, OverNear
  <2> QED BY <2>3 DEF k
<1>13. Cardinality(L) \in Nat /\ Cardinality(D) \in Nat /\ Cardinality(L) <= Cardinality(D)
  BY <1>1, <1>3, FS_Subset, FS_CardinalityType
<1>14. Abs(Over(c, L) - Over(w, L)) <= 2 * Over(rough, D)
  <2>1. Summable(twice, D) /\ Over(twice, D) \in Nat /\ Summable(twice, L) /\ Over(twice, L) <= Over(twice, D)
        /\ Over(twice, L) \in Nat
    BY <1>1, <1>3, <1>t, OverNat
  <2>2. Over(twice, D) = Over(rough, D) + Over(rough, D)
    BY <1>r, <1>t, OverPlus
  <2>3. \A d \in L : Abs(c[d] - w[d]) <= twice[d]
    BY <1>2, <1>3, <1>t
  <2>4. Abs(Over(c, L) - Over(w, L)) <= Over(twice, L)
    BY <1>10a, <2>1, <2>3, OverApart
  <2>5. Abs(Over(c, L) - Over(w, L)) \in Nat
    BY <1>10a, AbsType
  <2> QED BY <1>s, <2>1, <2>2, <2>4, <2>5
<1>15. All(L, q) \in Nat /\ All(L, q) <= All(D, q)
  BY <1>1, <1>3, <1>s, AllOf
<1>16. RoundMoney(side) \in Int /\ 2 * Abs(RoundMoney(side) - side) <= Kurus
  BY <1>3, RoundMoneyNear
<1> DEFINE l == Cardinality(L)
           n == Cardinality(D)
           x == Over(g, L)
           t == Over(c, L)
           y == Over(w, L)
           z == RoundMoney(side)
           k == 3 * Kurus
           i == All(L, q)
           j == All(D, q)
           m == All(DOMAIN b.categories, q)
           o == All(DOMAIN b.accounts, q)
           p == Over(rough, D)
           slack == Slack(b, r, place)
<1>17. /\ l \in Nat /\ n \in Nat /\ l <= n /\ x \in Int /\ t \in Int /\ y \in Int /\ z \in Int /\ side \in Int
       /\ Kurus \in Nat /\ k \in Nat
       /\ 2 * Abs(x - t) <= l * k /\ Abs(t - y) <= 2 * p /\ Abs(side - y) <= 2 * (i + m) + q
       /\ 2 * Abs(z - side) <= Kurus
  BY <1>3, <1>10, <1>10a, <1>12, <1>13, <1>14, <1>16, UnitAssumption
<1>18. /\ p \in Nat /\ i \in Nat /\ j \in Nat /\ m \in Nat /\ o \in Nat /\ q \in Nat /\ i <= j
       /\ slack = 2 * p + 4 * j + 4 * m + 2 * o + 4 * q
  BY <1>15, <1>s
<1> HIDE DEF l, n, x, t, y, z, k, i, j, m, o, p, slack
<1>19. l * k <= n * k /\ l * k \in Int /\ n * k \in Int
  <2>1. l \in Int /\ n \in Int /\ k \in Int
    BY <1>17
  <2> QED BY <1>17, <2>1, Products
<1>20. 2 * Abs(x - z) <= (n * k + Kurus) + 2 * slack
  <2> DEFINE a == l * k
             e == n * k
  <2> HIDE DEF a, e
  <2>1. a <= e /\ a \in Int /\ e \in Int /\ 2 * Abs(x - t) <= a
    BY <1>17, <1>19 DEF a, e
  <2>2. /\ 2 * (x - t) <= a /\ 2 * (t - x) <= a /\ t - y <= 2 * p /\ y - t <= 2 * p
        /\ side - y <= 2 * (i + m) + q /\ y - side <= 2 * (i + m) + q
        /\ 2 * (z - side) <= Kurus /\ 2 * (side - z) <= Kurus
    BY <1>17, <1>18, <2>1 DEF Abs
  <2>3. 2 * (x - z) <= (e + Kurus) + 2 * slack /\ 2 * (z - x) <= (e + Kurus) + 2 * slack
    BY <1>17, <1>18, <2>1, <2>2
  <2>4. 2 * Abs(x - z) <= (e + Kurus) + 2 * slack
    BY <1>17, <2>3 DEF Abs
  <2> QED BY <2>4 DEF e
<1>21. n * k + Kurus = (3 * n + 1) * Kurus
  BY <1>17 DEF k
<1> QED BY <1>4, <1>11, <1>20, <1>21 DEF Near, x, z, n, D, side, slack

\* A row of the tree is as near to its lines as they are many.
LEMMA TreeNear ==
  ASSUME NEW b, NEW r, NEW place, NEW q, Fitting(b, r, place, q), Valid(b), NEW a \in DOMAIN b.accounts,
         NEW lines, lines = [d \in DetailsOf(b, a) |->
                               [total |-> RoundMoney(r.details[d].line), error |-> r.details[d].error]]
  PROVE  RowNear(r, Shown(r.accounts[a]), lines, Slack(b, r, place))
<1> DEFINE D == DOMAIN b.details
           w == Wholes(r)
           v == [d \in D |-> r.details[d].line]
           key == [d \in D |-> b.details[d].account]
           K == DOMAIN b.accounts
           T == Keyed(r, key, a)
           A == DetailsOf(b, a)
           f == [d \in T |-> RoundMoney(v[d])]
           total == r.accounts[a].total
<1>1. /\ DOMAIN r.details = D /\ IsFiniteSet(D) /\ Summable(w, D)
      /\ \A d \in D : r.details[d].line \in Int /\ Abs(r.details[d].line - w[d]) <= q
  BY LineMasses
<1>2. total \in Int /\ Abs(total - Over(w, T)) <= 2 * All(T, q) + q
  <2>2. \A d \in D : key[d] \in K
    BY CategoriesAre
  <2>3. r.accounts = RolledBy(r.details, K, key)
    <3> DEFINE Met == DOMAIN b.accounts \union {b.details[d].account : d \in DOMAIN b.details}
    <3>1. r = Evaluate(b)
      BY DEF Fitting
    <3>2. r.accounts = RolledBy(r.details, Met, key)
      BY <1>1, <3>1, RollupsAre
    <3>3. Met = K
      BY CategoriesAre
    <3> HIDE DEF Met, key, K, D
    <3> QED BY <3>2, <3>3
  <2>4. RollsUp(r.accounts, b, r, key, K)
    <3> HIDE DEF key, K
    <3> QED BY <1>1, <2>3 DEF RolledBy, RollsUp
  <2>5. a \in K
    OBVIOUS
  <2> HIDE DEF key, K
  <2> QED BY <2>4, <2>5, RolledEach
<1>3. DOMAIN lines = A /\ A \in SUBSET D
  BY DEF DetailsOf
<1>4. T = {x \in A : r.details[x].included} /\ T \in SUBSET A
  BY <1>1 DEF Counted, DetailsOf, Keyed
<1>5. \A d \in T : lines[d].total = RoundMoney(v[d])
  BY <1>1, <1>3, <1>4
<1> DEFINE g == [d \in {x \in DOMAIN lines : r.details[x].included} |-> lines[d].total]
<1>6. g = f
  <2>1. {x \in DOMAIN lines : r.details[x].included} = T
    BY <1>3, <1>4
  <2> HIDE DEF T
  <2> QED BY <1>5, <2>1
<1>7. Sum(f) = Over(f, T)
  <2>1. f = [d \in T |-> f[d]]
    OBVIOUS
  <2> HIDE DEF f, T
  <2> QED BY <2>1, SumOver
<1>8. Shown(r.accounts[a]).total = RoundMoney(total)
  BY DEF Shown
<1>v. \A d \in D : v[d] \in Int /\ Abs(v[d] - w[d]) <= q
  BY <1>1
<1>s. /\ Over(Roughs(r, q), D) \in Nat /\ All(D, q) \in Nat /\ All(DOMAIN b.categories, q) \in Nat
      /\ All(DOMAIN b.accounts, q) \in Nat /\ q \in Nat
      /\ Slack(b, r, place) = 2 * Over(Roughs(r, q), D) + 4 * All(D, q)
            + 4 * All(DOMAIN b.categories, q) + 2 * All(DOMAIN b.accounts, q) + 4 * q
  BY RoomIs
<1> HIDE DEF T, A, D, w, v, key, K, total
<1>9. /\ IsFiniteSet(A) /\ IsFiniteSet(T) /\ Summable(w, T) /\ Over(w, T) \in Int
      /\ Summable(v, T) /\ Over(v, T) \in Int /\ T \in SUBSET D
  <2>1. IsFiniteSet(A)
    BY <1>1, <1>3, FS_Subset
  <2>2. T \in SUBSET D
    BY <1>3, <1>4
  <2>3. Summable(v, D)
    BY <1>1, <1>v DEF Summable
  <2> QED BY <1>1, <1>4, <2>1, <2>2, <2>3, FS_Subset, MassMonotone
<1>10. Summable(f, T) /\ 2 * Abs(Over(f, T) - Over(v, T)) <= Cardinality(T) * Kurus
  BY <1>9, RoundedSum
<1> HIDE DEF f, g
<1>11. Over(f, T) \in Int
  BY <1>10, OverType
<1>12. Cardinality(T) \in Nat /\ Cardinality(A) \in Nat /\ Cardinality(T) <= Cardinality(A)
  BY <1>4, <1>9, FS_Subset, FS_CardinalityType
<1>13. /\ RoundMoney(total) \in Int /\ 2 * Abs(RoundMoney(total) - total) <= Kurus
  BY <1>2, RoundMoneyNear
<1>13a. All(T, q) \in Nat /\ All(T, q) <= All(D, q)
  BY <1>1, <1>9, <1>s, AllOf
<1>13b. Abs(Over(v, T) - Over(w, T)) <= All(T, q)
  <2>1. \A d \in T : Abs(v[d] - w[d]) <= Each(T, q)[d]
    BY <1>9, <1>v DEF Each
  <2>2. Summable(Each(T, q), T)
    BY <1>9, <1>s, EachType
  <2> QED BY <1>9, <2>1, <2>2, OverApart DEF All
<1> DEFINE l == Cardinality(T)
           n == Cardinality(A)
           x == Over(f, T)
           t == Over(v, T)
           y == Over(w, T)
           z == RoundMoney(total)
           i == All(T, q)
           j == All(D, q)
           m == All(DOMAIN b.categories, q)
           o == All(DOMAIN b.accounts, q)
           p == Over(Roughs(r, q), D)
           slack == Slack(b, r, place)
<1>14. /\ l \in Nat /\ n \in Nat /\ l <= n /\ x \in Int /\ t \in Int /\ y \in Int /\ z \in Int
       /\ total \in Int /\ Kurus \in Nat
       /\ 2 * Abs(x - t) <= l * Kurus /\ Abs(t - y) <= i /\ Abs(total - y) <= 2 * i + q
       /\ 2 * Abs(z - total) <= Kurus
  BY <1>2, <1>9, <1>10, <1>11, <1>12, <1>13, <1>13b, UnitAssumption
<1>14a. /\ p \in Nat /\ i \in Nat /\ j \in Nat /\ m \in Nat /\ o \in Nat /\ q \in Nat /\ i <= j
        /\ slack = 2 * p + 4 * j + 4 * m + 2 * o + 4 * q
  BY <1>13a, <1>s
<1> HIDE DEF l, n, x, t, y, z, i, j, m, o, p, slack
<1>15. l * Kurus <= n * Kurus /\ l * Kurus \in Int /\ n * Kurus \in Int
  <2>1. l \in Int /\ n \in Int /\ Kurus \in Int
    BY <1>14
  <2> QED BY <1>14, <2>1, Products
<1>16. 2 * Abs(x - z) <= (n * Kurus + Kurus) + 2 * slack
  <2> DEFINE h == l * Kurus
             e == n * Kurus
  <2> HIDE DEF h, e
  <2>1. h <= e /\ h \in Int /\ e \in Int /\ 2 * Abs(x - t) <= h
    BY <1>14, <1>15 DEF h, e
  <2>2. /\ 2 * (x - t) <= h /\ 2 * (t - x) <= h /\ t - y <= i /\ y - t <= i
        /\ total - y <= 2 * i + q /\ y - total <= 2 * i + q
        /\ 2 * (z - total) <= Kurus /\ 2 * (total - z) <= Kurus
    BY <1>14, <1>14a, <2>1 DEF Abs
  <2>3. 2 * (x - z) <= (e + Kurus) + 2 * slack /\ 2 * (z - x) <= (e + Kurus) + 2 * slack
    BY <1>14, <1>14a, <2>1, <2>2
  <2>4. 2 * Abs(x - z) <= (e + Kurus) + 2 * slack
    BY <1>14, <2>3 DEF Abs
  <2> QED BY <2>4 DEF e
<1>17. n * Kurus + Kurus = (n + 1) * Kurus
  BY <1>14
<1>18. Near(Sum(g), Shown(r.accounts[a]).total, n + 1, slack)
  BY <1>6, <1>7, <1>8, <1>16, <1>17 DEF Near, x, z
<1> QED BY <1>3, <1>18 DEF RowNear, g, n, A, slack

\* The extent of a budget is a number.
LEMMA ExtentType ==
  ASSUME NEW b, BudgetType(b), NEW place \in Places, 2 * Extent(b, Evaluate(b), place) <= place * Digits
  PROVE  Extent(b, Evaluate(b), place) <= place * Digits
<1> DEFINE r == Evaluate(b)
           q == place \div 2
           v == Volume(r)
           s == Slack(b, r, place)
           L == place * Digits
<1>1. Placed(b, r, place, q)
  BY DEF Placed
<1> HIDE DEF r, q
<1>2. v \in Nat /\ s \in Nat /\ L \in Nat
  BY <1>1, SlackIs
<1>3. 2 * (v + s) <= L
  BY DEF Extent, r
<1> HIDE DEF v, s, L
<1>4. v + s <= L
  BY <1>2, <1>3
<1> QED BY <1>4 DEF Extent, v, s, L, r

\* The sheets of any budget of its type agree.
LEMMA SheetsAgree ==
  ASSUME NEW b, BudgetType(b)
  PROVE  SheetAgreesIn(b, Evaluate(b))
<1> DEFINE r == Evaluate(b)
           sheet == NationalSheet(b, r)
           top == Topsheet(b, r)
           tree == Tree(b, r)
           cells == 3 * Cardinality(DOMAIN b.details) + 1
<1>1. SUFFICES ASSUME Valid(b), NEW place \in Places, place <= Kurus,
                      2 * Extent(b, r, place) <= place * Digits
               PROVE  LET slack == Slack(b, r, place)
                      IN  /\ Near(sheet.atl.g, top.atl, cells, slack)
                          /\ Near(sheet.btl.g, top.btl, cells, slack)
                          /\ \A c \in DOMAIN tree : \A a \in DOMAIN tree[c] :
                               RowNear(r, tree[c][a].row, tree[c][a].lines, slack)
  BY DEF SheetAgreesIn, SheetNear
<1> DEFINE q == place \div 2
           slack == Slack(b, r, place)
<1>2. Halved(b, r, place, q) /\ Fitting(b, r, place, q)
  <2>1. Extent(b, r, place) <= place * Digits
    BY <1>1, ExtentType
  <2> QED BY <1>1, <2>1 DEF Halved, Fitting
<1>3. top.atl = RoundMoney(SideOf(b, r.categories, TRUE).total)
      /\ top.btl = RoundMoney(SideOf(b, r.categories, FALSE).total)
  <2>1. r = Evaluate(b) /\ DOMAIN r.details = DOMAIN b.details
    BY ResultLines
  <2> HIDE DEF r
  <2>2. r.atl = SideOf(b, r.categories, TRUE) /\ r.btl = SideOf(b, r.categories, FALSE)
    BY <2>1, RollupsAre
  <2> QED BY <2>2 DEF Topsheet
<1>4. tree = [c \in DOMAIN b.categories |->
                [a \in AccountsOf(b, c) |->
                   [row   |-> Shown(r.accounts[a]),
                    lines |-> [d \in DetailsOf(b, a) |->
                                 [total |-> RoundMoney(r.details[d].line), error |-> r.details[d].error]]]]]
  BY DEF Tree
<1> HIDE DEF r, sheet, top, tree, cells, q, slack
<1>5. Near(sheet.atl.g, top.atl, cells, slack) /\ Near(sheet.btl.g, top.btl, cells, slack)
  <2>1. SideName(TRUE) = "atl" /\ SideName(FALSE) = "btl"
    BY DEF SideName
  <2>2. /\ Near(sheet[SideName(TRUE)].g, RoundMoney(SideOf(b, r.categories, TRUE).total), cells, slack)
        /\ Near(sheet[SideName(FALSE)].g, RoundMoney(SideOf(b, r.categories, FALSE).total), cells, slack)
    BY <1>1, <1>2, SheetSideNear DEF sheet, cells, slack
  <2> QED BY <1>3, <2>1, <2>2
<1>6. ASSUME NEW c \in DOMAIN tree, NEW a \in DOMAIN tree[c]
      PROVE  RowNear(r, tree[c][a].row, tree[c][a].lines, slack)
  <2>1. c \in DOMAIN b.categories /\ a \in AccountsOf(b, c)
    BY <1>4, <1>6
  <2>2. a \in DOMAIN b.accounts
    BY <2>1 DEF AccountsOf
  <2> DEFINE lines == [d \in DetailsOf(b, a) |->
                         [total |-> RoundMoney(r.details[d].line), error |-> r.details[d].error]]
  <2>3. tree[c][a].row = Shown(r.accounts[a]) /\ tree[c][a].lines = lines
    BY <1>4, <2>1
  <2>4. RowNear(r, Shown(r.accounts[a]), lines, slack)
    BY <1>1, <1>2, <2>2, TreeNear DEF slack
  <2> QED BY <2>3, <2>4
<1> QED BY <1>5, <1>6 DEF slack

\* In a budget that is kept the sheets agree.
LEMMA KeptSheets == Kept => SheetAgrees
BY SheetsAgree DEF Kept, WellKept, SheetAgrees, Results

\* Whatever is edited in whatever order, the national sheet, which rounds every
\* cell and walks categories, accounts and lines, stays within half a kurus per
\* rounded cell of the topsheet on both sides of the line, but for what the sums are
\* rounded by, and every account's row of the tree so near to its lines, in a
\* well-formed budget whose amounts fit half of the digits at a last place up to the
\* kurus (view.rs: NationalSheetDto, TopsheetDto, TreeDto).
THEOREM BooksSheetAgrees == Spec => []SheetAgrees
<1>1. Kept => SheetAgrees
  BY KeptSheets
<1> QED BY <1>1, AlwaysKept, PTL
----------------------------------------------------------------------------
(***************************************************************************)
(* Budgets that differ in lines that do not count.                         *)
(***************************************************************************)

\* Two budgets that differ in their lines, papers and globals' formulas at most.
SameSettings(b, c) ==
  \A field \in {"units", "currencies", "categories", "accounts", "fringes", "groups", "applied",
                "dividers", "charges", "credits"} : c[field] = b[field]

\* What is the same in two such budgets.
LEMMA SettingsAre ==
  ASSUME NEW b, NEW c, SameSettings(b, c)
  PROVE  /\ c.units = b.units /\ c.currencies = b.currencies /\ c.categories = b.categories
         /\ c.accounts = b.accounts /\ c.fringes = b.fringes /\ c.groups = b.groups
         /\ c.applied = b.applied /\ c.dividers = b.dividers
         /\ c.charges = b.charges /\ c.credits = b.credits
BY DEF SameSettings

\* What a line comes to depends on the settings and on the line.
LEMMA SameFringes ==
  ASSUME NEW b, NEW c, SameSettings(b, c), NEW d, c.details[d] = b.details[d], NEW base
  PROVE  /\ FringesOf(c, d, base) = FringesOf(b, d, base)
         /\ FringeSplit(c, d, base) = FringeSplit(b, d, base)
         /\ Included(c, d) = Included(b, d)
<1>1. EffectiveFringes(c, d) = EffectiveFringes(b, d)
  BY SettingsAre DEF EffectiveFringes
<1>2. \A applied : FringeAmount(c, applied, base) = FringeAmount(b, applied, base)
  <2>1. c.fringes = b.fringes /\ c.currencies = b.currencies
    BY SettingsAre
  <2> QED BY <2>1 DEF FringeAmount
<1>3. FringesOf(c, d, base) = FringesOf(b, d, base)
  <2> DEFINE f == EffectiveFringes(b, d)
             x == [i \in DOMAIN f |-> [fringe |-> f[i].fringe, res |-> FringeAmount(c, f[i], base)]]
             y == [i \in DOMAIN f |-> [fringe |-> f[i].fringe, res |-> FringeAmount(b, f[i], base)]]
  <2>1. FringesOf(c, d, base) = x
    BY <1>1 DEF FringesOf, Charged
  <2>2. FringesOf(b, d, base) = y
    BY DEF FringesOf, Charged
  <2>3. x = y
    BY <1>2
  <2> HIDE DEF x, y
  <2> QED BY <2>1, <2>2, <2>3
<1>4. FringeSplit(c, d, base) = FringeSplit(b, d, base)
  <2>1. \A charges, mode : ByMode(c, charges, mode) = ByMode(b, charges, mode)
    BY SettingsAre DEF ByMode
  <2> DEFINE charges == FringesOf(b, d, base)
             x == [mode \in {"grossup", "additive"} |-> ByMode(c, charges, mode)]
             y == [mode \in {"grossup", "additive"} |-> ByMode(b, charges, mode)]
  <2>2. FringeSplit(c, d, base) = x
    BY <1>3 DEF FringeSplit
  <2>3. FringeSplit(b, d, base) = y
    BY DEF FringeSplit
  <2>4. x = y
    BY <2>1
  <2> HIDE DEF x, y
  <2> QED BY <2>2, <2>3, <2>4
<1>5. Included(c, d) = Included(b, d)
  BY SettingsAre DEF Included
<1> QED BY <1>3, <1>4, <1>5

\* A line they share comes to the same in both.
LEMMA SameLine ==
  ASSUME NEW b, NEW c, SameSettings(b, c), NEW d, c.details[d] = b.details[d], NEW values
  PROVE  EvalDetail(c, values, d) = EvalDetail(b, values, d)
<1> DEFINE line == b.details[d]
           cells == [field \in {"amount", "multiplier", "rate"} |-> Eval(line[field], values)]
           product == Product(b, line, cells)
<1>1. Product(c, line, cells) = product
  BY SettingsAre DEF Product
<1>2. EvalDetail(c, values, d) = DetailOn(c, d, cells, Product(c, line, cells))
  BY DEF EvalDetail, DetailWith
<1>3. EvalDetail(b, values, d) = DetailOn(b, d, cells, product)
  BY DEF EvalDetail, DetailWith
<1> HIDE DEF line, cells, product
<1>4. DetailOn(c, d, cells, product) = DetailOn(b, d, cells, product)
  BY SameFringes DEF DetailOn
<1> QED BY <1>1, <1>2, <1>3, <1>4

\* A budget of some of the lines of another.
PartOf(b, c, E) ==
  /\ SameSettings(b, c) /\ c.globals = b.globals
  /\ E \in SUBSET DOMAIN b.details /\ DOMAIN c.details = E
  /\ \A d \in E : c.details[d] = b.details[d]
  /\ \A d \in DOMAIN b.details \ E : ~ Included(b, d)

\* The results of the lines that are left are the same.
LEMMA PartDetails ==
  ASSUME NEW b, NEW c, NEW E, PartOf(b, c, E), NEW r, r = Evaluate(b), NEW s, s = Evaluate(c)
  PROVE  /\ DOMAIN r.details = DOMAIN b.details /\ DOMAIN s.details = E
         /\ \A d \in E : s.details[d] = r.details[d]
         /\ \A d \in DOMAIN b.details : r.details[d].included = Included(b, d)
<1> DEFINE values == ResolveGlobals(b.globals)
<1>1. r.details = [d \in DOMAIN b.details |-> EvalDetail(b, values, d)]
  BY DetailsAre
<1>2. s.details = [d \in E |-> EvalDetail(c, values, d)]
  <2>1. s.details = [d \in DOMAIN c.details |-> EvalDetail(c, ResolveGlobals(c.globals), d)]
    BY DetailsAre
  <2>2. DOMAIN c.details = E /\ c.globals = b.globals
    BY DEF PartOf
  <2> QED BY <2>1, <2>2
<1> HIDE DEF values
<1>3. \A d \in E : EvalDetail(c, values, d) = EvalDetail(b, values, d)
  BY SameLine DEF PartOf
<1>4. \A d \in DOMAIN b.details : r.details[d].included = Included(b, d)
  <2>1. \A d, cells, product : DetailOn(b, d, cells, product).included = Included(b, d)
    BY DEF DetailOn, DetailCalc
  <2>2. \A d \in DOMAIN b.details : EvalDetail(b, values, d).included = Included(b, d)
    BY <2>1 DEF EvalDetail, DetailWith
  <2> QED BY <1>1, <2>2
<1>5. \A d \in E : s.details[d] = r.details[d]
  BY <1>1, <1>2, <1>3 DEF PartOf
<1> QED BY <1>1, <1>2, <1>4, <1>5

\* Lines that do not count are not in a rollup.
LEMMA PartRolled ==
  ASSUME NEW b, NEW c, NEW E, PartOf(b, c, E), NEW r, r = Evaluate(b), NEW s, s = Evaluate(c),
         NEW S \in SUBSET DOMAIN b.details, NEW T, T = S \intersect E
  PROVE  Rolled(s.details, T) = Rolled(r.details, S)
<1> DEFINE I == {d \in S : r.details[d].included}
           J == {d \in T : s.details[d].included}
<1>1. /\ DOMAIN r.details = DOMAIN b.details
      /\ \A d \in E : s.details[d] = r.details[d]
      /\ \A d \in DOMAIN b.details : r.details[d].included = Included(b, d)
  BY PartDetails
<1>2. I = J
  BY <1>1 DEF PartOf
<1> DEFINE rs == [d \in I |-> r.details[d].subtotal]
           rf == [d \in I |-> r.details[d].fringes]
           ss == [d \in J |-> s.details[d].subtotal]
           sf == [d \in J |-> s.details[d].fringes]
<1>3. \A d \in J : s.details[d] = r.details[d]
  BY <1>1
<1>4. rs = ss /\ rf = sf
  <2> HIDE DEF I, J
  <2> QED BY <1>2, <1>3
<1>5. /\ Rolled(r.details, S) = RollupOf(SatSum(InOrder(Lines, rs)), SatSum(InOrder(Lines, rf)))
      /\ Rolled(s.details, T) = RollupOf(SatSum(InOrder(Lines, ss)), SatSum(InOrder(Lines, sf)))
  BY DEF Rolled
<1> HIDE DEF rs, rf, ss, sf
<1> QED BY <1>4, <1>5

\* The rollups do not see the lines that do not count.
LEMMA PartRollups ==
  ASSUME NEW b, NEW c, NEW E, PartOf(b, c, E), NEW r, r = Evaluate(b), NEW s, s = Evaluate(c)
  PROVE  /\ s.total = r.total
         /\ \A a \in DOMAIN b.accounts : s.accounts[a] = r.accounts[a]
         /\ \A x \in DOMAIN b.categories : s.categories[x] = r.categories[x]
         /\ s.atl = r.atl /\ s.btl = r.btl
<1> DEFINE D == DOMAIN b.details
<1>1. /\ DOMAIN r.details = D /\ DOMAIN s.details = E /\ E = DOMAIN c.details /\ E \in SUBSET D
      /\ \A d \in E : c.details[d] = b.details[d]
  BY PartDetails DEF PartOf
<1>2. c.accounts = b.accounts /\ c.categories = b.categories /\ c.dividers = b.dividers
  BY SettingsAre DEF PartOf
<1>3. \A S \in SUBSET D : Rolled(s.details, S \intersect E) = Rolled(r.details, S)
  BY PartRolled
<1>4. /\ r.total = Rolled(r.details, D) /\ s.total = Rolled(s.details, E)
      /\ r.atl = SideOf(b, r.categories, TRUE) /\ r.btl = SideOf(b, r.categories, FALSE)
      /\ s.atl = SideOf(c, s.categories, TRUE) /\ s.btl = SideOf(c, s.categories, FALSE)
  BY <1>1, RollupsAre
<1>5. s.total = r.total
  <2>1. D \in SUBSET D /\ D \intersect E = E
    BY <1>1
  <2> HIDE DEF D
  <2> QED BY <1>3, <1>4, <2>1
<1>6. ASSUME NEW a \in DOMAIN b.accounts PROVE s.accounts[a] = r.accounts[a]
  <2> DEFINE S == {d \in D : b.details[d].account = a}
             T == {d \in E : c.details[d].account = a}
  <2>1. r.accounts[a] = Rolled(r.details, S)
    <3> DEFINE K == DOMAIN b.accounts \union {b.details[d].account : d \in DOMAIN b.details}
               key == [d \in DOMAIN b.details |-> b.details[d].account]
    <3>1. r.accounts = RolledBy(r.details, K, key)
      BY <1>1, RollupsAre
    <3>2. a \in K
      OBVIOUS
    <3>3. {d \in DOMAIN r.details : key[d] = a} = S
      BY <1>1
    <3> HIDE DEF K, key, S
    <3> QED BY <3>1, <3>2, <3>3 DEF RolledBy
  <2>2. s.accounts[a] = Rolled(s.details, T)
    <3> DEFINE K == DOMAIN c.accounts \union {c.details[d].account : d \in DOMAIN c.details}
               key == [d \in DOMAIN c.details |-> c.details[d].account]
    <3>1. s.accounts = RolledBy(s.details, K, key)
      BY <1>1, RollupsAre
    <3>2. a \in K
      BY <1>2
    <3>3. {d \in DOMAIN s.details : key[d] = a} = T
      BY <1>1
    <3> HIDE DEF K, key, T
    <3> QED BY <3>1, <3>2, <3>3 DEF RolledBy
  <2>3. T = S \intersect E /\ S \in SUBSET D
    BY <1>1
  <2> HIDE DEF S, T
  <2> QED BY <1>3, <2>1, <2>2, <2>3
<1>7. ASSUME NEW x \in DOMAIN b.categories PROVE s.categories[x] = r.categories[x]
  <2> DEFINE S == {d \in D : Categorised(b)[d] = x}
             T == {d \in E : Categorised(c)[d] = x}
  <2>1. r.categories[x] = Rolled(r.details, S)
    <3> DEFINE K == DOMAIN b.categories
                      \union ({CategoryOfLine(b, d) : d \in DOMAIN b.details} \ {None})
    <3>1. r.categories = RolledBy(r.details, K, Categorised(b))
      BY <1>1, RollupsAre
    <3>2. x \in K
      OBVIOUS
    <3> HIDE DEF K
    <3> QED BY <1>1, <3>1, <3>2 DEF RolledBy
  <2>2. s.categories[x] = Rolled(s.details, T)
    <3> DEFINE K == DOMAIN c.categories
                      \union ({CategoryOfLine(c, d) : d \in DOMAIN c.details} \ {None})
    <3>1. s.categories = RolledBy(s.details, K, Categorised(c))
      BY <1>1, RollupsAre
    <3>2. x \in K
      BY <1>2
    <3> HIDE DEF K
    <3> QED BY <1>1, <3>1, <3>2 DEF RolledBy
  <2>3. \A d \in E : Categorised(c)[d] = Categorised(b)[d]
    BY <1>1, <1>2 DEF Categorised, CategoryOfLine
  <2>4. T = S \intersect E /\ S \in SUBSET D
    BY <1>1, <2>3
  <2> HIDE DEF S, T
  <2> QED BY <1>3, <2>1, <2>2, <2>4
<1>8. ASSUME NEW atl PROVE SideOf(c, s.categories, atl) = SideOf(b, r.categories, atl)
  <2> DEFINE S == {x \in DOMAIN b.categories : CategoryIsAtl(b, x) = atl}
             T == {x \in DOMAIN c.categories : CategoryIsAtl(c, x) = atl}
  <2>1. \A x : CategoryIsAtl(c, x) = CategoryIsAtl(b, x)
    BY <1>2 DEF CategoryIsAtl
  <2>2. T = S
    BY <1>2, <2>1
  <2>3. \A x \in S : s.categories[x] = r.categories[x]
    BY <1>7
  <2>4. SideOf(c, s.categories, atl) = Combined(s.categories, T)
        /\ SideOf(b, r.categories, atl) = Combined(r.categories, S)
    BY DEF SideOf
  <2> HIDE DEF S, T
  <2> DEFINE rs == [x \in S |-> r.categories[x].subtotal]
             rf == [x \in S |-> r.categories[x].fringes]
             ss == [x \in S |-> s.categories[x].subtotal]
             sf == [x \in S |-> s.categories[x].fringes]
  <2>5. rs = ss /\ rf = sf
    BY <2>3
  <2>6. /\ Combined(r.categories, S)
             = RollupOf(SatSum(InOrder(Categories, rs)), SatSum(InOrder(Categories, rf)))
        /\ Combined(s.categories, S)
             = RollupOf(SatSum(InOrder(Categories, ss)), SatSum(InOrder(Categories, sf)))
    BY DEF Combined
  <2> HIDE DEF rs, rf, ss, sf
  <2> QED BY <2>2, <2>4, <2>5, <2>6
<1> QED BY <1>4, <1>5, <1>6, <1>7, <1>8

\* Charges of nothing move no sum.
LEMMA NothingPosts ==
  ASSUME NEW charges, NEW N \in Nat, DOMAIN charges = 1 .. N,
         \A i \in DOMAIN charges : charges[i] = 0
  PROVE  Posts(charges) = [x \in Int |-> x]
<1>1. ASSUME NEW x \in Int PROVE Run(x, [i \in DOMAIN charges |-> Posting(charges[i])]) = x
  <2> DEFINE steps == [i \in DOMAIN charges |-> Posting(charges[i])]
  <2>1. Len(steps) = N
    OBVIOUS
  <2>2. \A i \in 1 .. N : \A y \in Int : steps[i][y] = y
    BY DEF Posting
  <2> HIDE DEF steps
  <2>3. PICK at : Running(at, x, steps) /\ Run(x, steps) = at[N]
    BY <2>1, RunIs
  <2>4. \A n \in 0 .. N : at[n] = IF n = 0 THEN x ELSE steps[n][at[n - 1]]
    BY <2>1, <2>3 DEF Running
  <2> DEFINE S == {n \in Nat : n <= N => at[n] = x}
  <2>5. 0 \in S
    BY <2>4
  <2>6. ASSUME NEW n \in Nat, n \in S PROVE n + 1 \in S
    <3>1. SUFFICES ASSUME n + 1 <= N PROVE at[n + 1] = x
      OBVIOUS
    <3>2. n + 1 \in 1 .. N /\ n + 1 \in 0 .. N /\ n + 1 # 0 /\ (n + 1) - 1 = n /\ at[n] = x
      BY <2>6, <3>1
    <3> QED BY <2>2, <2>4, <3>2
  <2> HIDE DEF S
  <2>7. N \in S
    BY <2>5, <2>6, SetInduction
  <2> QED BY <2>3, <2>7 DEF S, steps
<1> QED BY <1>1 DEF Posts

\* Nor do they post to a level.
LEMMA PartPosted ==
  ASSUME NEW b, BudgetType(b), NEW c, NEW E, PartOf(b, c, E), NEW r, r = Evaluate(b),
         NEW s, s = Evaluate(c), NEW level \in Level
  PROVE  Posted(c, s.details, level) = Posted(b, r.details, level)
<1> DEFINE D == DOMAIN b.details
           f(n) == IF Lines[n] \in DOMAIN r.details THEN Postings(b, r.details[Lines[n]], level) ELSE <<>>
           g(n) == IF Lines[n] \in DOMAIN s.details THEN Postings(c, s.details[Lines[n]], level) ELSE <<>>
<1>1. /\ DOMAIN r.details = D /\ DOMAIN s.details = E /\ E \in SUBSET D
      /\ \A d \in E : s.details[d] = r.details[d]
      /\ \A d \in D : r.details[d].included = Included(b, d)
      /\ \A d \in D \ E : ~ Included(b, d)
  BY PartDetails DEF PartOf
<1>2. c.fringes = b.fringes
  BY SettingsAre DEF PartOf
<1>3. \A d \in E : Postings(c, s.details[d], level) = Postings(b, r.details[d], level)
  BY <1>1, <1>2 DEF Postings
<1>4. Posts(<<>>) = [x \in Int |-> x]
  <2> DEFINE none == <<>>
  <2>1. DOMAIN none = 1 .. 0 /\ 0 \in Nat /\ \A i \in DOMAIN none : none[i] = 0
    OBVIOUS
  <2> HIDE DEF none
  <2>2. Posts(none) = [x \in Int |-> x]
    BY <2>1, NothingPosts
  <2> QED BY <2>2 DEF none
<1>5. ASSUME NEW d \in D \ E PROVE Posts(Postings(b, r.details[d], level)) = Posts(<<>>)
  <2> DEFINE charges == r.details[d].charges
             zero == [i \in DOMAIN charges |-> 0]
  <2>1. Postings(b, r.details[d], level) = zero
    <3>1. ~ r.details[d].included
      BY <1>1
    <3>2. {x \in DOMAIN b.fringes : r.details[d].included /\ b.fringes[x].level = level} = {}
      BY <3>1
    <3> QED BY <3>2 DEF Postings, ChargesOf
  <2>2. PICK n \in Nat : DOMAIN charges = 1 .. n
    <3>1. charges = FringesOf(b, d, r.details[d].subtotal)
      BY LineIs
    <3> QED BY <3>1, FringesOfType
  <2>3. DOMAIN zero = 1 .. n /\ \A i \in DOMAIN zero : zero[i] = 0
    BY <2>2
  <2> HIDE DEF zero
  <2>4. Posts(zero) = [x \in Int |-> x]
    BY <2>2, <2>3, NothingPosts
  <2> QED BY <1>4, <2>1, <2>4
<1>6. \A n : Posts(g(n)) = Posts(f(n))
  <2>1. SUFFICES ASSUME NEW n PROVE Posts(g(n)) = Posts(f(n))
    OBVIOUS
  <2>2. CASE Lines[n] \in E
    BY <1>1, <1>3, <2>2
  <2>3. CASE Lines[n] \in D \ E
    BY <1>1, <1>5, <2>3
  <2>4. CASE Lines[n] \notin D
    BY <1>1, <2>4
  <2> QED BY <2>2, <2>3, <2>4
<1>7. /\ Posted(b, r.details, level) = Run(0, [n \in DOMAIN Lines |-> Posts(f(n))])
      /\ Posted(c, s.details, level) = Run(0, [n \in DOMAIN Lines |-> Posts(g(n))])
  BY DEF Posted
<1> HIDE DEF f, g
<1>8. [n \in DOMAIN Lines |-> Posts(g(n))] = [n \in DOMAIN Lines |-> Posts(f(n))]
  BY <1>6
<1> QED BY <1>7, <1>8

\* Nor does the breakdown.
LEMMA PartBreakdown ==
  ASSUME NEW b, BudgetType(b), NEW c, NEW E, PartOf(b, c, E)
  PROVE  Evaluate(c).breakdown = Evaluate(b).breakdown
<1> DEFINE r == Evaluate(b)
           s == Evaluate(c)
           x == [level \in Level |-> Posted(b, r.details, level)]
           y == [level \in Level |-> Posted(c, s.details, level)]
<1>1. r.breakdown = x /\ s.breakdown = y
  BY BreakdownIs
<1>2. \A level \in Level : Posted(c, s.details, level) = Posted(b, r.details, level)
  BY PartPosted
<1>3. x = y
  <2> HIDE DEF r, s
  <2> QED BY <1>2
<1> HIDE DEF x, y
<1> QED BY <1>1, <1>3

\* The net is the total with charges and without credits.
LEMMA NetIs ==
  \A b : Evaluate(b).net = SatAdd(SatAdd(Evaluate(b).total.total,
                                         Amounts(b.charges, ResolveGlobals(b.globals))),
                                  - Amounts(b.credits, ResolveGlobals(b.globals)))
BY DEF Evaluate, EvaluateWith, EvaluateLines, CalcResult

\* Nor are they on the national sheet.
LEMMA PartSheet ==
  ASSUME NEW b, NEW c, NEW E, PartOf(b, c, E), NEW r, r = Evaluate(b), NEW s, s = Evaluate(c)
  PROVE  NationalSheet(c, s) = NationalSheet(b, r)
<1> DEFINE x == [k \in DOMAIN b.categories |-> [d \in NationalLines(b, r, k) |-> NationalLine(b, r, d)]]
           y == [k \in DOMAIN c.categories |-> [d \in NationalLines(c, s, k) |-> NationalLine(c, s, d)]]
<1>1. /\ DOMAIN r.details = DOMAIN b.details /\ DOMAIN c.details = E /\ E \in SUBSET DOMAIN b.details
      /\ \A d \in E : s.details[d] = r.details[d] /\ c.details[d] = b.details[d]
      /\ \A d \in DOMAIN b.details : r.details[d].included = Included(b, d)
      /\ \A d \in DOMAIN b.details \ E : ~ Included(b, d)
  BY PartDetails DEF PartOf
<1>2. c.accounts = b.accounts /\ c.categories = b.categories /\ c.dividers = b.dividers
  BY SettingsAre DEF PartOf
<1>3. ASSUME NEW k
      PROVE  NationalLines(c, s, k) = NationalLines(b, r, k) /\ NationalLines(b, r, k) \in SUBSET E
  <2>1. ASSUME NEW d
        PROVE  /\ d \in NationalLines(b, r, k) <=>
                    /\ d \in DOMAIN b.details /\ r.details[d].included
                    /\ b.details[d].account \in DOMAIN b.accounts
                    /\ b.accounts[b.details[d].account].category = k
               /\ d \in NationalLines(c, s, k) <=>
                    /\ d \in DOMAIN c.details /\ s.details[d].included
                    /\ c.details[d].account \in DOMAIN c.accounts
                    /\ c.accounts[c.details[d].account].category = k
    BY DEF NationalLines, DetailsOf, AccountsOf
  <2>2. \A d : d \in NationalLines(c, s, k) <=> d \in NationalLines(b, r, k)
    BY <1>1, <1>2, <2>1
  <2>3. \A d : d \in NationalLines(b, r, k) => d \in E
    BY <1>1, <2>1
  <2> QED BY <2>2, <2>3
<1>4. \A d \in E : NationalLine(c, s, d) = NationalLine(b, r, d)
  <2>1. SUFFICES ASSUME NEW d \in E PROVE NationalLine(c, s, d) = NationalLine(b, r, d)
    OBVIOUS
  <2>2. SameSettings(b, c) /\ c.details[d] = b.details[d]
    BY DEF PartOf
  <2>3. \A base : FringeSplit(c, d, base) = FringeSplit(b, d, base)
    BY <2>2, SameFringes
  <2> QED BY <1>1, <2>3 DEF NationalLine
<1>5. \A k : [d \in NationalLines(c, s, k) |-> NationalLine(c, s, d)]
              = [d \in NationalLines(b, r, k) |-> NationalLine(b, r, d)]
  BY <1>3, <1>4
<1>6. x = y
  BY <1>2, <1>5
<1>7. \A k : CategoryIsAtl(c, k) = CategoryIsAtl(b, k)
  BY <1>2 DEF CategoryIsAtl
<1>8. NationalSheet(b, r) = SheetWith(b, x) /\ NationalSheet(c, s) = SheetWith(c, y)
  BY DEF NationalSheet
<1> HIDE DEF x, y
<1>9. SheetWith(c, x) = SheetWith(b, x)
  <2>1. ASSUME NEW subtotals PROVE Sections(c, subtotals) = Sections(b, subtotals)
    <3>1. \A side : {k \in DOMAIN c.categories : CategoryIsAtl(c, k) = (side = "atl")}
                    = {k \in DOMAIN b.categories : CategoryIsAtl(b, k) = (side = "atl")}
      BY <1>2, <1>7
    <3> QED BY <3>1 DEF Sections
  <2> QED BY <2>1 DEF SheetWith
<1> QED BY <1>6, <1>8, <1>9

\* Lines out of the budget total leave no trace.
LEMMA SuppressedUncounted ==
  ASSUME NEW b, BudgetType(b), NEW gone,
         gone = {d \in DOMAIN b.details :
                   \E g \in b.details[d].groups \intersect DOMAIN b.groups : ~ b.groups[g]}
  PROVE  PartOf(b, WithoutLines(b, gone), DOMAIN b.details \ gone)
<1> DEFINE c == WithoutLines(b, gone)
           E == DOMAIN b.details \ gone
<1>1. b = [field \in Fields |-> b[field]]
  BY DEF BudgetType
<1>2. c.details = Restrict(b.details, E)
  <2>1. "details" \in Fields
    BY DEF Fields, Collections
  <2>2. "details" \in DOMAIN b
    BY <1>1, <2>1
  <2> QED BY <2>2 DEF WithoutLines
<1>3. \A field \in Fields \ {"details"} : c[field] = b[field]
  BY <1>1 DEF WithoutLines
<1>4. DOMAIN c.details = E /\ \A d \in E : c.details[d] = b.details[d]
  BY <1>2 DEF Restrict
<1>5. SameSettings(b, c)
  <2>1. \A field \in {"units", "currencies", "categories", "accounts", "fringes", "groups", "applied",
                      "dividers", "charges", "credits"} : field \in Fields \ {"details"}
    BY DEF Fields, Collections
  <2> HIDE DEF c
  <2> QED BY <1>3, <2>1 DEF SameSettings
<1>6. c.globals = b.globals
  <2>1. "globals" \in Fields \ {"details"}
    BY DEF Fields, Collections
  <2> HIDE DEF c
  <2> QED BY <1>3, <2>1
<1>7. \A d \in DOMAIN b.details \ E : ~ Included(b, d)
  BY DEF Included, At
<1> QED BY <1>4, <1>5, <1>6, <1>7 DEF PartOf

\* In a budget that is kept suppressed lines leave no trace.
LEMMA KeptUntraced == Kept => SuppressedLeavesNoTrace
<1> DEFINE b == budget
           c == WithoutLines(budget, Suppressed)
           r == Evaluate(b)
           s == Evaluate(c)
           E == DOMAIN b.details \ Suppressed
<1>1. SUFFICES ASSUME Kept PROVE SameTotals(b, r, c, s)
  BY DEF SuppressedLeavesNoTrace, SameWithout, Results
<1>2. BudgetType(b)
  BY <1>1 DEF Kept, WellKept
<1>3. PartOf(b, c, E)
  BY <1>2, SuppressedUncounted DEF Suppressed
<1> HIDE DEF b, c, E
<1>4. s.breakdown = r.breakdown
  BY <1>2, <1>3, PartBreakdown
<1>5. /\ s.total = r.total /\ s.atl = r.atl /\ s.btl = r.btl
      /\ \A a \in DOMAIN b.accounts : s.accounts[a] = r.accounts[a]
  BY <1>3, PartRollups
<1>6. s.net = r.net
  <2>1. c.charges = b.charges /\ c.credits = b.credits /\ c.globals = b.globals
    BY <1>3, SettingsAre DEF PartOf
  <2> QED BY <1>5, <2>1, NetIs
<1>7. NationalSheet(c, s) = NationalSheet(b, r)
  BY <1>3, PartSheet
<1> HIDE DEF r, s
<1> QED BY <1>4, <1>5, <1>6, <1>7 DEF SameTotals

\* Whatever is edited in whatever order, the lines of a group that is out of the
\* budget total leave no trace: every total, both sides of the line, the fringe
\* breakdown, the accounts and the national sheet are those of the budget without
\* these lines (calc/mod.rs: is_included; model/mod.rs, Group), whether or not
\* the budget is well formed or its amounts fit the range.
THEOREM BooksSuppressedLeavesNoTrace == Spec => []SuppressedLeavesNoTrace
<1>1. Kept => SuppressedLeavesNoTrace
  BY KeptUntraced
<1> QED BY <1>1, AlwaysKept, PTL

----------------------------------------------------------------------------
(***************************************************************************)
(* The grand totals of the cost report as sums over every account.         *)
(***************************************************************************)

\* What is estimated for an account, as the cost report shows it.
Estimates(b, r) == [a \in Costed(b) |-> Estimate(r, a)]
Budgeted(b, r) == [a \in Costed(b) |-> RoundMoney(Estimate(r, a))]

\* A run of steps from numbers to numbers ends in one.
LEMMA RunStays ==
  ASSUME NEW steps, Len(steps) \in Nat, NEW start \in Int,
         \A i \in 1 .. Len(steps) : \A x \in Int : steps[i][x] \in Int
  PROVE  Run(start, steps) \in Int
<1> DEFINE N == Len(steps)
<1>1. PICK at : Running(at, start, steps) /\ Run(start, steps) = at[N]
  BY RunIs
<1>2. \A n \in 0 .. N : at[n] = IF n = 0 THEN start ELSE steps[n][at[n - 1]]
  BY <1>1 DEF Running
<1> DEFINE S == {n \in Nat : n <= N => at[n] \in Int}
<1>3. 0 \in S
  BY <1>2
<1>4. ASSUME NEW n \in Nat, n \in S PROVE n + 1 \in S
  <2>1. SUFFICES ASSUME n + 1 <= N PROVE at[n + 1] \in Int
    OBVIOUS
  <2>2. n + 1 \in 1 .. N /\ n + 1 \in 0 .. N /\ n + 1 # 0 /\ (n + 1) - 1 = n /\ at[n] \in Int
    BY <1>4, <2>1
  <2> QED BY <1>2, <2>2
<1> HIDE DEF S
<1>5. N \in S
  BY <1>3, <1>4, SetInduction
<1> QED BY <1>1, <1>5 DEF S

\* A saturating sum is an amount.
LEMMA SatSumType ==
  ASSUME NEW s, NEW N \in Nat, s = [i \in 1 .. N |-> s[i]], \A i \in 1 .. N : s[i] \in Int
  PROVE  SatSum(s) \in Int
<1> DEFINE steps == [i \in DOMAIN s |-> Adding(s[i], Clamp)]
<1>1. DOMAIN s = 1 .. N
  OBVIOUS
<1>2. Len(steps) = N
  BY <1>1
<1>3. ASSUME NEW i \in 1 .. N, NEW x \in Int PROVE steps[i][x] \in Int
  <2>1. steps[i][x] = IF s[i] = 0 THEN x ELSE Clamp[x + s[i]]
    BY <1>1 DEF Adding
  <2>2. x + s[i] \in Int
    OBVIOUS
  <2>3. Clamp[x + s[i]] \in Int
    BY <2>2, ClampFits, WholeIs DEF Decimal
  <2> QED BY <2>1, <2>3
<1>4. SatSum(s) = Run(0, steps)
  BY DEF SatSum, Accumulated
<1> HIDE DEF steps
<1> QED BY <1>2, <1>3, <1>4, RunStays

\* So is what a rollup comes to.
LEMMA RolledType ==
  ASSUME NEW b, BudgetType(b), NEW r, r = Evaluate(b), NEW S \in SUBSET DOMAIN b.details
  PROVE  Rolled(r.details, S).total \in Int
<1>1. DOMAIN r.details = DOMAIN b.details /\ DOMAIN b.details \in SUBSET Range(Lines)
  BY ResultLines
<1>2. ASSUME NEW d \in DOMAIN b.details
      PROVE  r.details[d].subtotal \in Int /\ r.details[d].fringes \in Int
  <2> DEFINE charges == r.details[d].charges
             w == Worth(charges)
  <2>1. /\ r.details[d].subtotal \in Int /\ charges = FringesOf(b, d, r.details[d].subtotal)
        /\ r.details[d].fringes = SatSum(w)
    BY LineIs
  <2>2. PICK n \in Nat : DOMAIN charges = 1 .. n
    BY <2>1, FringesOfType
  <2>3. Charges(charges, DOMAIN b.fringes)
    BY <2>1, FringesOfType
  <2>4. w = [i \in 1 .. n |-> w[i]]
    BY <2>2 DEF Worth
  <2>5. \A i \in 1 .. n : w[i] \in Int
    BY <2>2, <2>3, WorthSums
  <2> HIDE DEF w, charges
  <2>6. SatSum(w) \in Int
    BY <2>4, <2>5, SatSumType
  <2> QED BY <2>1, <2>6
<1> DEFINE I == {d \in S : r.details[d].included}
           f == [d \in I |-> r.details[d].subtotal]
           g == [d \in I |-> r.details[d].fringes]
           x == SatSum(InOrder(Lines, f))
           y == SatSum(InOrder(Lines, g))
<1>3. I \in SUBSET Range(Lines) /\ I \in SUBSET DOMAIN b.details
  BY <1>1
<1>4. \A h : h = [d \in I |-> h[d]] /\ (\A d \in I : h[d] \in Int) => SatSum(InOrder(Lines, h)) \in Int
  <2>1. SUFFICES ASSUME NEW h, h = [d \in I |-> h[d]], \A d \in I : h[d] \in Int
                 PROVE  SatSum(InOrder(Lines, h)) \in Int
    OBVIOUS
  <2> DEFINE s == InOrder(Lines, h)
  <2> HIDE DEF I
  <2>2. /\ Len(s) \in Nat /\ DOMAIN s = 1 .. Len(s) /\ s = [i \in DOMAIN s |-> s[i]]
        /\ Summable(s, 1 .. Len(s))
    BY <1>3, <2>1, OrderAssumption, InOrderSums
  <2> HIDE DEF s
  <2>3. \A i \in 1 .. Len(s) : s[i] \in Int
    BY <2>2 DEF Summable
  <2>4. SatSum(s) \in Int
    BY <2>2, <2>3, SatSumType
  <2> QED BY <2>4 DEF s
<1>5. f = [d \in I |-> f[d]] /\ g = [d \in I |-> g[d]] /\ \A d \in I : f[d] \in Int /\ g[d] \in Int
  BY <1>2, <1>3
<1>6. Rolled(r.details, S) = RollupOf(x, y)
  BY DEF Rolled
<1> HIDE DEF f, g, I
<1>7. x \in Int /\ y \in Int
  BY <1>4, <1>5
<1> HIDE DEF x, y
<1>8. SatAdd(x, y) \in Int
  BY <1>7, ClampFits, WholeIs DEF SatAdd, Decimal
<1> QED BY <1>6, <1>8 DEF RollupOf

\* Together the estimates are no more than the totals of the accounts.
LEMMA EstimatesFit ==
  ASSUME NEW b, BudgetType(b), NEW r, r = Evaluate(b)
  PROVE  /\ Summable(Estimates(b, r), Costed(b)) /\ EstimateVolume(r) \in Nat
         /\ Mass(Estimates(b, r), Costed(b)) <= EstimateVolume(r)
<1> DEFINE D == DOMAIN b.details
           key == [d \in D |-> b.details[d].account]
           K == DOMAIN b.accounts \union {b.details[d].account : d \in DOMAIN b.details}
           h == [k \in DOMAIN r.accounts |-> r.accounts[k].total]
           A == Costed(b)
           e == Estimates(b, r)
<1>1. DOMAIN r.details = D /\ IsFiniteSet(D)
  BY ResultLines DEF BudgetType, Map
<1>2. IsFiniteSet(K)
  <2>1. IsFiniteSet(DOMAIN b.accounts)
    BY DEF BudgetType, Map
  <2>2. IsFiniteSet({key[d] : d \in D})
    <3> HIDE DEF key, D
    <3> QED BY <1>1, ImageFinite
  <2>3. {key[d] : d \in D} = {b.details[d].account : d \in DOMAIN b.details}
    OBVIOUS
  <2> QED BY <2>1, <2>2, <2>3, FS_Union
<1>3. r.accounts = RolledBy(r.details, K, key)
  BY <1>1, RollupsAre
<1>4. DOMAIN r.accounts = K /\ \A k \in K : r.accounts[k].total \in Int
  <2> DEFINE mine(k) == {d \in DOMAIN r.details : key[d] = k}
  <2>1. \A k : mine(k) \in SUBSET DOMAIN b.details
    BY <1>1
  <2>2. DOMAIN r.accounts = K /\ \A k \in K : r.accounts[k] = Rolled(r.details, mine(k))
    BY <1>3 DEF RolledBy
  <2> HIDE DEF K, key, D, mine
  <2>3. \A k : Rolled(r.details, mine(k)).total \in Int
    BY <2>1, RolledType
  <2> QED BY <2>2, <2>3
<1>5. \A k \in K : h[k] = r.accounts[k].total /\ h[k] \in Int
  BY <1>4
<1>6. h = [k \in K |-> h[k]]
  BY <1>4
<1>7. EstimateVolume(r) = Magnitude(h)
  BY DEF EstimateVolume
<1>8. IsFiniteSet(A)
  BY CostedFinite
<1>9. \A a \in A : e[a] = IF a \in K THEN h[a] ELSE 0
  BY <1>4 DEF Estimates, Estimate
<1> HIDE DEF h, A, e, K, key, D
<1>10. Summable(h, K) /\ EstimateVolume(r) = Mass(h, K) /\ Mass(h, K) \in Nat
  BY <1>2, <1>5, <1>6, <1>7, MagnitudeIs, MassType DEF Summable
<1> DEFINE B == A \intersect K
<1>12. Summable(e, A)
  <2>1. \A a \in A : e[a] \in Int
    BY <1>5, <1>9
  <2> QED BY <1>8, <2>1 DEF Summable
<1>13. Mass(h, B) <= Mass(h, K) /\ Mass(h, B) \in Nat
  <2>1. B \in SUBSET K
    OBVIOUS
  <2> QED BY <1>10, <2>1, MassMonotone
<1>14. Mass(e, A) = Mass(h, B)
  <2> DEFINE p == [a \in A |-> Abs(e[a])]
             q == [a \in B |-> Abs(h[a])]
  <2>1. Summable(p, A) /\ Mass(e, A) = Over(p, A) /\ Mass(h, B) = Over(q, B)
    BY <1>12, MassSummable DEF Mass
  <2>2. B \in SUBSET A /\ \A a \in A \ B : p[a] = 0
    BY <1>9 DEF Abs
  <2>3. \A a \in B : p[a] = q[a]
    BY <1>9
  <2> HIDE DEF p, q, B
  <2> QED BY <2>1, <2>2, <2>3, OverSupport, OverSame
<1> QED BY <1>10, <1>12, <1>13, <1>14 DEF e, A

\* What the orders that are committed come to, exactly.
Owings(b) == [o \in DOMAIN b.orders |-> b.orders[o].amount]

\* The volumes of costs and orders, as sums of magnitudes.
LEMMA VolumesAre ==
  ASSUME NEW b, BudgetType(b)
  PROVE  /\ Summable(Costs(b), DOMAIN b.actuals)
         /\ CostVolume(b) = Mass(Costs(b), DOMAIN b.actuals) /\ CostVolume(b) \in Nat
         /\ Summable(Owings(b), Committed(b))
         /\ OrderVolume(b) = Mass(Owings(b), Committed(b)) /\ OrderVolume(b) \in Nat
<1> DEFINE D == DOMAIN b.actuals
           C == Committed(b)
           f == Costs(b)
           g == [o \in C |-> b.orders[o].amount]
           w == Owings(b)
<1>1. /\ IsFiniteSet(D) /\ \A x \in D : b.actuals[x] \in Actual
      /\ IsFiniteSet(DOMAIN b.orders) /\ \A o \in DOMAIN b.orders : b.orders[o] \in Order
  BY DEF BudgetType, Map
<1>2. Summable(f, D)
  <2>1. \A x \in D : f[x] \in Int
    BY <1>1, ActualAmounts DEF Costs
  <2> QED BY <1>1, <2>1 DEF Summable
<1>3. f = [x \in D |-> f[x]] /\ CostVolume(b) = Magnitude(f)
  BY DEF Costs, CostVolume
<1>4. C \in SUBSET DOMAIN b.orders /\ IsFiniteSet(C)
  BY <1>1, FS_Subset DEF Committed
<1>5. \A o \in C : g[o] = w[o] /\ w[o] \in Int
  BY <1>1, <1>4, DepthAssumption DEF Owings, Order, Decimal
<1>6. g = [o \in C |-> g[o]] /\ OrderVolume(b) = Magnitude(g)
  BY DEF OrderVolume
<1> HIDE DEF D, C, f, g, w
<1>7. Summable(w, C)
  BY <1>4, <1>5 DEF Summable
<1>8. Mass(g, C) = Mass(w, C)
  <2>1. \A o \in C : [x \in C |-> Abs(g[x])][o] = [x \in C |-> Abs(w[x])][o]
    BY <1>5
  <2> QED BY <2>1, OverSame DEF Mass
<1>9. CostVolume(b) = Mass(f, D) /\ OrderVolume(b) = Mass(w, C)
  BY <1>3, <1>6, <1>8, MagnitudeIs
<1>10. Mass(f, D) \in Nat /\ Mass(w, C) \in Nat
  BY <1>2, <1>7, MassType
<1> QED BY <1>2, <1>7, <1>9, <1>10 DEF f, D, w, C

\* A budget that fits the report fits in each of its parts.
LEMMA FitsEach ==
  ASSUME NEW b, BudgetType(b), NEW r, r = Evaluate(b), FitsReport(b, r)
  PROVE  /\ 2 * CostVolume(b) <= Whole /\ 2 * OrderVolume(b) <= Whole
         /\ 2 * EstimateVolume(r) + 2 * CostVolume(b) + 2 * OrderVolume(b) <= Whole
         /\ EstimateVolume(r) \in Nat /\ CostVolume(b) \in Nat /\ OrderVolume(b) \in Nat
         /\ Whole \in Nat
<1>1. EstimateVolume(r) \in Nat /\ CostVolume(b) \in Nat /\ OrderVolume(b) \in Nat
  BY EstimatesFit, VolumesAre
<1>2. Whole \in Nat
  BY WholeIs
<1>3. 2 * (EstimateVolume(r) + CostVolume(b) + OrderVolume(b)) <= Whole
  BY DEF FitsReport
<1> QED BY <1>1, <1>2, <1>3

\* What is at most two magnitudes together has no more mass than both.
LEMMA MassPlus ==
  ASSUME NEW f, NEW g, NEW t, NEW S, Summable(f, S), Summable(g, S),
         \A x \in S : t[x] \in Int /\ Abs(t[x]) <= Abs(f[x]) + Abs(g[x])
  PROVE  /\ Summable(t, S)
         /\ Mass(t, S) \in Nat /\ Mass(f, S) \in Nat /\ Mass(g, S) \in Nat
         /\ Mass(t, S) <= Mass(f, S) + Mass(g, S)
<1> DEFINE p == [x \in S |-> Abs(f[x])]
           q == [x \in S |-> Abs(g[x])]
           a == [x \in S |-> Abs(t[x])]
           u == [x \in S |-> p[x] + q[x]]
<1>1. Summable(t, S)
  BY DEF Summable
<1>2. /\ Summable(p, S) /\ Mass(f, S) = Over(p, S) /\ Mass(f, S) \in Nat
      /\ Summable(q, S) /\ Mass(g, S) = Over(q, S) /\ Mass(g, S) \in Nat
      /\ Summable(a, S) /\ Mass(t, S) = Over(a, S) /\ Mass(t, S) \in Nat
  BY <1>1, MassSummable, MassType DEF Mass
<1>3. \A x \in S : u[x] = p[x] + q[x] /\ a[x] <= u[x]
  OBVIOUS
<1> HIDE DEF p, q, a, u
<1>4. Over(u, S) = Over(p, S) + Over(q, S)
  BY <1>2, <1>3, OverPlus
<1>5. Summable(u, S)
  BY <1>2, <1>3 DEF Summable
<1>6. Over(a, S) <= Over(u, S)
  BY <1>2, <1>3, <1>5, OverMonotone
<1> QED BY <1>1, <1>2, <1>4, <1>6

\* What was spent or is committed, and what is forecast, by account.
Outlays(b) == [a \in Costed(b) |-> Outlay(b, a)]
Forecasts(b, r) == [a \in Costed(b) |-> Forecast(b, r, a)]

\* What was spent and is owed adds up exactly.
LEMMA OutlaysFit ==
  ASSUME NEW b, BudgetType(b), NEW r, r = Evaluate(b), FitsReport(b, r)
  PROVE  /\ \A a \in Costed(b) : /\ Spent(b, a) \in Int /\ Owed(b, a) \in Int
                                 /\ Outlay(b, a) = Spent(b, a) + Owed(b, a)
                                 /\ Outlay(b, a) \in Kuruses
         /\ Summable(Outlays(b), Costed(b))
         /\ Mass(Outlays(b), Costed(b)) \in Nat
         /\ Mass(Outlays(b), Costed(b)) <= 2 * CostVolume(b) + 2 * OrderVolume(b)
<1> DEFINE K == Costed(b)
           f == [a \in K |-> Spent(b, a)]
           g == [a \in K |-> Owed(b, a)]
           t == Outlays(b)
<1>0. /\ 2 * CostVolume(b) <= Whole /\ 2 * OrderVolume(b) <= Whole
      /\ 2 * EstimateVolume(r) + 2 * CostVolume(b) + 2 * OrderVolume(b) <= Whole
      /\ EstimateVolume(r) \in Nat /\ CostVolume(b) \in Nat /\ OrderVolume(b) \in Nat /\ Whole \in Nat
  BY FitsEach
<1>1. Summable(f, K) /\ Mass(f, K) <= 2 * CostVolume(b) /\ \A a \in K : f[a] \in Kuruses
  BY <1>0, SpentAgrees
<1>2. Summable(g, K) /\ Mass(g, K) <= 2 * OrderVolume(b) /\ \A a \in K : g[a] \in Kuruses
  BY <1>0, OwedAgrees
<1>3. \A a \in K : f[a] = Spent(b, a) /\ g[a] = Owed(b, a) /\ t[a] = AddOrLargest(f[a], g[a])
  BY DEF Outlays, Outlay
<1> HIDE DEF f, g, t, K
<1>4. ASSUME NEW a \in K
      PROVE  f[a] \in Int /\ g[a] \in Int /\ t[a] = f[a] + g[a] /\ t[a] \in Kuruses
  <2> DEFINE x == f[a]
             y == g[a]
             m == Mass(f, K)
             n == Mass(g, K)
  <2>1. /\ x \in Int /\ Abs(x) \in Nat /\ m \in Nat /\ Abs(x) <= m
        /\ y \in Int /\ Abs(y) \in Nat /\ n \in Nat /\ Abs(y) <= n
        /\ x \in Kuruses /\ y \in Kuruses
    BY <1>1, <1>2, MassElement
  <2>2. m <= 2 * CostVolume(b) /\ n <= 2 * OrderVolume(b)
    BY <1>1, <1>2
  <2> HIDE DEF x, y, m, n
  <2>3. Abs(x) + Abs(y) <= Whole
    BY <1>0, <2>1, <2>2
  <2>4. x + y \in Kuruses /\ Abs(x + y) <= Whole
    <3>1. x + y \in Kuruses
      BY <2>1, WholeIs
    <3>2. Abs(x + y) <= Whole
      BY <1>0, <2>1, <2>3 DEF Abs
    <3> QED BY <3>1, <3>2
  <2>5. AddOrLargest(x, y) = x + y
    BY <2>4, KurusesStay DEF AddOrLargest
  <2> QED BY <1>3, <2>1, <2>4, <2>5 DEF x, y
<1>5. \A a \in K : t[a] \in Int /\ Abs(t[a]) <= Abs(f[a]) + Abs(g[a])
  BY <1>4 DEF Abs
<1>6. /\ Summable(t, K) /\ Mass(t, K) \in Nat /\ Mass(f, K) \in Nat /\ Mass(g, K) \in Nat
      /\ Mass(t, K) <= Mass(f, K) + Mass(g, K)
  BY <1>1, <1>2, <1>5, MassPlus
<1>7. Mass(t, K) <= 2 * CostVolume(b) + 2 * OrderVolume(b)
  BY <1>0, <1>1, <1>2, <1>6
<1>8. \A a \in K : t[a] = Outlay(b, a)
  BY DEF t, K, Outlays
<1> QED BY <1>3, <1>4, <1>6, <1>7, <1>8 DEF t, K

\* So do the forecasts, each of which is an estimate or an outlay.
LEMMA ForecastsFit ==
  ASSUME NEW b, BudgetType(b), NEW r, r = Evaluate(b), FitsReport(b, r)
  PROVE  /\ \A a \in Costed(b) :
              Forecast(b, r, a) = IF RoundMoney(Estimate(r, a)) > Outlay(b, a)
                                  THEN RoundMoney(Estimate(r, a)) ELSE Outlay(b, a)
         /\ Summable(Forecasts(b, r), Costed(b))
         /\ Mass(Forecasts(b, r), Costed(b)) <= Whole
         /\ \A a \in Costed(b) : Forecast(b, r, a) \in Kuruses
<1> DEFINE K == Costed(b)
           f == Budgeted(b, r)
           e == Estimates(b, r)
           g == Outlays(b)
           t == Forecasts(b, r)
<1>0. /\ 2 * EstimateVolume(r) + 2 * CostVolume(b) + 2 * OrderVolume(b) <= Whole
      /\ EstimateVolume(r) \in Nat /\ CostVolume(b) \in Nat /\ OrderVolume(b) \in Nat /\ Whole \in Nat
  BY FitsEach
<1>1. Summable(e, K) /\ Mass(e, K) <= EstimateVolume(r)
  BY EstimatesFit
<1>2. f = [a \in K |-> RoundMoney(e[a])]
  BY DEF Budgeted, Estimates
<1>3. /\ Summable(g, K) /\ Mass(g, K) \in Nat
      /\ Mass(g, K) <= 2 * CostVolume(b) + 2 * OrderVolume(b)
      /\ \A a \in K : g[a] \in Kuruses
  BY OutlaysFit DEF Outlays
<1>4. \A a \in K : /\ f[a] = RoundMoney(Estimate(r, a)) /\ g[a] = Outlay(b, a)
                  /\ t[a] = Forecast(b, r, a)
                  /\ t[a] = AddOrLargest(g[a], IF f[a] > g[a] THEN Unchecked[f[a] - g[a]] ELSE 0)
  BY DEF Budgeted, Outlays, Forecasts, Forecast
<1> HIDE DEF K, f, e, g, t
<1>5. Summable(f, K) /\ Mass(f, K) \in Nat /\ Mass(e, K) \in Nat /\ Mass(f, K) <= 2 * Mass(e, K)
  BY <1>1, <1>2, RoundedSum
<1>k. \A a \in K : f[a] \in Kuruses
  BY <1>1, <1>2, RoundMoneyKuruses DEF Summable
<1>6. Mass(f, K) + Mass(g, K) <= Whole
  BY <1>0, <1>1, <1>3, <1>5
<1>7. ASSUME NEW a \in K
      PROVE  /\ t[a] = IF f[a] > g[a] THEN f[a] ELSE g[a]
             /\ f[a] \in Int /\ g[a] \in Int /\ t[a] \in Kuruses
  <2> DEFINE x == f[a]
             y == g[a]
             m == Mass(f, K)
             n == Mass(g, K)
             z == IF x > y THEN Unchecked[x - y] ELSE 0
  <2>1. /\ x \in Int /\ Abs(x) \in Nat /\ m \in Nat /\ Abs(x) <= m
        /\ y \in Int /\ Abs(y) \in Nat /\ n \in Nat /\ Abs(y) <= n
        /\ x \in Kuruses /\ y \in Kuruses
    BY <1>3, <1>5, <1>k, MassElement
  <2>2. m + n <= Whole
    BY <1>6
  <2>3. t[a] = AddOrLargest(y, z)
    BY <1>4
  <2> HIDE DEF x, y, m, n
  <2>4. x - y \in Kuruses /\ Abs(x - y) <= Whole
    <3>1. x - y \in Kuruses
      BY <2>1, WholeIs
    <3>2. Abs(x - y) <= Whole
      BY <1>0, <2>1, <2>2 DEF Abs
    <3> QED BY <3>1, <3>2
  <2>5. Unchecked[x - y] = x - y
    BY <2>4, KurusesStay
  <2>6. y + z = (IF x > y THEN x ELSE y) /\ y + z \in Kuruses /\ Abs(y + z) <= Whole
    BY <1>0, <2>1, <2>2, <2>5 DEF Abs
  <2>7. AddOrLargest(y, z) = y + z
    BY <2>6, KurusesStay DEF AddOrLargest
  <2> HIDE DEF z
  <2> QED BY <2>1, <2>3, <2>6, <2>7 DEF x, y
<1>8. \A a \in K : t[a] \in Int /\ Abs(t[a]) <= Abs(f[a]) + Abs(g[a])
  BY <1>7 DEF Abs
<1>9. Summable(t, K) /\ Mass(t, K) \in Nat /\ Mass(t, K) <= Mass(f, K) + Mass(g, K)
  BY <1>3, <1>5, <1>8, MassPlus
<1>10. Mass(t, K) <= Whole
  BY <1>0, <1>3, <1>5, <1>6, <1>9
<1> QED BY <1>4, <1>7, <1>9, <1>10 DEF t, K

\* The grand totals are sums over every account there is.
LEMMA CostTotalsAre ==
  ASSUME NEW b, BudgetType(b), NEW r, r = Evaluate(b), FitsReport(b, r), NEW window
  PROVE  CostTotals(b, r, window)
           = <<Over(Outlays(b), Costed(b)), Over(Forecasts(b, r), Costed(b))>>
<1> DEFINE K == Costed(b)
           T == ShownRows(b, r)
           g == Outlays(b)
           t == Forecasts(b, r)
           gs == [a \in T |-> CostRow(b, r, window, a)["total"]]
           ts == [a \in T |-> CostRow(b, r, window, a)["efc"]]
           grand == CostReport(b, r, window).grand
<1>1. grand["total"] = SumUp(gs) /\ grand["efc"] = SumUp(ts)
  BY CostGrand
<1>2. /\ IsFiniteSet(K)
      /\ Mass(g, K) <= Whole /\ (\A a \in K : g[a] \in Kuruses)
      /\ Mass(t, K) <= Whole /\ (\A a \in K : t[a] \in Kuruses)
  <2>1. /\ Summable(g, K) /\ Mass(g, K) \in Nat
        /\ Mass(g, K) <= 2 * CostVolume(b) + 2 * OrderVolume(b)
    BY OutlaysFit
  <2>2. /\ 2 * EstimateVolume(r) + 2 * CostVolume(b) + 2 * OrderVolume(b) <= Whole
        /\ EstimateVolume(r) \in Nat /\ CostVolume(b) \in Nat /\ OrderVolume(b) \in Nat /\ Whole \in Nat
    BY FitsEach
  <2>3. Mass(g, K) <= Whole
    <3> DEFINE x == Mass(g, K)
    <3> HIDE DEF x
    <3>1. x \in Nat /\ x <= 2 * CostVolume(b) + 2 * OrderVolume(b)
      BY <2>1 DEF x
    <3>2. x <= Whole
      BY <2>2, <3>1
    <3> QED BY <3>2 DEF x
  <2>4. (\A a \in K : g[a] \in Kuruses) /\ (\A a \in K : t[a] \in Kuruses)
    BY OutlaysFit, ForecastsFit DEF Outlays, Forecasts
  <2> QED BY <2>3, <2>4, ForecastsFit, CostedFinite
<1>3. T \in SUBSET K
  BY DEF ShownRows
<1>4. \A a \in T : CostRow(b, r, window, a)["total"] = Outlay(b, a)
                  /\ CostRow(b, r, window, a)["efc"] = Forecast(b, r, a)
  BY CostRowIs
<1>5. gs = [a \in T |-> g[a]] /\ ts = [a \in T |-> t[a]]
  BY <1>3, <1>4 DEF Outlays, Forecasts
<1>6. \A a \in K \ T : g[a] = 0 /\ t[a] = 0
  <2>1. SUFFICES ASSUME NEW a \in K \ T PROVE g[a] = 0 /\ t[a] = 0
    OBVIOUS
  <2>2. RoundMoney(Estimate(r, a)) = 0 /\ Spent(b, a) = 0 /\ Owed(b, a) = 0
    BY DEF ShownRows
  <2>3. Outlay(b, a) = 0
    <3>1. Outlay(b, a) = Spent(b, a) + Owed(b, a)
      BY OutlaysFit
    <3> QED BY <2>2, <3>1
  <2>4. Forecast(b, r, a) = 0
    <3>1. Forecast(b, r, a) = IF RoundMoney(Estimate(r, a)) > Outlay(b, a)
                              THEN RoundMoney(Estimate(r, a)) ELSE Outlay(b, a)
      BY ForecastsFit
    <3> QED BY <2>2, <2>3, <3>1
  <2> QED BY <2>3, <2>4 DEF Outlays, Forecasts
<1>7. CostTotals(b, r, window) = <<grand["total"], grand["efc"]>>
  BY DEF CostTotals
<1> HIDE DEF K, T, g, t, gs, ts, grand
<1>8. SumUp(gs) = Over(g, K)
  BY <1>2, <1>3, <1>5, <1>6, SumUpShown
<1>9. SumUp(ts) = Over(t, K)
  BY <1>2, <1>3, <1>5, <1>6, SumUpShown
<1> QED BY <1>1, <1>7, <1>8, <1>9 DEF g, t, K

----------------------------------------------------------------------------
(***************************************************************************)
(* The conversion of an order.                                             *)
(***************************************************************************)

\* The budget c is b with its approved order o converted.
Converted(b, c, o) ==
  /\ BudgetType(b) /\ BudgetType(c)
  /\ o \in DOMAIN b.orders /\ b.orders[o].status = "approved" /\ o \notin DOMAIN b.actuals
  /\ \A field \in Fields \ {"actuals", "orders"} : c[field] = b[field]
  /\ DOMAIN c.actuals = DOMAIN b.actuals \union {o}
  /\ \A x \in DOMAIN b.actuals : c.actuals[x] = b.actuals[x]
  /\ c.actuals[o] = AsActual(b.orders[o])
  /\ DOMAIN c.orders = DOMAIN b.orders
  /\ \A x \in DOMAIN b.orders \ {o} : c.orders[x] = b.orders[x]
  /\ c.orders[o].status = "converted"

\* Nothing but the order and its actual is touched.
LEMMA ConvertIs ==
  ASSUME Kept, NEW o, ConvertOrder(o), budget.orders[o].status = "approved",
         o \notin DOMAIN budget.actuals
  PROVE  Converted(budget, budget', o)
<1> DEFINE b == budget
           v == [y \in DOMAIN b["actuals"] \union {o} |->
                   IF y = o THEN AsActual(b.orders[o]) ELSE b["actuals"][y]]
           p == Put(b, "actuals", o, AsActual(b.orders[o]))
           w == [p.orders EXCEPT ![o].status = "converted"]
<1>1. Kept'
  BY ConvertOrderKeeps
<1>2. /\ BudgetType(b) /\ BudgetType(budget')
      /\ o \in DOMAIN b.orders
      /\ budget' = [p EXCEPT !["orders"] = w]
  BY <1>1 DEF ConvertOrder, Edit, Kept, WellKept
<1>3. b = [field \in Fields |-> b[field]] /\ "orders" \in Fields /\ "actuals" \in Fields
  BY <1>2 DEF BudgetType, Fields, Collections
<1>4. p = [b EXCEPT !["actuals"] = v]
  BY DEF Put
<1> HIDE DEF v
<1>5. p["actuals"] = v /\ \A field \in Fields \ {"actuals"} : p[field] = b[field]
  BY <1>3, <1>4
<1>6. DOMAIN p = Fields
  BY <1>3, <1>4
<1> HIDE DEF p
<1>7. p.orders = b.orders
  BY <1>3, <1>5
<1>8. /\ DOMAIN w = DOMAIN b.orders /\ w[o].status = "converted"
      /\ \A x \in DOMAIN b.orders \ {o} : w[x] = b.orders[x]
  <2>1. w = [b.orders EXCEPT ![o].status = "converted"]
    BY <1>7
  <2>2. b.orders[o] \in Order
    BY <1>2 DEF BudgetType, Map
  <2> QED BY <1>2, <2>1, <2>2 DEF Order
<1> HIDE DEF w
<1>9. budget'["orders"] = w /\ \A field \in Fields \ {"orders"} : budget'[field] = p[field]
  BY <1>2, <1>3, <1>6
<1>10. budget'.orders = w /\ budget'.actuals = v
  BY <1>3, <1>5, <1>9
<1>11. \A field \in Fields \ {"actuals", "orders"} : budget'[field] = b[field]
  BY <1>5, <1>9
<1>12. /\ DOMAIN v = DOMAIN b.actuals \union {o} /\ v[o] = AsActual(b.orders[o])
       /\ \A x \in DOMAIN b.actuals : v[x] = b.actuals[x]
  BY DEF v
<1> QED BY <1>2, <1>8, <1>10, <1>11, <1>12 DEF Converted

\* The lines come to the same.
LEMMA ConvertedLines ==
  ASSUME NEW b, NEW c, NEW o, Converted(b, c, o), NEW r, r = Evaluate(b), NEW s, s = Evaluate(c)
  PROVE  /\ s.details = r.details
         /\ c.accounts = b.accounts /\ c.details = b.details
         /\ s.accounts = r.accounts
         /\ EstimateVolume(s) = EstimateVolume(r)
         /\ \A a : Estimate(s, a) = Estimate(r, a)
<1>1. \A field \in {"units", "currencies", "categories", "accounts", "fringes", "groups", "applied",
                    "dividers", "charges", "credits", "globals", "details"} : c[field] = b[field]
  BY DEF Converted, Fields, Collections
<1>2. SameSettings(b, c) /\ c.globals = b.globals /\ c.details = b.details /\ c.accounts = b.accounts
  BY <1>1 DEF SameSettings
<1> DEFINE D == DOMAIN b.details
<1>3. PartOf(b, c, D)
  BY <1>2 DEF PartOf
<1>4. DOMAIN r.details = D /\ DOMAIN s.details = D /\ \A d \in D : s.details[d] = r.details[d]
  BY <1>3, PartDetails
<1>5. s.details = r.details
  <2>1. r.details = [d \in D |-> EvalDetail(b, ResolveGlobals(b.globals), d)]
    BY DetailsAre
  <2>2. s.details = [d \in D |-> EvalDetail(c, ResolveGlobals(c.globals), d)]
    BY <1>2, DetailsAre
  <2>3. r.details = [d \in D |-> r.details[d]] /\ s.details = [d \in D |-> s.details[d]]
    BY <2>1, <2>2
  <2> HIDE DEF D
  <2> QED BY <1>4, <2>3
<1>6. s.accounts = r.accounts
  <2> DEFINE K == DOMAIN b.accounts \union {b.details[d].account : d \in DOMAIN b.details}
             key == [d \in DOMAIN b.details |-> b.details[d].account]
  <2>1. r.accounts = RolledBy(r.details, K, key)
    BY <1>2, <1>4, RollupsAre
  <2>2. s.accounts = RolledBy(s.details,
                              DOMAIN c.accounts \union {c.details[d].account : d \in DOMAIN c.details},
                              [d \in DOMAIN c.details |-> c.details[d].account])
    BY <1>2, <1>4, RollupsAre
  <2>3. s.accounts = RolledBy(s.details, K, key)
    BY <1>2, <2>2
  <2> HIDE DEF K, key
  <2> QED BY <1>5, <2>1, <2>3
<1>7. EstimateVolume(s) = EstimateVolume(r)
  BY <1>6 DEF EstimateVolume
<1>8. \A a : Estimate(s, a) = Estimate(r, a)
  BY <1>6 DEF Estimate
<1> QED BY <1>2, <1>5, <1>6, <1>7, <1>8

\* A key more adds its magnitude.
LEMMA MassAdd ==
  ASSUME NEW f, NEW S, Summable(f, S), NEW x, x \notin S, f[x] \in Int
  PROVE  Mass(f, S \union {x}) = Mass(f, S) + Abs(f[x]) /\ Mass(f, S) \in Nat
<1> DEFINE T == S \union {x}
           g == [y \in T |-> Abs(f[y])]
           h == [y \in S |-> Abs(f[y])]
<1>1. Summable(f, T)
  BY OverAdd
<1>2. \A y \in S : g[y] = h[y]
  OBVIOUS
<1>3. g[x] = Abs(f[x])
  OBVIOUS
<1>4. Mass(f, T) = Over(g, T) /\ Mass(f, S) = Over(h, S)
  BY DEF Mass
<1>5. Summable(g, T)
  BY <1>1, MassSummable
<1>6. Summable(g, S) /\ g[x] \in Int
  <2>1. S \in SUBSET T /\ x \in T
    OBVIOUS
  <2> HIDE DEF T, g
  <2> QED BY <1>5, <2>1, SubSummable DEF Summable
<1> HIDE DEF g, h
<1>7. Over(g, S) = Over(h, S)
  BY <1>2, OverSame
<1>8. Over(g, T) = Over(g, S) + g[x]
  BY <1>6, OverAdd
<1>9. Mass(f, S) \in Nat
  BY MassType
<1> QED BY <1>3, <1>4, <1>7, <1>8, <1>9

\* What an order commits is what its actual costs.
LEMMA ConvertedPapers ==
  ASSUME NEW b, NEW c, NEW o, Converted(b, c, o)
  PROVE  /\ o \in Committed(b) /\ Committed(c) = Committed(b) \ {o}
         /\ \A x \in Committed(c) : c.orders[x] = b.orders[x]
         /\ b.orders[o].amount \in Int
         /\ Cost(c.actuals[o]) = b.orders[o].amount
         /\ c.actuals[o].account = b.orders[o].account
         /\ Costed(c) = Costed(b) /\ b.orders[o].account \in Costed(b)
<1>1. o \in Committed(b) /\ Committed(c) = Committed(b) \ {o}
  BY DEF Converted, Committed
<1>2. \A x \in Committed(c) : c.orders[x] = b.orders[x]
  BY <1>1 DEF Converted, Committed
<1>3. b.orders[o] \in Order /\ c.actuals[o] \in Actual
  BY DEF Converted, BudgetType, Map
<1>4. b.orders[o].amount \in Int
  BY <1>3, DepthAssumption DEF Order, Decimal
<1>5. /\ c.actuals[o].stopaj = 0 /\ c.actuals[o].net = b.orders[o].amount
      /\ c.actuals[o].account = b.orders[o].account
  BY DEF Converted, AsActual
<1>6. Cost(c.actuals[o]) = b.orders[o].amount
  BY <1>3, <1>5, ActualAmounts
<1>7. c.accounts = b.accounts
  BY DEF Converted, Fields, Collections
<1> DEFINE A == {b.actuals[x].account : x \in DOMAIN b.actuals}
           O == {b.orders[x].account : x \in Committed(b)}
           P == {b.orders[x].account : x \in Committed(b) \ {o}}
           a == b.orders[o].account
<1>8. {c.actuals[x].account : x \in DOMAIN c.actuals} = A \union {a}
  BY <1>5 DEF Converted
<1>9. {c.orders[x].account : x \in Committed(c)} = P
  BY <1>1, <1>2
<1>10. O = P \union {a}
  BY <1>1
<1>11. /\ Costed(b) = DOMAIN b.accounts \union A \union O
       /\ Costed(c) = DOMAIN b.accounts \union (A \union {a}) \union P
  BY <1>7, <1>8, <1>9 DEF Costed
<1> HIDE DEF A, O, P
<1>12. Costed(c) = Costed(b) /\ a \in Costed(b)
  BY <1>10, <1>11
<1> QED BY <1>1, <1>2, <1>4, <1>5, <1>6, <1>12

\* What is on record is of the same volume.
LEMMA ConvertedVolumes ==
  ASSUME NEW b, NEW c, NEW o, Converted(b, c, o)
  PROVE  CostVolume(c) + OrderVolume(c) = CostVolume(b) + OrderVolume(b)
<1> DEFINE n == b.orders[o].amount
           f == Costs(b)
           g == Costs(c)
           u == Owings(b)
           v == Owings(c)
           D == DOMAIN b.actuals
           C == Committed(b)
           B == Committed(c)
<1>1. BudgetType(b) /\ BudgetType(c) /\ o \notin D /\ DOMAIN c.actuals = D \union {o}
      /\ DOMAIN c.orders = DOMAIN b.orders
  BY DEF Converted
<1>2. /\ o \in C /\ B = C \ {o} /\ n \in Int /\ Cost(c.actuals[o]) = n
      /\ \A x \in B : c.orders[x] = b.orders[x]
  BY ConvertedPapers
<1>3. /\ Summable(f, D) /\ CostVolume(b) = Mass(f, D)
      /\ Summable(u, C) /\ OrderVolume(b) = Mass(u, C)
      /\ CostVolume(c) = Mass(g, D \union {o})
      /\ Summable(g, D \union {o})
      /\ Summable(v, B) /\ OrderVolume(c) = Mass(v, B)
  BY <1>1, VolumesAre
<1>4. g[o] = n /\ \A x \in D : g[x] = f[x]
  BY <1>1, <1>2 DEF Costs, Converted
<1>5. u[o] = n /\ \A x \in B : v[x] = u[x]
  <2>1. C \in SUBSET DOMAIN b.orders
    BY DEF Committed
  <2> QED BY <1>1, <1>2, <2>1 DEF Owings
<1>6. C = B \union {o} /\ o \notin B
  BY <1>2
<1> HIDE DEF n, f, g, u, v, D, C, B
<1>7. Mass(g, D \union {o}) = Mass(g, D) + Abs(n)
  <2>1. D \in SUBSET (D \union {o})
    OBVIOUS
  <2>2. Summable(g, D)
    BY <1>3, <2>1, SubSummable
  <2> QED BY <1>1, <1>2, <1>4, <2>2, MassAdd
<1>8. Mass(u, C) = Mass(u, B) + Abs(n)
  <2>1. B \in SUBSET C
    BY <1>6
  <2>2. Summable(u, B)
    BY <1>3, <2>1, SubSummable
  <2>3. Mass(u, B \union {o}) = Mass(u, B) + Abs(u[o])
    BY <1>2, <1>5, <1>6, <2>2, MassAdd
  <2> QED BY <1>5, <1>6, <2>3
<1>9. Mass(g, D) = Mass(f, D)
  <2> DEFINE p == [x \in D |-> Abs(g[x])]
             q == [x \in D |-> Abs(f[x])]
  <2>1. p = q
    BY <1>4
  <2> QED BY <2>1 DEF Mass
<1>10. Mass(v, B) = Mass(u, B)
  <2> DEFINE p == [x \in B |-> Abs(v[x])]
             q == [x \in B |-> Abs(u[x])]
  <2>1. p = q
    BY <1>5
  <2> QED BY <2>1 DEF Mass
<1>11. Mass(f, D) \in Nat /\ Mass(v, B) \in Nat /\ Abs(n) \in Nat
  BY <1>2, <1>3, MassType, AbsType
<1> QED BY <1>3, <1>7, <1>8, <1>9, <1>10, <1>11

\* What is spent or committed on an account is the sum of its amounts.
LEMMA OwedIs ==
  ASSUME NEW b, BudgetType(b), 2 * OrderVolume(b) <= Whole, NEW a, NEW S,
         S = {o \in Committed(b) : b.orders[o].account = a}
  PROVE  Summable(Open(b), S) /\ Owed(b, a) = Over(Open(b), S) /\ Over(Open(b), S) \in Int
<1> DEFINE C == Committed(b)
           f == Open(b)
           g == [o \in S |-> RoundMoney(b.orders[o].amount)]
<1>1. Summable(f, C) /\ Mass(f, C) <= Whole /\ IsFiniteSet(C) /\ \A x \in C : f[x] \in Kuruses
  BY OpenOrders
<1>2. S \in SUBSET C /\ \A o \in S : g[o] = f[o]
  BY DEF Open
<1>3. g = [o \in S |-> g[o]] /\ Owed(b, a) = SumUp(g)
  BY DEF Owed, AmountsOf
<1> HIDE DEF C, f, g
<1>4. Summable(f, S) /\ Mass(f, S) \in Nat /\ Mass(f, C) \in Nat /\ Mass(f, S) <= Mass(f, C)
      /\ Over(f, S) \in Int
  BY <1>1, <1>2, MassMonotone
<1>5. Mass(f, S) <= Whole
  BY <1>1, <1>4, WholeIs
<1>6. g = [o \in S |-> f[o]]
  BY <1>2, <1>3
<1>7. Summable(g, S) /\ Over(g, S) = Over(f, S)
  BY <1>2, <1>4, OverSame DEF Summable
<1>8. Mass(g, S) = Mass(f, S)
  <2> DEFINE p == [o \in S |-> Abs(g[o])]
             q == [o \in S |-> Abs(f[o])]
  <2>1. p = q
    BY <1>2
  <2> QED BY <2>1 DEF Mass
<1>9. SumUp(g) = Over(g, S)
  <2>1. IsFiniteSet(S) /\ \A x \in S : g[x] \in Kuruses
    BY <1>1, <1>2, FS_Subset
  <2> QED BY <1>3, <1>5, <1>7, <1>8, <2>1, SumUpExact
<1> QED BY <1>3, <1>4, <1>7, <1>9 DEF f

\* What was spent on an account is the exact sum of its actuals.
LEMMA SpentIs ==
  ASSUME NEW b, BudgetType(b), 2 * CostVolume(b) <= Whole, NEW a \in Costed(b)
  PROVE  /\ Summable(CostsShown(b), ActualsOf(b, a))
         /\ Spent(b, a) = Over(CostsShown(b), ActualsOf(b, a))
         /\ Over(CostsShown(b), ActualsOf(b, a)) \in Int
<1> DEFINE h == [x \in Costed(b) |-> Spent(b, x)]
           g == [x \in Costed(b) |-> Over(CostsShown(b), ActualsOf(b, x))]
<1>1. h = g
  BY SpentAgrees
<1>2. Spent(b, a) = Over(CostsShown(b), ActualsOf(b, a))
  <2>1. h[a] = Spent(b, a) /\ g[a] = Over(CostsShown(b), ActualsOf(b, a))
    OBVIOUS
  <2> HIDE DEF h, g
  <2> QED BY <1>1, <2>1
<1>3. Summable(CostsShown(b), DOMAIN b.actuals)
  BY CostSums
<1>4. ActualsOf(b, a) \in SUBSET DOMAIN b.actuals
  BY DEF ActualsOf
<1>5. Summable(CostsShown(b), ActualsOf(b, a))
  BY <1>3, <1>4, SubSummable
<1> QED BY <1>2, <1>5, OverType

\* The amount moves from what is committed on the account to what was spent on it.
LEMMA ConvertedOutlays ==
  ASSUME NEW b, NEW c, NEW o, Converted(b, c, o),
         2 * CostVolume(b) <= Whole, 2 * OrderVolume(b) <= Whole,
         2 * CostVolume(c) <= Whole, 2 * OrderVolume(c) <= Whole,
         NEW a \in Costed(b)
  PROVE  Spent(c, a) + Owed(c, a) = Spent(b, a) + Owed(b, a)
<1> DEFINE n == RoundMoney(b.orders[o].amount)
           mine == b.orders[o].account = a
           f == CostsShown(b)
           g == CostsShown(c)
           u == Open(b)
           v == Open(c)
           D == ActualsOf(b, a)
           E == ActualsOf(c, a)
           S == {x \in Committed(b) : b.orders[x].account = a}
           T == {x \in Committed(c) : c.orders[x].account = a}
<1>1. BudgetType(b) /\ BudgetType(c) /\ o \notin DOMAIN b.actuals
      /\ DOMAIN c.actuals = DOMAIN b.actuals \union {o}
      /\ \A x \in DOMAIN b.actuals : c.actuals[x] = b.actuals[x]
  BY DEF Converted
<1>2. /\ o \in Committed(b) /\ Committed(c) = Committed(b) \ {o} /\ Costed(c) = Costed(b)
      /\ \A x \in Committed(c) : c.orders[x] = b.orders[x]
      /\ Cost(c.actuals[o]) = b.orders[o].amount
      /\ c.actuals[o].account = b.orders[o].account
  BY ConvertedPapers
<1>3. /\ Summable(f, D) /\ Spent(b, a) = Over(f, D) /\ Over(f, D) \in Int
      /\ Summable(g, E) /\ Spent(c, a) = Over(g, E) /\ Over(g, E) \in Int
  BY <1>1, <1>2, SpentIs
<1>4. Summable(u, S) /\ Owed(b, a) = Over(u, S) /\ Over(u, S) \in Int
  BY <1>1, OwedIs
<1>5. Summable(v, T) /\ Owed(c, a) = Over(v, T) /\ Over(v, T) \in Int
  BY <1>1, OwedIs
<1>6. /\ o \notin D /\ E = (IF mine THEN D \union {o} ELSE D)
      /\ \A x \in D : g[x] = f[x]
  BY <1>1, <1>2 DEF ActualsOf, CostsShown
<1>7. g[o] = n
  BY <1>1, <1>2 DEF CostsShown
<1>8. /\ mine => o \in S
      /\ T = (IF mine THEN S \ {o} ELSE S)
      /\ \A x \in T : v[x] = u[x]
      /\ u[o] = n
  BY <1>2 DEF Open
<1> HIDE DEF n, mine, f, g, u, v, D, E, S, T
<1>9. CASE mine
  <2>1. E = D \union {o} /\ T = S \ {o} /\ o \in S
    BY <1>6, <1>8, <1>9
  <2>2. D \in SUBSET E /\ o \in E
    BY <2>1
  <2>3. Summable(g, D) /\ g[o] \in Int
    BY <1>3, <2>2, SubSummable DEF Summable
  <2>4. Over(g, E) = Over(g, D) + n
    BY <1>6, <1>7, <2>1, <2>3, OverAdd
  <2>5. Over(g, D) = Over(f, D)
    BY <1>6, OverSame
  <2>6. Over(u, T) \in Int /\ Over(u, S) = Over(u, T) + n /\ n \in Int
    BY <1>4, <1>8, <2>1, OverRemove
  <2>7. Over(v, T) = Over(u, T)
    BY <1>8, OverSame
  <2> QED BY <1>3, <1>4, <1>5, <2>4, <2>5, <2>6, <2>7
<1>10. CASE ~ mine
  <2>1. E = D /\ T = S
    BY <1>6, <1>8, <1>10
  <2>2. Over(g, D) = Over(f, D)
    BY <1>6, OverSame
  <2>3. Over(v, T) = Over(u, T)
    BY <1>8, OverSame
  <2> QED BY <1>3, <1>4, <1>5, <2>1, <2>2, <2>3
<1> QED BY <1>9, <1>10

\* The totals of the cost report stay as they are.
LEMMA ConvertedCosts ==
  ASSUME NEW b, NEW c, NEW o, Converted(b, c, o), NEW r, r = Evaluate(b), NEW s, s = Evaluate(c),
         FitsReport(b, r)
  PROVE  SameCosts(b, r, c, s)
<1> DEFINE K == Costed(b)
<1>1. BudgetType(b) /\ BudgetType(c)
  BY DEF Converted
<1>2. EstimateVolume(s) = EstimateVolume(r) /\ \A a : Estimate(s, a) = Estimate(r, a)
  BY ConvertedLines
<1>3. /\ 2 * CostVolume(b) <= Whole /\ 2 * OrderVolume(b) <= Whole
      /\ EstimateVolume(r) \in Nat /\ CostVolume(b) \in Nat /\ OrderVolume(b) \in Nat
  BY <1>1, FitsEach
<1>4. CostVolume(c) \in Nat /\ OrderVolume(c) \in Nat
  BY <1>1, VolumesAre
<1>5. CostVolume(c) + OrderVolume(c) = CostVolume(b) + OrderVolume(b)
  BY ConvertedVolumes
<1>6. FitsReport(c, s)
  <2>1. EstimateVolume(s) + CostVolume(c) + OrderVolume(c) = EstimateVolume(r) + CostVolume(b) + OrderVolume(b)
    BY <1>2, <1>3, <1>4, <1>5
  <2> QED BY <2>1 DEF FitsReport
<1>7. 2 * CostVolume(c) <= Whole /\ 2 * OrderVolume(c) <= Whole
  BY <1>1, <1>6, FitsEach
<1>8. Costed(c) = K
  BY ConvertedPapers
<1>9. ASSUME NEW a \in K PROVE Outlay(c, a) = Outlay(b, a)
  <2>1. Outlay(b, a) = Spent(b, a) + Owed(b, a)
    BY <1>1, OutlaysFit
  <2>2. Outlay(c, a) = Spent(c, a) + Owed(c, a)
    BY <1>1, <1>6, <1>8, OutlaysFit
  <2>3. Spent(c, a) + Owed(c, a) = Spent(b, a) + Owed(b, a)
    BY <1>3, <1>7, ConvertedOutlays
  <2> QED BY <2>1, <2>2, <2>3
<1>10. \A a \in K : Forecast(c, s, a) = Forecast(b, r, a)
  BY <1>2, <1>9 DEF Forecast
<1>11. Outlays(c) = Outlays(b) /\ Forecasts(c, s) = Forecasts(b, r)
  BY <1>8, <1>9, <1>10 DEF Outlays, Forecasts
<1>12. ASSUME NEW window PROVE CostTotals(c, s, window) = CostTotals(b, r, window)
  <2>1. CostTotals(b, r, window) = <<Over(Outlays(b), Costed(b)), Over(Forecasts(b, r), Costed(b))>>
    BY <1>1, CostTotalsAre
  <2>2. CostTotals(c, s, window) = <<Over(Outlays(c), Costed(c)), Over(Forecasts(c, s), Costed(c))>>
    BY <1>1, <1>6, CostTotalsAre
  <2> QED BY <1>8, <1>11, <2>1, <2>2
<1> QED BY <1>12 DEF SameCosts

\* Whatever is replaced elsewhere, the orders stay.
LEMMA OrdersStay ==
  ASSUME NEW b, BudgetType(b), NEW m, m # "orders"
  PROVE  /\ \A v : [b EXCEPT ![m] = v].orders = b.orders
         /\ \A id, x : Put(b, m, id, x).orders = b.orders
         /\ \A id : Drop(b, m, id).orders = b.orders
<1>1. "orders" \in DOMAIN b
  BY DEF BudgetType, Fields, Collections
<1>2. \A v : [b EXCEPT ![m] = v].orders = b.orders
  BY <1>1
<1>3. ASSUME NEW id, NEW x PROVE Put(b, m, id, x).orders = b.orders
  <2> DEFINE v == [y \in DOMAIN b[m] \union {id} |-> IF y = id THEN x ELSE b[m][y]]
  <2>1. Put(b, m, id, x) = [b EXCEPT ![m] = v]
    BY DEF Put
  <2> HIDE DEF v
  <2> QED BY <1>2, <2>1
<1>4. ASSUME NEW id PROVE Drop(b, m, id).orders = b.orders
  <2> DEFINE v == [y \in DOMAIN b[m] \ {id} |-> b[m][y]]
  <2>1. Drop(b, m, id) = [b EXCEPT ![m] = v]
    BY DEF Drop
  <2> HIDE DEF v
  <2> QED BY <1>2, <2>1
<1> QED BY <1>2, <1>3, <1>4

\* Only its own conversion makes an order converted.
Turned(o) ==
  /\ o \in DOMAIN budget.orders \intersect DOMAIN budget'.orders
  /\ budget.orders[o].status = "approved" /\ budget'.orders[o].status = "converted"

\* An edit outside the orders converts none.
LEMMA ElsewhereUnturned ==
  ASSUME Kept, NEW o, Turned(o), NEW m, m # "orders",
         \/ \E v : Edit([budget EXCEPT ![m] = v])
         \/ \E id, x : Edit(Put(budget, m, id, x))
         \/ \E id : Edit(Drop(budget, m, id))
  PROVE  FALSE
<1>1. BudgetType(budget)
  BY DEF Kept, WellKept
<1>2. /\ \A v : [budget EXCEPT ![m] = v].orders = budget.orders
      /\ \A id, x : Put(budget, m, id, x).orders = budget.orders
      /\ \A id : Drop(budget, m, id).orders = budget.orders
  BY <1>1, OrdersStay
<1>3. budget'.orders = budget.orders
  <2>1. ASSUME NEW v, Edit([budget EXCEPT ![m] = v]) PROVE budget'.orders = budget.orders
    <3>1. budget' = [budget EXCEPT ![m] = v]
      BY <2>1 DEF Edit
    <3> QED BY <1>2, <3>1, Zenon
  <2>2. ASSUME NEW id, NEW x, Edit(Put(budget, m, id, x)) PROVE budget'.orders = budget.orders
    <3>1. budget' = Put(budget, m, id, x)
      BY <2>2 DEF Edit
    <3> QED BY <1>2, <3>1, Zenon
  <2>3. ASSUME NEW id, Edit(Drop(budget, m, id)) PROVE budget'.orders = budget.orders
    <3>1. budget' = Drop(budget, m, id)
      BY <2>3 DEF Edit
    <3> QED BY <1>2, <3>1, Zenon
  <2> QED BY <2>1, <2>2, <2>3
<1> QED BY <1>3 DEF Turned

\* Only convert_po turns an order that was approved into a converted one.
LEMMA OnlyConversions ==
  ASSUME Kept, NEW o, Turned(o), Next
  PROVE  ConvertOrder(o)
<1> USE DEF Turned
<1>0. BudgetType(budget) /\ budget = [field \in Fields |-> budget[field]] /\ "orders" \in DOMAIN budget
      /\ \A x \in DOMAIN budget.orders : budget.orders[x] \in Order
  BY DEF Kept, WellKept, BudgetType, Map, Fields, Collections
<1>1. ASSUME NEW name, NEW value, SetGlobal(name, value) PROVE FALSE
  <2>1. Edit(Put(budget, "globals", name, value))
    BY <1>1 DEF SetGlobal
  <2> QED BY <2>1, ElsewhereUnturned
<1>2. ASSUME NEW d,
             \/ \E field, value : SetDetailField(d, field, value)
             \/ \E fringes : SetDetailFringes(d, fringes)
             \/ \E a : AddLine(d, a)
             \/ RemoveLine(d)
      PROVE  FALSE
  <2>1. ASSUME NEW field, NEW value, SetDetailField(d, field, value) PROVE FALSE
    <3>1. Edit([budget EXCEPT !["details"] = [budget.details EXCEPT ![d] = [@ EXCEPT ![field] = value]]])
      BY <2>1 DEF SetDetailField
    <3> QED BY <3>1, ElsewhereUnturned
  <2>2. ASSUME NEW fringes, SetDetailFringes(d, fringes) PROVE FALSE
    <3>1. Edit([budget EXCEPT !["details"] = [budget.details EXCEPT ![d] = [@ EXCEPT !.fringes = fringes]]])
      BY <2>2 DEF SetDetailFringes
    <3> QED BY <3>1, ElsewhereUnturned
  <2>3. ASSUME NEW a, AddLine(d, a) PROVE FALSE
    BY <2>3, ElsewhereUnturned DEF AddLine
  <2>4. CASE RemoveLine(d)
    BY <2>4, ElsewhereUnturned DEF RemoveLine
  <2> QED BY <1>2, <2>1, <2>2, <2>3, <2>4
<1>3. ASSUME NEW x, \/ \E bill : AddActual(x, bill)
                    \/ RemoveActual(x)
                    \/ \E slip : AddReceipt(x, slip)
                    \/ RemoveReceipt(x)
      PROVE  FALSE
  BY <1>3, ElsewhereUnturned DEF AddActual, RemoveActual, AddReceipt, RemoveReceipt
<1>4. ASSUME NEW p, NEW c, AddOrder(p, c) PROVE FALSE
  <2> DEFINE v == [y \in DOMAIN budget.orders \union {p} |-> IF y = p THEN c ELSE budget.orders[y]]
  <2>1. budget'.orders = v
    BY <1>0, <1>4 DEF AddOrder, Edit, Put
  <2>2. p # o
    BY <1>4 DEF AddOrder
  <2>3. v[o] = budget.orders[o]
    BY <2>2
  <2> QED BY <2>1, <2>3
<1>5. ASSUME NEW p, ApproveOrder(p) PROVE FALSE
  <2>1. budget'.orders = [budget.orders EXCEPT ![p].status = "approved"]
    BY <1>0, <1>5 DEF ApproveOrder, Edit
  <2>2. CASE p = o
    BY <1>0, <2>1, <2>2 DEF Order
  <2>3. CASE p # o
    BY <2>1, <2>3
  <2> QED BY <2>2, <2>3
<1>6. ASSUME NEW p, ConvertOrder(p) PROVE p = o
  <2>1. SUFFICES ASSUME p # o PROVE FALSE
    OBVIOUS
  <2> DEFINE c == Put(budget, "actuals", p, AsActual(budget.orders[p]))
  <2>2. c.orders = budget.orders
    BY <1>0, OrdersStay
  <2>3. DOMAIN c = DOMAIN budget
    BY DEF Put
  <2>4. budget' = [c EXCEPT !.orders[p].status = "converted"]
    BY <1>6 DEF ConvertOrder, Edit
  <2> HIDE DEF c
  <2>5. budget'.orders = [budget.orders EXCEPT ![p].status = "converted"]
    BY <1>0, <2>2, <2>3, <2>4
  <2> QED BY <2>1, <2>5
<1>7. ASSUME NEW p, RemoveOrder(p) PROVE FALSE
  <2> DEFINE v == [y \in DOMAIN budget.orders \ {p} |-> budget.orders[y]]
  <2>1. budget'.orders = v
    BY <1>0, <1>7 DEF RemoveOrder, Edit, Drop
  <2>2. o \in DOMAIN v
    BY <2>1
  <2>3. v[o] = budget.orders[o]
    BY <2>2
  <2> QED BY <2>1, <2>3
<1>8. ASSUME NEW m \in {"accounts", "categories", "fringes", "globals"}, NEW id, Remove(m, id)
      PROVE  FALSE
  BY <1>8, ElsewhereUnturned DEF Remove
<1>9. ASSUME NEW g, NEW inTotal, InsertGroup(g, inTotal) PROVE FALSE
  BY <1>9, ElsewhereUnturned DEF InsertGroup
<1> QED BY <1>1, <1>2, <1>3, <1>4, <1>5, <1>6, <1>7, <1>8, <1>9 DEF Next

\* Whatever else was edited before, converting an approved order whose actual is
\* not there yet moves its amount from the commitments to the actuals and leaves
\* the grand totals of the cost report as they are, spent or committed and
\* forecast, in every period, as long as lines and records fit half of the digits at
\* the kurus, where sums are exact (convert_po and NetflixCostReportDto::build;
\* view.rs:761, "Converted ones already became actuals").
THEOREM BooksConvertKeepsCosts == Spec => ConvertKeepsCosts
<1> DEFINE Preserved == \A o \in DOMAIN budget.orders \intersect DOMAIN budget'.orders :
                     /\ budget.orders[o].status = "approved" /\ o \notin DOMAIN budget.actuals
                     /\ budget'.orders[o].status = "converted"
                     /\ FitsReport(budget, Evaluate(budget))
                     => SameCosts(budget, Evaluate(budget), budget', Evaluate(budget'))
<1>1. ASSUME Kept, Next PROVE Preserved
  <2>1. SUFFICES ASSUME NEW o, Turned(o), o \notin DOMAIN budget.actuals,
                        FitsReport(budget, Evaluate(budget))
                 PROVE  SameCosts(budget, Evaluate(budget), budget', Evaluate(budget'))
    BY DEF Turned
  <2>2. ConvertOrder(o)
    BY <1>1, <2>1, OnlyConversions
  <2>3. Converted(budget, budget', o)
    BY <1>1, <2>1, <2>2, ConvertIs DEF Turned
  <2> QED BY <2>1, <2>3, ConvertedCosts
<1>2. Kept /\ [Next]_vars => [Preserved]_vars
  BY <1>1
<1> QED BY <1>2, AlwaysKept, PTL DEF Spec, ConvertKeepsCosts
=============================================================================
