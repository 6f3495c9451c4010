------------------------------- MODULE Globals -------------------------------
(***************************************************************************)
(* Formulas and the globals they refer to (budgetcut-core: src/expr.rs and *)
(* resolve_globals of src/calc/mod.rs).  A formula is the tree its text is *)
(* parsed to, or Bad if it does not parse.  Decimals are integers here: a  *)
(* result beyond Largest overflows, and one with more digits than a        *)
(* Decimal holds is rounded at the last place it holds.                    *)
(*                                                                         *)
(* Globals are resolved depth first with a memo, in the order of their     *)
(* names, which is how cycles are found; Meaning is what the values ought  *)
(* to be, whatever the order.  Recursion is over trees and calls, by       *)
(* recursive functions.                                                    *)
(***************************************************************************)
EXTENDS Sums

CONSTANTS
  Name,      \* names of globals, which formulas may refer to
  Sorted,    \* the same, in alphabetical order
  Largest,   \* the largest Decimal
  Digits,    \* the most units a Decimal holds: its mantissa
  Places,    \* what its last place is worth, by the size of the number
  MaxDepth   \* bound: operations that nest in a formula

Listed(s, S) == s \in Seq(S) /\ Range(s) = S /\ IsInjective(s)

ASSUME NameAssumption == IsFiniteSet(Name) /\ Listed(Sorted, Name)
ASSUME DepthAssumption == MaxDepth \in Nat /\ Largest \in Nat \ {0}
ASSUME PlacesAssumption ==
  /\ Digits \in Nat \ {0} /\ Places \subseteq Nat \ {0} /\ 1 \in Places
  /\ \A place \in Places : place * Digits <= Largest
  /\ \E place \in Places : place * Digits = Largest

Decimal == -Largest .. Largest

\* Ast
Num(n) == [op |-> "num", n |-> n]
Ref(name) == [op |-> "ref", name |-> name]
Neg(a) == [op |-> "neg", a |-> a]
Infix(op, a, b) == [op |-> op, a |-> a, b |-> b]   \* "+", "-", "*", "/"
Bad == [op |-> "bad"]                              \* expr::parse fails

Operators == {"+", "-", "*", "/"}

Leaves == [op : {"num"}, n : Decimal] \union [op : {"ref"}, name : Name] \union {Bad}

\* The formulas in which at most n operations nest.
Nested[n \in 0 .. MaxDepth] ==
  IF n = 0 THEN Leaves
  ELSE LET part == Nested[n - 1]
       IN  Leaves \union [op : {"neg"}, a : part] \union [op : Operators, a : part, b : part]

Formula == Nested[MaxDepth]

\* Result<Decimal, EvalError>
Errors == {"syntax", "unknown", "cycle", "zero", "overflow", "panic"}
Ok(n) == [val |-> n, err |-> "none"]
Err(e) == [val |-> 0, err |-> e]
IsOk(r) == r.err = "none"
Result == [val : Decimal, err : {"none"} \union Errors]

InRange(n) == n \in Decimal

\* The last place of a number: the smallest at which its digits fit.
PlaceOf(n) ==
  CHOOSE place \in Places :
    /\ Abs(n) <= place * Digits
    /\ \A other \in Places : Abs(n) <= other * Digits => place <= other

\* To the nearest multiple of a place, midpoints to the even one.
Rounded(n, place) ==
  LET below == n \div place
      rest  == n % place
      up    == 2 * rest > place \/ (2 * rest = place /\ below % 2 = 1)
  IN  place * (IF up THEN below + 1 ELSE below)

\* The Decimal a number in the range becomes.
Held == [n \in Int |-> Rounded(n, PlaceOf(n))]

\* checked_add, checked_sub, ...: beyond the range there is no result.
Within(n, otherwise) == IF InRange(n) THEN Ok(Held[n]) ELSE Err(otherwise)

\* The four operations on values; a divisor is not zero.
Compute(op, a, b, otherwise) ==
  Within(CASE op = "+" -> a + b
           [] op = "-" -> a - b
           [] op = "*" -> a * b
           [] op = "/" -> a \div b, otherwise)

\* A step of Ast::eval, where eval gives the results of the parts and values
\* those of the names it knows.
EvalStep(f, eval, values) ==
  CASE f.op = "num" -> Ok(f.n)
    [] f.op = "bad" -> Err("syntax")
    [] f.op = "ref" -> IF f.name \in DOMAIN values THEN values[f.name] ELSE Err("unknown")
    [] f.op = "neg" -> IF IsOk(eval[f.a]) THEN Ok(- eval[f.a].val) ELSE eval[f.a]
    [] f.op \in Operators ->
         LET a == eval[f.a]
             b == eval[f.b]
             first == IF f.op = "/" THEN b ELSE a     \* a divisor is asked for first
             second == IF f.op = "/" THEN a ELSE b
         IN  IF ~ IsOk(first) THEN first
             ELSE IF f.op = "/" /\ b.val = 0 THEN Err("zero")
             ELSE IF ~ IsOk(second) THEN second
             ELSE Compute(f.op, a.val, b.val, "overflow")

\* Ast::eval
Eval(f, values) ==
  LET eval[g \in Formula] == EvalStep(g, eval, values) IN eval[f]

----------------------------------------------------------------------------
\* What the resolution has found so far: a result or nothing for each name.  A
\* step of it gives a result and the memo it leaves.
Unresolved == Err("unresolved")
Memo == [Name -> Result \union {Unresolved}]
Found(res, memo) == [res |-> res, memo |-> memo]

\* A formula to evaluate, with the memo and the names being evaluated.
Call == [node : Formula, memo : Memo, visiting : SUBSET Name]
CallOn(node, memo, visiting) == [node |-> node, memo |-> memo, visiting |-> visiting]

\* Faulty variant: a name is not remembered as being visited, and one that is
\* met again counts as zero.
EvalGlobalCycleZero(name, eval, asts, memo, visiting) ==
  IF memo[name] # Unresolved THEN Found(memo[name], memo)
  ELSE IF name \notin DOMAIN asts THEN Found(Err("unknown"), memo)
  ELSE IF name \in visiting THEN Found(Ok(0), memo)
  ELSE LET e == eval[CallOn(asts[name], memo, visiting \union {name})]
       IN  Found(e.res, [e.memo EXCEPT ![name] = e.res])

\* Faulty variant: only values are remembered, errors are not.
EvalGlobalForgetsErrors(name, eval, asts, memo, visiting) ==
  IF memo[name] # Unresolved THEN Found(memo[name], memo)
  ELSE IF name \notin DOMAIN asts THEN Found(Err("unknown"), memo)
  ELSE IF name \in visiting THEN Found(Err("cycle"), memo)
  ELSE LET e == eval[CallOn(asts[name], memo, visiting \union {name})]
       IN  Found(e.res, IF IsOk(e.res) THEN [e.memo EXCEPT ![name] = e.res] ELSE e.memo)

\* eval_global: a name that is met while it is being evaluated is a cycle.
EvalGlobal(name, eval, asts, memo, visiting) ==
  IF memo[name] # Unresolved THEN Found(memo[name], memo)
  ELSE IF name \notin DOMAIN asts THEN Found(Err("unknown"), memo)
  ELSE IF name \in visiting THEN Found(Err("cycle"), memo)
  ELSE LET e == eval[CallOn(asts[name], memo, visiting \union {name})]
       IN  Found(e.res, [e.memo EXCEPT ![name] = e.res])

\* A step of eval_node, where eval gives what other calls find.
NodeStep(call, eval, asts) ==
  LET f == call.node
      memo == call.memo
      On(part, known) == eval[CallOn(part, known, call.visiting)]
  IN  CASE f.op = "num" -> Found(Ok(f.n), memo)
        [] f.op = "bad" -> Found(Err("syntax"), memo)
        [] f.op = "ref" -> EvalGlobal(f.name, eval, asts, memo, call.visiting)
        [] f.op = "neg" ->
             LET a == On(f.a, memo)
             IN  Found(IF IsOk(a.res) THEN Ok(- a.res.val) ELSE a.res, a.memo)
        [] f.op \in Operators ->
             LET divides == f.op = "/"
                 first  == On(IF divides THEN f.b ELSE f.a, memo)
                 second == On(IF divides THEN f.a ELSE f.b, first.memo)
                 a == IF divides THEN second.res ELSE first.res
                 b == IF divides THEN first.res ELSE second.res
             IN  IF ~ IsOk(first.res) THEN first
                 ELSE IF divides /\ b.val = 0 THEN Found(Err("zero"), first.memo)
                 ELSE IF ~ IsOk(second.res) THEN second
                 ELSE Found(Compute(f.op, a.val, b.val, "panic"), second.memo)

\* eval_node: as Ast::eval, but its arithmetic is unchecked: a result beyond
\* the range panics.
EvalNode(asts) ==
  LET eval[call \in Call] == NodeStep(call, eval, asts) IN eval

\* resolve_globals, for the trees that are left when every name has one.
ResolveGlobals(asts) ==
  LET memo[n \in 0 .. Len(Sorted)] ==
        IF n = 0 THEN [name \in Name |-> Unresolved]
        ELSE IF Sorted[n] \notin DOMAIN asts THEN memo[n - 1]
        ELSE EvalGlobal(Sorted[n], EvalNode(asts), asts, memo[n - 1], {}).memo
  IN  [name \in DOMAIN asts |-> memo[Len(Sorted)][name]]

----------------------------------------------------------------------------
\* The names whose values are settled after n rounds: a global has a value once
\* every name it refers to has one and its formula is defined on them.
SettledOn(asts, values) ==
  [name \in {x \in DOMAIN asts : IsOk(Eval(asts[x], values))} |-> Eval(asts[name], values)]

Settled(asts) ==
  LET settled[n \in 0 .. Cardinality(Name)] ==
        IF n = 0 THEN <<>> ELSE SettledOn(asts, settled[n - 1])
  IN  settled

\* The values of globals, independent of the order they are asked for.
Meaning(asts) == Settled(asts)[Cardinality(Name)]
=============================================================================
