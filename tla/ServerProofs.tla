---------------------------- MODULE ServerProofs ----------------------------
(***************************************************************************)
(* What the server keeps about its users, for every number of them: the    *)
(* budgets and live channels that memberships give access to, and the      *)
(* sessions of refresh tokens.                                             *)
(***************************************************************************)
EXTENDS Access, Tokens, FiniteSetTheorems, WellFoundedInduction, TLAPS

\* Induction over Nat for a set, from the library's minimum of a non-empty subset
\* of a well-founded order: the form of it that takes no operator.
LEMMA SetInduction ==
  ASSUME NEW S, 0 \in S, \A n \in Nat : n \in S => n + 1 \in S
  PROVE  Nat \subseteq S
<1> DEFINE T == Nat \ S
           R == OpToRel(<, Nat)
<1>1. SUFFICES ASSUME T # {} PROVE FALSE
  OBVIOUS
<1>2. T \subseteq Nat
  OBVIOUS
<1>3. \A m, n \in Nat : m < n => <<m, n>> \in R
  BY DEF OpToRel
<1>4. IsWellFoundedOn(R, Nat)
  BY NatLessThanWellFounded
<1>5. PICK x \in T : \A y \in T : ~ (<<y, x>> \in R)
  <2> HIDE DEF T, R
  <2> QED BY <1>1, <1>2, <1>4, WFMin
<1>6. x \in Nat /\ x # 0 /\ x - 1 \in T /\ x - 1 < x
  OBVIOUS
<1> QED BY <1>3, <1>5, <1>6

----------------------------------------------------------------------------
(***************************************************************************)
(* What an entity shows after a set of ops that were applied in the order  *)
(* of their numbers.                                                       *)
(***************************************************************************)
Latest(x, was, id, ops) ==
  /\ \A op \in ops : op.id = id /\ op.kind # "set" => op.n <= x.exists
  /\ \A op \in ops : op.id = id /\ op.kind # "remove" => op.n <= x.edit
  /\ \/ x.exists = 0 /\ x.present = was
     \/ \E op \in ops : /\ op.id = id /\ op.kind # "set" /\ op.n = x.exists
                        /\ x.present <=> op.kind = "insert"
  /\ \/ x.edit = 0
     \/ \E op \in ops : op.id = id /\ op.kind # "remove" /\ op.n = x.edit

Replayed(v, base, ops) == \A id \in Id : Latest(v[id], base[id].present, id, ops)

\* The numbers in ops are all below n.
Below(ops, n) == \A op \in ops : op.n < n

\* One entity under Document::apply.
ApplyItem(x, op) ==
  CASE op.kind = "set" ->
         [present |-> x.present, exists |-> x.exists, edit |-> Greater(x.edit, op.n)]
    [] op.kind # "set" /\ op.n > x.exists ->
         [present |-> op.kind = "insert", exists |-> op.n,
          edit |-> IF op.kind = "insert" THEN Greater(x.edit, op.n) ELSE x.edit]
    [] OTHER -> x

LEMMA OpFields ==
  ASSUME NEW op \in Op
  PROVE  op.kind \in {"insert", "remove", "set"} /\ op.id \in Id /\ op.n \in 1 .. MaxOps
BY DEF Op

LEMMA ItemFields ==
  ASSUME NEW x \in Item
  PROVE  x.present \in BOOLEAN /\ x.exists \in 0 .. MaxOps /\ x.edit \in 0 .. MaxOps
BY DEF Item

LEMMA ApplyFields ==
  ASSUME NEW items \in Items, NEW op \in Op
  PROVE  /\ Apply(items, op) \in Items
         /\ Apply(items, op)[op.id] = ApplyItem(items[op.id], op)
         /\ \A id \in Id : id # op.id => Apply(items, op)[id] = items[id]
<1>1. /\ op.kind \in {"insert", "remove", "set"} /\ op.id \in Id /\ op.n \in 1 .. MaxOps
      /\ MaxOps \in Nat
  BY OpFields, BoundAssumption
<1> DEFINE x == items[op.id]
<1>2. x \in Item
  BY <1>1 DEF Items
<1>3. x.present \in BOOLEAN /\ x.exists \in 0 .. MaxOps /\ x.edit \in 0 .. MaxOps
  BY <1>2, ItemFields
<1>4. x = [present |-> x.present, exists |-> x.exists, edit |-> x.edit]
  BY <1>2 DEF Item
<1>5. ApplyItem(x, op) \in Item
  BY <1>1, <1>2, <1>3 DEF ApplyItem, Item, Greater
<1>6. Apply(items, op) = [items EXCEPT ![op.id] = ApplyItem(x, op)]
  <2>1. CASE op.kind = "set"
    <3>1. Apply(items, op) = [items EXCEPT ![op.id].edit = Greater(@, op.n)]
      BY <2>1 DEF Apply
    <3>2. [x EXCEPT !.edit = Greater(@, op.n)] = ApplyItem(x, op)
      BY <2>1, <1>4 DEF ApplyItem
    <3> QED BY <3>1, <3>2 DEF Items
  <2>2. CASE op.kind # "set" /\ op.n > x.exists
    BY <2>2 DEF Apply, ApplyItem
  <2>3. CASE op.kind # "set" /\ ~ (op.n > x.exists)
    <3>1. Apply(items, op) = items /\ ApplyItem(x, op) = x
      BY <2>3 DEF Apply, ApplyItem
    <3> QED BY <3>1, <1>1 DEF Items
  <2> QED BY <2>1, <2>2, <2>3
<1> HIDE DEF x
<1> QED BY <1>1, <1>5, <1>6 DEF Items, x

LEMMA ApplyLatest ==
  ASSUME NEW x \in Item, NEW was \in BOOLEAN, NEW ops \in SUBSET Op, NEW op \in Op,
         Latest(x, was, op.id, ops), Below(ops, op.n)
  PROVE  Latest(ApplyItem(x, op), was, op.id, ops \union {op})
<1> DEFINE y == ApplyItem(x, op)
           S == ops \union {op}
<1> SUFFICES Latest(y, was, op.id, S)
  OBVIOUS
<1>1. /\ op.kind \in {"insert", "remove", "set"} /\ op.n \in Nat \ {0}
      /\ x.present \in BOOLEAN /\ x.exists \in Nat /\ x.edit \in Nat
      /\ \A p \in ops : p.n \in Nat /\ p.n < op.n
  BY OpFields, ItemFields, BoundAssumption DEF Below
<1>2. x.exists < op.n /\ x.edit < op.n
  BY <1>1 DEF Latest
<1>3. CASE op.kind = "set"
  <2>1. y.present = x.present /\ y.exists = x.exists /\ y.edit = op.n
    BY <1>1, <1>2, <1>3 DEF ApplyItem, Greater
  <2> HIDE DEF y
  <2>2. \A p \in S : p.id = op.id /\ p.kind # "set" => p.n <= y.exists
    BY <2>1, <1>3 DEF Latest
  <2>3. \A p \in S : p.id = op.id /\ p.kind # "remove" => p.n <= y.edit
    BY <2>1, <1>1
  <2>4. \/ y.exists = 0 /\ y.present = was
        \/ \E p \in S : /\ p.id = op.id /\ p.kind # "set" /\ p.n = y.exists
                        /\ y.present <=> p.kind = "insert"
    <3>1. CASE x.exists = 0 /\ x.present = was
      BY <3>1, <2>1
    <3>2. CASE \E p \in ops : /\ p.id = op.id /\ p.kind # "set" /\ p.n = x.exists
                              /\ x.present <=> p.kind = "insert"
      BY <3>2, <2>1
    <3> QED BY <3>1, <3>2 DEF Latest
  <2>5. \E p \in S : p.id = op.id /\ p.kind # "remove" /\ p.n = y.edit
    BY <2>1, <1>3
  <2> QED BY <2>2, <2>3, <2>4, <2>5 DEF Latest
<1>4. CASE op.kind # "set"
  <2>1. /\ y.present <=> op.kind = "insert"
        /\ y.exists = op.n
        /\ op.kind = "insert" => y.edit = op.n
        /\ op.kind = "remove" => y.edit = x.edit
    <3>1. y = [present |-> op.kind = "insert", exists |-> op.n,
               edit |-> IF op.kind = "insert" THEN Greater(x.edit, op.n) ELSE x.edit]
      BY <1>1, <1>2, <1>4 DEF ApplyItem
    <3>2. Greater(x.edit, op.n) = op.n
      BY <1>1, <1>2 DEF Greater
    <3> HIDE DEF y
    <3>3. y.present = (op.kind = "insert") /\ y.exists = op.n
      BY <3>1
    <3>4. y.edit = IF op.kind = "insert" THEN op.n ELSE x.edit
      BY <3>1, <3>2
    <3> QED BY <3>3, <3>4
  <2> HIDE DEF y
  <2>2. \A p \in S : p.id = op.id /\ p.kind # "set" => p.n <= y.exists
    BY <2>1, <1>1
  <2>3. \A p \in S : p.id = op.id /\ p.kind # "remove" => p.n <= y.edit
    <3>1. CASE op.kind = "insert"
      BY <3>1, <2>1, <1>1
    <3>2. CASE op.kind = "remove"
      BY <3>2, <2>1 DEF Latest
    <3> QED BY <3>1, <3>2, <1>1, <1>4
  <2>4. \E p \in S : /\ p.id = op.id /\ p.kind # "set" /\ p.n = y.exists
                     /\ y.present <=> p.kind = "insert"
    BY <2>1, <1>4
  <2>5. \/ y.edit = 0
        \/ \E p \in S : p.id = op.id /\ p.kind # "remove" /\ p.n = y.edit
    <3>1. CASE op.kind = "insert"
      BY <3>1, <2>1
    <3>2. CASE op.kind = "remove"
      BY <3>2, <2>1 DEF Latest
    <3> QED BY <3>1, <3>2, <1>1, <1>4
  <2> QED BY <2>2, <2>3, <2>4, <2>5 DEF Latest
<1> QED BY <1>3, <1>4

LEMMA ApplyReplayed ==
  ASSUME NEW v \in Items, NEW base \in Items, NEW done \in SUBSET Op, NEW op \in Op,
         Replayed(v, base, done), Below(done, op.n)
  PROVE  Apply(v, op) \in Items /\ Replayed(Apply(v, op), base, done \union {op})
<1>1. op.id \in Id
  BY OpFields
<1>2. \A id \in Id : v[id] \in Item /\ base[id].present \in BOOLEAN
  BY ItemFields DEF Items
<1>3. ASSUME NEW id \in Id
      PROVE  Latest(Apply(v, op)[id], base[id].present, id, done \union {op})
  <2>1. Latest(v[id], base[id].present, id, done)
    BY DEF Replayed
  <2>2. CASE id = op.id
    <3>1. Apply(v, op)[op.id] = ApplyItem(v[op.id], op)
      BY ApplyFields
    <3>2. Latest(ApplyItem(v[op.id], op), base[op.id].present, op.id, done \union {op})
      BY <1>1, <1>2, <2>1, <2>2, ApplyLatest
    <3> QED BY <2>2, <3>1, <3>2
  <2>3. CASE id # op.id
    <3>1. Apply(v, op)[id] = v[id]
      BY <2>3, ApplyFields
    <3> QED BY <2>1, <2>3, <3>1 DEF Latest
  <2> QED BY <2>2, <2>3
<1> QED BY <1>3, ApplyFields DEF Replayed

----------------------------------------------------------------------------
(***************************************************************************)
(* What a list of ops comes to.                                            *)
(***************************************************************************)
Ascending(ops) == \A i, j \in DOMAIN ops : i < j => ops[i].n < ops[j].n

Listed(ops, shown) == {ops[i] : i \in shown}

\* after gives the items after each prefix of ops.
Prefixes(after, items, ops, shown) ==
  after = [n \in 0 .. Len(ops) |->
             IF n = 0 THEN items
             ELSE IF n \in shown THEN Apply(after[n - 1], ops[n])
             ELSE after[n - 1]]

LEMMA PrefixesExist ==
  ASSUME NEW items, NEW ops, Len(ops) \in Nat, NEW shown
  PROVE  \E after : Prefixes(after, items, ops, shown)
<1> DEFINE P(k, f) == f = [n \in 0 .. k |->
                             IF n = 0 THEN items
                             ELSE IF n \in shown THEN Apply(f[n - 1], ops[n])
                             ELSE f[n - 1]]
           S == {k \in Nat : \E f : P(k, f)}
<1>1. 0 \in S
  <2> DEFINE g == [n \in 0 .. 0 |-> items]
  <2>1. P(0, g)
    OBVIOUS
  <2> QED BY <2>1
<1>2. ASSUME NEW k \in Nat, k \in S PROVE k + 1 \in S
  <2>1. PICK f : P(k, f)
    BY <1>2
  <2> DEFINE next == IF k + 1 \in shown THEN Apply(f[k], ops[k + 1]) ELSE f[k]
             g == [n \in 0 .. k + 1 |-> IF n = k + 1 THEN next ELSE f[n]]
  <2>2. \A n \in 0 .. k : f[n] = IF n = 0 THEN items
                                  ELSE IF n \in shown THEN Apply(f[n - 1], ops[n])
                                  ELSE f[n - 1]
    BY <2>1
  <2>3. \A n \in 0 .. k + 1 : g[n] = IF n = 0 THEN items
                                      ELSE IF n \in shown THEN Apply(g[n - 1], ops[n])
                                      ELSE g[n - 1]
    BY <2>2
  <2>4. P(k + 1, g)
    BY <2>3
  <2> HIDE DEF g
  <2> QED BY <2>4
<1>3. Len(ops) \in S
  <2> HIDE DEF S
  <2> QED BY <1>1, <1>2, SetInduction
<1> QED BY <1>3 DEF Prefixes

LEMMA ApplyAtIs ==
  ASSUME NEW items, NEW ops, Len(ops) \in Nat, NEW shown
  PROVE  \E after : Prefixes(after, items, ops, shown) /\ ApplyAt(items, ops, shown) = after[Len(ops)]
<1> DEFINE f == CHOOSE after : Prefixes(after, items, ops, shown)
<1>1. Prefixes(f, items, ops, shown)
  <2> HIDE DEF Prefixes
  <2> QED BY PrefixesExist
<1>2. ApplyAt(items, ops, shown) = f[Len(ops)]
  BY DEF ApplyAt, Prefixes
<1> HIDE DEF f
<1> QED BY <1>1, <1>2

\* Ops that are later than all before them, some of them passed over: each entity
\* is what the last of the others that are about it made of it.
LEMMA ApplyAtReplayed ==
  ASSUME NEW v \in Items, NEW base \in Items, NEW done \in SUBSET Op,
         Replayed(v, base, done),
         NEW ops \in Seq(Op), Ascending(ops), NEW shown \in SUBSET DOMAIN ops,
         \A i \in DOMAIN ops : Below(done, ops[i].n)
  PROVE  /\ ApplyAt(v, ops, shown) \in Items
         /\ Replayed(ApplyAt(v, ops, shown), base, done \union Listed(ops, shown))
<1>1. Len(ops) \in Nat /\ DOMAIN ops = 1 .. Len(ops) /\ \A i \in 1 .. Len(ops) : ops[i] \in Op
  OBVIOUS
<1>2. PICK after : Prefixes(after, v, ops, shown) /\ ApplyAt(v, ops, shown) = after[Len(ops)]
  BY <1>1, ApplyAtIs
<1>3. \A n \in 0 .. Len(ops) : after[n] = IF n = 0 THEN v
                                         ELSE IF n \in shown THEN Apply(after[n - 1], ops[n])
                                         ELSE after[n - 1]
  BY <1>2 DEF Prefixes
<1> DEFINE Upto(n) == done \union Listed(ops, shown \intersect 1 .. n)
           Good(n) == after[n] \in Items /\ Replayed(after[n], base, Upto(n))
           S == {n \in Nat : n <= Len(ops) => Good(n)}
<1>4. 0 \in S
  <2>1. Upto(0) = done
    BY DEF Listed
  <2>2. after[0] = v
    BY <1>1, <1>3
  <2> QED BY <2>1, <2>2
<1>5. ASSUME NEW n \in Nat, n \in S PROVE n + 1 \in S
  <2> SUFFICES ASSUME n + 1 <= Len(ops) PROVE Good(n + 1)
    OBVIOUS
  <2>1. Good(n)
    BY <1>1, <1>5
  <2>2. n + 1 \in 0 .. Len(ops) /\ n + 1 # 0 /\ (n + 1) - 1 = n /\ n + 1 \in 1 .. Len(ops)
    BY <1>1
  <2>3. CASE n + 1 \in shown
    <3>1. after[n + 1] = Apply(after[n], ops[n + 1])
      BY <1>3, <2>2, <2>3
    <3>2. Upto(n + 1) = Upto(n) \union {ops[n + 1]}
      <4>1. shown \intersect 1 .. n + 1 = (shown \intersect 1 .. n) \union {n + 1}
        BY <2>3
      <4>2. Listed(ops, shown \intersect 1 .. n + 1) =
              Listed(ops, shown \intersect 1 .. n) \union {ops[n + 1]}
        BY <4>1 DEF Listed
      <4> QED BY <4>2
    <3>3. Below(Upto(n), ops[n + 1].n)
      <4>1. \A i \in shown \intersect 1 .. n : ops[i].n < ops[n + 1].n
        BY <1>1, <2>2 DEF Ascending
      <4> QED BY <4>1, <1>1, <2>2 DEF Below, Listed
    <3>4. Upto(n) \in SUBSET Op /\ ops[n + 1] \in Op
      BY <1>1, <2>2 DEF Listed
    <3>5. after[n] \in Items /\ Replayed(after[n], base, Upto(n))
      BY <2>1
    <3>6. after[n + 1] \in Items /\ Replayed(after[n + 1], base, Upto(n) \union {ops[n + 1]})
      <4> HIDE DEF Upto
      <4> QED BY <3>1, <3>3, <3>4, <3>5, ApplyReplayed
    <3>7. after[n + 1] \in Items /\ Replayed(after[n + 1], base, Upto(n + 1))
      <4> HIDE DEF Upto
      <4> QED BY <3>2, <3>6
    <3> QED BY <3>7
  <2>4. CASE n + 1 \notin shown
    <3>1. after[n + 1] = after[n]
      BY <1>3, <2>2, <2>4
    <3>2. shown \intersect 1 .. n + 1 = shown \intersect 1 .. n
      BY <2>4
    <3> QED BY <2>1, <3>1, <3>2
  <2> QED BY <2>3, <2>4
<1>6. Len(ops) \in S
  <2> HIDE DEF S
  <2> QED BY <1>1, <1>4, <1>5, SetInduction
<1>7. Good(Len(ops))
  <2> HIDE DEF Good
  <2> QED BY <1>1, <1>6
<1>8. Upto(Len(ops)) = done \union Listed(ops, shown)
  <2>1. shown \intersect 1 .. Len(ops) = shown
    BY <1>1
  <2> QED BY <2>1
<1>9. after[Len(ops)] \in Items /\ Replayed(after[Len(ops)], base, Upto(Len(ops)))
  BY <1>7
<1> HIDE DEF Upto
<1> QED BY <1>2, <1>8, <1>9

All(ops) == Listed(ops, DOMAIN ops)

\* A number names an op.
Distinct(ops) == \A p, q \in ops : p.n = q.n => p = q

LEMMA AscendingDistinct ==
  ASSUME NEW ops \in Seq(Op), Ascending(ops)
  PROVE  Distinct(All(ops))
<1>1. /\ DOMAIN ops \subseteq Nat
      /\ \A i \in DOMAIN ops : ops[i] \in Op /\ ops[i].n \in Nat
  BY OpFields, BoundAssumption
<1>2. ASSUME NEW i \in DOMAIN ops, NEW j \in DOMAIN ops, ops[i].n = ops[j].n PROVE i = j
  <2>1. ~ (i < j) /\ ~ (j < i)
    BY <1>1, <1>2 DEF Ascending
  <2> QED BY <1>1, <2>1
<1> QED BY <1>2 DEF Distinct, All, Listed

LEMMA AppendAll ==
  ASSUME NEW log \in Seq(Op), NEW ops \in Seq(Op), Ascending(log), Ascending(ops),
         \A i \in DOMAIN ops : Below(All(log), ops[i].n)
  PROVE  /\ log \o ops \in Seq(Op)
         /\ Ascending(log \o ops)
         /\ All(log \o ops) = All(log) \union All(ops)
<1> DEFINE more == log \o ops
<1>1. /\ Len(log) \in Nat /\ DOMAIN log = 1 .. Len(log)
      /\ Len(ops) \in Nat /\ DOMAIN ops = 1 .. Len(ops)
      /\ more \in Seq(Op) /\ Len(more) = Len(log) + Len(ops) /\ DOMAIN more = 1 .. Len(more)
  OBVIOUS
<1>2. \A i \in DOMAIN more : IF i <= Len(log) THEN i \in DOMAIN log /\ more[i] = log[i]
                             ELSE i - Len(log) \in DOMAIN ops /\ more[i] = ops[i - Len(log)]
  BY <1>1
<1>3. \A i \in DOMAIN log : i \in DOMAIN more /\ more[i] = log[i]
  BY <1>1
<1>4. \A i \in DOMAIN ops : i + Len(log) \in DOMAIN more /\ more[i + Len(log)] = ops[i]
  BY <1>1
<1> HIDE DEF more
<1>5. ASSUME NEW i \in DOMAIN more, NEW j \in DOMAIN more, i < j PROVE more[i].n < more[j].n
  <2>1. CASE j <= Len(log)
    BY <1>1, <1>2, <1>5, <2>1 DEF Ascending
  <2>2. CASE i <= Len(log) /\ ~ (j <= Len(log))
    <3>1. more[i] \in All(log)
      BY <1>2, <2>2 DEF All, Listed
    <3> QED BY <1>2, <2>2, <3>1 DEF Below
  <2>3. CASE ~ (i <= Len(log))
    <3>1. ~ (j <= Len(log))
      BY <1>1, <1>5, <2>3
    <3>2. /\ i - Len(log) \in DOMAIN ops /\ more[i] = ops[i - Len(log)]
          /\ j - Len(log) \in DOMAIN ops /\ more[j] = ops[j - Len(log)]
      BY <1>2, <2>3, <3>1
    <3>3. i - Len(log) < j - Len(log)
      BY <1>1, <1>5
    <3> QED BY <3>2, <3>3 DEF Ascending
  <2> QED BY <2>1, <2>2, <2>3
<1>6. Ascending(more)
  BY <1>5 DEF Ascending
<1>7. All(more) = All(log) \union All(ops)
  <2>1. ASSUME NEW op \in All(more) PROVE op \in All(log) \union All(ops)
    BY <1>2 DEF All, Listed
  <2>2. ASSUME NEW op \in All(log) PROVE op \in All(more)
    BY <1>3 DEF All, Listed
  <2>3. ASSUME NEW op \in All(ops) PROVE op \in All(more)
    BY <1>4 DEF All, Listed
  <2> QED BY <2>1, <2>2, <2>3
<1> QED BY <1>1, <1>6, <1>7 DEF more

LEMMA HeadTailAll ==
  ASSUME NEW ops \in Seq(Op), ops # <<>>, Ascending(ops)
  PROVE  /\ Head(ops) \in Op
         /\ Tail(ops) \in Seq(Op)
         /\ Ascending(Tail(ops))
         /\ All(ops) = {Head(ops)} \union All(Tail(ops))
         /\ \A op \in All(Tail(ops)) : Head(ops).n < op.n
<1> DEFINE rest == Tail(ops)
<1>a. /\ Len(ops) \in Nat \ {0} /\ rest \in Seq(Op) /\ Len(rest) = Len(ops) - 1
      /\ Head(ops) = ops[1] /\ \A i \in 1 .. Len(ops) - 1 : rest[i] = ops[i + 1]
  OBVIOUS
<1>b. DOMAIN ops = 1 .. Len(ops) /\ DOMAIN rest = 1 .. Len(ops) - 1 /\ ops[1] \in Op
  BY <1>a
<1>1. /\ Len(ops) \in Nat \ {0} /\ DOMAIN ops = 1 .. Len(ops)
      /\ rest \in Seq(Op) /\ DOMAIN rest = 1 .. Len(ops) - 1
      /\ \A i \in DOMAIN rest : i + 1 \in DOMAIN ops /\ rest[i] = ops[i + 1]
      /\ Head(ops) = ops[1] /\ ops[1] \in Op
  <2>1. ASSUME NEW i \in DOMAIN rest PROVE i + 1 \in DOMAIN ops /\ rest[i] = ops[i + 1]
    <3>1. i \in 1 .. Len(ops) - 1
      BY <1>b
    <3>2. i + 1 \in 1 .. Len(ops)
      BY <1>a, <3>1
    <3> HIDE DEF rest
    <3> QED BY <1>a, <1>b, <3>1, <3>2
  <2> HIDE DEF rest
  <2> QED BY <1>a, <1>b, <2>1
<1>2. \A i \in DOMAIN ops : i = 1 \/ (i - 1 \in DOMAIN rest /\ rest[i - 1] = ops[i])
  <2> SUFFICES ASSUME NEW i \in DOMAIN ops, i # 1 PROVE i - 1 \in DOMAIN rest /\ rest[i - 1] = ops[i]
    OBVIOUS
  <2>1. i - 1 \in DOMAIN rest /\ (i - 1) + 1 = i
    BY <1>1
  <2> QED BY <1>1, <2>1
<1>3. 1 \in DOMAIN ops
  BY <1>1
<1> HIDE DEF rest
<1>4. Ascending(rest)
  <2> SUFFICES ASSUME NEW i \in DOMAIN rest, NEW j \in DOMAIN rest, i < j
               PROVE  rest[i].n < rest[j].n
    BY DEF Ascending
  <2>1. i + 1 < j + 1
    BY <1>1
  <2> QED BY <1>1, <2>1 DEF Ascending
<1>5. All(ops) = {ops[1]} \union All(rest)
  <2>1. ASSUME NEW op \in All(ops) PROVE op \in {ops[1]} \union All(rest)
    BY <1>2 DEF All, Listed
  <2>2. ASSUME NEW op \in All(rest) PROVE op \in All(ops)
    BY <1>1 DEF All, Listed
  <2>3. ops[1] \in All(ops)
    BY <1>3 DEF All, Listed
  <2> QED BY <2>1, <2>2, <2>3
<1>6. ASSUME NEW op \in All(rest) PROVE ops[1].n < op.n
  <2>1. PICK i \in DOMAIN rest : op = rest[i]
    BY DEF All, Listed
  <2>2. i + 1 \in DOMAIN ops /\ op = ops[i + 1] /\ 1 < i + 1
    BY <1>1, <2>1
  <2> QED BY <1>3, <2>2 DEF Ascending
<1> QED BY <1>1, <1>4, <1>5, <1>6 DEF rest

----------------------------------------------------------------------------
(***************************************************************************)
(* An entity of a follower's view, x, and the room's, item, which some ops *)
(* on their way are about.                                                 *)
(***************************************************************************)
\* The view is not ahead, and if the entity is gone it is gone from the view or
\* its removal is on its way.
Behind(x, item, id, ops) ==
  /\ x.exists <= item.exists
  /\ x.exists = item.exists => (x.present <=> item.present)
  /\ \/ item.present
     \/ x.exists = item.exists
     \/ \E op \in ops : op.id = id /\ op.kind = "remove" /\ op.n = item.exists

\* What the view lacks of the entity is on its way.
CatchesUp(x, item, id, ops) ==
  /\ \/ x.exists = item.exists
     \/ \E op \in ops : op.id = id /\ op.kind # "set" /\ op.n = item.exists
  /\ x.edit <= item.edit
  /\ \/ x.edit = item.edit
     \/ \E op \in ops : op.id = id /\ op.kind # "remove" /\ op.n = item.edit
  /\ \A op \in ops : op.id = id /\ op.kind = "insert" /\ op.n <= x.exists => op.n <= x.edit

\* The room has applied op.
Absorbed(op, item) ==
  /\ op.kind # "set" => /\ op.n <= item.exists
                        /\ op.n = item.exists => (item.present <=> op.kind = "insert")
  /\ op.kind # "remove" => op.n <= item.edit

LEMMA LatestAbsorbed ==
  ASSUME NEW item, NEW was, NEW ops \in SUBSET Op, NEW op \in ops,
         Distinct(ops), Latest(item, was, op.id, ops)
  PROVE  Absorbed(op, item)
<1>1. op.n \in Nat \ {0}
  BY OpFields, BoundAssumption
<1>2. ASSUME op.kind # "set", op.n = item.exists PROVE item.present <=> op.kind = "insert"
  <2>1. PICK p \in ops : /\ p.n = item.exists
                         /\ item.present <=> p.kind = "insert"
    BY <1>1, <1>2 DEF Latest
  <2>2. p = op
    BY <1>2, <2>1 DEF Distinct
  <2> QED BY <2>1, <2>2
<1> QED BY <1>2 DEF Absorbed, Latest

\* A delivered op brings its entity nearer.
LEMMA DeliverNearer ==
  ASSUME NEW x \in Item, NEW item \in Item, NEW op \in Op, NEW rest \in SUBSET Op,
         \A p \in rest : op.n < p.n, Absorbed(op, item),
         Behind(x, item, op.id, {op} \union rest)
  PROVE  /\ Behind(ApplyItem(x, op), item, op.id, rest)
         /\ CatchesUp(x, item, op.id, {op} \union rest) =>
              CatchesUp(ApplyItem(x, op), item, op.id, rest)
<1>1. /\ op.kind \in {"insert", "remove", "set"} /\ op.n \in Nat \ {0}
      /\ x.present \in BOOLEAN /\ x.exists \in Nat /\ x.edit \in Nat
      /\ item.present \in BOOLEAN /\ item.exists \in Nat /\ item.edit \in Nat
      /\ \A p \in rest : p.n \in Nat
  BY OpFields, ItemFields, BoundAssumption
<1> DEFINE y == ApplyItem(x, op)
<1> SUFFICES /\ Behind(y, item, op.id, rest)
             /\ CatchesUp(x, item, op.id, {op} \union rest) => CatchesUp(y, item, op.id, rest)
  OBVIOUS
<1>2. CASE op.kind = "set"
  <2>1. y.present = x.present /\ y.exists = x.exists /\ y.edit = Greater(x.edit, op.n)
    BY <1>1, <1>2 DEF ApplyItem
  <2>2. y.edit = IF x.edit > op.n THEN x.edit ELSE op.n
    BY <2>1 DEF Greater
  <2> HIDE DEF y
  <2>3. Behind(y, item, op.id, rest)
    BY <1>2, <2>1 DEF Behind
  <2>4. ASSUME CatchesUp(x, item, op.id, {op} \union rest) PROVE CatchesUp(y, item, op.id, rest)
    <3>1. op.n <= item.edit
      BY <1>2 DEF Absorbed
    <3>2. y.exists = item.exists \/ \E p \in rest : p.id = op.id /\ p.kind # "set" /\ p.n = item.exists
      BY <1>2, <2>1, <2>4 DEF CatchesUp
    <3>3. y.edit <= item.edit /\ x.edit <= y.edit
      BY <1>1, <2>2, <2>4, <3>1 DEF CatchesUp
    <3>4. y.edit = item.edit \/ \E p \in rest : p.id = op.id /\ p.kind # "remove" /\ p.n = item.edit
      BY <1>1, <2>2, <2>4, <3>1 DEF CatchesUp
    <3>5. ASSUME NEW p \in rest, p.id = op.id, p.kind = "insert", p.n <= y.exists PROVE p.n <= y.edit
      <4>1. p.n <= x.edit
        BY <2>1, <2>4, <3>5 DEF CatchesUp
      <4> QED BY <1>1, <2>2, <4>1
    <3> QED BY <3>2, <3>3, <3>4, <3>5 DEF CatchesUp
  <2> QED BY <2>3, <2>4
<1>3. CASE op.kind # "set" /\ ~ (op.n > x.exists)
  <2>1. y = x
    BY <1>1, <1>3 DEF ApplyItem
  <2>2. op.n <= x.exists /\ op.n <= item.exists
    BY <1>1, <1>3 DEF Absorbed
  <2> HIDE DEF y
  <2>3. Behind(x, item, op.id, rest)
    <3>1. op.n = item.exists => x.exists = item.exists
      BY <1>1, <2>2 DEF Behind
    <3> QED BY <3>1 DEF Behind
  <2>4. ASSUME CatchesUp(x, item, op.id, {op} \union rest) PROVE CatchesUp(x, item, op.id, rest)
    <3>1. x.exists = item.exists \/ \E p \in rest : p.id = op.id /\ p.kind # "set" /\ p.n = item.exists
      BY <1>1, <2>2, <2>4 DEF CatchesUp, Behind
    <3>2. x.edit <= item.edit
      BY <2>4 DEF CatchesUp
    <3>3. x.edit = item.edit \/ \E p \in rest : p.id = op.id /\ p.kind # "remove" /\ p.n = item.edit
      <4>1. CASE op.kind = "insert"
        <5>1. op.n <= x.edit
          BY <4>1, <2>2, <2>4 DEF CatchesUp
        <5>2. op.n = item.edit => x.edit = item.edit
          BY <1>1, <5>1, <3>2
        <5> QED BY <5>2, <2>4 DEF CatchesUp
      <4>2. CASE op.kind = "remove"
        BY <4>2, <2>4 DEF CatchesUp
      <4> QED BY <4>1, <4>2, <1>1, <1>3
    <3>4. \A p \in rest : p.id = op.id /\ p.kind = "insert" /\ p.n <= x.exists => p.n <= x.edit
      BY <2>4 DEF CatchesUp
    <3> QED BY <3>1, <3>2, <3>3, <3>4 DEF CatchesUp
  <2> QED BY <2>1, <2>3, <2>4
<1>4. CASE op.kind # "set" /\ op.n > x.exists
  <2>1. y = [present |-> op.kind = "insert", exists |-> op.n,
             edit |-> IF op.kind = "insert" THEN Greater(x.edit, op.n) ELSE x.edit]
    BY <1>1, <1>4 DEF ApplyItem
  <2> HIDE DEF y
  <2>2. y.present = (op.kind = "insert") /\ y.exists = op.n
    BY <2>1
  <2>3. y.edit = IF op.kind = "insert" THEN Greater(x.edit, op.n) ELSE x.edit
    BY <2>1
  <2>4. /\ op.kind = "insert" => y.edit = IF x.edit > op.n THEN x.edit ELSE op.n
        /\ op.kind = "remove" => y.edit = x.edit
    BY <2>3 DEF Greater
  <2>5. /\ op.n <= item.exists
        /\ op.n = item.exists => (item.present <=> op.kind = "insert")
        /\ op.kind = "insert" => op.n <= item.edit
    BY <1>4 DEF Absorbed
  <2>6. Behind(y, item, op.id, rest)
    <3>1. y.exists <= item.exists /\ (y.exists = item.exists => (y.present <=> item.present))
      BY <2>2, <2>5
    <3>2. \/ item.present
          \/ y.exists = item.exists
          \/ \E p \in rest : p.id = op.id /\ p.kind = "remove" /\ p.n = item.exists
      BY <1>1, <1>4, <2>2, <2>5 DEF Behind
    <3> QED BY <3>1, <3>2 DEF Behind
  <2>7. ASSUME CatchesUp(x, item, op.id, {op} \union rest) PROVE CatchesUp(y, item, op.id, rest)
    <3>1. y.exists = item.exists \/ \E p \in rest : p.id = op.id /\ p.kind # "set" /\ p.n = item.exists
      BY <1>1, <1>4, <2>2, <2>5, <2>7 DEF CatchesUp
    <3>2. y.edit <= item.edit /\ x.edit <= y.edit
      BY <1>1, <1>4, <2>4, <2>5, <2>7 DEF CatchesUp
    <3>3. y.edit = item.edit \/ \E p \in rest : p.id = op.id /\ p.kind # "remove" /\ p.n = item.edit
      <4>1. CASE op.kind = "insert"
        BY <1>1, <4>1, <2>4, <2>5, <2>7 DEF CatchesUp
      <4>2. CASE op.kind = "remove"
        BY <4>2, <2>4, <2>7 DEF CatchesUp
      <4> QED BY <4>1, <4>2, <1>1, <1>4
    <3>4. \A p \in rest : ~ (p.n <= y.exists)
      BY <1>1, <2>2
    <3> QED BY <3>1, <3>2, <3>3, <3>4 DEF CatchesUp
  <2> QED BY <2>6, <2>7
<1> QED BY <1>2, <1>3, <1>4, <1>1

\* An op about another entity, or one that is not about what the view lacks,
\* may be passed over.
LEMMA SkipNearer ==
  ASSUME NEW x, NEW item, NEW id, NEW op, NEW rest
  PROVE  /\ ~ (op.id = id /\ op.kind = "remove" /\ ~ item.present) =>
              (Behind(x, item, id, {op} \union rest) => Behind(x, item, id, rest))
         /\ op.id # id =>
              (CatchesUp(x, item, id, {op} \union rest) => CatchesUp(x, item, id, rest))
<1>1. ASSUME ~ (op.id = id /\ op.kind = "remove" /\ ~ item.present),
             Behind(x, item, id, {op} \union rest)
      PROVE  Behind(x, item, id, rest)
  BY <1>1 DEF Behind
<1>2. ASSUME op.id # id, CatchesUp(x, item, id, {op} \union rest)
      PROVE  CatchesUp(x, item, id, rest)
  BY <1>2 DEF CatchesUp
<1> QED BY <1>1, <1>2

\* From item to next by new ops: what changed is due to one of them.
Follows(item, next, id, new) ==
  /\ item.exists <= next.exists /\ item.edit <= next.edit
  /\ \/ next.exists = item.exists
     \/ \E op \in new : /\ op.id = id /\ op.kind # "set" /\ op.n = next.exists
                        /\ next.present <=> op.kind = "insert"
  /\ \/ next.edit = item.edit
     \/ \E op \in new : op.id = id /\ op.kind # "remove" /\ op.n = next.edit
  /\ next.exists = item.exists => (next.present <=> item.present)

LEMMA GoesOn ==
  ASSUME NEW item \in Item, NEW next \in Item, NEW was, NEW id,
         NEW done \in SUBSET Op, NEW new \in SUBSET Op, Distinct(done \union new),
         Latest(item, was, id, done), Latest(next, was, id, done \union new)
  PROVE  Follows(item, next, id, new)
<1>1. /\ \A op \in done \union new : op.n \in Nat \ {0}
      /\ item.exists \in Nat /\ item.edit \in Nat /\ next.exists \in Nat /\ next.edit \in Nat
  BY OpFields, ItemFields, BoundAssumption
<1>2. item.exists <= next.exists /\ item.edit <= next.edit
  BY <1>1 DEF Latest
<1>3. \/ next.exists = item.exists
      \/ \E op \in new : /\ op.id = id /\ op.kind # "set" /\ op.n = next.exists
                         /\ next.present <=> op.kind = "insert"
  BY <1>1, <1>2 DEF Latest
<1>4. \/ next.edit = item.edit
      \/ \E op \in new : op.id = id /\ op.kind # "remove" /\ op.n = next.edit
  BY <1>1, <1>2 DEF Latest
<1>5. ASSUME next.exists = item.exists PROVE next.present <=> item.present
  <2>1. CASE item.exists = 0
    <3>1. item.present = was /\ next.present = was
      BY <1>1, <1>5, <2>1 DEF Latest
    <3> QED BY <3>1
  <2>2. CASE item.exists # 0
    <3>1. PICK p \in done : p.n = item.exists /\ (item.present <=> p.kind = "insert")
      BY <2>2 DEF Latest
    <3>2. PICK q \in done \union new : q.n = item.exists /\ (next.present <=> q.kind = "insert")
      BY <1>5, <2>2 DEF Latest
    <3>3. p = q
      BY <3>1, <3>2 DEF Distinct
    <3> QED BY <3>1, <3>2, <3>3
  <2> QED BY <2>1, <2>2
<1> QED BY <1>2, <1>3, <1>4, <1>5 DEF Follows

\* What the room goes on by is sent to the view.
LEMMA AcceptKeepsBehind ==
  ASSUME NEW x \in Item, NEW item \in Item, NEW next \in Item, NEW was, NEW id,
         NEW done \in SUBSET Op, NEW new \in SUBSET Op, NEW way,
         Distinct(done \union new), \A op \in new : Below(done, op.n),
         Latest(item, was, id, done), Latest(next, was, id, done \union new),
         Behind(x, item, id, way)
  PROVE  /\ Behind(x, next, id, way \union new)
         /\ CatchesUp(x, item, id, way) => CatchesUp(x, next, id, way \union new)
<1>1. /\ \A op \in done \union new : op.n \in Nat \ {0}
      /\ x.exists \in Nat /\ x.edit \in Nat /\ item.exists \in Nat /\ item.edit \in Nat
      /\ next.exists \in Nat /\ next.edit \in Nat
  BY OpFields, ItemFields, BoundAssumption
<1>f. Follows(item, next, id, new)
  BY GoesOn
<1>2. item.exists <= next.exists /\ item.edit <= next.edit
  BY <1>f DEF Follows
<1>3. \/ next.exists = item.exists
      \/ \E op \in new : /\ op.id = id /\ op.kind # "set" /\ op.n = next.exists
                         /\ next.present <=> op.kind = "insert"
  BY <1>f DEF Follows
<1>4. \/ next.edit = item.edit
      \/ \E op \in new : op.id = id /\ op.kind # "remove" /\ op.n = next.edit
  BY <1>f DEF Follows
<1>5. next.exists = item.exists => (next.present <=> item.present)
  BY <1>f DEF Follows
<1>6. x.exists <= item.exists
  BY DEF Behind
<1>7. Behind(x, next, id, way \union new)
  <2>1. x.exists <= next.exists
    BY <1>1, <1>2, <1>6
  <2>2. x.exists = next.exists => (x.present <=> next.present)
    <3>1. x.exists = next.exists => x.exists = item.exists /\ next.exists = item.exists
      BY <1>1, <1>2, <1>6
    <3> QED BY <3>1, <1>5 DEF Behind
  <2>3. \/ next.present
        \/ x.exists = next.exists
        \/ \E op \in way \union new : op.id = id /\ op.kind = "remove" /\ op.n = next.exists
    <3>1. CASE next.exists = item.exists
      BY <3>1, <1>5 DEF Behind
    <3>2. CASE next.exists # item.exists
      <4>1. PICK op \in new : /\ op.id = id /\ op.kind # "set" /\ op.n = next.exists
                              /\ next.present <=> op.kind = "insert"
        BY <1>3, <3>2
      <4>2. op.kind \in {"insert", "remove", "set"}
        BY OpFields
      <4> QED BY <4>1, <4>2
    <3> QED BY <3>1, <3>2
  <2> QED BY <2>1, <2>2, <2>3 DEF Behind
<1>8. ASSUME CatchesUp(x, item, id, way) PROVE CatchesUp(x, next, id, way \union new)
  <2>1. \/ x.exists = next.exists
        \/ \E op \in way \union new : op.id = id /\ op.kind # "set" /\ op.n = next.exists
    BY <1>3, <1>8 DEF CatchesUp
  <2>2. x.edit <= next.edit
    BY <1>1, <1>2, <1>8 DEF CatchesUp
  <2>3. \/ x.edit = next.edit
        \/ \E op \in way \union new : op.id = id /\ op.kind # "remove" /\ op.n = next.edit
    BY <1>4, <1>8 DEF CatchesUp
  <2>4. \A op \in new : x.exists < op.n
    <3>1. ASSUME NEW op \in new PROVE item.exists < op.n
      BY <1>1 DEF Below, Latest
    <3> QED BY <3>1, <1>1, <1>6
  <2>5. \A op \in way \union new :
          op.id = id /\ op.kind = "insert" /\ op.n <= x.exists => op.n <= x.edit
    BY <1>1, <1>8, <2>4 DEF CatchesUp
  <2> QED BY <2>1, <2>2, <2>3, <2>5 DEF CatchesUp
<1> QED BY <1>7, <1>8

\* A snapshot from some of the room's ops, among them each removal of an entity
\* that is gone.
LEMMA SnapshotIsBehind ==
  ASSUME NEW x \in Item, NEW item \in Item, NEW was, NEW id,
         NEW ops \in SUBSET Op, NEW shown \in SUBSET ops, Distinct(ops),
         Latest(item, was, id, ops), Latest(x, was, id, shown),
         ~ item.present => \A op \in ops : op.id = id /\ op.kind = "remove" => op \in shown
  PROVE  /\ x.exists <= item.exists
         /\ x.exists = item.exists => (x.present <=> item.present)
         /\ item.present \/ x.exists = item.exists
<1>1. /\ \A op \in ops : op.n \in Nat \ {0} /\ op.kind \in {"insert", "remove", "set"}
      /\ x.exists \in Nat /\ item.exists \in Nat
  BY OpFields, ItemFields, BoundAssumption
<1>2. x.exists <= item.exists
  BY <1>1 DEF Latest
<1>3. ASSUME x.exists = item.exists PROVE x.present <=> item.present
  <2>1. CASE item.exists = 0
    <3>1. item.present = was /\ x.present = was
      BY <1>1, <1>3, <2>1 DEF Latest
    <3> QED BY <3>1
  <2>2. CASE item.exists # 0
    <3>1. PICK p \in ops : p.n = item.exists /\ (item.present <=> p.kind = "insert")
      BY <2>2 DEF Latest
    <3>2. PICK q \in shown : q.n = item.exists /\ (x.present <=> q.kind = "insert")
      BY <1>3, <2>2 DEF Latest
    <3>3. p = q
      BY <3>1, <3>2 DEF Distinct
    <3> QED BY <3>1, <3>2, <3>3
  <2> QED BY <2>1, <2>2
<1>4. ASSUME ~ item.present PROVE x.exists = item.exists
  <2>1. CASE item.exists = 0
    BY <1>1, <1>2, <2>1
  <2>2. CASE item.exists # 0
    <3>1. PICK p \in ops : /\ p.id = id /\ p.kind # "set" /\ p.n = item.exists
                           /\ item.present <=> p.kind = "insert"
      BY <2>2 DEF Latest
    <3>2. p \in shown
      BY <1>1, <1>4, <3>1
    <3> QED BY <1>1, <1>2, <3>1, <3>2 DEF Latest
  <2> QED BY <2>1, <2>2
<1> QED BY <1>2, <1>3, <1>4

\* A snapshot that has all ops of an entity shows it as the room does.
LEMMA SnapshotIsLatest ==
  ASSUME NEW x \in Item, NEW item \in Item, NEW was, NEW id,
         NEW ops \in SUBSET Op, NEW shown \in SUBSET ops,
         Latest(item, was, id, ops), Latest(x, was, id, shown),
         \A op \in ops : op.id = id => op \in shown
  PROVE  x.exists = item.exists /\ x.edit = item.edit
<1>1. /\ \A op \in ops : op.n \in Nat \ {0}
      /\ x.exists \in Nat /\ item.exists \in Nat /\ x.edit \in Nat /\ item.edit \in Nat
  BY OpFields, ItemFields, BoundAssumption
<1>2. x.exists <= item.exists /\ x.edit <= item.edit
  BY <1>1 DEF Latest
<1>3. item.exists <= x.exists
  BY <1>1 DEF Latest
<1>4. item.edit <= x.edit
  BY <1>1 DEF Latest
<1> QED BY <1>1, <1>2, <1>3, <1>4

----------------------------------------------------------------------------
(***************************************************************************)
(* Who may read what.                                                      *)
(***************************************************************************)
\* The category an entity is in while its account is there.
Home(id) == IF id \in Account THEN CategoryOf[id] ELSE CategoryOf[AccountOf[id]]

\* All ops about the entity are shown to the member.
Visible(id, m) == id \in Receipt \union Tool \/ Home(id) \in Scope(m)

LEMMA VisibleReadable ==
  ASSUME NEW m \in Membership, NEW items, NEW op, Visible(op.id, m)
  PROVE  CanRead(m, op, items)
<1>1. CASE m.role \notin DepartmentScoped
  BY <1>1 DEF CanRead
<1>2. CASE m.role \in DepartmentScoped
  <2>1. Scope(m) = m.scope
    BY <1>2 DEF Scope
  <2>2. CategoryIn(items, op.id) \in {None, Home(op.id)}
    BY DEF CategoryIn, Home
  <2>3. op.id \in Receipt \union Tool => CategoryIn(items, op.id) = None
    BY KindAssumption DEF CategoryIn
  <2>4. CategoryIn(items, op.id) \in m.scope \union {None}
    BY <2>1, <2>2, <2>3 DEF Visible
  <2> QED BY <2>4 DEF CanRead, OpCategory
<1> QED BY <1>1, <1>2

LEMMA GoneReadable ==
  ASSUME NEW m, NEW items, NEW op, op.kind # "insert", ~ items[op.id].present
  PROVE  CanRead(m, op, items)
BY DEF CanRead, OpCategory

LEMMA InScopeVisible ==
  ASSUME NEW m \in Membership, NEW items, NEW id \in Id,
         id \in Receipt \union Tool \/ CategoryIn(items, id) \in Scope(m)
  PROVE  Visible(id, m)
<1>1. CASE id \in Receipt \union Tool
  BY <1>1 DEF Visible
<1>2. CASE id \notin Receipt \union Tool
  <2>1. Scope(m) \subseteq Category
    BY DEF Membership, Scope
  <2>2. CategoryIn(items, id) # None
    BY <1>2, <2>1, NoneAssumption
  <2>3. CategoryIn(items, id) = Home(id)
    BY <2>2 DEF CategoryIn, Home
  <2> QED BY <1>2, <2>3 DEF Visible
<1> QED BY <1>1, <1>2

----------------------------------------------------------------------------
(***************************************************************************)
(* The invariant of rooms and channels.                                    *)
(***************************************************************************)
\* Only what was inserted, or was in the base, is written of.
Rooted(room) ==
  \A q \in All(room.log) :
    \/ room.base[q.id].present
    \/ \E p \in All(room.log) : p.kind = "insert" /\ p.id = q.id

\* The budget is what the log made of the base, and nothing is newer than the
\* clock.
RoomInv(room, now) ==
  /\ Ascending(room.log)
  /\ \A op \in All(room.log) : op.n <= now
  /\ Replayed(room.base, room.base, {})
  /\ Replayed(room.items, room.base, All(room.log))
  /\ Rooted(room)

\* The entity is in a category the member does not read.
Hidden(id, m) == id \in Account \union Detail \union Actual /\ Home(id) \notin Scope(m)

\* The entity is in the budget, or may still come, and so is in its category.
Anchored(items, id) ==
  /\ items[id].present \/ items[id].exists = 0
  /\ id \notin Account => items[AccountOf[id]].present

\* As it was in the base.
Untouched(x, was) == x.exists = 0 /\ x.edit = 0 /\ (x.present <=> was)

\* What a view shows of an entity its owner may not read.
Withheld(view, room, id) ==
  Anchored(room.items, id) =>
    Untouched(view[id], room.base[id].present) \/ OlderThanAccount(view, room.items, id)

\* A follower's view lacks nothing it may see but what is in its queue, and has
\* nothing it may not see but what came while its account was away.
ChannelInv(c, room) ==
  /\ Ascending(c.queue)
  /\ All(c.queue) \subseteq All(room.log)
  /\ c.view # None =>
       /\ c.loadedAs # None
       /\ \A id \in Id :
            /\ Behind(c.view[id], room.items[id], id, All(c.queue))
            /\ Visible(id, c.as) /\ Visible(id, c.loadedAs) =>
                 CatchesUp(c.view[id], room.items[id], id, All(c.queue))
            /\ c.view[id].edit <= room.items[id].edit
            /\ Hidden(id, c.as) /\ Hidden(id, c.loadedAs) => Withheld(c.view, room, id)

Typed ==
  /\ TypeOK
  /\ rooms = [r \in Room |-> rooms[r]]
  /\ channel = [u \in Follower |-> channel[u]]

RoomsInv == \A r \in Room : rooms[r] # None => RoomInv(rooms[r], clock)

ChannelsInv ==
  \A u \in Follower : channel[u] # None =>
    /\ rooms[channel[u].room] \in RoomState
    /\ ChannelInv(channel[u], rooms[channel[u].room])

AccessInv == Typed /\ RoomsInv /\ ChannelsInv

LEMMA HiddenUnreadable ==
  ASSUME NEW m \in Membership, NEW items, NEW op, Hidden(op.id, m),
         op.kind = "insert" \/ items[op.id].present,
         op.id \notin Account => items[AccountOf[op.id]].present
  PROVE  ~ CanRead(m, op, items)
<1>1. Home(op.id) \in Category /\ Home(op.id) \notin Scope(m)
  BY IdAssumption DEF Hidden, Home
<1>2. m.role \in DepartmentScoped /\ Scope(m) = m.scope
  BY <1>1 DEF Scope
<1>3. Home(op.id) # None
  BY <1>1, NoneAssumption
<1>4. OpCategory(op, items) = CategoryIn(items, op.id)
  BY DEF OpCategory
<1>5. CategoryIn(items, op.id) = Home(op.id)
  BY DEF CategoryIn, Home, Hidden
<1> QED BY <1>1, <1>2, <1>3, <1>4, <1>5 DEF CanRead

\* Nothing was written yet of what is not there and never was.
LEMMA UnbornUnwritten ==
  ASSUME NEW room \in RoomState, NEW now, RoomInv(room, now), NEW q \in All(room.log)
  PROVE  room.items[q.id].present \/ room.items[q.id].exists > 0
<1>1. room.log \in Seq(Op) /\ room.items \in Items
  BY DEF RoomState
<1>2. All(room.log) \in SUBSET Op
  <2>1. \A i \in DOMAIN room.log : room.log[i] \in Op
    BY <1>1
  <2> QED BY <2>1 DEF All, Listed
<1>3. q.id \in Id /\ room.items[q.id] \in Item
  BY <1>1, <1>2, OpFields DEF Items
<1>4. room.items[q.id].exists \in Nat /\ \A p \in All(room.log) : p.n \in Nat \ {0}
  BY <1>2, <1>3, ItemFields, OpFields, BoundAssumption
<1>5. Latest(room.items[q.id], room.base[q.id].present, q.id, All(room.log))
  BY <1>3 DEF RoomInv, Replayed
<1>6. CASE room.base[q.id].present
  <2>1. room.items[q.id].exists = 0 => room.items[q.id].present
    BY <1>4, <1>5, <1>6 DEF Latest
  <2> QED BY <1>4, <2>1
<1>7. ASSUME NEW p \in All(room.log), p.kind = "insert", p.id = q.id
      PROVE  room.items[q.id].exists > 0
  <2>1. p.n <= room.items[q.id].exists
    BY <1>5, <1>7 DEF Latest
  <2> QED BY <1>4, <2>1
<1>8. \/ room.base[q.id].present
      \/ \E p \in All(room.log) : p.kind = "insert" /\ p.id = q.id
  BY DEF RoomInv, Rooted
<1> QED BY <1>6, <1>7, <1>8

\* What none of the ops shown is about is as in the base.
LEMMA NoneShown ==
  ASSUME NEW x, NEW was, NEW id, NEW ops, Latest(x, was, id, ops),
         \A op \in ops : op.id # id
  PROVE  Untouched(x, was)
BY DEF Latest, Untouched

LEMMA MembershipType ==
  ASSUME TypeOK, NEW u \in User, NEW r \in Room
  PROVE  /\ EffectiveMembership(u, r) \in Membership \union {None}
         /\ IsMember(u, r) => rooms[r] # None
<1>1. \A role \in Role : Full(role) \in Membership
  BY DEF Full, Membership
<1>2. rooms[r] # None => rooms[r].members[u] \in Membership \union {None}
  BY DEF TypeOK, RoomState
<1>3. /\ project # None => project[u] \in Role \union {None}
      /\ org # None => org[u] \in Role \union {None}
  BY DEF TypeOK
<1>4. EffectiveMembership(u, r) \in Membership \union {None}
  BY <1>1, <1>2, <1>3 DEF EffectiveMembership
<1>5. rooms[r] = None => EffectiveMembership(u, r) = None
  BY DEF EffectiveMembership
<1> QED BY <1>4, <1>5 DEF IsMember

\* What Document::new gives.
LEMMA BaseType ==
  ASSUME NEW ids
  PROVE  /\ BaseItems(ids) \in Items
         /\ Replayed(BaseItems(ids), BaseItems(ids), {})
         /\ \A id \in Id : BaseItems(ids)[id].present <=> id \in ids
<1> DEFINE b == BaseItems(ids)
<1>1. /\ \A id \in Id : b[id] = [present |-> id \in ids, exists |-> 0, edit |-> 0]
      /\ b = [id \in Id |-> b[id]]
  BY DEF BaseItems
<1>2. ASSUME NEW id \in Id PROVE [present |-> id \in ids, exists |-> 0, edit |-> 0] \in Item
  <2>1. (id \in ids) \in BOOLEAN /\ 0 \in 0 .. MaxOps
    BY BoundAssumption
  <2> QED BY <2>1 DEF Item
<1>3. b \in Items
  <2> HIDE DEF b
  <2> QED BY <1>1, <1>2 DEF Items
<1> HIDE DEF b
<1>4. ASSUME NEW id \in Id
      PROVE  b[id].exists = 0 /\ b[id].edit = 0 /\ (b[id].present <=> id \in ids)
  <2>1. b[id].exists = 0 /\ b[id].edit = 0
    BY <1>1
  <2>2. b[id].present = (id \in ids)
    BY <1>1
  <2> QED BY <2>1, <2>2
<1>5. Replayed(b, b, {})
  BY <1>4 DEF Replayed, Latest
<1> QED BY <1>3, <1>4, <1>5 DEF b

LEMMA MakeRoomInv ==
  ASSUME NEW ids \in SUBSET Id, NEW inProject \in BOOLEAN,
         NEW members \in [User -> Membership \union {None}], NEW now
  PROVE  /\ MakeRoom(inProject, members, BaseItems(ids)) \in RoomState
         /\ RoomInv(MakeRoom(inProject, members, BaseItems(ids)), now)
<1> DEFINE room == MakeRoom(inProject, members, BaseItems(ids))
<1>1. room = [inProject |-> inProject, members |-> members, base |-> BaseItems(ids),
              items |-> BaseItems(ids), log |-> <<>>]
  BY DEF MakeRoom
<1>2. <<>> \in Seq(Op) /\ DOMAIN <<>> = {}
  OBVIOUS
<1>3. room \in RoomState
  BY <1>1, <1>2, BaseType DEF RoomState
<1> HIDE DEF room
<1>4. room.base = BaseItems(ids) /\ room.items = BaseItems(ids) /\ room.log = <<>>
  BY <1>1
<1>5. Ascending(room.log) /\ All(room.log) = {}
  BY <1>2, <1>4 DEF Ascending, All, Listed
<1>7. Rooted(room)
  BY <1>5 DEF Rooted
<1>8. Replayed(room.base, room.base, {}) /\ Replayed(room.items, room.base, All(room.log))
  <2>1. Replayed(BaseItems(ids), BaseItems(ids), {})
    BY BaseType
  <2> QED BY <1>4, <1>5, <2>1, Zenon
<1>9. \A op \in All(room.log) : op.n <= now
  BY <1>5
<1>10. RoomInv(room, now)
  BY <1>5, <1>7, <1>8, <1>9 DEF RoomInv
<1> QED BY <1>3, <1>10 DEF room

\* The same budget, whoever its members are and however late it is.
SameBudget(room, next) ==
  next.base = room.base /\ next.items = room.items /\ next.log = room.log

LEMMA SameBudgetInv ==
  ASSUME NEW room, NEW next, SameBudget(room, next), NEW now
  PROVE  /\ RoomInv(room, now) => RoomInv(next, now)
         /\ \A c : ChannelInv(c, room) => ChannelInv(c, next)
BY DEF SameBudget, RoomInv, Rooted, ChannelInv, Withheld

LEMMA InitAccess == Init => AccessInv
<1> SUFFICES ASSUME Init PROVE AccessInv
  OBVIOUS
<1>1. /\ org = None /\ project = None /\ libraries = {} /\ clock = 0 /\ changes = 0
      /\ clashed = {}
      /\ rooms = [r \in Room |-> None] /\ channel = [u \in Follower |-> None]
  BY DEF Init
<1>2. TypeOK
  BY <1>1, BoundAssumption DEF TypeOK
<1>3. Typed
  BY <1>1, <1>2 DEF Typed
<1> QED BY <1>1, <1>3 DEF AccessInv, RoomsInv, ChannelsInv

\* Budgets stay as they are but for their members, or are made.
LEMMA RoomsKept ==
  ASSUME AccessInv, Typed', UNCHANGED <<channel, clock>>,
         \A r \in Room : rooms[r] # None =>
           rooms'[r] \in RoomState /\ SameBudget(rooms[r], rooms'[r]),
         \A r \in Room : rooms[r] = None /\ rooms'[r] # None => RoomInv(rooms'[r], clock)
  PROVE  AccessInv'
<1>1. RoomsInv'
  <2>1. ASSUME NEW r \in Room, rooms'[r] # None PROVE RoomInv(rooms'[r], clock')
    BY <2>1, SameBudgetInv DEF AccessInv, RoomsInv
  <2> QED BY <2>1 DEF RoomsInv
<1>2. ChannelsInv'
  <2> SUFFICES ASSUME NEW u \in Follower, channel[u] # None
               PROVE  /\ rooms'[channel[u].room] \in RoomState
                      /\ ChannelInv(channel[u], rooms'[channel[u].room])
    BY DEF ChannelsInv
  <2>1. channel[u].room \in Room
    BY DEF AccessInv, Typed, TypeOK, ChannelState
  <2>2. /\ rooms[channel[u].room] # None
        /\ ChannelInv(channel[u], rooms[channel[u].room])
    BY NoneAssumption DEF AccessInv, ChannelsInv
  <2> QED BY <2>1, <2>2, SameBudgetInv
<1> QED BY <1>1, <1>2 DEF AccessInv

----------------------------------------------------------------------------
(***************************************************************************)
(* A room accepts ops.                                                     *)
(***************************************************************************)
\* ops are new to a room whose numbers go up to now, and are numbered up to later.
NewOps(ops, now, later) ==
  /\ ops \in Seq(Op)
  /\ Ascending(ops)
  /\ \A op \in All(ops) : now < op.n /\ op.n <= later

\* What the ops insert was never in the room, and what else they are about was.
Timely(room, ops) ==
  \A op \in All(ops) :
    IF op.kind = "insert" THEN room.items[op.id].exists = 0
    ELSE room.base[op.id].present \/ room.items[op.id].exists > 0

\* next is room after ops.
Accepted(room, ops, next) ==
  /\ next.base = room.base
  /\ next.items = ApplyAll(room.items, ops)
  /\ next.log = room.log \o ops

AcceptedFacts(room, ops, next) ==
  /\ next.items \in Items
  /\ next.log \in Seq(Op)
  /\ Ascending(next.log)
  /\ All(room.log) \in SUBSET Op /\ All(ops) \in SUBSET Op
  /\ All(next.log) = All(room.log) \union All(ops)
  /\ Distinct(All(room.log) \union All(ops))
  /\ \A op \in All(ops) : Below(All(room.log), op.n)
  /\ Replayed(room.items, room.base, All(room.log))
  /\ Replayed(next.items, room.base, All(room.log) \union All(ops))

LEMMA AcceptedLog ==
  ASSUME NEW room \in RoomState, NEW now \in Nat, RoomInv(room, now), NEW later \in Nat,
         NEW ops, NewOps(ops, now, later), NEW next, Accepted(room, ops, next)
  PROVE  AcceptedFacts(room, ops, next)
<1>1. room.log \in Seq(Op) /\ room.items \in Items /\ room.base \in Items
  BY DEF RoomState
<1>2. ops \in Seq(Op) /\ Ascending(ops) /\ Ascending(room.log)
  BY DEF NewOps, RoomInv
<1>3. /\ \A i \in DOMAIN ops : ops[i] \in Op
      /\ \A i \in DOMAIN room.log : room.log[i] \in Op
  BY <1>1, <1>2
<1>4. All(room.log) \in SUBSET Op /\ All(ops) \in SUBSET Op
  BY <1>3 DEF All, Listed
<1>5. \A op \in All(room.log) \union All(ops) : op.n \in Nat
  BY <1>4, OpFields, BoundAssumption
<1>6. \A op \in All(ops) : Below(All(room.log), op.n)
  BY <1>5 DEF NewOps, RoomInv, Below
<1>7. \A i \in DOMAIN ops : ops[i] \in All(ops)
  BY DEF All, Listed
<1>8. /\ next.log \in Seq(Op) /\ Ascending(next.log)
      /\ All(next.log) = All(room.log) \union All(ops)
  BY <1>1, <1>2, <1>6, <1>7, AppendAll DEF Accepted
<1>9. Distinct(All(room.log) \union All(ops))
  BY <1>8, AscendingDistinct
<1>10. Replayed(room.items, room.base, All(room.log))
  BY DEF RoomInv
<1>11. /\ ApplyAt(room.items, ops, DOMAIN ops) \in Items
       /\ Replayed(ApplyAt(room.items, ops, DOMAIN ops), room.base,
                   All(room.log) \union Listed(ops, DOMAIN ops))
  BY <1>1, <1>2, <1>4, <1>6, <1>7, <1>10, ApplyAtReplayed
<1>12. next.items = ApplyAt(room.items, ops, DOMAIN ops)
  BY DEF Accepted, ApplyAll
<1>13. /\ next.items \in Items
       /\ Replayed(next.items, room.base, All(room.log) \union All(ops))
  BY <1>11, <1>12 DEF All
<1> QED BY <1>4, <1>6, <1>8, <1>9, <1>10, <1>13 DEF AcceptedFacts

\* Which entities a room has afterwards.
LEMMA AcceptedPresence ==
  ASSUME NEW room \in RoomState, NEW now \in Nat, RoomInv(room, now), NEW later \in Nat,
         NEW ops, NewOps(ops, now, later), NEW next, Accepted(room, ops, next), NEW id \in Id
  PROVE  /\ \/ next.items[id].present <=> room.items[id].present
            \/ \E op \in All(ops) : /\ op.id = id /\ op.kind # "set"
                                    /\ next.items[id].present <=> op.kind = "insert"
         /\ (\E op \in All(ops) : op.id = id /\ op.kind = "insert") =>
              \/ next.items[id].present
              \/ \E op \in All(ops) : op.id = id /\ op.kind = "remove"
<1> DEFINE old == room.items[id]
           new == next.items[id]
<1>0. AcceptedFacts(room, ops, next)
  BY AcceptedLog
<1>1. old \in Item /\ new \in Item
  BY <1>0 DEF AcceptedFacts, RoomState, Items
<1>2. /\ Latest(old, room.base[id].present, id, All(room.log))
      /\ Latest(new, room.base[id].present, id, All(room.log) \union All(ops))
  BY <1>0 DEF AcceptedFacts, Replayed
<1>3. /\ All(room.log) \in SUBSET Op /\ All(ops) \in SUBSET Op
      /\ Distinct(All(room.log) \union All(ops))
      /\ \A op \in All(ops) : Below(All(room.log), op.n)
  BY <1>0 DEF AcceptedFacts
<1> HIDE DEF old, new
<1>f. Follows(old, new, id, All(ops))
  BY <1>1, <1>2, <1>3, GoesOn
<1>4. \/ new.exists = old.exists
      \/ \E op \in All(ops) : /\ op.id = id /\ op.kind # "set" /\ op.n = new.exists
                              /\ new.present <=> op.kind = "insert"
  BY <1>f DEF Follows
<1>5. new.exists = old.exists => (new.present <=> old.present)
  BY <1>f DEF Follows
<1>6. \/ new.present <=> old.present
      \/ \E op \in All(ops) : /\ op.id = id /\ op.kind # "set"
                              /\ new.present <=> op.kind = "insert"
  BY <1>4, <1>5
<1>7. ASSUME NEW op \in All(ops), op.id = id, op.kind = "insert"
      PROVE  new.present \/ \E p \in All(ops) : p.id = id /\ p.kind = "remove"
  <2>1. /\ op.n \in Nat \ {0} /\ new.exists \in Nat /\ old.exists \in Nat
        /\ \A p \in All(room.log) : p.n \in Nat
    BY <1>1, <1>3, OpFields, ItemFields, BoundAssumption
  <2>2. op.n <= new.exists
    BY <1>2, <1>7 DEF Latest
  <2>3. old.exists < op.n
    BY <1>2, <1>3, <2>1 DEF Latest, Below
  <2>4. PICK p \in All(ops) : /\ p.id = id /\ p.kind # "set"
                              /\ new.present <=> p.kind = "insert"
    BY <1>4, <2>1, <2>2, <2>3
  <2>5. p.kind \in {"insert", "remove", "set"}
    BY <1>3, OpFields
  <2> QED BY <2>4, <2>5
<1> QED BY <1>6, <1>7 DEF old, new

LEMMA AcceptedRoom ==
  ASSUME NEW room \in RoomState, NEW now \in Nat, RoomInv(room, now),
         NEW later \in Nat, now <= later,
         NEW ops, NewOps(ops, now, later), NEW next, Accepted(room, ops, next),
         Timely(room, ops)
  PROVE  RoomInv(next, later)
<1>0. AcceptedFacts(room, ops, next)
  BY AcceptedLog
<1>1. /\ Ascending(next.log) /\ All(next.log) = All(room.log) \union All(ops)
      /\ All(room.log) \in SUBSET Op
      /\ Replayed(next.items, room.base, All(room.log) \union All(ops))
  BY <1>0 DEF AcceptedFacts
<1>2. next.base = room.base
  BY DEF Accepted
<1>3. ASSUME NEW op \in All(next.log) PROVE op.n <= later
  <2>1. CASE op \in All(ops)
    BY <2>1 DEF NewOps
  <2>2. CASE op \in All(room.log)
    <3>1. op.n \in Nat
      BY <1>1, <2>2, OpFields, BoundAssumption
    <3> QED BY <2>2, <3>1 DEF RoomInv
  <2> QED BY <1>1, <2>1, <2>2
<1>4. Replayed(next.base, next.base, {})
  BY <1>2 DEF RoomInv
<1>5. Replayed(next.items, next.base, All(next.log))
  BY <1>1, <1>2
<1>6. ASSUME NEW q \in All(next.log)
      PROVE  \/ next.base[q.id].present
             \/ \E p \in All(next.log) : p.kind = "insert" /\ p.id = q.id
  <2>1. CASE q \in All(room.log)
    BY <1>1, <1>2, <2>1 DEF RoomInv, Rooted
  <2>2. CASE q \in All(ops) /\ q.kind # "insert" /\ ~ room.base[q.id].present
    <3>1. room.items[q.id].exists > 0
      BY <2>2 DEF Timely
    <3>2. q \in Op
      BY <1>0, <2>2 DEF AcceptedFacts
    <3>3. q.id \in Id
      BY <3>2, OpFields
    <3>4. Latest(room.items[q.id], room.base[q.id].present, q.id, All(room.log))
      BY <3>3 DEF RoomInv, Replayed
    <3>5. PICK p \in All(room.log) : p.id = q.id
      BY <3>1, <3>4 DEF Latest
    <3> QED BY <1>1, <1>2, <2>2, <3>5 DEF RoomInv, Rooted
  <2>3. CASE q \in All(ops) /\ (q.kind = "insert" \/ room.base[q.id].present)
    BY <1>1, <1>2, <2>3
  <2> QED BY <1>1, <2>1, <2>2, <2>3
<1>7. Rooted(next)
  BY <1>6 DEF Rooted
<1> QED BY <1>1, <1>3, <1>4, <1>5, <1>7 DEF RoomInv

\* What a view may not show stays withheld.
LEMMA AcceptKeepsWithheld ==
  ASSUME NEW room \in RoomState, NEW now \in Nat, RoomInv(room, now), NEW later \in Nat,
         NEW ops, NewOps(ops, now, later), NEW next, Accepted(room, ops, next),
         Timely(room, ops), NEW view \in Items, NEW id \in Account \union Detail \union Actual,
         view[id].edit <= room.items[id].edit, Withheld(view, room, id)
  PROVE  Withheld(view, next, id)
<1> SUFFICES ASSUME Anchored(next.items, id)
             PROVE  \/ Untouched(view[id], next.base[id].present)
                    \/ OlderThanAccount(view, next.items, id)
  BY DEF Withheld
<1>1. AcceptedFacts(room, ops, next) /\ next.base = room.base
  BY AcceptedLog DEF Accepted
<1>2. ASSUME NEW e \in Id
      PROVE  /\ room.items[e].exists \in Nat /\ next.items[e].exists \in Nat
             /\ room.items[e].edit \in Nat /\ view[e].edit \in Nat
             /\ room.items[e].exists <= next.items[e].exists
             /\ room.items[e].edit <= now
             /\ next.items[e].present =>
                  \/ room.items[e].present
                  \/ room.items[e].exists = 0 /\ now < next.items[e].exists
  <2>1. /\ room.items[e] \in Item /\ next.items[e] \in Item /\ view[e] \in Item
        /\ All(room.log) \in SUBSET Op /\ All(ops) \in SUBSET Op
        /\ Latest(room.items[e], room.base[e].present, e, All(room.log))
        /\ Latest(next.items[e], room.base[e].present, e, All(room.log) \union All(ops))
        /\ Distinct(All(room.log) \union All(ops))
    BY <1>1 DEF AcceptedFacts, RoomState, Items, Replayed
  <2>2. /\ room.items[e].exists \in Nat /\ next.items[e].exists \in Nat
        /\ room.items[e].edit \in Nat /\ view[e].edit \in Nat
        /\ \A op \in All(room.log) \union All(ops) : op.n \in Nat
    BY <2>1, ItemFields, OpFields, BoundAssumption
  <2>3. Follows(room.items[e], next.items[e], e, All(ops))
    BY <2>1, GoesOn
  <2>4. room.items[e].edit <= now
    BY <2>1, <2>2 DEF Latest, RoomInv
  <2>5. ASSUME next.items[e].present, ~ room.items[e].present
        PROVE  room.items[e].exists = 0 /\ now < next.items[e].exists
    <3>1. PICK op \in All(ops) : /\ op.id = e /\ op.n = next.items[e].exists
                                 /\ next.items[e].present <=> op.kind = "insert"
      BY <2>3, <2>5 DEF Follows
    <3>2. op.kind = "insert"
      BY <2>5, <3>1
    <3>3. now < op.n
      BY DEF NewOps
    <3> QED BY <3>1, <3>2, <3>3 DEF Timely
  <2> QED BY <2>2, <2>3, <2>4, <2>5 DEF Follows
<1>3. id \in Id /\ (id \notin Account => AccountOf[id] \in Id)
  BY IdAssumption DEF Id
<1>4. room.items[id].present \/ room.items[id].exists = 0
  BY <1>2, <1>3 DEF Anchored
<1>5. CASE Anchored(room.items, id)
  <2>1. Untouched(view[id], room.base[id].present) \/ OlderThanAccount(view, room.items, id)
    BY <1>5 DEF Withheld
  <2>2. OlderThanAccount(view, room.items, id) => OlderThanAccount(view, next.items, id)
    BY <1>2, <1>3 DEF OlderThanAccount
  <2> QED BY <1>1, <2>1, <2>2
<1>6. CASE ~ Anchored(room.items, id)
  <2>1. /\ id \notin Account /\ ~ room.items[AccountOf[id]].present
        /\ next.items[AccountOf[id]].present
    BY <1>4, <1>6 DEF Anchored
  <2>2. now < next.items[AccountOf[id]].exists
    BY <1>2, <1>3, <2>1
  <2>3. view[id].edit < next.items[AccountOf[id]].exists
    BY <1>2, <1>3, <2>1, <2>2
  <2> QED BY <2>1, <2>3 DEF OlderThanAccount
<1> QED BY <1>5, <1>6

\* The ops go to a channel of the room.
LEMMA AcceptedChannel ==
  ASSUME NEW room \in RoomState, NEW now \in Nat, RoomInv(room, now), NEW later \in Nat,
         NEW ops, NewOps(ops, now, later), NEW next, Accepted(room, ops, next),
         Timely(room, ops), NEW c \in ChannelState, ChannelInv(c, room),
         NEW d, d.as = c.as, d.view = c.view, d.loadedAs = c.loadedAs,
         d.queue = c.queue \o ops
  PROVE  d.queue \in Seq(Op) /\ ChannelInv(d, next)
<1>0. AcceptedFacts(room, ops, next)
  BY AcceptedLog
<1>1. /\ All(next.log) = All(room.log) \union All(ops)
      /\ All(room.log) \in SUBSET Op /\ All(ops) \in SUBSET Op
      /\ Distinct(All(room.log) \union All(ops))
      /\ \A op \in All(ops) : Below(All(room.log), op.n)
      /\ Replayed(room.items, room.base, All(room.log))
      /\ Replayed(next.items, room.base, All(room.log) \union All(ops))
      /\ next.items \in Items /\ room.items \in Items
  BY <1>0 DEF AcceptedFacts, RoomState
<1>2. /\ c.queue \in Seq(Op) /\ Ascending(c.queue) /\ All(c.queue) \subseteq All(room.log)
      /\ ops \in Seq(Op) /\ Ascending(ops)
  BY DEF ChannelState, ChannelInv, NewOps
<1>3. \A i \in DOMAIN ops : Below(All(c.queue), ops[i].n)
  <2>1. \A i \in DOMAIN ops : ops[i] \in All(ops)
    BY DEF All, Listed
  <2> QED BY <1>1, <1>2, <2>1 DEF Below
<1>4. /\ d.queue \in Seq(Op) /\ Ascending(d.queue)
      /\ All(d.queue) = All(c.queue) \union All(ops)
  BY <1>2, <1>3, AppendAll
<1>5. ASSUME d.view # None
      PROVE  /\ d.loadedAs # None
             /\ \A id \in Id :
                  /\ Behind(d.view[id], next.items[id], id, All(d.queue))
                  /\ Visible(id, d.as) /\ Visible(id, d.loadedAs) =>
                       CatchesUp(d.view[id], next.items[id], id, All(d.queue))
                  /\ d.view[id].edit <= next.items[id].edit
                  /\ Hidden(id, d.as) /\ Hidden(id, d.loadedAs) => Withheld(d.view, next, id)
  <2>1. c.view \in Items
    BY <1>5 DEF ChannelState
  <2>2. d.loadedAs # None
    BY <1>5 DEF ChannelInv
  <2>3. ASSUME NEW id \in Id
        PROVE  /\ Behind(d.view[id], next.items[id], id, All(d.queue))
               /\ Visible(id, d.as) /\ Visible(id, d.loadedAs) =>
                    CatchesUp(d.view[id], next.items[id], id, All(d.queue))
               /\ d.view[id].edit <= next.items[id].edit
               /\ Hidden(id, d.as) /\ Hidden(id, d.loadedAs) => Withheld(d.view, next, id)
    <3>1. c.view[id] \in Item /\ room.items[id] \in Item /\ next.items[id] \in Item
      BY <1>1, <2>1 DEF Items
    <3>2. /\ Latest(room.items[id], room.base[id].present, id, All(room.log))
          /\ Latest(next.items[id], room.base[id].present, id, All(room.log) \union All(ops))
      BY <1>1 DEF Replayed
    <3>3. /\ Behind(c.view[id], room.items[id], id, All(c.queue))
          /\ Visible(id, c.as) /\ Visible(id, c.loadedAs) =>
               CatchesUp(c.view[id], room.items[id], id, All(c.queue))
      BY <1>5 DEF ChannelInv
    <3>4. /\ Behind(c.view[id], next.items[id], id, All(c.queue) \union All(ops))
          /\ CatchesUp(c.view[id], room.items[id], id, All(c.queue)) =>
               CatchesUp(c.view[id], next.items[id], id, All(c.queue) \union All(ops))
      BY <1>1, <3>1, <3>2, <3>3, AcceptKeepsBehind
    <3>5. /\ c.view[id].edit <= room.items[id].edit
          /\ Hidden(id, c.as) /\ Hidden(id, c.loadedAs) => Withheld(c.view, room, id)
      BY <1>5 DEF ChannelInv
    <3>6. d.view[id].edit <= next.items[id].edit
      <4>1. room.items[id].edit <= next.items[id].edit
        BY <1>1, <3>1, <3>2, GoesOn DEF Follows
      <4>2. /\ c.view[id].edit \in Nat /\ room.items[id].edit \in Nat
            /\ next.items[id].edit \in Nat
        BY <3>1, ItemFields, BoundAssumption
      <4> QED BY <3>5, <4>1, <4>2
    <3>7. ASSUME Hidden(id, d.as), Hidden(id, d.loadedAs) PROVE Withheld(d.view, next, id)
      <4>1. id \in Account \union Detail \union Actual
        BY <3>7 DEF Hidden
      <4>2. Withheld(c.view, next, id)
        BY <2>1, <3>5, <3>7, <4>1, AcceptKeepsWithheld
      <4> QED BY <4>2
    <3> QED BY <1>4, <3>3, <3>4, <3>6, <3>7
  <2> QED BY <2>2, <2>3
<1>6. All(d.queue) \subseteq All(next.log)
  BY <1>1, <1>2, <1>4
<1> QED BY <1>4, <1>5, <1>6 DEF ChannelInv

LEMMA AcceptInv ==
  ASSUME AccessInv, NEW r \in Room, rooms[r] # None,
         NEW ops, NewOps(ops, clock, clock + Len(ops)), Accept(r, ops), Timely(rooms[r], ops),
         clashed' \subseteq NamesOf(Tool)
  PROVE  AccessInv'
<1> DEFINE room == rooms[r]
           next == rooms'[r]
<1>1. /\ room \in RoomState /\ RoomInv(room, clock) /\ clock \in 0 .. MaxOps
      /\ rooms = [s \in Room |-> rooms[s]] /\ TypeOK /\ MaxOps \in Nat
  BY BoundAssumption DEF AccessInv, Typed, TypeOK, RoomsInv
<1>2. /\ clock' = clock + Len(ops) /\ clock' \in 0 .. MaxOps /\ Len(ops) \in Nat
      /\ changes' \in 0 .. MaxChanges
      /\ UNCHANGED <<org, project, libraries>>
  <2>1. ops \in Seq(Op)
    BY DEF NewOps
  <2>2. changes \in 0 .. MaxChanges /\ changes < MaxChanges /\ changes' = changes + 1
    BY <1>1 DEF Accept, Counted, TypeOK
  <2>3. MaxChanges \in Nat
    BY BoundAssumption
  <2> QED BY <1>1, <2>1, <2>2, <2>3 DEF Accept
<1>3. rooms' = [rooms EXCEPT ![r].items = ApplyAll(@, ops), ![r].log = @ \o ops]
  BY DEF Accept
<1>4. /\ DOMAIN rooms = Room
      /\ rooms' = [s \in Room |-> rooms'[s]]
      /\ \A s \in Room : s # r => rooms'[s] = rooms[s]
  BY <1>1, <1>3
<1>5. next = [inProject |-> room.inProject, members |-> room.members, base |-> room.base,
              items |-> ApplyAll(room.items, ops), log |-> room.log \o ops]
  BY <1>1, <1>3, <1>4 DEF RoomState
<1>6. /\ \A u \in Follower : channel'[u] =
           IF channel[u] # None /\ channel[u].room = r
           THEN [channel[u] EXCEPT !.queue = @ \o ops] ELSE channel[u]
      /\ channel' = [u \in Follower |-> channel'[u]]
  BY DEF Accept
<1> HIDE DEF room, next
<1>7. Accepted(room, ops, next)
  BY <1>5 DEF Accepted
<1>8. clock \in Nat /\ clock' \in Nat /\ clock <= clock' /\ NewOps(ops, clock, clock')
  BY <1>1, <1>2
<1>9. AcceptedFacts(room, ops, next)
  BY <1>1, <1>7, <1>8, AcceptedLog
<1>10. next \in RoomState
  <2>1. next.items \in Items /\ next.log \in Seq(Op)
    BY <1>9 DEF AcceptedFacts
  <2>2. ApplyAll(room.items, ops) \in Items /\ room.log \o ops \in Seq(Op)
    BY <1>5, <2>1
  <2> QED BY <1>1, <1>5, <2>2 DEF RoomState
<1>t. Timely(room, ops)
  BY DEF room
<1>11. RoomInv(next, clock')
  BY <1>1, <1>7, <1>8, <1>t, AcceptedRoom
<1>12. ASSUME NEW s \in Room, s # r, rooms[s] # None PROVE RoomInv(rooms[s], clock')
  <2>1. rooms[s] \in RoomState /\ RoomInv(rooms[s], clock)
    BY <1>1, <1>12 DEF AccessInv, RoomsInv, TypeOK
  <2>2. \A op \in All(rooms[s].log) : op.n \in Nat /\ op.n <= clock
    <3>1. \A i \in DOMAIN rooms[s].log : rooms[s].log[i] \in Op
      BY <2>1 DEF RoomState
    <3>2. \A op \in All(rooms[s].log) : op \in Op
      BY <3>1 DEF All, Listed
    <3> QED BY <2>1, <3>2, OpFields, BoundAssumption DEF RoomInv
  <2>3. \A op \in All(rooms[s].log) : op.n <= clock'
    BY <1>8, <2>2
  <2> QED BY <2>1, <2>3 DEF RoomInv
<1>13. RoomsInv'
  <2>1. ASSUME NEW s \in Room, rooms'[s] # None PROVE RoomInv(rooms'[s], clock')
    <3>1. CASE s = r
      BY <1>11, <3>1 DEF next
    <3>2. CASE s # r
      BY <1>4, <1>12, <2>1, <3>2
    <3> QED BY <3>1, <3>2
  <2> QED BY <2>1 DEF RoomsInv
<1>14. ASSUME NEW u \in Follower, channel'[u] # None
       PROVE  /\ channel'[u] \in ChannelState
              /\ rooms'[channel'[u].room] \in RoomState
              /\ ChannelInv(channel'[u], rooms'[channel'[u].room])
  <2> DEFINE c == channel[u]
             d == channel'[u]
  <2>1. c # None
    BY <1>6, <1>14
  <2>2. c \in ChannelState /\ c.room \in Room
    BY <1>1, <2>1 DEF TypeOK, ChannelState
  <2>3. rooms[c.room] \in RoomState /\ ChannelInv(c, rooms[c.room])
    BY <2>1 DEF AccessInv, ChannelsInv
  <2>4. CASE c.room # r
    <3>1. d = c
      BY <1>6, <2>4
    <3>2. rooms'[c.room] = rooms[c.room]
      BY <1>4, <2>2, <2>4
    <3> QED BY <2>2, <2>3, <3>1, <3>2
  <2>5. CASE c.room = r
    <3>1. d = [c EXCEPT !.queue = @ \o ops]
      BY <1>6, <2>1, <2>5
    <3> HIDE DEF d
    <3>2. d = [room |-> c.room, as |-> c.as, queue |-> c.queue \o ops, view |-> c.view,
               loadedAs |-> c.loadedAs]
      BY <2>2, <3>1 DEF ChannelState
    <3>3. /\ d.as = c.as /\ d.view = c.view /\ d.loadedAs = c.loadedAs
          /\ d.queue = c.queue \o ops /\ d.room = c.room
      BY <3>2
    <3>4. ChannelInv(c, room)
      BY <2>3, <2>5 DEF room
    <3>5. d.queue \in Seq(Op) /\ ChannelInv(d, next)
      BY <1>1, <1>7, <1>8, <1>t, <2>2, <3>3, <3>4, AcceptedChannel
    <3>6. d \in ChannelState
      <4>1. c.queue \o ops \in Seq(Op)
        BY <3>3, <3>5
      <4> QED BY <2>2, <3>2, <4>1 DEF ChannelState
    <3>7. rooms'[d.room] = next
      BY <2>5, <3>3 DEF next
    <3>8. d \in ChannelState /\ rooms'[d.room] \in RoomState /\ ChannelInv(d, rooms'[d.room])
      BY <1>10, <3>5, <3>6, <3>7
    <3> QED BY <3>8 DEF d
  <2> QED BY <2>4, <2>5
<1>15. ChannelsInv'
  BY <1>14 DEF ChannelsInv
<1>16. TypeOK'
  <2>1. \A s \in Room : rooms'[s] = None \/ rooms'[s] \in RoomState
    <3>1. ASSUME NEW s \in Room PROVE rooms'[s] = None \/ rooms'[s] \in RoomState
      <4>1. CASE s = r
        BY <1>10, <4>1 DEF next
      <4>2. CASE s # r
        BY <1>1, <1>4, <4>2 DEF TypeOK
      <4> QED BY <4>1, <4>2
    <3> QED BY <3>1
  <2>2. \A u \in Follower : channel'[u] = None \/ channel'[u] \in ChannelState
    BY <1>14
  <2> QED BY <1>1, <1>2, <2>1, <2>2 DEF TypeOK
<1>17. Typed'
  BY <1>4, <1>6, <1>16 DEF Typed
<1> QED BY <1>13, <1>15, <1>17 DEF AccessInv

----------------------------------------------------------------------------
(***************************************************************************)
(* Edits.                                                                  *)
(***************************************************************************)
LEMMA OneOp ==
  ASSUME NEW op \in Op
  PROVE  /\ <<op>> \in Seq(Op) /\ Len(<<op>>) = 1 /\ All(<<op>>) = {op}
         /\ Ascending(<<op>>)
<1>1. <<op>> \in Seq(Op) /\ Len(<<op>>) = 1 /\ DOMAIN <<op>> = {1} /\ <<op>>[1] = op
  OBVIOUS
<1>2. All(<<op>>) = {op}
  BY <1>1 DEF All, Listed
<1> QED BY <1>1, <1>2 DEF Ascending

\* An op of a member: an id that is new to the room or one that it knows.
LEMMA MemberOpStep ==
  ASSUME AccessInv, NEW u \in User, NEW r \in Room,
         NEW kind \in {"insert", "remove", "set"}, NEW id \in Id,
         IF kind = "insert" THEN Fresh(id) ELSE Known(r, id),
         MemberOp(u, r, kind, id), clashed' \subseteq NamesOf(Tool)
  PROVE  AccessInv'
<1> DEFINE op == [kind |-> kind, id |-> id, n |-> clock + 1]
<1>1. IsMember(u, r) /\ Accept(r, <<op>>)
  BY DEF MemberOp
<1>2. TypeOK /\ clock \in 0 .. MaxOps /\ MaxOps \in Nat
  BY BoundAssumption DEF AccessInv, Typed, TypeOK
<1>3. rooms[r] # None
  BY <1>1, <1>2, MembershipType
<1>5. clock + 1 \in 1 .. MaxOps
  <2>1. Len(<<op>>) = 1
    OBVIOUS
  <2> QED BY <1>1, <1>2, <2>1 DEF Accept
<1>6. op \in Op /\ op.n = clock + 1 /\ op.kind = kind /\ op.id = id
  BY <1>5 DEF Op
<1> HIDE DEF op
<1>7. NewOps(<<op>>, clock, clock + Len(<<op>>))
  BY <1>2, <1>6, OneOp DEF NewOps
<1>8. Timely(rooms[r], <<op>>)
  BY <1>3, <1>6, OneOp DEF Timely, Fresh, Known
<1> QED BY <1>1, <1>3, <1>7, <1>8, AcceptInv

LEMMA ApplyMemberOpStep ==
  ASSUME AccessInv, NEW u \in User, NEW r \in Room,
         NEW kind \in {"insert", "remove", "set"}, NEW id \in Id,
         IF kind = "insert" THEN Fresh(id) ELSE Known(r, id), ApplyMemberOp(u, r, kind, id)
  PROVE  AccessInv'
<1>1. clashed' \subseteq NamesOf(Tool)
  BY DEF ApplyMemberOp, AccessInv, Typed, TypeOK
<1> QED BY <1>1, MemberOpStep DEF ApplyMemberOp

----------------------------------------------------------------------------
(***************************************************************************)
(* A library is applied.                                                   *)
(***************************************************************************)
\* The list of a set.
LEMMA SetListed ==
  ASSUME NEW S, IsFiniteSet(S)
  PROVE  Ext!SetToSeq(S) \in Seq(S)
<1> DEFINE n == Cardinality(S)
           s == Ext!SetToSeq(S)
<1>1. n \in Nat /\ ExistsBijection(1 .. n, S)
  BY FS_CardinalityType
<1>2. \E f \in [1 .. n -> S] : Ext!IsInjective(f)
  BY <1>1 DEF ExistsBijection, Bijection, Injection, IsInjective, Ext!IsInjective
<1>n. Ext!Cardinality(S) = n
  BY DEF Cardinality, Ext!Cardinality
<1>3. s \in [1 .. n -> S] /\ Ext!IsInjective(s)
  BY <1>2, <1>n DEF Ext!SetToSeq
<1> QED BY <1>1, <1>3

LEMMA FunctionIsList ==
  ASSUME NEW T, NEW k \in Nat, NEW f \in [1 .. k -> T]
  PROVE  f \in Seq(T)
OBVIOUS

\* The first elements of a list.
LEMMA FrontOfList ==
  ASSUME NEW T, NEW all \in Seq(T), NEW k \in Nat, k <= Len(all)
  PROVE  /\ SubSeq(all, 1, k) \in Seq(T) /\ Len(SubSeq(all, 1, k)) = k
         /\ \A i \in 1 .. k : SubSeq(all, 1, k)[i] = all[i]
OBVIOUS

\* The ops of a library up to one that is refused: insertions of its entities.
LEMMA LibraryOps ==
  ASSUME NEW S \in SUBSET Tool, NEW s, s = Ext!SetToSeq(S), clock \in Nat,
         NEW all, all = [i \in DOMAIN s |-> [kind |-> "insert", id |-> s[i], n |-> clock + i]],
         NEW k \in 0 .. Len(all), NEW ops, ops = SubSeq(all, 1, k), clock + Len(ops) <= MaxOps
  PROVE  /\ NewOps(ops, clock, clock + Len(ops))
         /\ \A op \in All(ops) : op.kind = "insert" /\ op.id \in S
<1>1. IsFiniteSet(S)
  BY IdAssumption, FS_Subset
<1>2. s \in Seq(S)
  BY <1>1, SetListed
<1>3. Len(s) \in Nat /\ DOMAIN s = 1 .. Len(s) /\ \A i \in 1 .. Len(s) : s[i] \in S
  BY <1>2
<1>4. /\ Len(all) = Len(s) /\ DOMAIN all = 1 .. Len(s) /\ all = [i \in 1 .. Len(s) |-> all[i]]
      /\ \A i \in 1 .. Len(s) : all[i] = [kind |-> "insert", id |-> s[i], n |-> clock + i]
  BY <1>3
<1>5. /\ k \in Nat /\ Len(ops) = k /\ DOMAIN ops = 1 .. k /\ ops = [i \in 1 .. k |-> ops[i]]
      /\ \A i \in 1 .. k : ops[i] = all[i] /\ i \in 1 .. Len(s)
  <2>1. k \in Nat /\ k <= Len(s)
    BY <1>3, <1>4
  <2> DEFINE T == {all[i] : i \in 1 .. Len(s)}
  <2>2. all \in Seq(T) /\ k <= Len(all)
    BY <1>3, <1>4, <2>1
  <2>3. ops \in Seq(T) /\ Len(ops) = k /\ \A i \in 1 .. k : ops[i] = all[i]
    <3> HIDE DEF T
    <3>1. /\ SubSeq(all, 1, k) \in Seq(T) /\ Len(SubSeq(all, 1, k)) = k
          /\ \A i \in 1 .. k : SubSeq(all, 1, k)[i] = all[i]
      BY <2>1, <2>2, FrontOfList, Zenon
    <3> QED BY <3>1, Zenon
  <2>4. DOMAIN ops = 1 .. k /\ ops = [i \in 1 .. k |-> ops[i]]
    BY <2>1, <2>3
  <2>5. \A i \in 1 .. k : i \in 1 .. Len(s)
    BY <1>3, <2>1
  <2> QED BY <2>1, <2>3, <2>4, <2>5
<1>6. ASSUME NEW i \in 1 .. k
      PROVE  /\ ops[i] \in Op /\ ops[i].kind = "insert" /\ ops[i].id = s[i]
             /\ ops[i].n = clock + i
  <2>1. s[i] \in S /\ ops[i] = [kind |-> "insert", id |-> s[i], n |-> clock + i]
    BY <1>3, <1>4, <1>5
  <2>2. s[i] \in Id /\ clock + i \in 1 .. MaxOps
    BY <1>5, <2>1, BoundAssumption DEF Id
  <2> QED BY <2>1, <2>2 DEF Op
<1>7. ops \in Seq(Op)
  <2>1. ops \in [1 .. k -> Op]
    BY <1>5, <1>6
  <2> QED BY <1>5, <2>1, FunctionIsList
<1>8. Ascending(ops)
  BY <1>5, <1>6 DEF Ascending
<1>9. All(ops) = {ops[i] : i \in 1 .. k}
  BY <1>5 DEF All, Listed
<1>10. ASSUME NEW op \in All(ops) PROVE clock < op.n /\ op.n <= clock + Len(ops)
  <2>1. PICK i \in 1 .. k : op = ops[i]
    BY <1>9
  <2>2. op.n = clock + i /\ Len(ops) = k /\ k \in Nat /\ i \in 1 .. k
    BY <1>5, <1>6, <2>1
  <2> QED BY <2>2
<1>11. \A op \in All(ops) : op.kind = "insert" /\ op.id \in S
  BY <1>3, <1>5, <1>6, <1>9
<1> QED BY <1>7, <1>8, <1>10, <1>11 DEF NewOps

\* What apply_library accepts.
Library(lib, r, S, f, ops) ==
  /\ S \subseteq {g \in Tool : Fresh(g)}
  /\ f \in [S -> Missing(lib, rooms[r].items)]
  /\ \A g, h \in S : f[g] = f[h] => g = h
  /\ \A g \in S : NameOf[g] = NameOf[f[g]]
  /\ NewOps(ops, clock, clock + Len(ops))
  /\ \A op \in All(ops) : op.kind = "insert" /\ op.id \in S
  /\ Accept(r, ops)

LEMMA LibraryAccepted ==
  ASSUME AccessInv, NEW u \in User, NEW r \in Room, NEW lib \in libraries,
         ApplyLibrary(u, r, lib)
  PROVE  /\ rooms[r] # None
         /\ \E S, f, ops : Library(lib, r, S, f, ops)
<1>1. TypeOK /\ clock \in Nat /\ IsMember(u, r)
  BY BoundAssumption DEF AccessInv, Typed, TypeOK, ApplyLibrary
<1>2. rooms[r] # None
  BY <1>1, MembershipType
<1> DEFINE missing == Missing(lib, rooms[r].items)
           m == EffectiveMembership(u, r)
           OpsOf(s) == [i \in DOMAIN s |-> [kind |-> "insert", id |-> s[i], n |-> clock + i]]
<1>3. PICK s \in Inserts(missing) :
        \E k \in Performed(m, OpsOf(s), rooms[r].items) : Accept(r, SubSeq(OpsOf(s), 1, k))
  <2> HIDE DEF Accept, Performed, Inserts, missing, m
  <2> QED BY DEF ApplyLibrary, missing, m
<1>4. PICK S \in SUBSET {g \in Tool : Fresh(g)} :
        /\ s = Ext!SetToSeq(S)
        /\ \E f \in [S -> missing] : /\ \A g, h \in S : f[g] = f[h] => g = h
                                     /\ \A g \in S : NameOf[g] = NameOf[f[g]]
  <2> HIDE DEF missing
  <2> QED BY <1>3 DEF Inserts
<1>5. PICK f \in [S -> missing] : /\ \A g, h \in S : f[g] = f[h] => g = h
                                 /\ \A g \in S : NameOf[g] = NameOf[f[g]]
  BY <1>4
<1> DEFINE all == OpsOf(s)
<1>6. PICK k \in 0 .. Len(all) : Accept(r, SubSeq(all, 1, k))
  <2> HIDE DEF Accept, all, m
  <2> QED BY <1>3 DEF Performed, all
<1> DEFINE ops == SubSeq(all, 1, k)
<1>7. clock + Len(ops) <= MaxOps
  BY <1>6 DEF Accept
<1>8. all = [i \in DOMAIN s |-> [kind |-> "insert", id |-> s[i], n |-> clock + i]]
  OBVIOUS
<1>9. ops = SubSeq(all, 1, k) /\ S \in SUBSET Tool
  BY <1>4
<1> HIDE DEF all, ops, missing
<1>10. /\ NewOps(ops, clock, clock + Len(ops))
       /\ \A op \in All(ops) : op.kind = "insert" /\ op.id \in S
  <2>1. k \in 0 .. Len(all) /\ S \in SUBSET Tool /\ s = Ext!SetToSeq(S)
    BY <1>4, <1>6, <1>9
  <2> HIDE DEF Accept
  <2> QED BY <1>1, <1>7, <1>8, <1>9, <2>1, LibraryOps
<1>11. Library(lib, r, S, f, ops)
  <2> HIDE DEF Accept
  <2> QED BY <1>4, <1>5, <1>6, <1>9, <1>10 DEF Library, missing
<1> QED BY <1>2, <1>11

LEMMA ApplyLibraryStep ==
  ASSUME AccessInv, NEW u \in User, NEW r \in Room, NEW lib \in libraries,
         ApplyLibrary(u, r, lib)
  PROVE  AccessInv'
<1>1. rooms[r] # None
  BY LibraryAccepted
<1>2. PICK S, f, ops : Library(lib, r, S, f, ops)
  BY LibraryAccepted
<1>3. \A op \in All(ops) : op.kind = "insert" /\ Fresh(op.id)
  <2> HIDE DEF Fresh
  <2> QED BY <1>2 DEF Library
<1>4. Timely(rooms[r], ops)
  BY <1>1, <1>3 DEF Timely, Fresh
<1>5. clashed' \subseteq NamesOf(Tool)
  BY DEF ApplyLibrary, AccessInv, Typed, TypeOK
<1>6. NewOps(ops, clock, clock + Len(ops)) /\ Accept(r, ops)
  <2> HIDE DEF Accept
  <2> QED BY <1>2 DEF Library
<1> QED BY <1>1, <1>4, <1>5, <1>6, AcceptInv

----------------------------------------------------------------------------
(***************************************************************************)
(* Members, budgets and libraries.                                         *)
(***************************************************************************)
LEMMA SameRooms ==
  ASSUME Typed', AccessInv, UNCHANGED <<rooms, channel, clock>>
  PROVE  AccessInv'
<1>1. \A r \in Room : rooms[r] # None => rooms[r] \in RoomState /\ SameBudget(rooms[r], rooms[r])
  BY DEF AccessInv, Typed, TypeOK, SameBudget
<1> QED BY <1>1, RoomsKept

LEMMA CountedType ==
  ASSUME TypeOK, Counted
  PROVE  changes' \in 0 .. MaxChanges
BY BoundAssumption DEF TypeOK, Counted

LEMMA CreateOrgStep ==
  ASSUME AccessInv, NEW u \in User, CreateOrg(u)
  PROVE  AccessInv'
<1>1. "Owner" \in Role
  BY DEF Role
<1>2. org' \in [User -> Role \union {None}]
  BY <1>1 DEF CreateOrg, NoMembers
<1>3. Typed'
  BY <1>2 DEF CreateOrg, AccessInv, Typed, TypeOK
<1> QED BY <1>3, SameRooms DEF CreateOrg

LEMMA AddOrgMemberStep ==
  ASSUME AccessInv, NEW u \in User, NEW target \in Guest, NEW role \in Invited,
         AddOrgMember(u, target, role)
  PROVE  AccessInv'
<1>1. TypeOK /\ org # None /\ Counted /\ role \in Role
  BY BoundAssumption DEF AddOrgMember, HasRole, AccessInv, Typed
<1>2. org \in [User -> Role \union {None}]
  BY <1>1 DEF TypeOK
<1>3. org' \in [User -> Role \union {None}]
  BY <1>1, <1>2 DEF AddOrgMember
<1>4. changes' \in 0 .. MaxChanges
  BY <1>1, CountedType
<1>5. Typed'
  BY <1>3, <1>4 DEF AddOrgMember, AccessInv, Typed, TypeOK
<1> QED BY <1>5, SameRooms DEF AddOrgMember

LEMMA CreateProjectStep ==
  ASSUME AccessInv, NEW u \in User, CreateProject(u)
  PROVE  AccessInv'
<1>1. project' \in [User -> Role \union {None}]
  BY DEF CreateProject, NoMembers
<1>2. Typed'
  BY <1>1 DEF CreateProject, AccessInv, Typed, TypeOK
<1> QED BY <1>2, SameRooms DEF CreateProject

LEMMA AddProjectMemberStep ==
  ASSUME AccessInv, NEW u \in User, NEW target \in Guest, NEW role \in Invited,
         AddProjectMember(u, target, role)
  PROVE  AccessInv'
<1>1. TypeOK /\ project # None /\ Counted /\ role \in Role
  BY BoundAssumption DEF AddProjectMember, AccessInv, Typed
<1>2. project \in [User -> Role \union {None}]
  BY <1>1 DEF TypeOK
<1>3. project' \in [User -> Role \union {None}]
  BY <1>1, <1>2 DEF AddProjectMember
<1>4. changes' \in 0 .. MaxChanges
  BY <1>1, CountedType
<1>5. Typed'
  BY <1>3, <1>4 DEF AddProjectMember, AccessInv, Typed, TypeOK
<1> QED BY <1>5, SameRooms DEF AddProjectMember

LEMMA SaveLibraryStep ==
  ASSUME AccessInv, NEW u \in User, NEW r \in Room, SaveLibrary(u, r)
  PROVE  AccessInv'
<1>1. TypeOK /\ Counted
  BY DEF SaveLibrary, AccessInv, Typed
<1>3. libraries' \subseteq [owner : User, tools : SUBSET Tool]
  BY <1>1 DEF SaveLibrary, TypeOK
<1>4. changes' \in 0 .. MaxChanges
  BY <1>1, CountedType
<1>5. Typed'
  BY <1>3, <1>4 DEF SaveLibrary, AccessInv, Typed, TypeOK
<1> QED BY <1>5, SameRooms DEF SaveLibrary

\* One budget is made or given a member.
LEMMA RoomStep ==
  ASSUME AccessInv, NEW r \in Room, NEW next \in RoomState,
         rooms' = [rooms EXCEPT ![r] = next], Counted,
         UNCHANGED <<org, project, libraries, channel, clock, clashed>>,
         IF rooms[r] = None THEN RoomInv(next, clock) ELSE SameBudget(rooms[r], next)
  PROVE  AccessInv'
<1>1. /\ TypeOK /\ rooms = [s \in Room |-> rooms[s]]
      /\ channel = [u \in Follower |-> channel[u]]
  BY DEF AccessInv, Typed
<1>2. /\ rooms' = [s \in Room |-> rooms'[s]] /\ rooms'[r] = next
      /\ \A s \in Room : s # r => rooms'[s] = rooms[s]
  BY <1>1
<1>3. changes' \in 0 .. MaxChanges
  BY <1>1, CountedType
<1>4. \A s \in Room : rooms'[s] = None \/ rooms'[s] \in RoomState
  BY <1>1, <1>2 DEF TypeOK
<1>5. Typed'
  BY <1>1, <1>2, <1>3, <1>4 DEF Typed, TypeOK
<1>6. \A s \in Room : rooms[s] # None =>
        rooms'[s] \in RoomState /\ SameBudget(rooms[s], rooms'[s])
  <2>1. \A s \in Room : rooms[s] # None => rooms'[s] # None
    BY <1>2, NoneAssumption
  <2>2. \A s \in Room : rooms[s] # None => SameBudget(rooms[s], rooms'[s])
    BY <1>2 DEF SameBudget
  <2> QED BY <1>4, <2>1, <2>2
<1>7. \A s \in Room : rooms[s] = None /\ rooms'[s] # None => RoomInv(rooms'[s], clock)
  BY <1>2
<1>8. AccessInv'
  BY <1>5, <1>6, <1>7, RoomsKept
<1> QED BY <1>8

LEMMA AddMemberStep ==
  ASSUME AccessInv, NEW u \in User, NEW r \in Room, NEW target \in Guest,
         NEW m \in Memberships, AddMember(u, r, target, m)
  PROVE  AccessInv'
<1>1. TypeOK /\ target \in User /\ m \in Membership
  BY BoundAssumption DEF AccessInv, Typed, Memberships, Membership
<1>2. rooms[r] # None /\ rooms[r] \in RoomState
  BY <1>1, MembershipType DEF AddMember, TypeOK
<1> DEFINE room == rooms[r]
           next == [room EXCEPT !.members = [@ EXCEPT ![target] = m]]
<1>3. rooms' = [rooms EXCEPT ![r] = next]
  BY DEF AddMember
<1>4. room = [inProject |-> room.inProject, members |-> room.members, base |-> room.base,
              items |-> room.items, log |-> room.log]
  BY <1>2 DEF RoomState
<1>5. next = [inProject |-> room.inProject, members |-> [room.members EXCEPT ![target] = m],
              base |-> room.base, items |-> room.items, log |-> room.log]
  BY <1>4
<1>6. [room.members EXCEPT ![target] = m] \in [User -> Membership \union {None}]
  BY <1>1, <1>2 DEF RoomState
<1>7. next \in RoomState
  BY <1>2, <1>5, <1>6 DEF RoomState
<1>8. SameBudget(room, next)
  BY <1>5 DEF SameBudget
<1> HIDE DEF next
<1> QED BY <1>2, <1>3, <1>7, <1>8, RoomStep DEF AddMember

LEMMA OwnerAlone ==
  ASSUME NEW u \in User
  PROVE  /\ [NoMembers EXCEPT ![u] = Full("Owner")] \in [User -> Membership \union {None}]
         /\ NoMembers \in [User -> Membership \union {None}]
<1>1. Full("Owner") \in Membership
  BY DEF Full, Membership, Role
<1> QED BY <1>1 DEF NoMembers

LEMMA CreateBudgetStep ==
  ASSUME AccessInv, NEW u \in User, NEW r \in Room, CreateBudget(u, r)
  PROVE  AccessInv'
<1> DEFINE members == [NoMembers EXCEPT ![u] = Full("Owner")]
           next == MakeRoom(FALSE, members, BaseItems(SeedOf[r]))
<1>1. next \in RoomState /\ RoomInv(next, clock)
  BY SeedAssumption, OwnerAlone, MakeRoomInv
<1>2. rooms' = [rooms EXCEPT ![r] = next]
  BY DEF CreateBudget
<1> HIDE DEF next
<1> QED BY <1>1, <1>2, RoomStep DEF CreateBudget

LEMMA CreateProjectBudgetStep ==
  ASSUME AccessInv, NEW u \in User, NEW r \in Room, CreateProjectBudget(u, r)
  PROVE  AccessInv'
<1> DEFINE next == MakeRoom(TRUE, NoMembers, BaseItems(SeedOf[r]))
<1>1. next \in RoomState /\ RoomInv(next, clock)
  BY SeedAssumption, OwnerAlone, MakeRoomInv
<1>2. rooms' = [rooms EXCEPT ![r] = next]
  BY DEF CreateProjectBudget
<1> HIDE DEF next
<1> QED BY <1>1, <1>2, RoomStep DEF CreateProjectBudget

LEMMA DuplicateBudgetStep ==
  ASSUME AccessInv, NEW u \in User, NEW r \in Room, NEW copy \in Room,
         DuplicateBudget(u, r, copy)
  PROVE  AccessInv'
<1> DEFINE members == [NoMembers EXCEPT ![u] = Full("Owner")]
           ids == Present(rooms[r].items)
           next == MakeRoom(FALSE, members, BaseItems(ids))
<1>1. rooms[r] # None
  BY MembershipType DEF DuplicateBudget, AccessInv, Typed
<1>2. ids \in SUBSET Id
  BY DEF Present
<1>3. next \in RoomState /\ RoomInv(next, clock)
  <2> HIDE DEF ids
  <2> QED BY <1>2, OwnerAlone, MakeRoomInv
<1>4. rooms' = [rooms EXCEPT ![copy] = next]
  BY DEF DuplicateBudget, CopyOf
<1> HIDE DEF next
<1> QED BY <1>3, <1>4, RoomStep DEF DuplicateBudget

----------------------------------------------------------------------------
(***************************************************************************)
(* Every edit of a budget.                                                 *)
(***************************************************************************)
EditOf(u, r) ==
  \/ \E name \in NamesOf(Tool) : SetGlobal(u, r, name)
  \/ \E d \in Detail : SetDetailField(u, r, d) \/ AddLine(u, r, d) \/ RemoveLine(u, r, d)
  \/ \E a \in Actual : PostActual(u, r, a) \/ DeleteActual(u, r, a)
  \/ \E x \in Receipt : PostReceipt(u, r, x) \/ DeleteReceipt(u, r, x)
  \/ \E kind \in {"insert", "remove"}, id \in Id : SubmitOp(u, r, kind, id)

LEMMA EditStep ==
  ASSUME AccessInv, NEW u \in User, NEW r \in Room, EditOf(u, r)
  PROVE  AccessInv'
<1>1. Account \union Detail \union Actual \union Receipt \union Tool = Id
  BY DEF Id
<1>2. CASE \E name \in NamesOf(Tool) : SetGlobal(u, r, name)
  <2>1. PICK g \in Tool : /\ rooms[r].items[g].present /\ rooms[r] # None
                         /\ ApplyMemberOp(u, r, "set", g)
    BY <1>2 DEF SetGlobal
  <2>2. rooms[r] \in RoomState /\ RoomInv(rooms[r], clock) /\ g \in Id
    BY <1>1, <2>1 DEF AccessInv, Typed, TypeOK, RoomsInv
  <2>3. Latest(rooms[r].items[g], rooms[r].base[g].present, g, All(rooms[r].log))
    BY <2>2 DEF RoomInv, Replayed
  <2>4. rooms[r].items[g].exists \in Nat
    BY <2>2, ItemFields, BoundAssumption DEF RoomState, Items
  <2>6. \A op \in All(rooms[r].log) : op.n \in Nat \ {0}
    <3>1. \A i \in DOMAIN rooms[r].log : rooms[r].log[i] \in Op
      BY <2>2 DEF RoomState
    <3> QED BY <3>1, OpFields, BoundAssumption DEF All, Listed
  <2>7. rooms[r].items[g].exists = 0 => rooms[r].base[g].present
    BY <2>1, <2>3, <2>6 DEF Latest
  <2>5. Known(r, g)
    BY <2>1, <2>4, <2>7 DEF Known
  <2> QED BY <2>1, <2>2, <2>5, ApplyMemberOpStep
<1>3. ASSUME NEW d \in Detail,
             SetDetailField(u, r, d) \/ AddLine(u, r, d) \/ RemoveLine(u, r, d)
      PROVE  AccessInv'
  <2>1. d \in Id
    BY <1>1
  <2>2. \E kind \in {"insert", "remove", "set"} :
          /\ IF kind = "insert" THEN Fresh(d) ELSE Known(r, d)
          /\ ApplyMemberOp(u, r, kind, d)
    BY <1>3 DEF SetDetailField, AddLine, RemoveLine
  <2> QED BY <2>1, <2>2, ApplyMemberOpStep
<1>4. ASSUME NEW a \in Actual, PostActual(u, r, a) \/ DeleteActual(u, r, a)
      PROVE  AccessInv'
  <2>1. a \in Id
    BY <1>1
  <2>2. \E kind \in {"insert", "remove", "set"} :
          /\ IF kind = "insert" THEN Fresh(a) ELSE Known(r, a)
          /\ ApplyMemberOp(u, r, kind, a)
    BY <1>4 DEF PostActual, DeleteActual
  <2> QED BY <2>1, <2>2, ApplyMemberOpStep
<1>5. ASSUME NEW x \in Receipt, PostReceipt(u, r, x) \/ DeleteReceipt(u, r, x)
      PROVE  AccessInv'
  <2>1. x \in Id
    BY <1>1
  <2>2. \E kind \in {"insert", "remove", "set"} :
          /\ IF kind = "insert" THEN Fresh(x) ELSE Known(r, x)
          /\ ApplyMemberOp(u, r, kind, x)
    BY <1>5 DEF PostReceipt, DeleteReceipt
  <2> QED BY <2>1, <2>2, ApplyMemberOpStep
<1>6. ASSUME NEW kind \in {"insert", "remove"}, NEW id \in Id, SubmitOp(u, r, kind, id)
      PROVE  AccessInv'
  <2>1. MemberOp(u, r, kind, id) /\ IF kind = "insert" THEN Fresh(id) ELSE Known(r, id)
    BY <1>6 DEF SubmitOp
  <2>2. clashed \subseteq NamesOf(Tool) /\ (id \in Tool => NameOf[id] \in NamesOf(Tool))
    BY DEF AccessInv, Typed, TypeOK, NamesOf
  <2>3. clashed' \subseteq NamesOf(Tool)
    BY <1>6, <2>2 DEF SubmitOp
  <2> QED BY <2>1, <2>3, MemberOpStep
<1> QED BY <1>2, <1>3, <1>4, <1>5, <1>6 DEF EditOf

----------------------------------------------------------------------------
(***************************************************************************)
(* The followers.                                                          *)
(***************************************************************************)
LEMMA ChannelStep ==
  ASSUME AccessInv, NEW u \in Follower, NEW next,
         channel' = [channel EXCEPT ![u] = next],
         UNCHANGED <<org, project, rooms, libraries, clock, clashed, changes>>,
         next # None => /\ next \in ChannelState
                        /\ rooms[next.room] \in RoomState
                        /\ ChannelInv(next, rooms[next.room])
  PROVE  AccessInv'
<1>1. /\ TypeOK /\ rooms = [r \in Room |-> rooms[r]]
      /\ channel = [v \in Follower |-> channel[v]]
  BY DEF AccessInv, Typed
<1>2. /\ channel' = [v \in Follower |-> channel'[v]] /\ channel'[u] = next
      /\ \A v \in Follower : v # u => channel'[v] = channel[v]
  BY <1>1
<1>3. Typed'
  BY <1>1, <1>2 DEF Typed, TypeOK
<1>4. RoomsInv'
  BY DEF AccessInv, RoomsInv
<1>5. ASSUME NEW v \in Follower, channel'[v] # None
      PROVE  /\ rooms[channel'[v].room] \in RoomState
             /\ ChannelInv(channel'[v], rooms[channel'[v].room])
  <2>1. CASE v = u
    BY <1>2, <1>5, <2>1
  <2>2. CASE v # u
    BY <1>2, <1>5, <2>2 DEF AccessInv, ChannelsInv
  <2> QED BY <2>1, <2>2
<1>6. ChannelsInv'
  BY <1>5 DEF ChannelsInv
<1> QED BY <1>3, <1>4, <1>6 DEF AccessInv

\* What the replay of a filtered log shows, compared with the room.
SnapshotFacts(view, room, m) ==
  /\ view \in Items
  /\ \A id \in Id :
       /\ view[id].exists <= room.items[id].exists
       /\ view[id].exists = room.items[id].exists =>
            (view[id].present <=> room.items[id].present)
       /\ room.items[id].present \/ view[id].exists = room.items[id].exists
       /\ Visible(id, m) => /\ view[id].exists = room.items[id].exists
                            /\ view[id].edit = room.items[id].edit
       /\ view[id].edit <= room.items[id].edit
       /\ Hidden(id, m) /\ Anchored(room.items, id) =>
            Untouched(view[id], room.base[id].present)

LEMMA SnapshotShown ==
  ASSUME AccessInv, NEW u \in User, NEW r \in Room, IsMember(u, r)
  PROVE  /\ rooms[r] # None
         /\ EffectiveMembership(u, r) \in Membership
         /\ SnapshotFacts(Snapshot(u, r), rooms[r], EffectiveMembership(u, r))
<1> DEFINE m == EffectiveMembership(u, r)
           room == rooms[r]
           log == room.log
           at == {i \in DOMAIN log : CanRead(m, log[i], room.items)}
           view == Snapshot(u, r)
           ops == All(log)
           shown == Listed(log, at)
<1>1. TypeOK /\ rooms[r] # None /\ m \in Membership
  BY MembershipType DEF AccessInv, Typed, IsMember
<1>2. /\ room \in RoomState /\ RoomInv(room, clock)
      /\ log \in Seq(Op) /\ room.base \in Items /\ room.items \in Items
  BY <1>1 DEF TypeOK, AccessInv, RoomsInv, RoomState
<1>3. view = ApplyAt(room.base, log, at)
  BY DEF Snapshot
<1>4. view \in Items /\ Replayed(view, room.base, {} \union shown)
  <2>1. Replayed(room.base, room.base, {}) /\ Ascending(log)
    BY <1>2 DEF RoomInv
  <2>2. {} \in SUBSET Op /\ at \in SUBSET DOMAIN log /\ \A i \in DOMAIN log : Below({}, log[i].n)
    BY DEF Below
  <2> HIDE DEF at, view, room
  <2>3. /\ ApplyAt(room.base, log, at) \in Items
        /\ Replayed(ApplyAt(room.base, log, at), room.base, {} \union Listed(log, at))
    BY <1>2, <2>1, <2>2, ApplyAtReplayed
  <2> QED BY <1>3, <2>3, Zenon
<1>5. Distinct(ops) /\ Replayed(room.items, room.base, ops)
  BY <1>2, AscendingDistinct DEF RoomInv
<1>6. ops \in SUBSET Op /\ shown \in SUBSET ops
  <2>1. \A i \in DOMAIN log : log[i] \in Op
    BY <1>2
  <2> QED BY <2>1 DEF All, Listed
<1>7. \A op \in ops : CanRead(m, op, room.items) => op \in shown
  BY DEF All, Listed
<1>8. ASSUME NEW id \in Id
      PROVE  /\ view[id].exists <= room.items[id].exists
             /\ view[id].exists = room.items[id].exists =>
                  (view[id].present <=> room.items[id].present)
             /\ room.items[id].present \/ view[id].exists = room.items[id].exists
             /\ Visible(id, m) => /\ view[id].exists = room.items[id].exists
                                  /\ view[id].edit = room.items[id].edit
             /\ view[id].edit <= room.items[id].edit
             /\ Hidden(id, m) /\ Anchored(room.items, id) =>
                  Untouched(view[id], room.base[id].present)
  <2> DEFINE x == view[id]
             item == room.items[id]
             was == room.base[id].present
  <2> HIDE DEF view, ops, shown, at, m, room
  <2>1. x \in Item /\ item \in Item
    BY <1>2, <1>4 DEF Items
  <2>2. Latest(item, was, id, ops) /\ Latest(x, was, id, shown)
    <3>1. {} \union shown = shown
      OBVIOUS
    <3> QED BY <1>4, <1>5, <3>1 DEF Replayed
  <2>3. ASSUME ~ item.present, NEW op \in ops, op.id = id, op.kind = "remove"
        PROVE  op \in shown
    <3>1. CanRead(m, op, room.items)
      BY <2>3, GoneReadable
    <3> QED BY <1>7, <3>1
  <2>4. ASSUME Visible(id, m), NEW op \in ops, op.id = id PROVE op \in shown
    <3>1. CanRead(m, op, room.items)
      BY <1>1, <2>4, VisibleReadable DEF m
    <3> QED BY <1>7, <3>1
  <2>7. ASSUME Hidden(id, m), Anchored(room.items, id) PROVE Untouched(x, was)
    <3>1. ASSUME NEW op \in shown PROVE op.id # id
      <4>1. op \in ops /\ CanRead(m, op, room.items)
        BY DEF shown, at, ops, Listed, All
      <4>2. item.present \/ item.exists > 0 \/ op.id # id
        BY <1>2, <4>1, UnbornUnwritten DEF ops
      <4>3. item.exists \in Nat
        BY <2>1, ItemFields, BoundAssumption
      <4>4. item.present \/ op.id # id
        BY <2>7, <4>2, <4>3 DEF Anchored
      <4> QED BY <1>1, <2>7, <4>1, <4>4, HiddenUnreadable DEF Anchored, m
    <3> QED BY <2>2, <3>1, NoneShown
  <2>8. x.edit <= item.edit
    <3>1. \A op \in ops : op.n \in Nat \ {0}
      BY <1>6, OpFields, BoundAssumption
    <3>2. x.edit \in Nat /\ item.edit \in Nat
      BY <2>1, ItemFields, BoundAssumption
    <3> QED BY <1>6, <2>2, <3>1, <3>2 DEF Latest
  <2> HIDE DEF x, item, was
  <2>5. /\ x.exists <= item.exists
        /\ x.exists = item.exists => (x.present <=> item.present)
        /\ item.present \/ x.exists = item.exists
    BY <1>5, <1>6, <2>1, <2>2, <2>3, SnapshotIsBehind
  <2>6. Visible(id, m) => x.exists = item.exists /\ x.edit = item.edit
    BY <1>6, <2>1, <2>2, <2>4, SnapshotIsLatest
  <2> QED BY <2>5, <2>6, <2>7, <2>8 DEF x, item, was
<1>9. SnapshotFacts(view, room, m)
  <2> HIDE DEF view, m, room
  <2> QED BY <1>4, <1>8 DEF SnapshotFacts
<1> QED BY <1>1, <1>9

LEMMA SubscribeStep ==
  ASSUME AccessInv, NEW u \in Follower, NEW r \in Room, Subscribe(u, r)
  PROVE  AccessInv'
<1> DEFINE next == [room |-> r, as |-> EffectiveMembership(u, r), queue |-> <<>>,
                    view |-> None, loadedAs |-> None]
<1>1. TypeOK /\ u \in User /\ IsMember(u, r)
  BY BoundAssumption DEF AccessInv, Typed, Subscribe
<1>2. rooms[r] # None /\ EffectiveMembership(u, r) \in Membership
  BY <1>1, MembershipType DEF IsMember
<1>3. rooms[r] \in RoomState
  BY <1>1, <1>2 DEF TypeOK
<1>4. <<>> \in Seq(Op) /\ DOMAIN <<>> = {}
  OBVIOUS
<1>5. next \in ChannelState
  BY <1>2, <1>4 DEF ChannelState
<1>6. next.room = r /\ next.queue = <<>> /\ next.view = None
  OBVIOUS
<1>7. channel' = [channel EXCEPT ![u] = next]
  BY DEF Subscribe
<1> HIDE DEF next
<1>8. ChannelInv(next, rooms[next.room])
  BY <1>4, <1>6 DEF ChannelInv, Ascending, All, Listed
<1> QED BY <1>3, <1>5, <1>6, <1>7, <1>8, ChannelStep DEF Subscribe

LEMMA ChannelLoaded ==
  ASSUME NEW c \in ChannelState, NEW view, NEW m, NEW next,
         next = [c EXCEPT !.view = view, !.loadedAs = m]
  PROVE  next = [room |-> c.room, as |-> c.as, queue |-> c.queue, view |-> view, loadedAs |-> m]
<1>1. PICK r, a, q, v, l :
        c = [room |-> r, as |-> a, queue |-> q, view |-> v, loadedAs |-> l]
  BY DEF ChannelState
<1>2. c.room = r /\ c.as = a /\ c.queue = q
  BY <1>1
<1> DEFINE d == [c EXCEPT !.view = view]
<1>3. d = [room |-> r, as |-> a, queue |-> q, view |-> view, loadedAs |-> l]
  BY <1>1
<1>4. next = [d EXCEPT !.loadedAs = m]
  OBVIOUS
<1> HIDE DEF d
<1>5. next = [room |-> r, as |-> a, queue |-> q, view |-> view, loadedAs |-> m]
  BY <1>3, <1>4
<1> QED BY <1>2, <1>5

LEMMA ChannelForwarded ==
  ASSUME NEW c \in ChannelState, NEW queue, NEW view, NEW next,
         next = [c EXCEPT !.queue = queue, !.view = view]
  PROVE  next = [room |-> c.room, as |-> c.as, queue |-> queue, view |-> view,
                 loadedAs |-> c.loadedAs]
<1>1. PICK r, a, q, v, l :
        c = [room |-> r, as |-> a, queue |-> q, view |-> v, loadedAs |-> l]
  BY DEF ChannelState
<1>2. c.room = r /\ c.as = a /\ c.loadedAs = l
  BY <1>1
<1> DEFINE d == [c EXCEPT !.queue = queue]
<1>3. d = [room |-> r, as |-> a, queue |-> queue, view |-> v, loadedAs |-> l]
  BY <1>1
<1>4. next = [d EXCEPT !.view = view]
  OBVIOUS
<1> HIDE DEF d
<1>5. next = [room |-> r, as |-> a, queue |-> queue, view |-> view, loadedAs |-> l]
  BY <1>3, <1>4
<1> QED BY <1>2, <1>5

LEMMA LoadSnapshotStep ==
  ASSUME AccessInv, NEW u \in Follower, LoadSnapshot(u)
  PROVE  AccessInv'
<1> DEFINE c == channel[u]
           r == c.room
           room == rooms[r]
           m == EffectiveMembership(u, r)
           next == [c EXCEPT !.view = Snapshot(u, r), !.loadedAs = m]
<1>1. c # None /\ u \in User /\ IsMember(u, r)
  BY BoundAssumption DEF LoadSnapshot
<1>2. c \in ChannelState /\ r \in Room
  BY <1>1 DEF AccessInv, Typed, TypeOK, ChannelState
<1>3. ChannelInv(c, room) /\ room \in RoomState
  BY <1>1 DEF AccessInv, ChannelsInv
<1>4. m \in Membership /\ SnapshotFacts(Snapshot(u, r), room, m) /\ m # None
  BY <1>1, <1>2, SnapshotShown DEF IsMember
<1>5. channel' = [channel EXCEPT ![u] = next]
  BY DEF LoadSnapshot
<1>7. next = [room |-> c.room, as |-> c.as, queue |-> c.queue, view |-> Snapshot(u, r),
              loadedAs |-> m]
  <2>1. next = [c EXCEPT !.view = Snapshot(u, r), !.loadedAs = m]
    OBVIOUS
  <2> HIDE DEF c, m, next
  <2> QED BY <1>2, <2>1, ChannelLoaded
<1>8. Snapshot(u, r) \in Items
  BY <1>4 DEF SnapshotFacts
<1>9. next \in ChannelState
  BY <1>2, <1>4, <1>7, <1>8 DEF ChannelState
<1>10. /\ next.room = r /\ next.queue = c.queue /\ next.view = Snapshot(u, r)
       /\ next.loadedAs = m
  BY <1>7
<1>11. Replayed(room.items, room.base, All(room.log))
  <2>1. RoomInv(room, clock)
    BY <1>2, <1>3, NoneAssumption DEF AccessInv, RoomsInv
  <2> QED BY <2>1 DEF RoomInv
<1> DEFINE view == Snapshot(u, r)
<1> HIDE DEF next, room, m, view
<1>12. ASSUME NEW id \in Id
       PROVE  /\ Behind(view[id], room.items[id], id, All(c.queue))
              /\ Visible(id, m) => CatchesUp(view[id], room.items[id], id, All(c.queue))
              /\ view[id].edit <= room.items[id].edit
              /\ Hidden(id, m) => Withheld(view, room, id)
  <2> DEFINE x == view[id]
             item == room.items[id]
  <2>1. /\ x.exists <= item.exists
        /\ x.exists = item.exists => (x.present <=> item.present)
        /\ item.present \/ x.exists = item.exists
        /\ Visible(id, m) => x.exists = item.exists /\ x.edit = item.edit
    BY <1>4 DEF SnapshotFacts, view
  <2>2. \A op \in All(c.queue) : op.id = id /\ op.kind = "insert" => op.n <= item.edit
    BY <1>3, <1>11 DEF ChannelInv, Replayed, Latest
  <2>3. item.edit <= item.edit
    <3>1. item \in Item
      BY <1>3 DEF RoomState, Items
    <3>2. item.edit \in Nat
      BY <3>1, ItemFields, BoundAssumption
    <3> QED BY <3>2
  <2> HIDE DEF x, item
  <2>4. Behind(x, item, id, All(c.queue))
    BY <2>1 DEF Behind
  <2>5. Visible(id, m) => CatchesUp(x, item, id, All(c.queue))
    BY <2>1, <2>2, <2>3 DEF CatchesUp
  <2>6. /\ view[id].edit <= room.items[id].edit
        /\ Hidden(id, m) => Withheld(view, room, id)
    BY <1>4 DEF SnapshotFacts, Withheld, view
  <2> QED BY <2>4, <2>5, <2>6 DEF x, item
<1>13. ChannelInv(next, room)
  <2>1. Ascending(next.queue) /\ All(next.queue) \subseteq All(room.log)
    BY <1>3, <1>10 DEF ChannelInv
  <2>2. next.view = view
    BY <1>10 DEF view
  <2>3. next.loadedAs # None
    BY <1>4, <1>10
  <2> QED BY <1>10, <1>12, <2>1, <2>2, <2>3 DEF ChannelInv
<1>14. rooms[next.room] = room
  BY <1>10 DEF room
<1> QED BY <1>3, <1>5, <1>9, <1>13, <1>14, ChannelStep DEF LoadSnapshot

LEMMA DeliverStep ==
  ASSUME AccessInv, NEW u \in Follower, Deliver(u)
  PROVE  AccessInv'
<1> DEFINE c == channel[u]
           op == Head(c.queue)
           rest == Tail(c.queue)
           room == rooms[c.room]
           passed == c.view # None /\ CanRead(c.as, op, room.items)
           view == IF passed THEN Apply(c.view, op) ELSE c.view
           next == [c EXCEPT !.queue = rest, !.view = view]
<1>1. c # None /\ c.queue # <<>>
  BY DEF Deliver
<1>2. c \in ChannelState /\ ChannelInv(c, room) /\ room \in RoomState
  BY <1>1 DEF AccessInv, ChannelsInv, Typed, TypeOK
<1>3. channel' = [channel EXCEPT ![u] = next]
  <2>1. channel' = [channel EXCEPT ![u].queue = rest, ![u].view = view]
    BY DEF Deliver
  <2> HIDE DEF rest, view
  <2> QED BY <2>1
<1>4. next = [room |-> c.room, as |-> c.as, queue |-> rest, view |-> view,
              loadedAs |-> c.loadedAs]
  <2>1. c \in ChannelState
    BY <1>2
  <2> HIDE DEF c, rest, view
  <2>2. next = [c EXCEPT !.queue = rest, !.view = view]
    OBVIOUS
  <2> HIDE DEF next
  <2> QED BY <2>1, <2>2, ChannelForwarded
<1>5. /\ next.room = c.room /\ next.as = c.as /\ next.queue = rest /\ next.view = view
      /\ next.loadedAs = c.loadedAs
  BY <1>4
<1> HIDE DEF next
<1>6. /\ op \in Op /\ rest \in Seq(Op) /\ Ascending(rest)
      /\ All(c.queue) = {op} \union All(rest)
      /\ \A p \in All(rest) : op.n < p.n
  <2>1. c.queue \in Seq(Op) /\ Ascending(c.queue)
    BY <1>2 DEF ChannelState, ChannelInv
  <2> HIDE DEF c
  <2> QED BY <1>1, <2>1, HeadTailAll
<1>7. RoomInv(room, clock) /\ room.items \in Items /\ room.log \in Seq(Op)
  <2>1. c.room \in Room /\ room # None
    BY <1>2, NoneAssumption DEF ChannelState
  <2> QED BY <1>2, <2>1 DEF AccessInv, RoomsInv, RoomState
<1>8. /\ All(room.log) \in SUBSET Op /\ Distinct(All(room.log))
      /\ op \in All(room.log) /\ All(rest) \subseteq All(room.log)
  <2>1. \A i \in DOMAIN room.log : room.log[i] \in Op
    BY <1>7
  <2>2. All(room.log) \in SUBSET Op
    BY <2>1 DEF All, Listed
  <2>3. Distinct(All(room.log))
    BY <1>7, AscendingDistinct DEF RoomInv
  <2>4. All(c.queue) \subseteq All(room.log)
    BY <1>2 DEF ChannelInv
  <2> HIDE DEF room, c, op, rest
  <2> QED BY <1>6, <2>2, <2>3, <2>4
<1>9. c.view \in Items \union {None} /\ c.as \in Membership
  BY <1>2 DEF ChannelState
<1>10. view \in Items \union {None} /\ (view # None => c.view # None)
  <2>1. CASE passed
    <3>1. Apply(c.view, op) \in Items
      BY <1>6, <1>9, <2>1, ApplyFields
    <3> QED BY <2>1, <3>1
  <2>2. CASE ~ passed
    BY <1>9, <2>2
  <2> QED BY <2>1, <2>2
<1>11. next \in ChannelState
  <2> HIDE DEF c, view, rest
  <2> QED BY <1>2, <1>4, <1>6, <1>10 DEF ChannelState
<1>12. ASSUME view # None, NEW id \in Id
       PROVE  /\ Behind(view[id], room.items[id], id, All(rest))
              /\ Visible(id, c.as) /\ Visible(id, c.loadedAs) =>
                   CatchesUp(view[id], room.items[id], id, All(rest))
              /\ view[id].edit <= room.items[id].edit
              /\ Hidden(id, c.as) /\ Hidden(id, c.loadedAs) => Withheld(view, room, id)
  <2> DEFINE x == c.view[id]
             item == room.items[id]
  <2>1. c.view \in Items
    BY <1>9, <1>10, <1>12
  <2>2. x \in Item /\ item \in Item
    BY <1>7, <2>1 DEF Items
  <2>3. /\ Behind(x, item, id, {op} \union All(rest))
        /\ Visible(id, c.as) /\ Visible(id, c.loadedAs) =>
             CatchesUp(x, item, id, {op} \union All(rest))
    <3>1. /\ Behind(x, item, id, All(c.queue))
          /\ Visible(id, c.as) /\ Visible(id, c.loadedAs) =>
               CatchesUp(x, item, id, All(c.queue))
      BY <1>2, <1>10, <1>12 DEF ChannelInv
    <3> HIDE DEF x, item, c, op, rest
    <3> QED BY <1>6, <3>1
  <2>h. /\ x.edit <= item.edit
        /\ Hidden(id, c.as) /\ Hidden(id, c.loadedAs) => Withheld(c.view, room, id)
    BY <1>2, <1>10, <1>12 DEF ChannelInv
  <2>4. CASE passed /\ op.id = id
    <3>1. view[id] = ApplyItem(x, op)
      BY <1>6, <2>1, <2>4, ApplyFields
    <3>2. Absorbed(op, item)
      <4>1. Latest(item, room.base[id].present, id, All(room.log))
        BY <1>7 DEF RoomInv, Replayed
      <4> HIDE DEF op, item, room
      <4> QED BY <1>8, <2>4, <4>1, LatestAbsorbed
    <3>3. All(rest) \in SUBSET Op
      BY <1>8
    <3>5. view[id].edit <= item.edit
      <4>1. x.edit \in Nat /\ item.edit \in Nat /\ op.n \in Nat
        BY <1>6, <2>2, ItemFields, OpFields, BoundAssumption
      <4>2. view[id].edit = x.edit \/ (op.kind # "remove" /\ view[id].edit = Greater(x.edit, op.n))
        BY <1>6, <2>2, <3>1 DEF ApplyItem
      <4> HIDE DEF x, item, op, view
      <4> QED BY <2>h, <3>2, <4>1, <4>2 DEF Absorbed, Greater
    <3>6. ASSUME Hidden(id, c.as) PROVE ~ Anchored(room.items, id)
      <4>1. CanRead(c.as, op, room.items)
        BY <2>4
      <4>2. item.present \/ item.exists > 0
        BY <1>2, <1>7, <1>8, <2>4, UnbornUnwritten
      <4>3. item.exists \in Nat
        BY <2>2, ItemFields, BoundAssumption
      <4> HIDE DEF op, c, room
      <4> QED BY <1>9, <2>4, <3>6, <4>1, <4>2, <4>3, HiddenUnreadable DEF Anchored
    <3>7. Hidden(id, c.as) => Withheld(view, room, id)
      BY <3>6 DEF Withheld
    <3> HIDE DEF x, item, op, rest, view, room, passed, c
    <3>4. /\ Behind(ApplyItem(x, op), item, id, All(rest))
          /\ CatchesUp(x, item, id, {op} \union All(rest)) =>
               CatchesUp(ApplyItem(x, op), item, id, All(rest))
      BY <1>6, <2>2, <2>3, <2>4, <3>2, <3>3, DeliverNearer
    <3> QED BY <2>3, <3>1, <3>4, <3>5, <3>7 DEF item
  <2>5. CASE passed /\ op.id # id
    <3>1. view[id] = x
      BY <1>6, <2>1, <2>5, ApplyFields
    <3>3. Withheld(c.view, room, id) => Withheld(view, room, id)
      BY <3>1 DEF Withheld, OlderThanAccount
    <3> HIDE DEF x, item, op, rest, view, room, passed, c
    <3>2. /\ Behind(x, item, id, All(rest))
          /\ CatchesUp(x, item, id, {op} \union All(rest)) => CatchesUp(x, item, id, All(rest))
      BY <2>3, <2>5, SkipNearer
    <3> QED BY <2>3, <2>h, <3>1, <3>2, <3>3 DEF item
  <2>6. CASE ~ passed
    <3>1. view = c.view /\ ~ CanRead(c.as, op, room.items)
      BY <1>10, <1>12, <2>6
    <3>2. ~ (op.id = id /\ op.kind = "remove" /\ ~ item.present)
      BY <3>1, GoneReadable
    <3>3. op.id = id => ~ Visible(id, c.as)
      BY <1>9, <3>1, VisibleReadable
    <3>4. view[id] = x /\ (Withheld(c.view, room, id) => Withheld(view, room, id))
      BY <3>1
    <3> HIDE DEF x, item, op, rest, view, room, passed, c
    <3>5. /\ Behind(x, item, id, All(rest))
          /\ op.id # id =>
               (CatchesUp(x, item, id, {op} \union All(rest)) => CatchesUp(x, item, id, All(rest)))
      BY <2>3, <3>2, SkipNearer
    <3> QED BY <2>3, <2>h, <3>3, <3>4, <3>5 DEF item
  <2> QED BY <2>4, <2>5, <2>6
<1>13. ChannelInv(next, room)
  <2>1. Ascending(next.queue) /\ All(next.queue) \subseteq All(room.log)
    BY <1>5, <1>6, <1>8
  <2>2. view # None => c.loadedAs # None
    BY <1>2, <1>10 DEF ChannelInv
  <2> HIDE DEF c, room, view, rest
  <2> QED BY <1>5, <1>12, <2>1, <2>2 DEF ChannelInv
<1>14. rooms[next.room] = room
  BY <1>5
<1> HIDE DEF room
<1> QED BY <1>2, <1>3, <1>11, <1>13, <1>14, ChannelStep DEF Deliver

LEMMA DisconnectStep ==
  ASSUME AccessInv, NEW u \in Follower, Disconnect(u)
  PROVE  AccessInv'
BY ChannelStep DEF Disconnect

----------------------------------------------------------------------------
(***************************************************************************)
(* What the runs check, for any users, departments, budgets and bounds.    *)
(***************************************************************************)
LEMMA NextAccess == AccessInv /\ [Next]_vars => AccessInv'
<1> SUFFICES ASSUME AccessInv, [Next]_vars PROVE AccessInv'
  OBVIOUS
<1>1. CASE UNCHANGED vars
  <2>1. UNCHANGED <<org, project, rooms, libraries, channel, clock, clashed, changes>>
    BY <1>1 DEF vars
  <2>2. AccessInv'
    BY <2>1 DEF AccessInv, Typed, TypeOK, RoomsInv, ChannelsInv
  <2> QED BY <1>1, <2>2
<1>2. ASSUME NEW u \in User, CreateOrg(u) \/ CreateProject(u)
      PROVE  AccessInv'
  BY <1>2, CreateOrgStep, CreateProjectStep
<1>3. ASSUME NEW u \in User, NEW target \in Guest, NEW role \in Invited,
             AddOrgMember(u, target, role) \/ AddProjectMember(u, target, role)
      PROVE  AccessInv'
  BY <1>3, AddOrgMemberStep, AddProjectMemberStep
<1>4. ASSUME NEW u \in User, NEW r \in Room,
             \/ CreateBudget(u, r) \/ CreateProjectBudget(u, r)
             \/ \E target \in Guest, m \in Memberships : AddMember(u, r, target, m)
             \/ \E copy \in Room : DuplicateBudget(u, r, copy)
      PROVE  AccessInv'
  BY <1>4, CreateBudgetStep, CreateProjectBudgetStep, AddMemberStep, DuplicateBudgetStep
<1>5. ASSUME NEW u \in User, NEW r \in Room,
             \/ EditOf(u, r) \/ SaveLibrary(u, r)
             \/ \E lib \in libraries : ApplyLibrary(u, r, lib)
      PROVE  AccessInv'
  BY <1>5, EditStep, SaveLibraryStep, ApplyLibraryStep
<1>6. ASSUME NEW u \in Follower,
             \/ \E r \in Room : Subscribe(u, r)
             \/ LoadSnapshot(u) \/ Deliver(u) \/ Disconnect(u)
      PROVE  AccessInv'
  BY <1>6, SubscribeStep, LoadSnapshotStep, DeliverStep, DisconnectStep
<1>7. CASE Next
  <2>1. \/ \E u \in User : CreateOrg(u) \/ CreateProject(u)
        \/ \E u \in User, target \in Guest, role \in Invited :
             AddOrgMember(u, target, role) \/ AddProjectMember(u, target, role)
        \/ \E u \in User, r \in Room :
             \/ CreateBudget(u, r) \/ CreateProjectBudget(u, r)
             \/ \E target \in Guest, m \in Memberships : AddMember(u, r, target, m)
             \/ \E copy \in Room : DuplicateBudget(u, r, copy)
        \/ \E u \in User, r \in Room :
             \/ EditOf(u, r) \/ SaveLibrary(u, r)
             \/ \E lib \in libraries : ApplyLibrary(u, r, lib)
        \/ \E u \in Follower :
             \/ \E r \in Room : Subscribe(u, r)
             \/ LoadSnapshot(u) \/ Deliver(u) \/ Disconnect(u)
    BY <1>7, Zenon DEF Next, EditOf
  <2> QED BY <1>2, <1>3, <1>4, <1>5, <1>6, <2>1
<1> QED BY <1>1, <1>7

\* The inductive invariant of the server's budgets and live channels: a budget is
\* what its log made of its base, and a view lacks nothing it may see but what is
\* in its queue.
THEOREM AccessInvariant == Spec => []AccessInv
<1>1. Init => AccessInv
  BY InitAccess
<1>2. AccessInv /\ [Next]_vars => AccessInv'
  BY NextAccess
<1> QED BY <1>1, <1>2, PTL DEF Spec

\* Memberships, budgets, libraries and channels keep their types
\* (budgetcut-server/src/lib.rs, Inner).
THEOREM AccessTypeCorrect == Spec => []TypeOK
<1>1. AccessInv => TypeOK
  BY DEF AccessInv, Typed
<1> QED BY <1>1, AccessInvariant, PTL

\* What lies outside some categories is hidden from who reads only those.
LEMMA OutsideHidden ==
  ASSUME NEW m, NEW items, NEW id \in Outside(items, Scope(m))
  PROVE  id \in Id /\ Hidden(id, m) /\ Anchored(items, id)
<1>1. /\ id \in Id /\ items[id].present
      /\ CategoryIn(items, id) \in Category /\ CategoryIn(items, id) \notin Scope(m)
  BY DEF Outside, Present
<1>2. CategoryIn(items, id) # None
  BY <1>1, NoneAssumption
<1>3. /\ id \in Account \union Detail \union Actual /\ CategoryIn(items, id) = Home(id)
      /\ id \notin Account => items[AccountOf[id]].present
  BY <1>2 DEF CategoryIn, Home
<1> QED BY <1>1, <1>3 DEF Hidden, Anchored

LEMMA BaseUntouched ==
  ASSUME NEW room, NEW now, RoomInv(room, now), NEW id \in Id
  PROVE  Untouched(room.base[id], room.base[id].present)
BY DEF RoomInv, Replayed, Latest, Untouched

\* A snapshot shows a member's departments as the budget has them, though its ops
\* are filtered by the budget as it is now, and of the other departments the base
\* and nothing later (lib.rs, snapshot; rbac.rs).
THEOREM SnapshotsShowScope == Spec => []SnapshotShowsScope
<1>1. ASSUME AccessInv, NEW u \in User, NEW r \in Room, IsMember(u, r)
      PROVE  Shows(Snapshot(u, r), Report(u, r), Scope(EffectiveMembership(u, r)))
  <2> DEFINE m == EffectiveMembership(u, r)
             items == rooms[r].items
             view == Snapshot(u, r)
  <2>1. Report(u, r) = items
    BY <1>1 DEF Report
  <2>2. m \in Membership /\ SnapshotFacts(view, rooms[r], m)
    BY <1>1, SnapshotShown
  <2> HIDE DEF m, view
  <2>3. ASSUME NEW id \in Id
        PROVE  IF items[id].present
               THEN id \in Receipt \union Tool \/ CategoryIn(items, id) \in Scope(m) =>
                      Seen(view, id) = Seen(items, id)
               ELSE ~ view[id].present
    <3>1. /\ view[id].exists = items[id].exists =>
               (view[id].present <=> items[id].present)
          /\ items[id].present \/ view[id].exists = items[id].exists
          /\ Visible(id, m) => view[id].exists = items[id].exists /\ view[id].edit = items[id].edit
      BY <2>2 DEF SnapshotFacts
    <3>2. id \in Receipt \union Tool \/ CategoryIn(items, id) \in Scope(m) => Visible(id, m)
      BY <2>2, InScopeVisible
    <3> QED BY <3>1, <3>2 DEF Seen
  <2>4. Shows(view, items, Scope(m))
    BY <2>3 DEF Shows
  <2> QED BY <2>1, <2>4 DEF m, view
<1>2. ASSUME AccessInv, NEW u \in User, NEW r \in Room, IsMember(u, r),
             NEW id \in Outside(rooms[r].items, Scope(EffectiveMembership(u, r)))
      PROVE  Seen(Snapshot(u, r), id) = Seen(rooms[r].base, id)
  <2> DEFINE m == EffectiveMembership(u, r)
             view == Snapshot(u, r)
  <2>1. m \in Membership /\ SnapshotFacts(view, rooms[r], m) /\ rooms[r] # None
    BY <1>2, SnapshotShown
  <2>2. Hidden(id, m) /\ Anchored(rooms[r].items, id) /\ id \in Id
    <3> HIDE DEF m
    <3> QED BY <1>2, OutsideHidden DEF m
  <2>3. Untouched(view[id], rooms[r].base[id].present)
    <3> HIDE DEF m, view
    <3> QED BY <2>1, <2>2 DEF SnapshotFacts
  <2>4. Untouched(rooms[r].base[id], rooms[r].base[id].present)
    BY <1>2, <2>1, <2>2, BaseUntouched DEF AccessInv, RoomsInv
  <2> QED BY <2>3, <2>4 DEF Seen, Untouched
<1>3. AccessInv => SnapshotShowsScope
  BY <1>1, <1>2 DEF SnapshotShowsScope
<1> QED BY <1>3, AccessInvariant, PTL

\* A follower who has received everything shows what the budget has in the
\* departments of both memberships it was served under, and never, of those of
\* neither, anything later than the base but what a line was before its account
\* came (lib.rs, ws_handler, ws_loop).
THEOREM FollowersShowScope == Spec => []FollowerShowsScope
<1>1. ASSUME AccessInv, NEW u \in Follower, channel[u] # None, channel[u].view # None,
             channel[u].queue = <<>>
      PROVE  Shows(channel[u].view, rooms[channel[u].room].items,
                   Scope(channel[u].as) \intersect Scope(channel[u].loadedAs))
  <2> DEFINE c == channel[u]
             room == rooms[c.room]
             items == room.items
  <2>1. c \in ChannelState /\ ChannelInv(c, room)
    BY <1>1 DEF AccessInv, ChannelsInv, Typed, TypeOK
  <2>2. c.as \in Membership /\ c.loadedAs \in Membership
    BY <1>1, <2>1 DEF ChannelState, ChannelInv
  <2>3. All(c.queue) = {}
    BY <1>1 DEF All, Listed
  <2>4. ASSUME NEW id \in Id
        PROVE  IF items[id].present
               THEN id \in Receipt \union Tool
                      \/ CategoryIn(items, id) \in Scope(c.as) \intersect Scope(c.loadedAs) =>
                      Seen(c.view, id) = Seen(items, id)
               ELSE ~ c.view[id].present
    <3>1. /\ Behind(c.view[id], items[id], id, {})
          /\ Visible(id, c.as) /\ Visible(id, c.loadedAs) =>
               CatchesUp(c.view[id], items[id], id, {})
      <4>1. /\ Behind(c.view[id], items[id], id, All(c.queue))
            /\ Visible(id, c.as) /\ Visible(id, c.loadedAs) =>
                 CatchesUp(c.view[id], items[id], id, All(c.queue))
        BY <1>1, <2>1 DEF ChannelInv
      <4> HIDE DEF c, items
      <4> QED BY <2>3, <4>1
    <3>2. id \in Receipt \union Tool
            \/ CategoryIn(items, id) \in Scope(c.as) \intersect Scope(c.loadedAs) =>
            Visible(id, c.as) /\ Visible(id, c.loadedAs)
      BY <2>2, InScopeVisible
    <3> HIDE DEF c, items
    <3>3. /\ c.view[id].exists = items[id].exists =>
               (c.view[id].present <=> items[id].present)
          /\ items[id].present \/ c.view[id].exists = items[id].exists
      BY <3>1 DEF Behind
    <3>4. Visible(id, c.as) /\ Visible(id, c.loadedAs) =>
            c.view[id].exists = items[id].exists /\ c.view[id].edit = items[id].edit
      BY <3>1 DEF CatchesUp
    <3> QED BY <3>2, <3>3, <3>4 DEF Seen
  <2> QED BY <2>4 DEF Shows
<1>2. ASSUME AccessInv, NEW u \in Follower, channel[u] # None, channel[u].view # None,
             NEW id \in Outside(rooms[channel[u].room].items,
                               Scope(channel[u].as) \union Scope(channel[u].loadedAs))
      PROVE  \/ Seen(channel[u].view, id) = Seen(rooms[channel[u].room].base, id)
             \/ OlderThanAccount(channel[u].view, rooms[channel[u].room].items, id)
  <2> DEFINE c == channel[u]
             room == rooms[c.room]
  <2>1. c \in ChannelState /\ ChannelInv(c, room) /\ room # None
    BY <1>2, NoneAssumption DEF AccessInv, ChannelsInv, Typed, TypeOK
  <2>2. c.as \in Membership /\ c.loadedAs \in Membership /\ c.room \in Room
    BY <1>2, <2>1 DEF ChannelState, ChannelInv
  <2>3. /\ id \in Outside(room.items, Scope(c.as)) /\ id \in Outside(room.items, Scope(c.loadedAs))
    BY <1>2 DEF Outside
  <2>4. /\ Hidden(id, c.as) /\ Hidden(id, c.loadedAs) /\ Anchored(room.items, id) /\ id \in Id
    <3> HIDE DEF c, room
    <3> QED BY <2>2, <2>3, OutsideHidden
  <2>5. Withheld(c.view, room, id)
    BY <1>2, <2>1, <2>4 DEF ChannelInv
  <2>6. Untouched(room.base[id], room.base[id].present)
    <3>1. RoomInv(room, clock)
      BY <1>2, <2>1, <2>2 DEF AccessInv, RoomsInv
    <3> HIDE DEF room
    <3> QED BY <2>4, <3>1, BaseUntouched
  <2> HIDE DEF c, room
  <2>7. Seen(c.view, id) = Seen(room.base, id) \/ OlderThanAccount(c.view, room.items, id)
    BY <2>4, <2>5, <2>6 DEF Withheld, Untouched, Seen
  <2> QED BY <2>7 DEF c, room
<1>3. AccessInv => FollowerShowsScope
  BY <1>1, <1>2 DEF FollowerShowsScope
<1> QED BY <1>3, AccessInvariant, PTL

----------------------------------------------------------------------------
(***************************************************************************)
(* The names of tools.                                                     *)
(***************************************************************************)
UniqueTools(tools) ==
  \A g, h \in tools : NameOf[g] = NameOf[h] => g = h \/ NameOf[g] \in clashed

NamesInv ==
  /\ \A r \in Room : rooms[r] # None => UniqueTools(Present(rooms[r].items) \intersect Tool)
  /\ \A lib \in libraries : UniqueTools(lib.tools)

\* The names that have clashed stay listed, and so what is unique stays so.
LEMMA UniqueStays ==
  ASSUME NEW tools, UniqueTools(tools), clashed \subseteq clashed', NEW fewer \in SUBSET tools
  PROVE  UniqueTools(fewer)'
BY DEF UniqueTools

LEMMA AcceptedTools ==
  ASSUME AccessInv, NEW r \in Room, rooms[r] # None,
         NEW ops, NewOps(ops, clock, clock + Len(ops)), Accept(r, ops)
  PROVE  /\ \A g \in Present(rooms'[r].items) :
              \/ g \in Present(rooms[r].items)
              \/ \E op \in All(ops) : op.id = g /\ op.kind = "insert"
         /\ \A s \in Room : s # r => rooms'[s] = rooms[s]
         /\ libraries' = libraries
<1>1. /\ rooms[r] \in RoomState /\ RoomInv(rooms[r], clock) /\ clock \in Nat
      /\ rooms = [s \in Room |-> rooms[s]]
  BY BoundAssumption DEF AccessInv, Typed, TypeOK, RoomsInv
<1>2. rooms' = [rooms EXCEPT ![r].items = ApplyAll(@, ops), ![r].log = @ \o ops]
  BY DEF Accept
<1>3. Accepted(rooms[r], ops, rooms'[r])
  BY <1>1, <1>2 DEF Accepted, RoomState
<1>4. clock + Len(ops) \in Nat
  BY <1>1 DEF NewOps
<1>5. ASSUME NEW g \in Present(rooms'[r].items), g \notin Present(rooms[r].items)
      PROVE  \E op \in All(ops) : op.id = g /\ op.kind = "insert"
  <2>1. g \in Id /\ rooms'[r].items[g].present /\ ~ rooms[r].items[g].present
    BY <1>5 DEF Present
  <2> QED BY <1>1, <1>3, <1>4, <2>1, AcceptedPresence
<1> QED BY <1>1, <1>2, <1>5 DEF Accept

\* A budget that gains no tool, or one that no tool of its name was in.
LEMMA AcceptNames ==
  ASSUME AccessInv, NamesInv, NEW r \in Room, rooms[r] # None,
         NEW ops, NewOps(ops, clock, clock + Len(ops)), Accept(r, ops),
         clashed \subseteq clashed',
         \A p \in All(ops), h \in Present(rooms[r].items) \intersect Tool :
           p.kind = "insert" /\ p.id \in Tool /\ NameOf[p.id] = NameOf[h] =>
             NameOf[p.id] \in clashed',
         \A p, q \in All(ops) :
           p.id \in Tool /\ q.id \in Tool /\ NameOf[p.id] = NameOf[q.id] =>
             p.id = q.id \/ NameOf[p.id] \in clashed'
  PROVE  NamesInv'
<1>1. /\ \A g \in Present(rooms'[r].items) :
           \/ g \in Present(rooms[r].items)
           \/ \E op \in All(ops) : op.id = g /\ op.kind = "insert"
      /\ \A s \in Room : s # r => rooms'[s] = rooms[s]
      /\ libraries' = libraries
  <2> HIDE DEF Accept
  <2> QED BY AcceptedTools
<1>2. UniqueTools(Present(rooms[r].items) \intersect Tool)
  BY DEF NamesInv
<1>3. UniqueTools(Present(rooms[r].items) \intersect Tool)'
  <2> SUFFICES ASSUME NEW g \in Present(rooms'[r].items) \intersect Tool,
                      NEW h \in Present(rooms'[r].items) \intersect Tool,
                      NameOf[g] = NameOf[h]
               PROVE  g = h \/ NameOf[g] \in clashed'
    BY DEF UniqueTools
  <2>1. CASE g \in Present(rooms[r].items) /\ h \in Present(rooms[r].items)
    BY <1>2, <2>1 DEF UniqueTools
  <2>2. CASE g \notin Present(rooms[r].items) /\ h \in Present(rooms[r].items)
    BY <1>1, <2>2
  <2>3. CASE g \in Present(rooms[r].items) /\ h \notin Present(rooms[r].items)
    BY <1>1, <2>3
  <2>4. CASE g \notin Present(rooms[r].items) /\ h \notin Present(rooms[r].items)
    BY <1>1, <2>4
  <2> QED BY <2>1, <2>2, <2>3, <2>4
<1>4. ASSUME NEW s \in Room, rooms'[s] # None, s # r
      PROVE  UniqueTools(Present(rooms[s].items) \intersect Tool)'
  BY <1>1, <1>4 DEF NamesInv, UniqueTools
<1>5. \A lib \in libraries' : UniqueTools(lib.tools)'
  BY <1>1 DEF NamesInv, UniqueTools
<1> QED BY <1>3, <1>4, <1>5 DEF NamesInv

\* A member's op inserts no tool, unless submit_op does.
LEMMA MemberOpNames ==
  ASSUME AccessInv, NamesInv, NEW u \in User, NEW r \in Room,
         NEW kind \in {"insert", "remove", "set"}, NEW id \in Id,
         MemberOp(u, r, kind, id), clashed \subseteq clashed',
         kind = "insert" /\ id \in Tool =>
           {NameOf[id]} \intersect Names(rooms[r].items) \subseteq clashed'
  PROVE  NamesInv'
<1> DEFINE op == [kind |-> kind, id |-> id, n |-> clock + 1]
<1>1. IsMember(u, r) /\ Accept(r, <<op>>)
  BY DEF MemberOp
<1>2. TypeOK /\ clock \in 0 .. MaxOps /\ MaxOps \in Nat
  BY BoundAssumption DEF AccessInv, Typed, TypeOK
<1>3. rooms[r] # None
  BY <1>1, <1>2, MembershipType
<1>5. clock + 1 \in 1 .. MaxOps
  <2>1. Len(<<op>>) = 1
    OBVIOUS
  <2> QED BY <1>1, <1>2, <2>1 DEF Accept
<1>6. op \in Op /\ op.n = clock + 1 /\ op.kind = kind /\ op.id = id
  BY <1>5 DEF Op
<1> HIDE DEF op
<1>7. NewOps(<<op>>, clock, clock + Len(<<op>>)) /\ All(<<op>>) = {op}
  BY <1>2, <1>6, OneOp DEF NewOps
<1>8. \A h \in Present(rooms[r].items) \intersect Tool : NameOf[h] \in Names(rooms[r].items)
  BY DEF Names, NamesOf
<1> HIDE DEF Accept
<1> QED BY <1>1, <1>3, <1>6, <1>7, <1>8, AcceptNames

LEMMA EditNames ==
  ASSUME AccessInv, NamesInv, NEW u \in User, NEW r \in Room, EditOf(u, r)
  PROVE  NamesInv'
<1>1. /\ Account \union Detail \union Actual \union Receipt \union Tool = Id
      /\ (Account \union Detail \union Actual \union Receipt) \intersect Tool = {}
  BY KindAssumption DEF Id
<1>2. ASSUME NEW kind \in {"insert", "remove", "set"}, NEW id \in Id,
             kind = "insert" => id \notin Tool, ApplyMemberOp(u, r, kind, id)
      PROVE  NamesInv'
  <2> HIDE DEF MemberOp
  <2> QED BY <1>2, MemberOpNames DEF ApplyMemberOp
<1>3. CASE \E name \in NamesOf(Tool) : SetGlobal(u, r, name)
  <2>1. PICK g \in Tool : ApplyMemberOp(u, r, "set", g)
    BY <1>3 DEF SetGlobal
  <2> QED BY <1>1, <1>2, <2>1
<1>4. ASSUME NEW d \in Detail \union Actual \union Receipt,
             \E kind \in {"insert", "remove", "set"} : ApplyMemberOp(u, r, kind, d)
      PROVE  NamesInv'
  BY <1>1, <1>2, <1>4
<1>5. CASE \E d \in Detail : SetDetailField(u, r, d) \/ AddLine(u, r, d) \/ RemoveLine(u, r, d)
  BY <1>4, <1>5 DEF SetDetailField, AddLine, RemoveLine
<1>6. CASE \/ \E a \in Actual : PostActual(u, r, a) \/ DeleteActual(u, r, a)
           \/ \E x \in Receipt : PostReceipt(u, r, x) \/ DeleteReceipt(u, r, x)
  BY <1>4, <1>6 DEF PostActual, DeleteActual, PostReceipt, DeleteReceipt
<1>7. ASSUME NEW kind \in {"insert", "remove"}, NEW id \in Id, SubmitOp(u, r, kind, id)
      PROVE  NamesInv'
  <2>1. /\ MemberOp(u, r, kind, id) /\ clashed \subseteq clashed'
        /\ kind = "insert" /\ id \in Tool =>
             {NameOf[id]} \intersect Names(rooms[r].items) \subseteq clashed'
    <3> HIDE DEF MemberOp
    <3> QED BY <1>7 DEF SubmitOp
  <2> HIDE DEF MemberOp
  <2> QED BY <2>1, MemberOpNames
<1> QED BY <1>3, <1>5, <1>6, <1>7 DEF EditOf

\* What a library brings has none of the budget's names, and its own are as
\* unique as where it was taken from.
LEMMA ApplyLibraryNames ==
  ASSUME AccessInv, NamesInv, NEW u \in User, NEW r \in Room, NEW lib \in libraries,
         ApplyLibrary(u, r, lib)
  PROVE  NamesInv'
<1>1. rooms[r] # None
  BY LibraryAccepted
<1>2. PICK S, f, ops : Library(lib, r, S, f, ops)
  BY LibraryAccepted
<1>3. clashed' = clashed
  BY DEF ApplyLibrary
<1>4. /\ NewOps(ops, clock, clock + Len(ops)) /\ Accept(r, ops)
      /\ \A op \in All(ops) : op.kind = "insert" /\ op.id \in S
      /\ f \in [S -> Missing(lib, rooms[r].items)]
      /\ \A g, h \in S : f[g] = f[h] => g = h
      /\ \A g \in S : NameOf[g] = NameOf[f[g]]
  <2> HIDE DEF Accept, Missing
  <2> QED BY <1>2 DEF Library
<1>5. \A g \in S : f[g] \in lib.tools /\ NameOf[f[g]] \notin Names(rooms[r].items)
  BY <1>4 DEF Missing
<1>6. \A h \in Present(rooms[r].items) \intersect Tool : NameOf[h] \in Names(rooms[r].items)
  BY DEF Names, NamesOf
<1>7. \A g, h \in S : NameOf[g] = NameOf[h] => g = h \/ NameOf[g] \in clashed
  BY <1>4, <1>5 DEF NamesInv, UniqueTools
<1> HIDE DEF Accept
<1>8. \A p \in All(ops), h \in Present(rooms[r].items) \intersect Tool : NameOf[p.id] # NameOf[h]
  BY <1>4, <1>5, <1>6
<1>9. \A p, q \in All(ops) : NameOf[p.id] = NameOf[q.id] => p.id = q.id \/ NameOf[p.id] \in clashed'
  BY <1>3, <1>4, <1>7
<1> QED BY <1>1, <1>3, <1>4, <1>8, <1>9, AcceptNames

\* A budget is made, or its members change.
LEMMA RoomNames ==
  ASSUME AccessInv, NamesInv, NEW r \in Room, NEW next,
         rooms' = [rooms EXCEPT ![r] = next], UNCHANGED <<libraries, clashed>>,
         UniqueTools(Present(next.items) \intersect Tool)
  PROVE  NamesInv'
<1>1. rooms = [s \in Room |-> rooms[s]]
  BY DEF AccessInv, Typed
<1>2. rooms'[r] = next /\ \A s \in Room : s # r => rooms'[s] = rooms[s]
  BY <1>1
<1>3. ASSUME NEW s \in Room, rooms'[s] # None
      PROVE  UniqueTools(Present(rooms'[s].items) \intersect Tool)
  BY <1>2, <1>3 DEF NamesInv
<1> QED BY <1>3 DEF NamesInv, UniqueTools

LEMMA BudgetNames ==
  ASSUME AccessInv, NamesInv, NEW u \in User, NEW r \in Room,
         \/ CreateBudget(u, r) \/ CreateProjectBudget(u, r)
         \/ \E target \in Guest, m \in Memberships : AddMember(u, r, target, m)
         \/ \E copy \in Room : DuplicateBudget(u, r, copy)
  PROVE  NamesInv'
<1>1. \A ids : Present(BaseItems(ids)) = ids \intersect Id
  BY BaseType DEF Present
<1>2. \A inProject, members, base : MakeRoom(inProject, members, base).items = base
  BY DEF MakeRoom
<1>3. ASSUME CreateBudget(u, r) \/ CreateProjectBudget(u, r) PROVE NamesInv'
  <2>1. PICK inProject, members :
          rooms' = [rooms EXCEPT ![r] = MakeRoom(inProject, members, BaseItems(SeedOf[r]))]
    BY <1>3 DEF CreateBudget, CreateProjectBudget
  <2>2. UniqueTools(SeedOf[r] \intersect Id \intersect Tool)
    BY SeedAssumption DEF UniqueTools
  <2>3. UNCHANGED <<libraries, clashed>>
    BY <1>3 DEF CreateBudget, CreateProjectBudget
  <2> DEFINE next == MakeRoom(inProject, members, BaseItems(SeedOf[r]))
  <2>4. next.items = BaseItems(SeedOf[r])
    BY <1>2
  <2>5. UniqueTools(Present(next.items) \intersect Tool)
    <3> HIDE DEF next
    <3> QED BY <1>1, <2>2, <2>4
  <2>6. rooms' = [rooms EXCEPT ![r] = next]
    BY <2>1
  <2> HIDE DEF next
  <2> QED BY <2>3, <2>5, <2>6, RoomNames
<1>4. ASSUME NEW copy \in Room, DuplicateBudget(u, r, copy) PROVE NamesInv'
  <2>1. rooms[r] # None
    BY <1>4, MembershipType DEF DuplicateBudget, AccessInv, Typed
  <2>2. PICK members :
          rooms' = [rooms EXCEPT ![copy] =
                      MakeRoom(FALSE, members, BaseItems(Present(rooms[r].items)))]
    BY <1>4 DEF DuplicateBudget, CopyOf
  <2>3. Present(rooms[r].items) \intersect Id = Present(rooms[r].items)
    BY DEF Present
  <2>4. UniqueTools(Present(rooms[r].items) \intersect Tool)
    BY <2>1 DEF NamesInv
  <2>5. UNCHANGED <<libraries, clashed>>
    BY <1>4 DEF DuplicateBudget
  <2> DEFINE next == MakeRoom(FALSE, members, BaseItems(Present(rooms[r].items)))
  <2>6. next.items = BaseItems(Present(rooms[r].items))
    BY <1>2
  <2>7. UniqueTools(Present(next.items) \intersect Tool)
    <3> HIDE DEF next
    <3> QED BY <1>1, <2>3, <2>4, <2>6
  <2>8. rooms' = [rooms EXCEPT ![copy] = next]
    BY <2>2
  <2> HIDE DEF next
  <2> QED BY <2>5, <2>7, <2>8, RoomNames
<1>5. ASSUME NEW target \in Guest, NEW m \in Memberships, AddMember(u, r, target, m)
      PROVE  NamesInv'
  <2>1. rooms[r] # None
    BY <1>5, MembershipType DEF AddMember, AccessInv, Typed
  <2>2. rooms[r] \in RoomState
    BY <2>1 DEF AccessInv, Typed, TypeOK
  <2> DEFINE next == [rooms[r] EXCEPT !.members = [@ EXCEPT ![target] = m]]
  <2>3. rooms' = [rooms EXCEPT ![r] = next]
    BY <1>5 DEF AddMember
  <2>4. next.items = rooms[r].items
    BY <2>2 DEF RoomState
  <2>5. UniqueTools(Present(next.items) \intersect Tool)
    BY <2>1, <2>4 DEF NamesInv
  <2>6. UNCHANGED <<libraries, clashed>>
    BY <1>5 DEF AddMember
  <2> HIDE DEF next
  <2> QED BY <2>3, <2>5, <2>6, RoomNames
<1> QED BY <1>3, <1>4, <1>5

LEMMA SaveLibraryNames ==
  ASSUME AccessInv, NamesInv, NEW u \in User, NEW r \in Room, SaveLibrary(u, r)
  PROVE  NamesInv'
<1>1. rooms[r] # None
  BY MembershipType DEF SaveLibrary, AccessInv, Typed
<1>2. UniqueTools(Present(rooms[r].items) \intersect Tool)
  BY <1>1 DEF NamesInv
<1>3. UNCHANGED <<rooms, clashed>>
  BY DEF SaveLibrary
<1> DEFINE saved == [owner |-> u, tools |-> Present(rooms[r].items) \intersect Tool]
<1>4. \A lib \in libraries' : UniqueTools(lib.tools)
  <2>1. libraries' = libraries \union {saved}
    BY DEF SaveLibrary
  <2>2. UniqueTools(saved.tools)
    BY <1>2
  <2> HIDE DEF saved
  <2> QED BY <2>1, <2>2 DEF NamesInv
<1> QED BY <1>3, <1>4 DEF NamesInv, UniqueTools

LEMMA NextNames == AccessInv /\ NamesInv /\ [Next]_vars => NamesInv'
<1> SUFFICES ASSUME AccessInv, NamesInv, [Next]_vars PROVE NamesInv'
  OBVIOUS
<1>1. ASSUME UNCHANGED <<rooms, libraries, clashed>> PROVE NamesInv'
  BY <1>1 DEF NamesInv, UniqueTools
<1>2. CASE UNCHANGED vars
  BY <1>1, <1>2 DEF vars
<1>3. CASE Next
  <2>1. \/ UNCHANGED <<rooms, libraries, clashed>>
        \/ \E u \in User, r \in Room :
             \/ CreateBudget(u, r) \/ CreateProjectBudget(u, r)
             \/ \E target \in Guest, m \in Memberships : AddMember(u, r, target, m)
             \/ \E copy \in Room : DuplicateBudget(u, r, copy)
        \/ \E u \in User, r \in Room : EditOf(u, r)
        \/ \E u \in User, r \in Room : SaveLibrary(u, r)
        \/ \E u \in User, r \in Room, lib \in libraries : ApplyLibrary(u, r, lib)
    <3>1. \A u \in User :
            /\ CreateOrg(u) \/ CreateProject(u) => UNCHANGED <<rooms, libraries, clashed>>
            /\ \A target \in Guest, role \in Invited :
                 AddOrgMember(u, target, role) \/ AddProjectMember(u, target, role) =>
                   UNCHANGED <<rooms, libraries, clashed>>
      BY DEF CreateOrg, CreateProject, AddOrgMember, AddProjectMember
    <3>2. \A u \in Follower :
            (\E r \in Room : Subscribe(u, r)) \/ LoadSnapshot(u) \/ Deliver(u) \/ Disconnect(u) =>
              UNCHANGED <<rooms, libraries, clashed>>
      BY DEF Subscribe, LoadSnapshot, Deliver, Disconnect
    <3> QED BY <1>3, <3>1, <3>2, Zenon DEF Next, EditOf
  <2>2. ASSUME NEW u \in User, NEW r \in Room, EditOf(u, r) PROVE NamesInv'
    BY <2>2, EditNames
  <2>3. ASSUME NEW u \in User, NEW r \in Room, SaveLibrary(u, r) PROVE NamesInv'
    BY <2>3, SaveLibraryNames
  <2>4. ASSUME NEW u \in User, NEW r \in Room, NEW lib \in libraries, ApplyLibrary(u, r, lib)
        PROVE  NamesInv'
    BY <2>4, ApplyLibraryNames
  <2>5. ASSUME NEW u \in User, NEW r \in Room,
               \/ CreateBudget(u, r) \/ CreateProjectBudget(u, r)
               \/ \E target \in Guest, m \in Memberships : AddMember(u, r, target, m)
               \/ \E copy \in Room : DuplicateBudget(u, r, copy)
        PROVE  NamesInv'
    BY <2>5, BudgetNames
  <2> QED BY <1>1, <2>1, <2>2, <2>3, <2>4, <2>5
<1> QED BY <1>2, <1>3

\* Two tools of a budget have one name only if submit_op once inserted a tool into
\* a budget that had its name: copies and libraries add no other clash
\* (lib.rs, apply_library: "items already present (by code/name) are skipped").
THEOREM NamesClashBySubmitOnly == Spec => []NamesUnique
<1>1. Init => NamesInv
  BY DEF Init, NamesInv
<1>2. AccessInv /\ NamesInv /\ [Next]_vars => NamesInv'
  BY NextNames
<1>3. NamesInv => NamesUnique
  BY DEF NamesInv, UniqueTools, NamesUnique
<1> QED BY <1>1, <1>2, <1>3, AccessInvariant, PTL DEF Spec

----------------------------------------------------------------------------
(***************************************************************************)
(* Refresh-token rotation.                                                 *)
(***************************************************************************)
\* A family is founded by an issued token, and of a family that saw a reuse
\* every token is revoked.  This is what makes the two properties inductive: a
\* fresh token's name is no family yet, and a usable one is of no reused family.
Founded ==
  /\ \A j \in Jti : refresh[j] # Unissued => refresh[refresh[j].family] # Unissued
  /\ \A f \in reused : refresh[f] # Unissued

RotationInv == TokensTypeOK /\ Founded /\ OneUsablePerFamily /\ ReuseEndsSession

\* The fields of the records that issue_tokens and refresh_token store.
LEMMA UnusedFields ==
  ASSUME NEW user \in Email, NEW family \in Jti
  PROVE  /\ Unused(user, family) \in Record
         /\ Unused(user, family) # Unissued
         /\ Unused(user, family).user = user
         /\ Unused(user, family).family = family
         /\ Unused(user, family).used = FALSE
         /\ Unused(user, family).revoked = FALSE
<1>1. Unused(user, family) \in Record
  BY DEF Unused, Record
<1>2. Unused(user, family) # Unissued
  BY <1>1, UnissuedAssumption
<1>3. /\ Unused(user, family).user = user
      /\ Unused(user, family).family = family
  BY DEF Unused
<1>4. /\ Unused(user, family).used = FALSE
      /\ Unused(user, family).revoked = FALSE
  BY DEF Unused
<1> QED BY <1>1, <1>2, <1>3, <1>4

\* Setting one flag of a record leaves the other fields.
LEMMA FlagFields ==
  ASSUME NEW r \in Record
  PROVE  /\ MarkedUsed(r) \in Record
         /\ MarkedUsed(r) # Unissued
         /\ MarkedUsed(r).used = TRUE
         /\ MarkedUsed(r).revoked = r.revoked
         /\ MarkedUsed(r).family = r.family
         /\ MarkedRevoked(r) \in Record
         /\ MarkedRevoked(r) # Unissued
         /\ MarkedRevoked(r).used = r.used
         /\ MarkedRevoked(r).revoked = TRUE
         /\ MarkedRevoked(r).family = r.family
<1>1. MarkedUsed(r) \in Record /\ MarkedRevoked(r) \in Record
  BY DEF Record, MarkedUsed, MarkedRevoked
<1>2. MarkedUsed(r) # Unissued /\ MarkedRevoked(r) # Unissued
  BY <1>1, UnissuedAssumption
<1>3. /\ MarkedUsed(r).used = TRUE
      /\ MarkedUsed(r).revoked = r.revoked
      /\ MarkedUsed(r).family = r.family
  BY DEF MarkedUsed
<1>4. /\ MarkedRevoked(r).used = r.used
      /\ MarkedRevoked(r).revoked = TRUE
      /\ MarkedRevoked(r).family = r.family
  BY DEF MarkedRevoked
<1> QED BY <1>1, <1>2, <1>3, <1>4

\* A new session: an unissued token becomes the only one of a new family.
LEMMA IssueKeepsInv ==
  ASSUME RotationInv, NEW user \in Email, NEW j \in Jti, NEW c \in Client,
         IssueTokens(user, j), Answer(c, j), users' \subseteq Email,
         UNCHANGED reused
  PROVE  RotationInv'
<1>1. refresh[j] = Unissued /\ refresh' = [refresh EXCEPT ![j] = Unused(user, j)]
  BY DEF IssueTokens
<1>2. refresh \in [Jti -> Record \union {Unissued}]
  BY DEF RotationInv, TokensTypeOK
<1>u. /\ Unused(user, j) \in Record /\ Unused(user, j) # Unissued
      /\ Unused(user, j).family = j
  BY UnusedFields
<1>3. \A k \in Jti : refresh'[k] = IF k = j THEN Unused(user, j) ELSE refresh[k]
  BY <1>1, <1>2
<1>4. TokensTypeOK'
  <2>1. refresh' \in [Jti -> Record \union {Unissued}]
    BY <1>1, <1>2, <1>u
  <2>2. held' \in [Client -> Jti \union {NoToken}]
    BY DEF RotationInv, TokensTypeOK, Answer
  <2>3. \A d \in Client : held'[d] # NoToken => refresh'[held'[d]] # Unissued
    <3>1. \A d \in Client : held'[d] = held[d] \/ held'[d] = j
      BY DEF RotationInv, TokensTypeOK, Answer
    <3>2. \A d \in Client : held[d] # NoToken => held[d] \in Jti /\ refresh[held[d]] # Unissued
      BY DEF RotationInv, TokensTypeOK
    <3> QED BY <3>1, <3>2, <1>3, <1>u
  <2> QED BY <2>1, <2>2, <2>3 DEF RotationInv, TokensTypeOK
<1>5. Founded'
  BY <1>1, <1>2, <1>3, <1>u DEF RotationInv, Founded, TokensTypeOK, Record
<1>6. \A k \in Jti : Usable(k)' => k = j \/ Usable(k)
  BY <1>3 DEF Usable
<1>7. \A k \in Jti : Usable(k) => refresh[k].family # j
  BY <1>1 DEF RotationInv, Founded, Usable
<1>8. OneUsablePerFamily'
  BY <1>3, <1>6, <1>7, <1>u DEF RotationInv, OneUsablePerFamily
<1>9. ReuseEndsSession'
  BY <1>1, <1>3, <1>6, <1>u DEF RotationInv, ReuseEndsSession, Founded
<1> QED BY <1>4, <1>5, <1>8, <1>9 DEF RotationInv

\* Rotation hands the family's one usable place on to the successor.
LEMMA ExchangeKeepsInv ==
  ASSUME RotationInv, NEW c \in Client, NEW next \in Jti, Exchange(c, next)
  PROVE  RotationInv'
<1> DEFINE j == held[c]
<1>1. /\ j \in Jti /\ Usable(j) /\ refresh[next] = Unissued
      /\ j # next
  BY NoTokenAssumption DEF Exchange, RotationInv, TokensTypeOK, Usable
<1>2. refresh \in [Jti -> Record \union {Unissued}] /\ refresh[j] \in Record
  BY <1>1 DEF RotationInv, TokensTypeOK, Usable
<1>3. refresh[j].user \in Email /\ refresh[j].family \in Jti
  BY <1>2 DEF Record
<1>4. refresh' = [refresh EXCEPT ![j] = MarkedUsed(@),
                   ![next] = Unused(refresh[j].user, refresh[j].family)]
  BY DEF Exchange, Rotate
<1>u. /\ Unused(refresh[j].user, refresh[j].family) \in Record
      /\ Unused(refresh[j].user, refresh[j].family) # Unissued
      /\ Unused(refresh[j].user, refresh[j].family).family = refresh[j].family
  <2> DEFINE user == refresh[j].user
             family == refresh[j].family
  <2>1. user \in Email /\ family \in Jti
    BY <1>3
  <2> HIDE DEF user, family
  <2>2. /\ Unused(user, family) \in Record
        /\ Unused(user, family) # Unissued
        /\ Unused(user, family).family = family
    BY <2>1, UnusedFields
  <2> QED BY <2>2 DEF user, family
<1>m. /\ MarkedUsed(refresh[j]) \in Record
      /\ MarkedUsed(refresh[j]) # Unissued
      /\ MarkedUsed(refresh[j]).used = TRUE
      /\ MarkedUsed(refresh[j]).family = refresh[j].family
  BY <1>2, FlagFields
<1>5. \A k \in Jti :
        refresh'[k] = IF k = next THEN Unused(refresh[j].user, refresh[j].family)
                      ELSE IF k = j THEN MarkedUsed(refresh[j])
                      ELSE refresh[k]
  BY <1>1, <1>2, <1>4
<1>6. TokensTypeOK'
  <2>1. refresh' \in [Jti -> Record \union {Unissued}]
    <3>1. \A k \in Jti : refresh'[k] \in Record \union {Unissued}
      BY <1>1, <1>2, <1>3, <1>5, <1>u, <1>m
    <3>2. refresh' = [k \in Jti |-> refresh'[k]]
      BY <1>2, <1>4
    <3> QED BY <3>1, <3>2
  <2>2. held' \in [Client -> Jti \union {NoToken}]
    BY DEF RotationInv, TokensTypeOK, Exchange, Answer
  <2>3. \A d \in Client : held'[d] # NoToken => refresh'[held'[d]] # Unissued
    <3>1. \A d \in Client : held'[d] = held[d] \/ held'[d] = next
      BY DEF RotationInv, TokensTypeOK, Exchange, Answer
    <3>2. \A d \in Client : held[d] # NoToken => held[d] \in Jti /\ refresh[held[d]] # Unissued
      BY DEF RotationInv, TokensTypeOK
    <3> QED BY <3>1, <3>2, <1>1, <1>5, <1>u, <1>m
  <2> QED BY <2>1, <2>2, <2>3 DEF RotationInv, TokensTypeOK, Exchange
<1>7. Founded'
  <2>1. \A k \in Jti : refresh[k] # Unissued => refresh'[k] # Unissued
    BY <1>1, <1>2, <1>3, <1>5, <1>u, <1>m
  <2>2. \A k \in Jti : refresh'[k] # Unissued =>
          \/ k = next /\ refresh'[k].family = refresh[j].family
          \/ refresh[k] # Unissued /\ refresh'[k].family = refresh[k].family
    <3> TAKE k \in Jti
    <3>1. CASE k = next
      BY <3>1, <1>5, <1>u
    <3>2. CASE k = j
      BY <3>2, <1>1, <1>5, <1>m DEF Usable
    <3>3. CASE k # next /\ k # j
      BY <3>3, <1>5
    <3> QED BY <3>1, <3>2, <3>3
  <2>3. \A k \in Jti : refresh[k] # Unissued => refresh[k].family \in Jti
    BY <1>2 DEF Record
  <2>4. \A k \in Jti : refresh'[k] # Unissued => refresh'[refresh'[k].family] # Unissued
    BY <1>1, <2>1, <2>2, <2>3 DEF RotationInv, Founded, Usable
  <2>5. reused' = reused /\ reused \subseteq Jti
    BY DEF Exchange, RotationInv, TokensTypeOK
  <2> QED BY <2>1, <2>4, <2>5 DEF RotationInv, Founded
<1>8. \A k \in Jti : Usable(k)' =>
        \/ k = next /\ refresh'[k].family = refresh[j].family
        \/ k # j /\ Usable(k) /\ refresh'[k] = refresh[k]
  BY <1>1, <1>2, <1>3, <1>5, <1>u, <1>m DEF Usable
<1>9. OneUsablePerFamily'
  BY <1>1, <1>8 DEF RotationInv, OneUsablePerFamily
<1>10. ReuseEndsSession'
  BY <1>1, <1>8 DEF RotationInv, ReuseEndsSession, Exchange
<1> QED BY <1>6, <1>7, <1>9, <1>10 DEF RotationInv

\* A half-way exchange only takes a usable token away.
LEMMA ExchangeFailsKeepsInv ==
  ASSUME RotationInv, NEW c \in Client, ExchangeFails(c)
  PROVE  RotationInv'
<1> DEFINE j == held[c]
<1>1. j \in Jti /\ Usable(j)
  BY NoTokenAssumption DEF ExchangeFails, RotationInv, TokensTypeOK
<1>2. refresh \in [Jti -> Record \union {Unissued}] /\ refresh[j] \in Record
  BY <1>1 DEF RotationInv, TokensTypeOK, Usable
<1>3. refresh' = [refresh EXCEPT ![j] = MarkedUsed(@)]
  BY DEF ExchangeFails
<1>m. /\ MarkedUsed(refresh[j]) \in Record
      /\ MarkedUsed(refresh[j]) # Unissued
      /\ MarkedUsed(refresh[j]).used = TRUE
      /\ MarkedUsed(refresh[j]).family = refresh[j].family
  BY <1>2, FlagFields
<1>4. \A k \in Jti : refresh'[k] = IF k = j THEN MarkedUsed(refresh[j])
                                   ELSE refresh[k]
  BY <1>1, <1>2, <1>3
<1>5. \A k \in Jti : /\ refresh'[k] = Unissued <=> refresh[k] = Unissued
                     /\ refresh[k] # Unissued => refresh'[k].family = refresh[k].family
                     /\ Usable(k)' => Usable(k)
  BY <1>1, <1>2, <1>4, <1>m DEF Usable
<1>6. TokensTypeOK'
  <2>1. refresh' \in [Jti -> Record \union {Unissued}]
    BY <1>1, <1>2, <1>3, <1>m
  <2> QED BY <2>1, <1>5 DEF RotationInv, TokensTypeOK, ExchangeFails
<1>7. Founded'
  BY <1>2, <1>5 DEF RotationInv, Founded, TokensTypeOK, Record, ExchangeFails
<1>8. OneUsablePerFamily'
  BY <1>5 DEF RotationInv, OneUsablePerFamily, Usable
<1>9. ReuseEndsSession'
  BY <1>5 DEF RotationInv, ReuseEndsSession, Usable, ExchangeFails
<1> QED BY <1>6, <1>7, <1>8, <1>9 DEF RotationInv

\* A reuse leaves no usable token in its family.
LEMMA ReuseKeepsInv ==
  ASSUME RotationInv, NEW c \in Client, Reuse(c)
  PROVE  RotationInv'
<1> DEFINE j == held[c]
<1>1. j \in Jti /\ refresh[j] # Unissued
  BY NoTokenAssumption DEF Reuse, RotationInv, TokensTypeOK
<1>2. refresh \in [Jti -> Record \union {Unissued}] /\ refresh[j] \in Record
  BY <1>1 DEF RotationInv, TokensTypeOK
<1>3. refresh[j].family \in Jti
  BY <1>2 DEF Record
<1>m. \A k \in Jti : refresh[k] # Unissued =>
        /\ MarkedRevoked(refresh[k]) \in Record
        /\ MarkedRevoked(refresh[k]) # Unissued
        /\ MarkedRevoked(refresh[k]).revoked = TRUE
        /\ MarkedRevoked(refresh[k]).family = refresh[k].family
  <2> TAKE k \in Jti
  <2> HAVE refresh[k] # Unissued
  <2>1. refresh[k] \in Record
    BY <1>2
  <2> QED BY <2>1, FlagFields
<1>4. \A k \in Jti : refresh'[k] =
        IF refresh[k] # Unissued /\ refresh[k].family = refresh[j].family
        THEN MarkedRevoked(refresh[k])
        ELSE refresh[k]
  BY DEF Reuse, RevokeFamily
<1>5. \A k \in Jti : /\ refresh'[k] = Unissued <=> refresh[k] = Unissued
                     /\ refresh[k] # Unissued => refresh'[k].family = refresh[k].family
  BY <1>4, <1>m
<1>6. \A k \in Jti : Usable(k)' => Usable(k) /\ refresh[k].family # refresh[j].family
  BY <1>2, <1>4, <1>m DEF Usable
<1>7. TokensTypeOK'
  <2>1. \A k \in Jti : refresh'[k] \in Record \union {Unissued}
    BY <1>2, <1>4, <1>m
  <2>2. refresh' \in [Jti -> Record \union {Unissued}]
    BY <2>1 DEF Reuse, RevokeFamily
  <2>3. reused' \subseteq Jti
    BY <1>3 DEF RotationInv, TokensTypeOK, Reuse
  <2> QED BY <2>2, <2>3, <1>5 DEF RotationInv, TokensTypeOK, Reuse
<1>8. Founded'
  BY <1>1, <1>2, <1>5 DEF RotationInv, Founded, TokensTypeOK, Record, Reuse
<1>9. OneUsablePerFamily'
  BY <1>5, <1>6 DEF RotationInv, OneUsablePerFamily, Usable
<1>10. ReuseEndsSession'
  BY <1>5, <1>6 DEF RotationInv, ReuseEndsSession, Usable, Reuse
<1> QED BY <1>7, <1>8, <1>9, <1>10 DEF RotationInv

LEMMA RotationInit == TokensInit => RotationInv
  BY DEF TokensInit, RotationInv, TokensTypeOK, Founded, OneUsablePerFamily, ReuseEndsSession, Usable

LEMMA RotationNext == RotationInv /\ [TokensNext]_tokenVars => RotationInv'
<1> SUFFICES ASSUME RotationInv, [TokensNext]_tokenVars PROVE RotationInv'
  OBVIOUS
<1>1. ASSUME NEW c \in Client, NEW user \in Email, NEW j \in Jti, Register(c, user, j)
      PROVE  RotationInv'
  BY <1>1, IssueKeepsInv DEF Register, RotationInv, TokensTypeOK
<1>2. ASSUME NEW c \in Client, NEW user \in Email, NEW j \in Jti, Login(c, user, j)
      PROVE  RotationInv'
  BY <1>2, IssueKeepsInv DEF Login, RotationInv, TokensTypeOK
<1>3. ASSUME NEW user \in Email, RegisterFails(user)
      PROVE  RotationInv'
  BY <1>3 DEF RegisterFails, RotationInv, TokensTypeOK, Founded, OneUsablePerFamily,
              ReuseEndsSession, Usable
<1>4. ASSUME NEW c \in Client, NEW d \in Client, Share(c, d)
      PROVE  RotationInv'
  <2>1. TokensTypeOK'
    BY <1>4 DEF Share, RotationInv, TokensTypeOK
  <2> QED BY <1>4, <2>1 DEF Share, RotationInv, Founded, OneUsablePerFamily,
                         ReuseEndsSession, Usable
<1>5. ASSUME NEW c \in Client, NEW next \in Jti, Exchange(c, next)
      PROVE  RotationInv'
  BY <1>5, ExchangeKeepsInv
<1>6. ASSUME NEW c \in Client, ExchangeFails(c)
      PROVE  RotationInv'
  BY <1>6, ExchangeFailsKeepsInv
<1>7. ASSUME NEW c \in Client, Reuse(c)
      PROVE  RotationInv'
  BY <1>7, ReuseKeepsInv
<1>8. CASE UNCHANGED tokenVars
  BY <1>8 DEF tokenVars, RotationInv, TokensTypeOK, Founded, OneUsablePerFamily, ReuseEndsSession, Usable
<1> QED BY <1>1, <1>2, <1>3, <1>4, <1>5, <1>6, <1>7, <1>8 DEF TokensNext

\* Refresh tokens, sessions and what clients hold stay well formed, and the
\* strengthening holds throughout.
THEOREM RotationInvariant == TokensSpec => []RotationInv
  BY RotationInit, RotationNext, PTL DEF TokensSpec

\* Records stay well formed, and no client ever holds a token that the server
\* did not record.
THEOREM TokensTypeCorrect == TokensSpec => []TokensTypeOK
<1>1. RotationInv => TokensTypeOK
  BY DEF RotationInv
<1> QED BY <1>1, RotationInvariant, PTL

\* At any time at most one token of a session can be exchanged.
THEOREM OneUsable == TokensSpec => []OneUsablePerFamily
<1>1. RotationInv => OneUsablePerFamily
  BY DEF RotationInv
<1> QED BY <1>1, RotationInvariant, PTL

\* A session in which a used token was presented never accepts a token again.
THEOREM ReuseIsFinal == TokensSpec => []ReuseEndsSession
<1>1. RotationInv => ReuseEndsSession
  BY DEF RotationInv
<1> QED BY <1>1, RotationInvariant, PTL
=============================================================================
