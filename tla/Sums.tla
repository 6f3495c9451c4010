-------------------------------- MODULE Sums --------------------------------
(***************************************************************************)
(* Sums of the values of a function: exact ones, and those of a program    *)
(* that cuts every partial sum to what it can hold.                        *)
(***************************************************************************)
EXTENDS Integers, Sequences, FiniteSets, Functions

\* Some steps, each a function, taken from a start in their order.
Run(start, steps) ==
  LET at[n \in 0 .. Len(steps)] == IF n = 0 THEN start ELSE steps[n][at[n - 1]]
  IN  at[Len(steps)]

\* Adding a number; cut tells what becomes of a sum.  Zero adds nothing.
Adding(n, cut) == [x \in Int |-> IF n = 0 THEN x ELSE cut[x + n]]

\* The values of a sequence, added in its order.
Accumulated(s, cut) == Run(0, [i \in DOMAIN s |-> Adding(s[i], cut)])

\* The values of a function, added in some order.
Gathered(f, cut) ==
  LET sum[S \in SUBSET DOMAIN f] ==
        IF S = {} THEN 0
        ELSE LET x == CHOOSE x \in S : TRUE IN cut[sum[S \ {x}] + f[x]]
  IN  sum[DOMAIN f]

Exact == [n \in Int |-> n]
Sum(f) == Gathered(f, Exact)

Abs(n) == IF n < 0 THEN - n ELSE n
Magnitude(f) == Sum([x \in DOMAIN f |-> Abs(f[x])])
=============================================================================
