------------------------------- MODULE MCBooks -------------------------------
(* Two small budgets that take on a bad, a cyclic, a huge or a missing value. *)
EXTENDS Books, TLC

CONSTANTS g, h, cast, crew, acc1, acc2, line1, line2, line3, stopaj, ajans, sabit, gizli,
          ft1, fis1, fis2, po1, po2, try, usd, adet, hafta, ali, yemek, yol

MCSorted == <<g, h>>
MCLines == <<line1, line2, line3>>
MCCategories == <<cast, crew>>
MCIds == [actuals |-> {ft1}, receipts |-> {fis2}, orders |-> {po2}]

NewFringe(kind, mode, rate, level, cutoff, cap) ==
  [kind |-> kind, mode |-> mode, rate |-> rate, level |-> level, cutoff |-> cutoff, cap |-> cap,
   currency |-> usd]

Line(account, amount, rate, unit, currency, fringes, groups) ==
  [account |-> account, amount |-> amount, multiplier |-> Num(1), rate |-> rate, unit |-> unit,
   currency |-> currency, fringes |-> fringes, groups |-> groups]

\* Half a kurus is 2 units: prices are odd halves.
Plain ==
  [globals |-> (g :> Num(2)) @@ (h :> Infix("+", Ref(g), Num(1))),
   base |-> try,
   units |-> (adet :> 1) @@ (hafta :> 7),
   currencies |-> (try :> 1) @@ (usd :> 3),
   categories |-> (cast :> [position |-> 1, hint |-> None, fringes |-> <<>>])
               @@ (crew :> [position |-> 3, hint |-> "ATL", fringes |-> <<Applied(ajans, None)>>]),
   dividers |-> {2, 4},
   accounts |-> (acc1 :> [category |-> cast, group |-> "ATL", fringes |-> <<Applied(stopaj, None)>>])
             @@ (acc2 :> [category |-> crew, group |-> "BTL", fringes |-> <<>>]),
   fringes |-> (stopaj :> NewFringe("percent", "grossup", 1, "detail", None, None))
            @@ (ajans :> NewFringe("percent", "additive", 1, "category", 28, 10))
            @@ (sabit :> NewFringe("flat", "additive", 2, "budget", None, None)),
   applied |-> <<Applied(sabit, None)>>,
   details |-> (line1 :> Line(acc1, Ref(h), Num(6), adet, try, <<>>, {}))
            @@ (line2 :> Line(acc2, Num(1), Num(2), hafta, usd, <<Applied(stopaj, 0)>>, {gizli})),
   groups |-> gizli :> TRUE,
   charges |-> <<Ref(g)>>, credits |-> <<Num(6)>>,
   actuals |-> <<>>, receipts |-> <<>>, orders |-> <<>>]

\* The same without a divider, with a suppressed group and with papers.
Booked ==
  [Plain EXCEPT
     !.dividers = {},
     !.groups = gizli :> FALSE,
     !.receipts = fis1 :> [category |-> yemek, gross |-> 6, rate |-> 1],
     !.actuals = fis1 :> [account |-> acc2, date |-> 3, net |-> 6, stopaj |-> 1, kdv |-> 1,
                          tevkifat |-> 1],
     !.orders = po1 :> [account |-> acc1, amount |-> 6, date |-> None, vendor |-> ali,
                        status |-> "approved"]]

MCSeeds == {Plain, Booked}

MCBills ==
  {[account |-> acc1, date |-> None, net |-> 12, stopaj |-> 0, kdv |-> 1, tevkifat |-> 0],
   [account |-> acc2, date |-> 20, net |-> 6, stopaj |-> 2, kdv |-> 0, tevkifat |-> 1]}
MCSlips == {[category |-> yemek, gross |-> 7, rate |-> 2], [category |-> yol, gross |-> 6, rate |-> 0]}
MCCommitments == {[account |-> acc2, amount |-> 10, date |-> 12, vendor |-> ali, status |-> "draft"]}

MCValues == {Num(3), Num(60), Neg(Ref(g)), Infix("*", Ref(h), Ref(h)),
             Infix("/", Num(4), Infix("-", Ref(g), Num(2))), Bad}
MCChoices == {<<>>, <<Applied(stopaj, None), Applied(stopaj, 2)>>, <<Applied(sabit, 3), Applied(ajans, 2)>>}
MCWindows == {[start |-> None, end |-> None], [start |-> 3, end |-> None], [start |-> 4, end |-> 19]}
MCStarts == {None, 5}
=============================================================================
