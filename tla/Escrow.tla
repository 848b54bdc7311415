------------------------------- MODULE Escrow -------------------------------
(***************************************************************************)
(* What the billing pipeline promises an advertiser: an ad is shown only   *)
(* against money set aside for it, and that money is either charged, once  *)
(* and at the agreed price, or given back.  Money that is not set aside    *)
(* can be taken out at any time.                                           *)
(***************************************************************************)
EXTENDS Naturals, Totals

CONSTANTS
  Advertisers,  \* who pays
  Items,        \* the ads that may be shown
  Amounts       \* the amounts and prices there are

VARIABLES
  money,   \* what each advertiser owns, the money set aside included
  item     \* every ad shown so far and what became of its price

NotShown == [state |-> "new"]

Held == {n \in Items : item[n].state = "held"}

SetAside(a) == Total([n \in {m \in Held : item[m].adv = a} |-> item[n].price])

Init ==
  /\ money = [a \in Advertisers |-> 0]
  /\ item = [n \in Items |-> NotShown]

Fund(a, x) ==
  /\ money' = [money EXCEPT ![a] = @ + x]
  /\ UNCHANGED item

Take(a, x) ==
  /\ x + SetAside(a) <= money[a]
  /\ money' = [money EXCEPT ![a] = @ - x]
  /\ UNCHANGED item

Hold(n, a, price) ==
  /\ item[n] = NotShown
  /\ price + SetAside(a) <= money[a]
  /\ item' = [item EXCEPT ![n] = [state |-> "held", adv |-> a, price |-> price]]
  /\ UNCHANGED money

Charge(n) ==
  /\ n \in Held
  /\ money' = [money EXCEPT ![item[n].adv] = @ - item[n].price]
  /\ item' = [item EXCEPT ![n].state = "charged"]

Release(S) ==
  /\ S \subseteq Held
  /\ item' = [n \in Items |-> IF n \in S THEN [item[n] EXCEPT !.state = "released"]
                                         ELSE item[n]]
  /\ UNCHANGED money

Next ==
  \/ \E a \in Advertisers : \E x \in Amounts : Fund(a, x) \/ Take(a, x)
  \/ \E n \in Items, a \in Advertisers : \E price \in Amounts : Hold(n, a, price)
  \/ \E n \in Items : Charge(n)
  \/ \E S \in SUBSET Items : Release(S)

Spec == Init /\ [][Next]_<<money, item>>
=============================================================================
