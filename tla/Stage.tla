------------------------------- MODULE Stage -------------------------------
(***************************************************************************)
(* The pure part of the ad selector: what a place on the stage costs and   *)
(* in which order the campaigns of a tour come on stage.  Every operator   *)
(* works on a set E of eligible campaigns, with the bid (the price of one  *)
(* block) and the owner of each.                                           *)
(***************************************************************************)
EXTENDS Integers, FiniteSets, SequencesExt

CONSTANTS
  Block,        \* impressions per block: a bid is the price of one block
  Increment,    \* what the winner pays above the best rival
  ReservePrice, \* the price of a block nobody competes for
  MaxSlots      \* stage slots one campaign may get in a tour

ASSUME PricesAssumption ==
  /\ Block \in Nat \ {0} /\ MaxSlots \in Nat \ {0}
  /\ Increment \in Nat /\ ReservePrice \in Nat

RateOf(cpm) == cpm \div Block

\* Every bid not above one's own, as if own campaigns were rivals (compare Rivals).
AnyoneBelow(c, E, bid, owner) == {d \in E \ {c} : bid[d] <= bid[c]}

\* The second price of c among E: own campaigns are no rivals, a higher bid
\* is no rival, and nobody pays above the own bid.
Rivals(c, E, bid, owner) == {d \in E : owner[d] # owner[c] /\ bid[d] <= bid[c]}

Clearing(c, E, bid, owner) ==
  LET rivals == Rivals(c, E, bid, owner)
      second == IF rivals = {} THEN ReservePrice
                ELSE Max({bid[d] : d \in rivals}) + Increment
  IN  Min({bid[c], Max({second, ReservePrice})})

StageSlots(price, lowest) ==
  Min({MaxSlots, Max({1, (2 * price + lowest) \div (2 * lowest)})})

\* The numbers of a finite set in increasing order.
Nth(S, k) == CHOOSE n \in S : Cardinality({m \in S : m < n}) = k - 1
InOrder(S) == [k \in 1 .. Cardinality(S) |-> Nth(S, k)]

\* What is left of a sequence: the elements that are in E.
Only(s, E) ==
  LET at == InOrder({i \in DOMAIN s : s[i] \in E})
  IN  [k \in DOMAIN at |-> s[at[k]]]

\* When the publisher last saw c: 0 for never, else its place in "recent".
LastPick(c, recent) == Max({0} \cup {i \in DOMAIN recent : recent[i] = c})

Before(c, d, bid, recent) ==
  \/ bid[c] > bid[d]
  \/ bid[c] = bid[d] /\ LastPick(c, recent) <= LastPick(d, recent)

\* Every order the comparison of buildTour allows (a full tie is random).
Orders(E, bid, recent) ==
  {o \in SetToSeqs(E) :
     \A i, j \in DOMAIN o : i < j => Before(o[i], o[j], bid, recent)}

\* One slot after the other: those of order[i] are numbered from i * MaxSlots.
Slots(order, bid) ==
  UNION {{i * MaxSlots + j : j \in 0 .. StageSlots(bid[order[i]], bid[Last(order)]) - 1}
           : i \in DOMAIN order}

Tour(order, bid) ==
  LET slots == InOrder(Slots(order, bid))
  IN  [k \in DOMAIN slots |-> order[slots[k] \div MaxSlots]]

\* The tours the selector may go on with: what is left of the old one, or,
\* when nothing of it is eligible any more, a new one.
Continues(tour, E) == \E i \in DOMAIN tour : tour[i] \in E

NextTours(tour, E, bid, recent) ==
  IF Continues(tour, E) THEN {Only(tour, E)}
  ELSE {Tour(o, bid) : o \in Orders(E, bid, recent)}

Occurrences(s, c) == Cardinality({i \in DOMAIN s : s[i] = c})
=============================================================================
