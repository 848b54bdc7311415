--------------------------- MODULE AuctionProofs ---------------------------
(***************************************************************************)
(* Proofs about Auction, for every set of publishers, campaigns and pools. *)
(*                                                                         *)
(* Base is the inductive core: the types, that a campaign in the market    *)
(* has its pool, and that every advertiser owns what its undecided ads may *)
(* still cost.  Prices and the silence of the selector follow from it in   *)
(* every state.  How a step moves the sums an advertiser owes and a pool   *)
(* spent gives the two action properties about pool money.  CapInv and     *)
(* SlotInv strengthen the member's cap and the stage slots: the first      *)
(* counts with the day's impressions the deliveries that may still become  *)
(* some, the second counts with the live ads those whose slot has yet to   *)
(* come back.                                                              *)
(***************************************************************************)
EXTENDS Auction, TotalsProofs, SequenceTheorems, WellFoundedInduction

-----------------------------------------------------------------------------
(* Sets of numbers in order, and what is left of a sequence *)

LEMMA NthIs ==
  ASSUME NEW S \in SUBSET Nat, IsFiniteSet(S), NEW k \in 1 .. Cardinality(S)
  PROVE  Nth(S, k) \in S /\ Cardinality({m \in S : m < Nth(S, k)}) = k - 1
<1> DEFINE below(n) == {m \in S : m < n}
           rank == [n \in S |-> Cardinality(below(n))]
<1>1. Cardinality(S) \in Nat
  BY FS_CardinalityType
<1>2. ASSUME NEW n \in S
      PROVE  IsFiniteSet(below(n)) /\ Cardinality(below(n)) \in 0 .. Cardinality(S) - 1
  <2>1. below(n) \subseteq S \ {n}
    OBVIOUS
  <2>2. IsFiniteSet(S \ {n}) /\ Cardinality(S \ {n}) = Cardinality(S) - 1
    BY FS_RemoveElement
  <2>3. IsFiniteSet(below(n)) /\ Cardinality(below(n)) <= Cardinality(S \ {n})
    BY <2>1, <2>2, FS_Subset
  <2>4. Cardinality(below(n)) \in Nat
    BY <2>3, FS_CardinalityType
  <2> HIDE DEF below
  <2>5. QED
    BY <1>1, <2>2, <2>3, <2>4
<1>3. ASSUME NEW n \in S, NEW m \in S, n < m
      PROVE  Cardinality(below(n)) < Cardinality(below(m))
  <2>1. below(n) \cup {n} \subseteq below(m) /\ n \notin below(n)
    <3>1. n \in Nat /\ m \in Nat /\ \A l \in S : l \in Nat
      OBVIOUS
    <3>2. \A l \in S : l < n => l < m
      BY <1>3, <3>1
    <3>3. n \notin below(n)
      <4>1. ~(n < n)
        BY <3>1
      <4>2. QED
        BY <4>1
    <3>4. below(n) \subseteq below(m)
      BY <3>2
    <3>5. n \in below(m)
      BY <1>3
    <3>6. QED
      BY <3>3, <3>4, <3>5
  <2>2. Cardinality(below(n) \cup {n}) = Cardinality(below(n)) + 1
    BY <1>2, <2>1, FS_AddElement
  <2>3. Cardinality(below(n) \cup {n}) <= Cardinality(below(m))
    BY <1>2, <2>1, FS_Subset
  <2>4. Cardinality(below(n)) \in Nat /\ Cardinality(below(m)) \in Nat
    BY <1>2
  <2> HIDE DEF below
  <2>5. QED
    BY <2>2, <2>3, <2>4
<1>4. rank \in Injection(S, 0 .. Cardinality(S) - 1)
  <2>1. rank \in [S -> 0 .. Cardinality(S) - 1]
    BY <1>2
  <2>2. ASSUME NEW n \in S, NEW m \in S, rank[n] = rank[m] PROVE n = m
    <3>1. n \in Nat /\ m \in Nat /\ rank[n] = Cardinality(below(n)) /\ rank[m] = Cardinality(below(m))
      OBVIOUS
    <3>2. Cardinality(below(n)) \in Nat /\ Cardinality(below(m)) \in Nat
      BY <1>2
    <3> HIDE DEF below, rank
    <3>3. Cardinality(below(n)) = Cardinality(below(m))
      BY <2>2, <3>1
    <3>4. ~(n < m)
      BY <1>3, <3>2, <3>3
    <3>5. ~(m < n)
      BY <1>3, <3>2, <3>3
    <3>6. QED
      BY <3>1, <3>4, <3>5
  <2> HIDE DEF rank
  <2>3. QED
    BY <2>1, <2>2 DEF Injection, IsInjective
<1>5. /\ IsFiniteSet(0 .. Cardinality(S) - 1)
      /\ Cardinality(0 .. Cardinality(S) - 1) = Cardinality(S)
  <2>1. PICK b \in Int : b = Cardinality(S) - 1 /\ b >= 0
    BY <1>1
  <2>2. IsFiniteSet(0 .. b) /\ Cardinality(0 .. b) = b - 0 + 1
    BY <2>1, FS_Interval
  <2>3. QED
    BY <1>1, <2>1, <2>2
<1>6. rank \in Surjection(S, 0 .. Cardinality(S) - 1)
  <2> HIDE DEF rank
  <2>1. QED
    BY <1>4, <1>5, FS_Injection
<1>7. k - 1 \in 0 .. Cardinality(S) - 1
  BY <1>1
<1>8. PICK n \in S : rank[n] = k - 1
  <2> HIDE DEF rank
  <2>1. QED
    BY <1>6, <1>7 DEF Surjection
<1>9. \E m \in S : Cardinality({l \in S : l < m}) = k - 1
  BY <1>8
<1>10. QED
  BY <1>9 DEF Nth

LEMMA InOrderIs ==
  ASSUME NEW S \in SUBSET Nat, IsFiniteSet(S)
  PROVE  /\ Cardinality(S) \in Nat
         /\ InOrder(S) \in [1 .. Cardinality(S) -> S]
         /\ \A j, k \in 1 .. Cardinality(S) : InOrder(S)[j] = InOrder(S)[k] => j = k
<1>1. Cardinality(S) \in Nat
  BY FS_CardinalityType
<1>2. ASSUME NEW j \in 1 .. Cardinality(S), NEW k \in 1 .. Cardinality(S), Nth(S, j) = Nth(S, k)
      PROVE  j = k
  <2>1. j - 1 = k - 1
    BY <1>2, NthIs
  <2>2. QED
    BY <1>1, <2>1
<1>3. QED
  BY <1>1, <1>2, NthIs DEF InOrder

LEMMA OccurrencesFinite ==
  ASSUME NEW T, NEW s \in Seq(T), NEW c
  PROVE  /\ IsFiniteSet({i \in DOMAIN s : s[i] = c})
         /\ Occurrences(s, c) \in Nat
<1>1. Len(s) \in Nat /\ DOMAIN s = 1 .. Len(s)
  BY LenProperties
<1>2. IsFiniteSet(DOMAIN s)
  BY <1>1, FS_Interval
<1>3. IsFiniteSet({i \in DOMAIN s : s[i] = c})
  BY <1>2, FS_Subset
<1>4. QED
  BY <1>3, FS_CardinalityType DEF Occurrences

LEMMA OnlyIs ==
  ASSUME NEW T, NEW s \in Seq(T), NEW E
  PROVE  /\ Only(s, E) \in Seq(T)
         /\ \A i \in DOMAIN Only(s, E) : Only(s, E)[i] \in E
         /\ Continues(s, E) => Only(s, E) # <<>>
         /\ \A c : Occurrences(Only(s, E), c) <= Occurrences(s, c)
<1> DEFINE P == {i \in DOMAIN s : s[i] \in E}
           at == InOrder(P)
           o == [k \in DOMAIN at |-> s[at[k]]]
<1>1. Len(s) \in Nat /\ DOMAIN s = 1 .. Len(s) /\ s \in [1 .. Len(s) -> T]
  BY LenProperties
<1>2. IsFiniteSet(P) /\ P \in SUBSET Nat
  <2>1. IsFiniteSet(DOMAIN s)
    BY <1>1, FS_Interval
  <2>2. P \subseteq DOMAIN s
    OBVIOUS
  <2>3. QED
    BY <1>1, <2>1, <2>2, FS_Subset
<1>3. /\ Cardinality(P) \in Nat /\ at \in [1 .. Cardinality(P) -> P]
      /\ \A j, k \in 1 .. Cardinality(P) : at[j] = at[k] => j = k
  <2> HIDE DEF P
  <2>1. QED
    BY <1>2, InOrderIs
<1>4. \A i \in P : i \in DOMAIN s /\ s[i] \in E /\ s[i] \in T
  BY <1>1
<1>5. Only(s, E) = o
  BY DEF Only
<1> HIDE DEF P, at
<1>6. o \in [1 .. Cardinality(P) -> T] /\ \A i \in DOMAIN o : o[i] \in E
  BY <1>3, <1>4
<1>7. o \in Seq(T)
  BY <1>3, <1>6
<1>8. Continues(s, E) => o # <<>>
  <2>1. SUFFICES ASSUME Continues(s, E) PROVE o # <<>>
    OBVIOUS
  <2>2. P # {}
    BY <2>1 DEF P, Continues
  <2>3. Cardinality(P) # 0
    BY <1>2, <2>2, FS_EmptySet
  <2>4. 1 \in DOMAIN o
    BY <1>3, <2>3
  <2>5. QED
    BY <2>4
<1>9. ASSUME NEW c PROVE Occurrences(o, c) <= Occurrences(s, c)
  <2> DEFINE A == {k \in DOMAIN o : o[k] = c}
             B == {i \in DOMAIN s : s[i] = c}
             f == [k \in A |-> at[k]]
  <2>1. f \in Injection(A, B)
    <3>1. \A k \in A : k \in 1 .. Cardinality(P) /\ at[k] \in DOMAIN s /\ s[at[k]] = c
      BY <1>3, <1>4
    <3>2. QED
      BY <1>3, <3>1 DEF Injection, IsInjective
  <2>2. IsFiniteSet(B)
    BY OccurrencesFinite
  <2> HIDE DEF A, B, f
  <2>3. Cardinality(A) <= Cardinality(B)
    BY <2>1, <2>2, FS_Injection
  <2>4. QED
    BY <2>3 DEF A, B, Occurrences
<1>10. QED
  BY <1>5, <1>6, <1>7, <1>8, <1>9

LEMMA OccurrencesJoined ==
  ASSUME NEW T, NEW s \in Seq(T), NEW t \in Seq(T), NEW c
  PROVE  Occurrences(s \o t, c) <= Occurrences(s, c) + Occurrences(t, c)
<1> DEFINE u == s \o t
           A == {i \in DOMAIN s : s[i] = c}
           B == {i \in DOMAIN t : t[i] = c}
           shift == [i \in B |-> Len(s) + i]
           moved == {Len(s) + i : i \in B}
<1>1. /\ Len(s) \in Nat /\ DOMAIN s = 1 .. Len(s)
      /\ Len(t) \in Nat /\ DOMAIN t = 1 .. Len(t)
  BY LenProperties
<1>2. /\ DOMAIN u = 1 .. Len(s) + Len(t)
      /\ \A i \in 1 .. Len(s) + Len(t) : u[i] = IF i <= Len(s) THEN s[i] ELSE t[i - Len(s)]
  BY ConcatProperties, LenProperties
<1>3. IsFiniteSet(A) /\ IsFiniteSet(B)
  BY OccurrencesFinite
<1>4. shift \in Surjection(B, moved)
  BY DEF Surjection
<1>5. IsFiniteSet(moved) /\ Cardinality(moved) <= Cardinality(B)
  <2> HIDE DEF B, shift, moved
  <2>1. QED
    BY <1>3, <1>4, FS_Surjection
<1> DEFINE C == {i \in DOMAIN u : u[i] = c}
<1>6. C \subseteq A \cup moved
  <2>1. SUFFICES ASSUME NEW i \in C PROVE i \in A \cup moved
    OBVIOUS
  <2>2. i \in 1 .. Len(s) + Len(t) /\ u[i] = c
    BY <1>2
  <2> HIDE DEF u
  <2>3. CASE i <= Len(s)
    BY <1>1, <1>2, <2>2, <2>3
  <2>4. CASE ~(i <= Len(s))
    <3>1. i - Len(s) \in B /\ i = Len(s) + (i - Len(s))
      BY <1>1, <1>2, <2>2, <2>4
    <3>2. QED
      BY <3>1
  <2>5. QED
    BY <2>3, <2>4
<1>7. Cardinality(A) \in Nat /\ Cardinality(B) \in Nat /\ Cardinality(moved) \in Nat
  BY <1>3, <1>5, FS_CardinalityType
<1> HIDE DEF A, B, C, moved, u
<1>8. /\ IsFiniteSet(A \cup moved)
      /\ Cardinality(A \cup moved) = Cardinality(A) + Cardinality(moved) - Cardinality(A \cap moved)
  BY <1>3, <1>5, FS_Union
<1>9. Cardinality(A \cap moved) \in Nat
  BY <1>3, FS_Intersection, FS_CardinalityType
<1>10. IsFiniteSet(C) /\ Cardinality(C) <= Cardinality(A \cup moved)
  BY <1>6, <1>8, FS_Subset
<1>11. Cardinality(C) \in Nat
  BY <1>10, FS_CardinalityType
<1>12. Cardinality(C) <= Cardinality(A) + Cardinality(B)
  BY <1>5, <1>7, <1>8, <1>9, <1>10, <1>11
<1>13. QED
  BY <1>12 DEF A, B, C, u, Occurrences

LEMMA OccurrencesTail ==
  ASSUME NEW T, NEW s \in Seq(T), s # <<>>, NEW c
  PROVE  /\ Occurrences(Tail(s), c) <= Occurrences(s, c)
         /\ c = Head(s) => Occurrences(Tail(s), c) + 1 <= Occurrences(s, c)
<1> DEFINE t == Tail(s)
           A == {i \in DOMAIN t : t[i] = c}
           B == {i \in DOMAIN s : s[i] = c}
           up == [i \in A |-> i + 1]
<1>1. /\ t \in Seq(T) /\ Len(t) = Len(s) - 1 /\ Len(s) \in Nat /\ Len(t) \in Nat
      /\ DOMAIN t = 1 .. Len(t) /\ DOMAIN s = 1 .. Len(s)
      /\ \A i \in 1 .. Len(t) : t[i] = s[i + 1]
  BY HeadTailProperties, LenProperties
<1>2. Len(s) # 0 /\ Head(s) = s[1]
  BY EmptySeq
<1>3. IsFiniteSet(A) /\ IsFiniteSet(B)
  BY <1>1, OccurrencesFinite
<1>4. up \in Injection(A, B \ {1})
  <2> HIDE DEF t
  <2>1. \A i \in A : i \in Nat /\ i + 1 \in B \ {1}
    BY <1>1
  <2>2. QED
    BY <2>1 DEF Injection, IsInjective
<1>5. /\ IsFiniteSet(B \ {1})
      /\ Cardinality(B \ {1}) = IF 1 \in B THEN Cardinality(B) - 1 ELSE Cardinality(B)
  BY <1>3, FS_RemoveElement
<1>6. Cardinality(A) \in Nat /\ Cardinality(B) \in Nat
  BY <1>3, FS_CardinalityType
<1>7. c = Head(s) => 1 \in B
  BY <1>1, <1>2
<1> HIDE DEF A, B, up
<1>8. Cardinality(A) <= Cardinality(B \ {1})
  BY <1>4, <1>5, FS_Injection
<1>9. /\ Cardinality(A) <= Cardinality(B)
      /\ c = Head(s) => Cardinality(A) + 1 <= Cardinality(B)
  BY <1>5, <1>6, <1>7, <1>8
<1>10. QED
  BY <1>9 DEF A, B, Occurrences

-----------------------------------------------------------------------------
(* The second price *)

\* A finite set of numbers has a greatest element.
LEMMA Highest ==
  ASSUME NEW S \in SUBSET Nat, IsFiniteSet(S), S # {}
  PROVE  Max(S) \in S /\ \A y \in S : Max(S) >= y
<1>1. Cardinality(S) \in Nat /\ Cardinality(S) # 0
  BY FS_CardinalityType, FS_EmptySet
<1>2. PICK n \in 1 .. Cardinality(S) : n = Cardinality(S)
  BY <1>1
<1>3. PICK x : x = Nth(S, n)
  OBVIOUS
<1>4. x \in S /\ Cardinality({m \in S : m < x}) = Cardinality(S) - 1
  BY <1>2, <1>3, NthIs
<1>5. ASSUME NEW y \in S, y > x
      PROVE  FALSE
  <2> DEFINE A == {m \in S : m < x}
  <2>1. x \in Nat /\ y \in Nat
    BY <1>4
  <2>2. A \subseteq (S \ {x}) \ {y}
    BY <1>5, <2>1
  <2>3. IsFiniteSet(S \ {x}) /\ Cardinality(S \ {x}) = Cardinality(S) - 1
    BY <1>4, FS_RemoveElement
  <2>4. y \in S \ {x}
    BY <1>5, <2>1
  <2>5. IsFiniteSet((S \ {x}) \ {y}) /\ Cardinality((S \ {x}) \ {y}) = Cardinality(S) - 1 - 1
    BY <2>3, <2>4, FS_RemoveElement
  <2>6. Cardinality(A) <= Cardinality((S \ {x}) \ {y})
    BY <2>2, <2>5, FS_Subset
  <2> HIDE DEF A
  <2>7. Cardinality(A) = Cardinality(S) - 1
    BY <1>4 DEF A
  <2>8. QED
    BY <1>1, <2>5, <2>6, <2>7
<1>6. \A y \in S : x >= y
  <2>1. TAKE y \in S
  <2>2. x \in Nat /\ y \in Nat /\ ~(y > x)
    BY <1>4, <1>5
  <2>3. QED
    BY <2>2
<1>7. \E m \in S : \A y \in S : m >= y
  BY <1>4, <1>6
<1>8. QED
  BY <1>7 DEF Max

LEMMA LargerOf ==
  ASSUME NEW a \in Int, NEW b \in Int
  PROVE  Max({a, b}) = IF a >= b THEN a ELSE b
<1> DEFINE m == IF a >= b THEN a ELSE b
<1>1. m \in {a, b} /\ \A y \in {a, b} : m >= y
  OBVIOUS
<1>2. \A x \in {a, b} : (\A y \in {a, b} : x >= y) => x = m
  OBVIOUS
<1> HIDE DEF m
<1>3. Max({a, b}) = m
  BY <1>1, <1>2 DEF Max
<1>4. QED
  BY <1>3 DEF m

LEMMA SmallerOf ==
  ASSUME NEW a \in Int, NEW b \in Int
  PROVE  Min({a, b}) = IF a <= b THEN a ELSE b
<1> DEFINE m == IF a <= b THEN a ELSE b
<1>1. m \in {a, b} /\ \A y \in {a, b} : m <= y
  OBVIOUS
<1>2. \A x \in {a, b} : (\A y \in {a, b} : x <= y) => x = m
  OBVIOUS
<1> HIDE DEF m
<1>3. Min({a, b}) = m
  BY <1>1, <1>2 DEF Min
<1>4. QED
  BY <1>3 DEF m

\* What a campaign pays: the reserve price without a rival, else the highest
\* bid of a rival and the increment, at most its own bid.
LEMMA ClearingIs ==
  ASSUME NEW E, IsFiniteSet(E), NEW bid \in [E -> Nat], NEW owner,
         \A d \in E : bid[d] >= ReservePrice, NEW c \in E
  PROVE  \/ Rivals(c, E, bid, owner) = {} /\ Clearing(c, E, bid, owner) = ReservePrice
         \/ \E d \in Rivals(c, E, bid, owner) :
              /\ \A e \in Rivals(c, E, bid, owner) : bid[e] <= bid[d]
              /\ Clearing(c, E, bid, owner) =
                   IF bid[d] + Increment <= bid[c] THEN bid[d] + Increment ELSE bid[c]
<1> DEFINE R == Rivals(c, E, bid, owner)
           bids == {bid[d] : d \in R}
           second == IF R = {} THEN ReservePrice ELSE Max(bids) + Increment
<1>1. R \subseteq E
  BY DEF Rivals
<1>2. ReservePrice \in Nat /\ Increment \in Nat /\ bid[c] \in Nat /\ bid[c] >= ReservePrice
  BY PricesAssumption
<1>3. Clearing(c, E, bid, owner) = Min({bid[c], Max({second, ReservePrice})})
  BY DEF Clearing
<1> HIDE DEF R, bids
<1>4. CASE R = {}
  <2>1. second = ReservePrice
    BY <1>4
  <2>2. Max({second, ReservePrice}) = ReservePrice
    BY <1>2, <2>1, LargerOf
  <2>3. Min({bid[c], ReservePrice}) = ReservePrice
    BY <1>2, SmallerOf
  <2>4. QED
    BY <1>3, <1>4, <2>2, <2>3 DEF R
<1>5. CASE R # {}
  <2>1. IsFiniteSet(R)
    BY <1>1, FS_Subset
  <2>2. IsFiniteSet(bids) /\ bids \in SUBSET Nat /\ bids # {}
    <3>1. [d \in R |-> bid[d]] \in Surjection(R, bids)
      BY DEF Surjection, bids
    <3>2. IsFiniteSet(bids)
      BY <2>1, <3>1, FS_Surjection
    <3>3. QED
      BY <1>1, <1>5, <3>2 DEF bids
  <2>3. Max(bids) \in bids /\ \A y \in bids : Max(bids) >= y
    BY <2>2, Highest
  <2>4. PICK d \in R : Max(bids) = bid[d]
    BY <2>3 DEF bids
  <2>5. \A e \in R : bid[e] <= bid[d]
    <3>1. TAKE e \in R
    <3>2. bid[e] \in bids /\ bid[e] \in Nat /\ bid[d] \in Nat
      BY <1>1 DEF bids
    <3>3. QED
      BY <2>3, <2>4, <3>2
  <2>6. bid[d] \in Nat /\ bid[d] >= ReservePrice
    BY <1>1
  <2>7. second = bid[d] + Increment /\ second \in Nat /\ second >= ReservePrice
    BY <1>2, <1>5, <2>4, <2>6
  <2> HIDE DEF second
  <2>8. Max({second, ReservePrice}) = second
    BY <1>2, <2>7, LargerOf
  <2>9. Min({bid[c], second}) = IF bid[c] <= second THEN bid[c] ELSE second
    BY <1>2, <2>7, SmallerOf
  <2>10. Clearing(c, E, bid, owner) =
           IF bid[d] + Increment <= bid[c] THEN bid[d] + Increment ELSE bid[c]
    BY <1>2, <1>3, <2>6, <2>7, <2>8, <2>9
  <2>11. QED
    BY <2>5, <2>10 DEF R
<1>6. QED
  BY <1>4, <1>5

LEMMA ClearingBounds ==
  ASSUME NEW E, IsFiniteSet(E), NEW bid \in [E -> Nat], NEW owner,
         \A d \in E : bid[d] >= ReservePrice, NEW c \in E
  PROVE  Clearing(c, E, bid, owner) \in Nat /\ Clearing(c, E, bid, owner) <= bid[c]
<1>1. ReservePrice \in Nat /\ Increment \in Nat /\ bid[c] \in Nat /\ bid[c] >= ReservePrice
  BY PricesAssumption
<1>2. CASE Clearing(c, E, bid, owner) = ReservePrice
  BY <1>1, <1>2
<1>3. CASE \E d \in Rivals(c, E, bid, owner) :
             Clearing(c, E, bid, owner) =
               IF bid[d] + Increment <= bid[c] THEN bid[d] + Increment ELSE bid[c]
  <2>1. PICK d \in E : Clearing(c, E, bid, owner) =
               IF bid[d] + Increment <= bid[c] THEN bid[d] + Increment ELSE bid[c]
    BY <1>3 DEF Rivals
  <2>2. bid[d] \in Nat
    BY <2>1
  <2>3. QED
    BY <1>1, <2>1, <2>2
<1>4. QED
  BY <1>2, <1>3, ClearingIs

\* Of two campaigns the one that bids more does not pay less.
LEMMA ClearingMonotone ==
  ASSUME NEW E, IsFiniteSet(E), NEW bid \in [E -> Nat], NEW owner,
         \A d \in E : bid[d] >= ReservePrice,
         NEW c \in E, NEW d \in E, bid[c] > bid[d]
  PROVE  Clearing(c, E, bid, owner) >= Clearing(d, E, bid, owner)
<1> DEFINE P(x) == Clearing(x, E, bid, owner)
<1>1. ReservePrice \in Nat /\ Increment \in Nat /\ bid[c] \in Nat /\ bid[d] \in Nat
  BY PricesAssumption
<1>2. P(c) \in Nat /\ P(d) \in Nat /\ P(d) <= bid[d]
  BY ClearingBounds
<1>3. CASE owner[c] # owner[d]
  <2>1. d \in Rivals(c, E, bid, owner)
    BY <1>1, <1>3 DEF Rivals
  <2>2. PICK e \in Rivals(c, E, bid, owner) :
          /\ \A x \in Rivals(c, E, bid, owner) : bid[x] <= bid[e]
          /\ P(c) = IF bid[e] + Increment <= bid[c] THEN bid[e] + Increment ELSE bid[c]
    BY <2>1, ClearingIs
  <2>3. bid[e] \in Nat /\ bid[d] <= bid[e]
    BY <2>1, <2>2 DEF Rivals
  <2> HIDE DEF P
  <2>4. P(c) >= bid[d]
    BY <1>1, <1>2, <2>2, <2>3
  <2>5. QED
    BY <1>1, <1>2, <2>4 DEF P
<1>4. CASE owner[c] = owner[d]
  <2>1. Rivals(d, E, bid, owner) \subseteq Rivals(c, E, bid, owner)
    <3>1. SUFFICES ASSUME NEW x \in E, owner[x] # owner[d], bid[x] <= bid[d]
                   PROVE  bid[x] <= bid[c]
      BY <1>4 DEF Rivals
    <3>2. QED
      BY <1>1, <3>1
  <2>2. CASE Rivals(d, E, bid, owner) = {}
    <3>1. P(d) = ReservePrice
      BY <2>2, ClearingIs
    <3>2. CASE P(c) = ReservePrice
      BY <1>2, <3>1, <3>2
    <3>3. CASE \E e \in E :
                 P(c) = IF bid[e] + Increment <= bid[c] THEN bid[e] + Increment ELSE bid[c]
      <4>1. PICK e \in E :
                 P(c) = IF bid[e] + Increment <= bid[c] THEN bid[e] + Increment ELSE bid[c]
        BY <3>3
      <4>2. bid[e] \in Nat /\ bid[e] >= ReservePrice /\ bid[c] >= ReservePrice
        BY <4>1
      <4> HIDE DEF P
      <4>3. P(c) >= P(d)
        BY <1>1, <3>1, <4>1, <4>2
      <4>4. QED
        BY <4>3 DEF P
    <3>4. Rivals(c, E, bid, owner) \subseteq E
      BY DEF Rivals
    <3>5. QED
      BY <3>2, <3>3, <3>4, ClearingIs
  <2>3. CASE Rivals(d, E, bid, owner) # {}
    <3>1. PICK e \in Rivals(d, E, bid, owner) :
            P(d) = IF bid[e] + Increment <= bid[d] THEN bid[e] + Increment ELSE bid[d]
      BY <2>3, ClearingIs
    <3>2. PICK f \in Rivals(c, E, bid, owner) :
            /\ \A x \in Rivals(c, E, bid, owner) : bid[x] <= bid[f]
            /\ P(c) = IF bid[f] + Increment <= bid[c] THEN bid[f] + Increment ELSE bid[c]
      BY <2>1, <2>3, ClearingIs
    <3>3. bid[e] \in Nat /\ bid[f] \in Nat /\ bid[e] <= bid[f]
      BY <2>1, <3>1, <3>2 DEF Rivals
    <3> HIDE DEF P
    <3>4. P(c) >= P(d)
      BY <1>1, <3>1, <3>2, <3>3
    <3>5. QED
      BY <3>4 DEF P
  <2>4. QED
    BY <2>2, <2>3
<1>5. QED
  BY <1>3, <1>4

\* Own campaigns do not count.
LEMMA ClearingWithoutOwn ==
  ASSUME NEW E, NEW F \in SUBSET E, NEW bid, NEW owner, NEW low, NEW holder, NEW c \in F,
         \A d \in F : bid[d] = low[d] /\ owner[d] = holder[d],
         \A d \in E \ F : owner[d] = owner[c]
  PROVE  Clearing(c, E, bid, owner) = Clearing(c, F, low, holder)
<1>1. Rivals(c, E, bid, owner) = Rivals(c, F, low, holder)
  BY DEF Rivals
<1>2. \A d \in Rivals(c, E, bid, owner) : bid[d] = low[d]
  BY <1>1 DEF Rivals
<1>3. {bid[d] : d \in Rivals(c, E, bid, owner)} = {low[d] : d \in Rivals(c, F, low, holder)}
  BY <1>1, <1>2
<1>4. QED
  BY <1>1, <1>3 DEF Clearing

-----------------------------------------------------------------------------
(* The stores *)

MarketOK ==
  /\ status \in [Campaigns -> {"none", "paused", "active"}]
  /\ entry \in [Projects -> Entry \cup {None}]
  /\ pool \in [Pools -> {"none", "open", "closed"}] /\ budget \in [Pools -> Nat]
  /\ member \in [Publishers -> Pools \cup {None}]
  /\ asked \in [Publishers \X Pools -> 0 .. MaxRequests]

StageOK ==
  /\ tour \in [Publishers -> Seq(Campaigns)] /\ recent \in [Publishers -> Seq(Campaigns)]
  /\ built \in [Publishers -> [Campaigns -> Nat]]

AdsOK == ads \in Seq(Ad) /\ returned \subseteq held /\ held \subseteq DOMAIN ads

BalanceOK == balance \in [Advertisers -> Nat]

TimesOK == clock \in Nat /\ edits \in Nat /\ restarts \in Nat

LEMMA TypeParts ==
  /\ MarketOK /\ StageOK /\ AdsOK /\ BalanceOK => TypeOK
  /\ TypeOK => MarketOK /\ AdsOK /\ BalanceOK
BY DEF MarketOK, StageOK, AdsOK, BalanceOK, TypeOK

\* A project that is served or was ever shown has its entry.
EntriesKnown ==
  /\ \A c \in Projects : status[c] # "none" => entry[c] # None
  /\ \A n \in DOMAIN ads : ads[n].camp \in Projects => entry[ads[n].camp] # None

\* Nothing was reported in the future.
ReportedInPast == \A n \in DOMAIN ads : ads[n].at <= clock

\* The ads an advertiser may still have to pay.
Payer(n) == Owner(ads[n].camp)
Exposed(a) == {n \in DOMAIN ads : Payer(n) = a /\ (Live(n) \/ Waiting(n))}

\* What an advertiser has promised is on its account.
Covered == \A a \in Advertisers : RateSum(Exposed(a)) <= balance[a]

Constants ==
  /\ IsFiniteSet(Campaigns) /\ IsFiniteSet(Pools)
  /\ None \notin Pools /\ None \notin Entry
  /\ NonceTtl \in Nat /\ GcAfter \in Nat /\ DayLen \in Nat \ {0} /\ Block \in Nat \ {0}
  /\ Budgets \subseteq Nat /\ Amounts \subseteq Nat /\ MaxRequests \in Nat

LEMMA ConstantsSound == Constants
<1>1. IsFiniteSet(Ads \cup Projects)
  BY MarketAssumption, FS_Union
<1>2. QED
  BY <1>1, MarketAssumption, TimesAssumption, PricesAssumption DEF Constants, Campaigns, Entry

LEMMA AdTyped ==
  ASSUME AdsOK, NEW n \in DOMAIN ads
  PROVE  /\ ads[n] \in Ad /\ ads[n].pub \in Publishers /\ ads[n].camp \in Campaigns
         /\ ads[n].rate \in Nat /\ ads[n].expires \in Nat /\ ads[n].at \in Nat
         /\ ads[n].state \in {"unreported", "pending", "verified", "rejected"}
         /\ n \in Nat /\ n \in 1 .. Len(ads)
<1>1. Len(ads) \in Nat /\ DOMAIN ads = 1 .. Len(ads)
  BY LenProperties DEF AdsOK
<1>2. ads[n] \in Ad
  BY <1>1, ElementOfSeq DEF AdsOK
<1>3. QED
  BY <1>1, <1>2 DEF Ad

\* A campaign that is in the market has an owner and a price.
LEMMA OwnerTyped ==
  ASSUME MarketOK, NEW c \in Campaigns, c \in Projects => entry[c] # None
  PROVE  /\ Owner(c) \in Advertisers /\ Bid(c) \in Nat /\ Bid(c) >= ReservePrice
         /\ c \in Projects => /\ entry[c] \in Entry
                              /\ PoolOfCampaign(c) \in Pools
                              /\ Owner(c) = Sponsor[PoolOfCampaign(c)]
                              /\ Bid(c) = PoolBid[PoolOfCampaign(c)]
         /\ c \notin Projects => c \in Ads /\ PoolOfCampaign(c) = None /\ Bid(c) = AdBid[c]
<1>1. CASE c \in Projects
  <2>1. entry[c] \in Entry /\ c \notin Ads
    BY <1>1, MarketAssumption DEF MarketOK
  <2>2. entry[c].pool \in Pools
    BY <2>1 DEF Entry
  <2>3. QED
    BY <1>1, <2>1, <2>2, MarketAssumption DEF Owner, Bid, PoolOfCampaign
<1>2. CASE c \notin Projects
  BY <1>2, MarketAssumption DEF Campaigns, Owner, Bid, PoolOfCampaign
<1>3. QED
  BY <1>1, <1>2

-----------------------------------------------------------------------------
(* Sums of rates *)

Rates(T, S) == Total([n \in S |-> T[n].rate])

LEMMA RatesTyped ==
  ASSUME NEW T \in Seq(Ad), NEW S \in SUBSET DOMAIN T
  PROVE  /\ IsFiniteSet(S) /\ [n \in S |-> T[n].rate] \in [S -> Nat]
         /\ Rates(T, S) \in Nat
<1>1. Len(T) \in Nat /\ DOMAIN T = 1 .. Len(T) /\ \A n \in DOMAIN T : T[n] \in Ad
  BY LenProperties, ElementOfSeq
<1>2. IsFiniteSet(DOMAIN T)
  BY <1>1, FS_Interval
<1>3. IsFiniteSet(S)
  BY <1>2, FS_Subset
<1>4. [n \in S |-> T[n].rate] \in [S -> Nat]
  BY <1>1 DEF Ad
<1>5. QED
  BY <1>3, <1>4, TotalType DEF Rates

LEMMA RatesOfFewer ==
  ASSUME NEW T \in Seq(Ad), NEW S \in SUBSET DOMAIN T, NEW R \in SUBSET S
  PROVE  Rates(T, R) <= Rates(T, S)
<1> DEFINE f == [n \in S |-> T[n].rate]
           g == [n \in R |-> T[n].rate]
<1>1. IsFiniteSet(S) /\ f \in [S -> Nat] /\ g \in [R -> Nat]
  BY RatesTyped
<1>2. \A n \in R : g[n] = f[n]
  OBVIOUS
<1> HIDE DEF f, g
<1>3. Total(g) <= Total(f)
  BY <1>1, <1>2, TotalOfFewer
<1>4. QED
  BY <1>3 DEF f, g, Rates

LEMMA RatesSplit ==
  ASSUME NEW T \in Seq(Ad), NEW S \in SUBSET DOMAIN T, NEW n \in S
  PROVE  Rates(T, S) = T[n].rate + Rates(T, S \ {n})
<1> DEFINE f == [m \in S |-> T[m].rate]
<1>1. IsFiniteSet(S) /\ f \in [S -> Nat]
  BY RatesTyped
<1>2. f[n] = T[n].rate /\ [m \in S \ {n} |-> f[m]] = [m \in S \ {n} |-> T[m].rate]
  OBVIOUS
<1> HIDE DEF f
<1>3. Total(f) = f[n] + Total([m \in S \ {n} |-> f[m]])
  BY <1>1, TotalSplit
<1>4. QED
  BY <1>2, <1>3 DEF Rates, f

\* The rates of two tables that agree.
LEMMA RatesSame ==
  ASSUME NEW T, NEW U, NEW S, \A n \in S : U[n].rate = T[n].rate
  PROVE  Rates(U, S) = Rates(T, S)
<1>1. [n \in S |-> U[n].rate] = [n \in S |-> T[n].rate]
  OBVIOUS
<1>2. QED
  BY <1>1 DEF Rates

LEMMA RateSumIs == ASSUME NEW S PROVE RateSum(S) = Rates(ads, S)
BY DEF RateSum, Rates

LEMMA SpendableIs ==
  ASSUME AdsOK, BalanceOK, NEW a \in Advertisers
  PROVE  /\ Exposed(a) \in SUBSET DOMAIN ads
         /\ RateSum(Exposed(a)) \in Nat /\ balance[a] \in Nat
         /\ Spendable(a) = IF balance[a] >= RateSum(Exposed(a))
                           THEN balance[a] - RateSum(Exposed(a)) ELSE 0
         /\ Spendable(a) \in Nat
<1>1. Exposed(a) \in SUBSET DOMAIN ads
  BY DEF Exposed
<1>2. RateSum(Exposed(a)) \in Nat
  BY <1>1, RatesTyped, RateSumIs DEF AdsOK
<1>3. balance[a] \in Nat
  BY DEF BalanceOK
<1>4. Spendable(a) = Max({0, balance[a] - RateSum(Exposed(a))})
  BY DEF Spendable, Exposed, Payer
<1>5. QED
  BY <1>1, <1>2, <1>3, <1>4, LargerOf

SpentAds(S) == {n \in Of(S) : Live(n) \/ Waiting(n) \/ Billed(n)}

LEMMA SpentIs ==
  ASSUME AdsOK, NEW S
  PROVE  /\ SpentAds(S) \in SUBSET DOMAIN ads
         /\ SpentOn(S) = RateSum(SpentAds(S)) /\ SpentOn(S) \in Nat
<1>1. SpentAds(S) \in SUBSET DOMAIN ads
  BY DEF SpentAds, Of
<1>2. SpentOn(S) = RateSum(SpentAds(S))
  BY DEF SpentOn, SpentAds
<1>3. QED
  BY <1>1, <1>2, RatesTyped, RateSumIs DEF AdsOK

OpenPools(a) == {k \in Pools : Sponsor[k] = a /\ pool[k] = "open"}

\* What is set aside for one pool.
SetAside(k) == Max({0, budget[k] - SpentOn(ProjectsOf(k))})

LEMMA ReserveIs ==
  ASSUME MarketOK, AdsOK, NEW a \in Advertisers
  PROVE  /\ IsFiniteSet(OpenPools(a)) /\ OpenPools(a) \subseteq Pools
         /\ \A k \in OpenPools(a) :
              /\ SetAside(k) \in Nat
              /\ SetAside(k) = IF budget[k] >= SpentOn(ProjectsOf(k))
                               THEN budget[k] - SpentOn(ProjectsOf(k)) ELSE 0
         /\ [k \in OpenPools(a) |-> SetAside(k)] \in [OpenPools(a) -> Nat]
         /\ PoolReserve(a) = Total([k \in OpenPools(a) |-> SetAside(k)])
         /\ PoolReserve(a) \in Nat
<1>1. OpenPools(a) \subseteq Pools
  BY DEF OpenPools
<1>2. IsFiniteSet(OpenPools(a))
  BY <1>1, ConstantsSound, FS_Subset DEF Constants
<1>3. ASSUME NEW k \in OpenPools(a)
      PROVE  /\ SetAside(k) \in Nat
             /\ SetAside(k) = IF budget[k] >= SpentOn(ProjectsOf(k))
                              THEN budget[k] - SpentOn(ProjectsOf(k)) ELSE 0
  <2>1. budget[k] \in Nat /\ SpentOn(ProjectsOf(k)) \in Nat
    BY <1>1, SpentIs DEF MarketOK
  <2>2. QED
    BY <2>1, LargerOf DEF SetAside
<1>4. [k \in OpenPools(a) |-> SetAside(k)] \in [OpenPools(a) -> Nat]
  BY <1>3
<1>5. PoolReserve(a) = Total([k \in OpenPools(a) |-> SetAside(k)])
  BY DEF PoolReserve, OpenPools, SetAside
<1>6. PoolReserve(a) \in Nat
  BY <1>2, <1>4, <1>5, TotalType
<1>7. QED
  BY <1>1, <1>2, <1>3, <1>4, <1>5, <1>6

LEMMA WithdrawableIs ==
  ASSUME MarketOK, AdsOK, BalanceOK, NEW a \in Advertisers
  PROVE  /\ Withdrawable(a) \in Nat /\ Withdrawable(a) <= Spendable(a)
         /\ Withdrawable(a) = IF Spendable(a) >= PoolReserve(a)
                              THEN Spendable(a) - PoolReserve(a) ELSE 0
<1>1. Spendable(a) \in Nat /\ PoolReserve(a) \in Nat
  BY SpendableIs, ReserveIs
<1>2. QED
  BY <1>1, LargerOf DEF Withdrawable

-----------------------------------------------------------------------------
(* Who is eligible, and at what price *)

LEMMA QuotientGrows ==
  ASSUME NEW x \in Nat, NEW y \in Nat, x <= y, NEW m \in Nat \ {0}
  PROVE  x \div m \in Nat /\ y \div m \in Nat /\ x \div m <= y \div m
<1> DEFINE q == x \div m
           r == y \div m
<1>1. /\ q \in Nat /\ r \in Nat
      /\ m * q <= x /\ y < m * (r + 1)
  OBVIOUS
<1>2. m * q < m * (r + 1)
  <2> HIDE DEF q, r
  <2>1. QED
    BY <1>1
<1>3. q < r + 1
  <2> HIDE DEF q, r
  <2>1. SUFFICES ASSUME q >= r + 1 PROVE FALSE
    BY <1>1
  <2>2. PICK d \in Nat : q = (r + 1) + d
    BY <1>1, <2>1
  <2>3. m * q = m * (r + 1) + m * d
    BY <1>1, <2>2
  <2>4. m * d \in Nat /\ m * (r + 1) \in Nat
    BY <1>1
  <2>5. QED
    BY <1>2, <2>3, <2>4
<1>4. q <= r
  <2> HIDE DEF q, r
  <2>1. QED
    BY <1>1, <1>3
<1>5. QED
  BY <1>1, <1>4

LEMMA RateTyped ==
  ASSUME NEW x \in Nat, NEW y \in Nat, x <= y
  PROVE  RateOf(x) \in Nat /\ RateOf(x) <= RateOf(y)
<1>1. Block \in Nat \ {0}
  BY PricesAssumption
<1>2. QED
  BY <1>1, QuotientGrows DEF RateOf

LEMMA EligibleIs ==
  ASSUME MarketOK, AdsOK, BalanceOK, EntriesKnown, NEW p \in Publishers
  PROVE  LET E == Eligible(p) IN
         /\ E \subseteq Campaigns /\ IsFiniteSet(E)
         /\ Bids(E) \in [E -> Nat] /\ \A d \in E : Bids(E)[d] >= ReservePrice
         /\ \A c \in E : /\ Owner(c) \in Advertisers /\ Bid(c) \in Nat /\ RateOf(Bid(c)) > 0
                         /\ SpendableFor(c) >= RateOf(Bid(c))
                         /\ c \in Projects =>
                              /\ entry[c] # None /\ PoolOf(p) \in Pools /\ PoolOf(p) = entry[c].pool
                              /\ Bid(c) = PoolBid[PoolOf(p)]
                              /\ PoolAllows(p, PoolOf(p), RateOf(Bid(c)))
                         /\ c \notin Projects => c \in Ads
         /\ \A c, d \in E : c \in Projects => d \in Projects
<1> DEFINE E == Eligible(p)
<1>1. E \subseteq Campaigns /\ IsFiniteSet(E)
  <2>1. E \subseteq Campaigns
    BY DEF Eligible
  <2>2. QED
    BY <2>1, ConstantsSound, FS_Subset DEF Constants
<1>2. ASSUME NEW c \in E
      PROVE  /\ c \in Campaigns /\ (c \in Projects => entry[c] # None)
             /\ PoolOfCampaign(c) = PoolOf(p)
             /\ RateOf(Bid(c)) > 0 /\ SpendableFor(c) >= RateOf(Bid(c))
             /\ c \in Projects => PoolAllows(p, PoolOf(p), RateOf(Bid(c)))
  BY DEF Eligible, EntriesKnown, Affordable
<1>3. ASSUME NEW c \in E
      PROVE  /\ Owner(c) \in Advertisers /\ Bid(c) \in Nat /\ Bid(c) >= ReservePrice
             /\ c \in Projects =>
                  /\ entry[c] # None /\ PoolOf(p) \in Pools /\ PoolOf(p) = entry[c].pool
                  /\ Bid(c) = PoolBid[PoolOf(p)]
             /\ c \notin Projects => c \in Ads /\ PoolOf(p) = None
  <2>1. /\ Owner(c) \in Advertisers /\ Bid(c) \in Nat /\ Bid(c) >= ReservePrice
        /\ c \in Projects => /\ PoolOfCampaign(c) \in Pools
                             /\ Bid(c) = PoolBid[PoolOfCampaign(c)]
        /\ c \notin Projects => c \in Ads /\ PoolOfCampaign(c) = None
    BY <1>2, OwnerTyped
  <2>2. c \in Projects => PoolOfCampaign(c) = entry[c].pool
    BY DEF PoolOfCampaign
  <2>3. QED
    BY <1>2, <2>1, <2>2
<1>4. \A c, d \in E : c \in Projects => d \in Projects
  BY <1>3, ConstantsSound DEF Constants
<1>5. Bids(E) \in [E -> Nat] /\ \A d \in E : Bids(E)[d] >= ReservePrice
  BY <1>3 DEF Bids
<1> HIDE DEF E
<1>6. QED
  BY <1>1, <1>2, <1>3, <1>4, <1>5 DEF E

LEMMA PriceBounds ==
  ASSUME MarketOK, AdsOK, BalanceOK, EntriesKnown, NEW p \in Publishers, NEW c \in Eligible(p)
  PROVE  /\ ClearingPrice(c, Eligible(p)) \in Nat
         /\ ClearingPrice(c, Eligible(p)) <= Bid(c)
         /\ RateOf(ClearingPrice(c, Eligible(p))) \in Nat
         /\ RateOf(ClearingPrice(c, Eligible(p))) <= RateOf(Bid(c))
<1> DEFINE E == Eligible(p)
<1>1. Bid(c) \in Nat /\ Bids(E)[c] = Bid(c)
  BY EligibleIs DEF Bids
<1>2. ClearingPrice(c, E) \in Nat /\ ClearingPrice(c, E) <= Bid(c)
  <2>1. CASE c \in Projects
    BY <1>1, <2>1 DEF ClearingPrice
  <2>2. CASE c \notin Projects
    <3>1. ClearingPrice(c, E) = Clearing(c, E, Bids(E), Owners(E))
      BY <2>2 DEF ClearingPrice
    <3>2. IsFiniteSet(E) /\ Bids(E) \in [E -> Nat] /\ \A d \in E : Bids(E)[d] >= ReservePrice
      BY EligibleIs
    <3> HIDE DEF E
    <3>3. c \in E
      BY DEF E
    <3>4. QED
      BY <1>1, <3>1, <3>2, <3>3, ClearingBounds
  <2>3. QED
    BY <2>1, <2>2
<1>3. QED
  BY <1>1, <1>2, RateTyped

LEMMA PricesFair ==
  ASSUME MarketOK, AdsOK, BalanceOK, EntriesKnown
  PROVE  FairPrices
<1> SUFFICES ASSUME NEW p \in Publishers, NEW c \in Eligible(p)
    PROVE LET E == Eligible(p)
              own == {d \in E \ {c} : Owner(d) = Owner(c)} IN
      /\ ClearingPrice(c, E) = ClearingPrice(c, E \ own)
      /\ ClearingPrice(c, E) <= Bid(c)
      /\ \A d \in E : Bid(c) > Bid(d) => ClearingPrice(c, E) >= ClearingPrice(d, E)
  BY DEF FairPrices
<1> DEFINE E == Eligible(p)
           own == {d \in E \ {c} : Owner(d) = Owner(c)}
<1>1. /\ IsFiniteSet(E) /\ Bids(E) \in [E -> Nat] /\ \A d \in E : Bids(E)[d] >= ReservePrice
      /\ \A x, d \in E : x \in Projects => d \in Projects
      /\ \A d \in E : Bid(d) \in Nat
  BY EligibleIs
<1>2. ClearingPrice(c, E) = ClearingPrice(c, E \ own)
  <2>1. CASE c \in Projects
    BY <2>1 DEF ClearingPrice
  <2>2. CASE c \notin Projects
    <3> DEFINE F == E \ own
    <3>1. c \in F /\ F \in SUBSET E
      OBVIOUS
    <3>2. \A d \in F : Bids(E)[d] = Bids(F)[d] /\ Owners(E)[d] = Owners(F)[d]
      BY DEF Bids, Owners
    <3>3. \A d \in E \ F : Owners(E)[d] = Owners(E)[c]
      BY DEF Owners
    <3> HIDE DEF F, E
    <3>4. Clearing(c, E, Bids(E), Owners(E)) = Clearing(c, F, Bids(F), Owners(F))
      BY <3>1, <3>2, <3>3, ClearingWithoutOwn
    <3>5. QED
      BY <2>2, <3>4 DEF ClearingPrice, F
  <2>3. QED
    BY <2>1, <2>2
<1>3. ClearingPrice(c, E) <= Bid(c)
  BY PriceBounds
<1>4. ASSUME NEW d \in E, Bid(c) > Bid(d)
      PROVE  ClearingPrice(c, E) >= ClearingPrice(d, E)
  <2>1. CASE c \in Projects
    <3>1. d \in Projects /\ Bid(c) \in Nat /\ Bid(d) \in Nat
      BY <1>1, <2>1
    <3>2. QED
      BY <1>4, <2>1, <3>1 DEF ClearingPrice
  <2>2. CASE c \notin Projects
    <3>1. d \notin Projects /\ c \in E
      BY <1>1, <2>2
    <3>2. Bids(E)[c] > Bids(E)[d]
      BY <1>4 DEF Bids
    <3> HIDE DEF E
    <3>3. Clearing(c, E, Bids(E), Owners(E)) >= Clearing(d, E, Bids(E), Owners(E))
      BY <1>1, <3>1, <3>2, ClearingMonotone
    <3>4. QED
      BY <2>2, <3>1, <3>3 DEF ClearingPrice
  <2>3. QED
    BY <2>1, <2>2
<1>5. QED
  BY <1>2, <1>3, <1>4

LEMMA SomebodyPays ==
  ASSUME MarketOK, AdsOK, BalanceOK, EntriesKnown
  PROVE  NeverSilent
<1> SUFFICES ASSUME NEW p \in Publishers, NEW c \in Eligible(p)
    PROVE SpendableFor(c) >= RateOf(ClearingPrice(c, Eligible(p)))
  BY DEF NeverSilent
<1>1. SpendableFor(c) >= RateOf(Bid(c)) /\ Owner(c) \in Advertisers /\ Bid(c) \in Nat
  BY EligibleIs
<1>2. SpendableFor(c) \in Nat
  BY <1>1, SpendableIs, WithdrawableIs DEF SpendableFor
<1>3. RateOf(Bid(c)) \in Nat
  BY <1>1, RateTyped
<1>4. QED
  BY <1>1, <1>2, <1>3, PriceBounds

-----------------------------------------------------------------------------
(* The tours *)

LEMMA QuotientIs ==
  ASSUME NEW i \in Nat, NEW m \in Nat \ {0}, NEW j \in 0 .. m - 1
  PROVE  (i * m + j) \div m = i
<1> DEFINE x == i * m + j
           q == x \div m
<1>1. x \in Nat /\ i * m \in Nat
  OBVIOUS
<1>2. q \in Nat /\ m * q <= x /\ x < m * q + m
  <2> HIDE DEF x
  <2>1. q \in Nat /\ m * q <= x /\ x < m * (q + 1)
    BY <1>1
  <2>2. m * (q + 1) = m * q + m
    BY <2>1
  <2>3. QED
    BY <2>1, <2>2
<1>3. x = m * i + j
  OBVIOUS
<1> HIDE DEF q, x
<1>4. CASE q > i
  <2>1. PICK d \in Nat : q = i + 1 + d
    BY <1>2, <1>4
  <2>2. m * q = m * i + m + m * d /\ m * d \in Nat /\ m * i \in Nat
    BY <2>1
  <2>3. QED
    BY <1>2, <1>3, <2>2
<1>5. CASE q < i
  <2>1. PICK d \in Nat : i = q + 1 + d
    BY <1>2, <1>5
  <2>2. m * i = m * q + m + m * d /\ m * d \in Nat /\ m * q \in Nat
    BY <1>2, <2>1
  <2>3. QED
    BY <1>2, <1>3, <2>2
<1>6. CASE q = i
  BY <1>6 DEF q, x
<1>7. QED
  BY <1>2, <1>4, <1>5, <1>6

LEMMA StageSlotsTyped ==
  ASSUME NEW price \in Nat, NEW lowest \in Nat \ {0}
  PROVE  StageSlots(price, lowest) \in 1 .. MaxSlots
<1> DEFINE q == (2 * price + lowest) \div (2 * lowest)
<1>1. q \in Nat /\ MaxSlots \in Nat \ {0}
  BY PricesAssumption
<1>2. StageSlots(price, lowest) = Min({MaxSlots, Max({1, q})})
  BY DEF StageSlots
<1> HIDE DEF q
<1>3. Max({1, q}) \in Nat /\ Max({1, q}) >= 1
  BY <1>1, LargerOf
<1>4. QED
  BY <1>1, <1>2, <1>3, SmallerOf

LEMMA TourIs ==
  ASSUME NEW E, IsFiniteSet(E), E # {}, NEW bid \in [E -> Nat \ {0}], NEW seen,
         NEW o \in Orders(E, bid, seen)
  PROVE  Tour(o, bid) \in Seq(E) /\ Tour(o, bid) # <<>>
<1> DEFINE n == Cardinality(E)
           slots(i) == StageSlots(bid[o[i]], bid[Last(o)])
           S == Slots(o, bid)
<1>1. n \in Nat /\ n # 0
  BY FS_CardinalityType, FS_EmptySet
<1>2. o \in [1 .. n -> E]
  BY DEF Orders, SetToSeqs
<1>3. o \in Seq(E) /\ Len(o) = n /\ DOMAIN o = 1 .. n /\ Last(o) \in E
  <2>1. o \in Seq(E) /\ DOMAIN o = 1 .. n
    BY <1>1, <1>2
  <2>2. Len(o) = n
    BY <1>1, <2>1, LenProperties
  <2>3. QED
    BY <1>1, <1>2, <2>1, <2>2 DEF Last
<1>4. MaxSlots \in Nat \ {0}
  BY PricesAssumption
<1>5. ASSUME NEW i \in 1 .. n PROVE slots(i) \in 1 .. MaxSlots
  <2>1. bid[o[i]] \in Nat /\ bid[Last(o)] \in Nat \ {0}
    BY <1>2, <1>3
  <2>2. QED
    BY <2>1, StageSlotsTyped
<1>6. S = UNION {{i * MaxSlots + j : j \in 0 .. slots(i) - 1} : i \in 1 .. n}
  BY <1>3 DEF Slots
<1> HIDE DEF S, slots
<1>7. ASSUME NEW s \in S
      PROVE  \E i \in 1 .. n, j \in 0 .. MaxSlots - 1 : s = i * MaxSlots + j
  <2>1. PICK i \in 1 .. n : \E j \in 0 .. slots(i) - 1 : s = i * MaxSlots + j
    BY <1>6
  <2>2. PICK j \in 0 .. slots(i) - 1 : s = i * MaxSlots + j
    BY <2>1
  <2>3. j \in 0 .. MaxSlots - 1
    BY <1>4, <1>5, <2>2
  <2>4. QED
    BY <2>2, <2>3
<1>8. IsFiniteSet(S) /\ S \in SUBSET Nat
  <2>1. n * MaxSlots + MaxSlots \in Nat
    BY <1>1, <1>4
  <2>2. ASSUME NEW s \in S PROVE s \in Nat /\ s <= n * MaxSlots + MaxSlots
    <3>1. PICK i \in 1 .. n, j \in 0 .. MaxSlots - 1 : s = i * MaxSlots + j
      BY <1>7
    <3>2. PICK d \in Nat : n = i + d
      BY <1>1
    <3>3. n * MaxSlots = i * MaxSlots + d * MaxSlots /\ d * MaxSlots \in Nat /\ i * MaxSlots \in Nat
      BY <1>4, <3>2
    <3>4. QED
      BY <1>4, <3>1, <3>3
  <2>3. QED
    BY <2>1, <2>2, FS_BoundedSetOfNaturals
<1>9. S # {}
  <2>1. 1 * MaxSlots + 0 \in S
    <3>1. 1 \in 1 .. n /\ 0 \in 0 .. slots(1) - 1
      BY <1>1, <1>4, <1>5
    <3>2. 1 * MaxSlots + 0 \in {1 * MaxSlots + j : j \in 0 .. slots(1) - 1}
      BY <3>1
    <3>3. QED
      BY <1>6, <3>1, <3>2
  <2>2. QED
    BY <2>1
<1>10. \A s \in S : s \div MaxSlots \in 1 .. n
  <2>1. TAKE s \in S
  <2>2. PICK i \in 1 .. n, j \in 0 .. MaxSlots - 1 : s = i * MaxSlots + j
    BY <1>7
  <2>3. s \div MaxSlots = i
    BY <1>1, <1>4, <2>2, QuotientIs
  <2>4. QED
    BY <2>2, <2>3
<1>11. /\ Cardinality(S) \in Nat /\ Cardinality(S) # 0
       /\ InOrder(S) \in [1 .. Cardinality(S) -> S]
  BY <1>8, <1>9, InOrderIs, FS_EmptySet
<1>12. Tour(o, bid) = [k \in 1 .. Cardinality(S) |-> o[InOrder(S)[k] \div MaxSlots]]
  BY <1>11 DEF Tour, S
<1>13. \A k \in 1 .. Cardinality(S) : o[InOrder(S)[k] \div MaxSlots] \in E
  BY <1>2, <1>10, <1>11
<1>14. Tour(o, bid) \in [1 .. Cardinality(S) -> E]
  BY <1>12, <1>13
<1>15. Tour(o, bid) \in Seq(E)
  BY <1>11, <1>14
<1>16. 1 \in DOMAIN Tour(o, bid)
  BY <1>11, <1>14
<1>17. QED
  BY <1>15, <1>16

LEMMA NextTourIs ==
  ASSUME NEW back \in Seq(Campaigns), NEW E \in SUBSET Campaigns, IsFiniteSet(E), E # {},
         NEW bid \in [E -> Nat \ {0}], NEW seen, NEW next \in NextTours(back, E, bid, seen)
  PROVE  /\ next \in Seq(Campaigns) /\ next # <<>> /\ Head(next) \in E
         /\ Continues(back, E) => \A c : Occurrences(next, c) <= Occurrences(back, c)
<1>1. CASE Continues(back, E)
  <2>1. next = Only(back, E)
    BY <1>1 DEF NextTours
  <2>2. /\ next \in Seq(Campaigns) /\ next # <<>> /\ \A i \in DOMAIN next : next[i] \in E
        /\ \A c : Occurrences(next, c) <= Occurrences(back, c)
    BY <1>1, <2>1, OnlyIs
  <2>3. Head(next) = next[1] /\ 1 \in DOMAIN next
    <3>1. Len(next) \in Nat \ {0} /\ DOMAIN next = 1 .. Len(next)
      BY <2>2, EmptySeq, LenProperties
    <3>2. QED
      BY <2>2, <3>1
  <2>4. QED
    BY <2>2, <2>3
<1>2. CASE ~Continues(back, E)
  <2>1. PICK o \in Orders(E, bid, seen) : next = Tour(o, bid)
    BY <1>2 DEF NextTours
  <2>2. next \in Seq(E) /\ next # <<>>
    BY <2>1, TourIs
  <2>3. Head(next) \in E
    BY <2>2, HeadTailProperties
  <2>4. next \in Seq(Campaigns)
    BY <2>2, SeqMonotonic
  <2>5. QED
    BY <1>2, <2>2, <2>3, <2>4
<1>3. QED
  BY <1>1, <1>2

LEMMA RestoredIs ==
  ASSUME AdsOK, NEW p
  PROVE  /\ Restored(p) \in SUBSET DOMAIN ads /\ Restored(p) \subseteq held
         /\ IsFiniteSet(Restored(p)) /\ Restored(p) \in SUBSET Nat
<1>1. Restored(p) \subseteq held /\ Restored(p) \in SUBSET DOMAIN ads
  BY DEF Restored, AdsOK
<1>2. IsFiniteSet(Restored(p))
  BY <1>1, RatesTyped DEF AdsOK
<1>3. QED
  BY <1>1, <1>2, AdTyped

LEMMA GiveBackIs ==
  ASSUME AdsOK, StageOK, NEW p \in Publishers
  PROVE  /\ GiveBack(p) \in Seq(Campaigns)
         /\ \A c : Occurrences(GiveBack(p), c)
                     <= Cardinality({n \in Restored(p) : ads[n].camp = c}) + Occurrences(tour[p], c)
<1> DEFINE R == Restored(p)
           lapsed == InOrder(R)
           front == [i \in DOMAIN lapsed |-> ads[lapsed[i]].camp]
<1>1. IsFiniteSet(R) /\ R \in SUBSET Nat /\ \A n \in R : ads[n].camp \in Campaigns
  BY RestoredIs, AdTyped
<1>2. /\ Cardinality(R) \in Nat /\ lapsed \in [1 .. Cardinality(R) -> R]
      /\ \A j, k \in 1 .. Cardinality(R) : lapsed[j] = lapsed[k] => j = k
  <2> HIDE DEF R
  <2>1. QED
    BY <1>1, InOrderIs
<1>3. GiveBack(p) = front \o tour[p] /\ tour[p] \in Seq(Campaigns)
  BY DEF GiveBack, StageOK
<1> HIDE DEF R, lapsed
<1>4. front \in [1 .. Cardinality(R) -> Campaigns]
  BY <1>1, <1>2
<1>5. front \in Seq(Campaigns)
  BY <1>2, <1>4
<1>6. ASSUME NEW c
      PROVE  Occurrences(front, c) <= Cardinality({n \in R : ads[n].camp = c})
  <2> DEFINE A == {i \in DOMAIN front : front[i] = c}
             B == {n \in R : ads[n].camp = c}
             f == [i \in A |-> lapsed[i]]
  <2>1. IsFiniteSet(B)
    BY <1>1, FS_Subset
  <2>2. f \in Injection(A, B)
    <3>1. \A i \in A : i \in 1 .. Cardinality(R) /\ lapsed[i] \in R /\ ads[lapsed[i]].camp = c
      BY <1>2
    <3>2. QED
      BY <1>2, <3>1 DEF Injection, IsInjective
  <2> HIDE DEF A, B, f
  <2>3. Cardinality(A) <= Cardinality(B)
    BY <2>1, <2>2, FS_Injection
  <2>4. QED
    BY <2>3 DEF A, B, Occurrences
<1> HIDE DEF front
<1>7. GiveBack(p) \in Seq(Campaigns)
  BY <1>3, <1>5, ConcatProperties
<1>8. ASSUME NEW c
      PROVE  Occurrences(GiveBack(p), c)
               <= Cardinality({n \in R : ads[n].camp = c}) + Occurrences(tour[p], c)
  <2>1. Occurrences(GiveBack(p), c) <= Occurrences(front, c) + Occurrences(tour[p], c)
    BY <1>3, <1>5, OccurrencesJoined
  <2>2. IsFiniteSet({n \in R : ads[n].camp = c})
    BY <1>1, FS_Subset
  <2>3. /\ Occurrences(GiveBack(p), c) \in Nat /\ Occurrences(front, c) \in Nat
        /\ Occurrences(tour[p], c) \in Nat /\ Cardinality({n \in R : ads[n].camp = c}) \in Nat
    BY <1>3, <1>5, <1>7, <2>2, OccurrencesFinite, FS_CardinalityType
  <2>4. QED
    BY <1>6, <2>1, <2>3
<1>9. QED
  BY <1>7, <1>8 DEF R

-----------------------------------------------------------------------------
(* What a step does to the ads *)

Base ==
  /\ MarketOK /\ StageOK /\ AdsOK /\ BalanceOK /\ TimesOK
  /\ EntriesKnown /\ ReportedInPast /\ Covered

EntriesKept == \A c \in Projects : entry[c] # None => entry'[c] = entry[c]

OldAds ==
  \A n \in DOMAIN ads :
    /\ n \in DOMAIN ads'
    /\ ads'[n].pub = ads[n].pub /\ ads'[n].camp = ads[n].camp
    /\ ads'[n].rate = ads[n].rate /\ ads'[n].expires = ads[n].expires

SpentIn(k) == SpentAds(ProjectsOf(k))

LEMMA AdKept ==
  ASSUME MarketOK, AdsOK, EntriesKnown, EntriesKept, OldAds, NEW n \in DOMAIN ads
  PROVE  /\ Payer(n) \in Advertisers
         /\ Payer(n)' = Payer(n)
         /\ \A k : n \in Of(ProjectsOf(k))' <=> n \in Of(ProjectsOf(k))
         /\ \A k \in Pools : n \in Of(ProjectsOf(k)) => Payer(n) = Sponsor[k]
         /\ \A k, l : n \in Of(ProjectsOf(k)) /\ n \in Of(ProjectsOf(l)) => k = l
<1> DEFINE c == ads[n].camp
<1>1. c \in Campaigns /\ (c \in Projects => entry[c] # None)
  BY AdTyped DEF EntriesKnown
<1>2. Payer(n) \in Advertisers
  BY <1>1, OwnerTyped DEF Payer
<1>3. /\ ads'[n].camp = c /\ n \in DOMAIN ads'
      /\ c \in Projects => entry'[c] = entry[c]
  BY <1>1 DEF OldAds, EntriesKept
<1>4. Payer(n)' = Payer(n)
  BY <1>1, <1>3 DEF Payer, Owner, Campaigns
<1>5. \A k : n \in Of(ProjectsOf(k)) <=> c \in Projects /\ entry[c] # None /\ entry[c].pool = k
  BY DEF ProjectsOf, Of
<1>6. \A k : n \in Of(ProjectsOf(k))' <=> c \in Projects /\ entry'[c] # None /\ entry'[c].pool = k
  BY <1>3 DEF ProjectsOf, Of
<1>7. c \in Projects => Payer(n) = Sponsor[entry[c].pool]
  BY MarketAssumption DEF Owner, Payer
<1>8. QED
  BY <1>2, <1>3, <1>4, <1>5, <1>6, <1>7

\* The market changes, time and the ads do not.
Quiet == EntriesKept /\ UNCHANGED <<ads, held, clock>>

LEMMA QuietSets ==
  ASSUME MarketOK, AdsOK, EntriesKnown, Quiet
  PROVE  /\ OldAds
         /\ \A a : Exposed(a)' = Exposed(a)
         /\ \A k : /\ SpentIn(k)' = SpentIn(k) /\ Of(ProjectsOf(k))' = Of(ProjectsOf(k))
<1>1. OldAds /\ EntriesKept
  BY DEF Quiet, OldAds
<1>2. \A n \in DOMAIN ads : /\ Payer(n)' = Payer(n)
                            /\ \A k : n \in Of(ProjectsOf(k))' <=> n \in Of(ProjectsOf(k))
  BY <1>1, AdKept
<1>3. ads' = ads /\ \A n : (Live(n)' <=> Live(n)) /\ (Waiting(n)' <=> Waiting(n)) /\ (Billed(n)' <=> Billed(n))
  BY DEF Quiet, Live, Waiting, Billed
<1>4. \A a : Exposed(a)' = Exposed(a)
  BY <1>2, <1>3 DEF Exposed
<1>5. \A k : Of(ProjectsOf(k))' = Of(ProjectsOf(k))
  BY <1>2, <1>3 DEF Of
<1>6. \A k : SpentIn(k)' = SpentIn(k)
  BY <1>3, <1>5 DEF SpentIn, SpentAds
<1>7. QED
  BY <1>1, <1>4, <1>5, <1>6

LEMMA TickSets ==
  ASSUME MarketOK, AdsOK, TimesOK, EntriesKnown, Tick
  PROVE  /\ OldAds /\ EntriesKept /\ AdsOK' /\ TimesOK' /\ ads' = ads /\ held' = held /\ returned' = returned
         /\ clock' = clock + 1
         /\ \A n : (Live(n)' => Live(n)) /\ (Waiting(n)' <=> Waiting(n)) /\ (Billed(n)' <=> Billed(n))
         /\ \A a : Exposed(a)' \subseteq Exposed(a)
         /\ \A k : /\ SpentIn(k)' \subseteq SpentIn(k) /\ Of(ProjectsOf(k))' = Of(ProjectsOf(k))
                   /\ \A n \in SpentIn(k) \ SpentIn(k)' : n \in DOMAIN ads /\ Live(n) /\ ~Live(n)'
                                                          /\ ~Waiting(n) /\ n \in Of(ProjectsOf(k))
<1>1. /\ ads' = ads /\ held' = held /\ returned' = returned /\ entry' = entry /\ clock' = clock + 1
      /\ edits' = edits /\ restarts' = restarts
  BY DEF Tick, deliveries, market
<1>2. OldAds /\ EntriesKept
  BY <1>1 DEF OldAds, EntriesKept
<1>3. AdsOK' /\ TimesOK'
  BY <1>1 DEF AdsOK, TimesOK
<1>4. \A n \in DOMAIN ads : /\ Payer(n)' = Payer(n)
                            /\ \A k : n \in Of(ProjectsOf(k))' <=> n \in Of(ProjectsOf(k))
  BY <1>2, AdKept
<1>5. \A n : (Waiting(n)' <=> Waiting(n)) /\ (Billed(n)' <=> Billed(n))
  BY <1>1 DEF Waiting, Billed
<1>6. ASSUME NEW n, Live(n)' PROVE Live(n)
  <2>1. n \in held /\ n \in DOMAIN ads /\ ads[n].state = "unreported" /\ ads[n].expires >= clock + 1
    BY <1>1, <1>6 DEF Live, AdsOK
  <2>2. ads[n].expires \in Nat /\ clock \in Nat
    BY <2>1, AdTyped DEF TimesOK
  <2>3. QED
    BY <2>1, <2>2 DEF Live
<1>7. \A a : Exposed(a)' \subseteq Exposed(a)
  BY <1>1, <1>4, <1>5, <1>6 DEF Exposed
<1>8. \A k : Of(ProjectsOf(k))' = Of(ProjectsOf(k))
  BY <1>1, <1>4 DEF Of
<1>9. ASSUME NEW k
      PROVE  /\ SpentIn(k)' \subseteq SpentIn(k)
             /\ \A n \in SpentIn(k) \ SpentIn(k)' : n \in DOMAIN ads /\ Live(n) /\ ~Live(n)'
                                                    /\ ~Waiting(n) /\ n \in Of(ProjectsOf(k))
  <2>1. SpentIn(k)' \subseteq SpentIn(k)
    BY <1>5, <1>6, <1>8 DEF SpentIn, SpentAds
  <2>2. ASSUME NEW n \in SpentIn(k) \ SpentIn(k)'
        PROVE  n \in DOMAIN ads /\ Live(n) /\ ~Live(n)' /\ ~Waiting(n) /\ n \in Of(ProjectsOf(k))
    <3>1. n \in Of(ProjectsOf(k)) /\ n \in Of(ProjectsOf(k))'
      BY <1>8 DEF SpentIn, SpentAds
    <3>2. ~Live(n)' /\ ~Waiting(n)' /\ ~Billed(n)' /\ (Live(n) \/ Waiting(n) \/ Billed(n))
      BY <3>1 DEF SpentIn, SpentAds
    <3>3. QED
      BY <1>5, <3>1, <3>2 DEF Of
  <2>3. QED
    BY <2>1, <2>2
<1>10. QED
  BY <1>1, <1>2, <1>3, <1>5, <1>6, <1>7, <1>8, <1>9

LEMMA DecideAds ==
  ASSUME MarketOK, AdsOK, TimesOK, EntriesKnown, NEW n \in DOMAIN ads, NEW from,
         NEW to \in {"pending", "verified", "rejected"}, Decide(n, from, to)
  PROVE  /\ OldAds /\ EntriesKept /\ AdsOK' /\ DOMAIN ads' = DOMAIN ads
         /\ held' = held /\ returned' = returned /\ clock' = clock
         /\ ads[n].state = from /\ ads'[n].state = to
         /\ ads'[n].at = IF from = "unreported" THEN clock ELSE ads[n].at
         /\ \A m \in DOMAIN ads : m # n => ads'[m] = ads[m]
         /\ \A m : m # n => (Live(m)' <=> Live(m)) /\ (m \in DOMAIN ads => (Waiting(m)' <=> Waiting(m))
                                                        /\ (Billed(m)' <=> Billed(m)))
         /\ ~Live(n)' /\ (Waiting(n)' <=> to = "pending") /\ (Billed(n)' <=> to = "verified")
<1>1. /\ ads' = [ads EXCEPT ![n] = [ads[n] EXCEPT !.state = to,
                                    !.at = IF from = "unreported" THEN clock ELSE ads[n].at]]
      /\ held' = held /\ returned' = returned /\ clock' = clock /\ entry' = entry /\ ads[n].state = from
  <2>1. ads[n] \in Ad
    BY AdTyped
  <2>2. ads' = [ads EXCEPT ![n].state = to, ![n].at = IF from = "unreported" THEN clock ELSE @]
    BY DEF Decide
  <2>3. ads' = [ads EXCEPT ![n] = [ads[n] EXCEPT !.state = to,
                                    !.at = IF from = "unreported" THEN clock ELSE ads[n].at]]
    BY <2>1, <2>2 DEF Ad
  <2>4. QED
    BY <2>3 DEF Decide, market
<1>2. ads[n] \in Ad /\ clock \in Nat
  BY AdTyped DEF TimesOK
<1> DEFINE new == [ads[n] EXCEPT !.state = to, !.at = IF from = "unreported" THEN clock ELSE ads[n].at]
<1>3. /\ new \in Ad /\ new.pub = ads[n].pub /\ new.camp = ads[n].camp /\ new.rate = ads[n].rate
      /\ new.expires = ads[n].expires /\ new.state = to
      /\ new.at = IF from = "unreported" THEN clock ELSE ads[n].at
  BY <1>2 DEF Ad
<1> HIDE DEF new
<1>4. ads' = [ads EXCEPT ![n] = new]
  BY <1>1 DEF new
<1>5. ads' \in Seq(Ad) /\ DOMAIN ads' = DOMAIN ads /\ ads'[n] = new
      /\ \A m \in DOMAIN ads : m # n => ads'[m] = ads[m]
  <2>1. ads \in Seq(Ad) /\ n \in 1 .. Len(ads)
    BY AdTyped DEF AdsOK
  <2>2. ads' \in Seq(Ad)
    BY <1>3, <1>4, <2>1, ExceptSeq
  <2>3. QED
    BY <1>4, <2>2
<1>6. OldAds /\ EntriesKept /\ AdsOK'
  BY <1>1, <1>3, <1>5 DEF OldAds, EntriesKept, AdsOK
<1>7. ASSUME NEW m, m # n
      PROVE  /\ Live(m)' <=> Live(m)
             /\ m \in DOMAIN ads => (Waiting(m)' <=> Waiting(m)) /\ (Billed(m)' <=> Billed(m))
  BY <1>1, <1>5, <1>7 DEF Live, Waiting, Billed, AdsOK
<1>8. ~Live(n)' /\ (Waiting(n)' <=> to = "pending") /\ (Billed(n)' <=> to = "verified")
  BY <1>3, <1>5 DEF Live, Waiting, Billed
<1>9. QED
  BY <1>1, <1>3, <1>5, <1>6, <1>7, <1>8

\* A report, a verification and a rejection.
LEMMA DecideSets ==
  ASSUME MarketOK, AdsOK, TimesOK, EntriesKnown, NEW n \in DOMAIN ads,
         Report(n) \/ Verify(n) \/ Reject(n)
  PROVE  /\ n \in Exposed(Payer(n))
         /\ Report(n) => \A a : Exposed(a)' = Exposed(a)
         /\ ~Report(n) => \A a : Exposed(a)' = Exposed(a) \ {n}
         /\ ~Reject(n) => \A k : SpentIn(k)' = SpentIn(k)
         /\ Reject(n) => \A k : SpentIn(k)' = SpentIn(k) \ {n}
         /\ \A k : Of(ProjectsOf(k))' = Of(ProjectsOf(k))
<1>1. PICK from \in {"unreported", "pending"}, to \in {"pending", "verified", "rejected"} :
        /\ Decide(n, from, to)
        /\ Report(n) <=> to = "pending"
        /\ Reject(n) <=> to = "rejected"
        /\ from = "unreported" => Live(n)
        /\ from = "pending" => Waiting(n)
  <2>1. CASE Report(n)
    <3>1. Decide(n, "unreported", "pending") /\ Live(n) /\ ads[n].state = "unreported"
      BY <2>1 DEF Report, Decide
    <3>2. ~Reject(n)
      BY <3>1 DEF Reject, Decide
    <3>3. QED
      BY <2>1, <3>1, <3>2
  <2>2. CASE Verify(n)
    <3>1. Decide(n, "pending", "verified") /\ ads[n].state = "pending"
      BY <2>2 DEF Verify, Decide
    <3>2. ads[n] \in Ad
      BY AdTyped
    <3>3. ads'[n].state = "verified"
      BY <3>1, DecideAds
    <3>4. ~Report(n)
      BY <3>1 DEF Report, Decide
    <3>5. ~Reject(n)
      <4>1. Reject(n) => ads'[n].state = "rejected"
        BY DecideAds DEF Reject
      <4>2. QED
        BY <3>3, <4>1
    <3>6. QED
      BY <3>1, <3>4, <3>5 DEF Waiting
  <2>3. CASE Reject(n)
    <3>1. Decide(n, "pending", "rejected") /\ ads[n].state = "pending"
      BY <2>3 DEF Reject, Decide
    <3>2. ~Report(n)
      BY <3>1 DEF Report, Decide
    <3>3. QED
      BY <2>3, <3>1, <3>2 DEF Waiting
  <2>4. QED
    BY <2>1, <2>2, <2>3
<1>2. /\ OldAds /\ EntriesKept /\ DOMAIN ads' = DOMAIN ads
      /\ \A m : m # n => (Live(m)' <=> Live(m)) /\ (m \in DOMAIN ads => (Waiting(m)' <=> Waiting(m))
                                                        /\ (Billed(m)' <=> Billed(m)))
      /\ ~Live(n)' /\ (Waiting(n)' <=> to = "pending") /\ (Billed(n)' <=> to = "verified")
      /\ ads[n].state = from
  BY <1>1, DecideAds
<1>3. \A m \in DOMAIN ads : /\ Payer(m)' = Payer(m)
                            /\ \A k : m \in Of(ProjectsOf(k))' <=> m \in Of(ProjectsOf(k))
  BY <1>2, AdKept
<1>4. n \in Exposed(Payer(n)) /\ (Live(n) \/ Waiting(n)) /\ ~Billed(n)
  BY <1>1, <1>2 DEF Exposed, Billed
<1>5. \A k : Of(ProjectsOf(k))' = Of(ProjectsOf(k))
  BY <1>2, <1>3 DEF Of
<1>6. ASSUME NEW a
      PROVE  /\ to = "pending" => Exposed(a)' = Exposed(a)
             /\ to # "pending" => Exposed(a)' = Exposed(a) \ {n}
  BY <1>2, <1>3, <1>4 DEF Exposed
<1>7. ASSUME NEW k
      PROVE  /\ to # "rejected" => SpentIn(k)' = SpentIn(k)
             /\ to = "rejected" => SpentIn(k)' = SpentIn(k) \ {n}
  <2>1. \A m \in Of(ProjectsOf(k)) : m \in DOMAIN ads
    BY DEF Of
  <2>2. \A m \in Of(ProjectsOf(k)) :
          m # n => ((Live(m) \/ Waiting(m) \/ Billed(m))' <=> (Live(m) \/ Waiting(m) \/ Billed(m)))
    BY <1>2, <2>1
  <2>3. to # "rejected" => (Live(n) \/ Waiting(n) \/ Billed(n))'
    BY <1>2
  <2>4. to = "rejected" => ~(Live(n) \/ Waiting(n) \/ Billed(n))'
    BY <1>2
  <2>5. QED
    BY <1>4, <1>5, <2>2, <2>3, <2>4 DEF SpentIn, SpentAds
<1>8. QED
  BY <1>1, <1>4, <1>5, <1>6, <1>7

-----------------------------------------------------------------------------
(* A delivery *)

NewAd(p, c) ==
  [pub |-> p, camp |-> c, at |-> clock, state |-> "unreported",
   rate |-> RateOf(ClearingPrice(c, Eligible(p))), expires |-> clock + NonceTtl]

\* What a delivery of c does to the ads ...
Delivers(p, c) ==
  /\ ads' = Append(ads, NewAd(p, c))
  /\ held' = Kept(held \cup {Len(ads) + 1})
  /\ returned' = (returned \cup Restored(p)) \cap held'
  /\ UNCHANGED <<market, asked, balance, clock, edits, restarts>>

\* ... and to the tours.
Plays(p, next) ==
  /\ tour' = [tour EXCEPT ![p] = Tail(next)]
  /\ built' = IF Continues(GiveBack(p), Eligible(p)) THEN built
              ELSE [built EXCEPT ![p] = [d \in Campaigns |-> @[d] + Occurrences(next, d)]]
  /\ Remember(p, Head(next))

LEMMA ServeParts ==
  ASSUME Base, NEW p \in Publishers, ServeAd(p)
  PROVE  \E next \in Seq(Campaigns) :
           /\ next # <<>> /\ Head(next) \in Eligible(p)
           /\ Delivers(p, Head(next)) /\ Plays(p, next)
           /\ Continues(GiveBack(p), Eligible(p)) =>
                \A c : Occurrences(next, c) <= Occurrences(GiveBack(p), c)
<1> DEFINE E == Eligible(p)
           back == GiveBack(p)
<1>1. PICK next \in NextTours(back, E, Bids(E), recent[p]) :
        /\ E # {} /\ Delivers(p, Head(next)) /\ Plays(p, next)
  BY DEF ServeAd, Delivers, Plays, NewAd
<1>2. /\ E \in SUBSET Campaigns /\ IsFiniteSet(E) /\ Bids(E) \in [E -> Nat]
      /\ \A c \in E : RateOf(Bid(c)) > 0 /\ Bid(c) \in Nat
  BY EligibleIs DEF Base
<1>3. \A c \in E : Bid(c) # 0
  <2>1. RateOf(0) = 0
    BY PricesAssumption DEF RateOf
  <2>2. QED
    BY <1>2, <2>1
<1>4. Bids(E) \in [E -> Nat \ {0}]
  BY <1>2, <1>3 DEF Bids
<1>5. back \in Seq(Campaigns)
  BY GiveBackIs DEF Base
<1> HIDE DEF E, back
<1>6. /\ next \in Seq(Campaigns) /\ next # <<>> /\ Head(next) \in E
      /\ Continues(back, E) => \A c : Occurrences(next, c) <= Occurrences(back, c)
  BY <1>1, <1>2, <1>4, <1>5, NextTourIs
<1>7. QED
  BY <1>1, <1>6 DEF E, back

LEMMA DeliverAds ==
  ASSUME Base, NEW p \in Publishers, NEW c \in Eligible(p), Delivers(p, c),
         NEW n, n = Len(ads) + 1
  PROVE  /\ AdsOK' /\ OldAds /\ EntriesKept
         /\ n \notin DOMAIN ads /\ DOMAIN ads' = DOMAIN ads \cup {n}
         /\ ads'[n] = NewAd(p, c) /\ NewAd(p, c) \in Ad
         /\ \A m \in DOMAIN ads : ads'[m] = ads[m]
         /\ n \in held' /\ held' \subseteq held \cup {n}
         /\ returned' = (returned \cup Restored(p)) \cap held'
         /\ clock' = clock
         /\ \A m \in DOMAIN ads : /\ Live(m)' <=> Live(m)
                                  /\ Waiting(m)' <=> Waiting(m)
                                  /\ Billed(m)' <=> Billed(m)
         /\ Live(n)' /\ ~Waiting(n)' /\ ~Billed(n)'
<1>1. clock \in Nat /\ NonceTtl \in Nat /\ GcAfter \in Nat
  BY ConstantsSound DEF Base, TimesOK, Constants
<1>2. NewAd(p, c) \in Ad
  <2>1. c \in Campaigns
    BY EligibleIs DEF Base
  <2>2. RateOf(ClearingPrice(c, Eligible(p))) \in Nat
    BY PriceBounds DEF Base
  <2>3. QED
    BY <1>1, <2>1, <2>2 DEF NewAd, Ad
<1>3. /\ ads \in Seq(Ad) /\ Len(ads) \in Nat /\ DOMAIN ads = 1 .. Len(ads)
      /\ returned \subseteq held /\ held \subseteq DOMAIN ads
  BY LenProperties DEF Base, AdsOK
<1>4. /\ ads' \in Seq(Ad) /\ Len(ads') = Len(ads) + 1 /\ ads'[n] = NewAd(p, c)
      /\ \A m \in 1 .. Len(ads) : ads'[m] = ads[m]
  BY <1>2, <1>3, AppendProperties DEF Delivers
<1>5. n \notin DOMAIN ads /\ DOMAIN ads' = DOMAIN ads \cup {n}
  <2>1. DOMAIN ads' = 1 .. Len(ads) + 1
    BY <1>4, LenProperties
  <2>2. QED
    BY <1>3, <2>1
<1>6. held' = {m \in held \cup {n} : m > Len(ads) \/ ads[m].expires >= clock - GcAfter}
  BY DEF Delivers, Kept
<1>7. n \in held' /\ held' \subseteq held \cup {n}
  BY <1>3, <1>6
<1>8. /\ returned' = (returned \cup Restored(p)) \cap held'
      /\ clock' = clock /\ entry' = entry
  BY DEF Delivers, market
<1>9. AdsOK'
  BY <1>3, <1>4, <1>5, <1>7, <1>8 DEF AdsOK
<1>10. OldAds /\ EntriesKept
  BY <1>3, <1>4, <1>5, <1>8 DEF OldAds, EntriesKept
<1>11. \A m \in DOMAIN ads : /\ Waiting(m)' <=> Waiting(m)
                             /\ Billed(m)' <=> Billed(m)
  BY <1>3, <1>4 DEF Waiting, Billed
<1>12. ASSUME NEW m \in DOMAIN ads PROVE Live(m)' <=> Live(m)
  <2>1. ads'[m] = ads[m] /\ m # n /\ ads[m].expires \in Nat
    BY <1>3, <1>4, <1>5, AdTyped DEF Base
  <2>2. m \in held' => m \in held
    BY <1>7, <2>1
  <2>3. m \in held /\ ads[m].expires >= clock => m \in held'
    BY <1>1, <1>6, <2>1
  <2>4. QED
    BY <1>8, <2>1, <2>2, <2>3 DEF Live
<1>13. Live(n)' /\ ~Waiting(n)' /\ ~Billed(n)'
  <2>1. ads'[n].state = "unreported" /\ ads'[n].expires = clock + NonceTtl
    BY <1>4 DEF NewAd
  <2>2. QED
    BY <1>1, <1>7, <1>8, <2>1 DEF Live, Waiting, Billed
<1>14. QED
  BY <1>2, <1>3, <1>4, <1>5, <1>7, <1>8, <1>9, <1>10, <1>11, <1>12, <1>13

LEMMA DeliverSets ==
  ASSUME Base, NEW p \in Publishers, NEW c \in Eligible(p), Delivers(p, c),
         NEW n, n = Len(ads) + 1
  PROVE  /\ Payer(n)' = Owner(c)
         /\ \A k : n \in Of(ProjectsOf(k))' <=> c \in ProjectsOf(k)
         /\ \A a : Exposed(a)' = Exposed(a) \cup (IF a = Owner(c) THEN {n} ELSE {})
         /\ \A k : SpentIn(k)' = SpentIn(k) \cup (IF c \in ProjectsOf(k) THEN {n} ELSE {})
         /\ n \notin DOMAIN ads
<1>1. /\ OldAds /\ EntriesKept
      /\ n \notin DOMAIN ads /\ DOMAIN ads' = DOMAIN ads \cup {n}
      /\ ads'[n] = NewAd(p, c)
      /\ \A m \in DOMAIN ads : /\ Live(m)' <=> Live(m)
                               /\ Waiting(m)' <=> Waiting(m)
                               /\ Billed(m)' <=> Billed(m)
      /\ Live(n)' /\ ~Waiting(n)' /\ ~Billed(n)'
  BY DeliverAds
<1>2. ads'[n].camp = c /\ entry' = entry
  BY <1>1 DEF NewAd, Delivers, market
<1>3. Payer(n)' = Owner(c)
  BY <1>2 DEF Payer, Owner
<1>4. \A k : n \in Of(ProjectsOf(k))' <=> c \in ProjectsOf(k)
  BY <1>1, <1>2 DEF Of, ProjectsOf
<1>5. \A m \in DOMAIN ads : /\ Payer(m)' = Payer(m)
                            /\ \A k : m \in Of(ProjectsOf(k))' <=> m \in Of(ProjectsOf(k))
  BY <1>1, AdKept DEF Base
<1>6. \A a : Exposed(a)' = Exposed(a) \cup (IF a = Owner(c) THEN {n} ELSE {})
  BY <1>1, <1>3, <1>5 DEF Exposed
<1>7. \A k : Of(ProjectsOf(k))' = Of(ProjectsOf(k)) \cup (IF c \in ProjectsOf(k) THEN {n} ELSE {})
  <2>1. \A k : Of(ProjectsOf(k)) \subseteq DOMAIN ads /\ Of(ProjectsOf(k))' \subseteq DOMAIN ads'
    BY DEF Of
  <2>2. QED
    BY <1>1, <1>4, <1>5, <2>1
<1>8. \A k : SpentIn(k)' = SpentIn(k) \cup (IF c \in ProjectsOf(k) THEN {n} ELSE {})
  <2>1. \A k : Of(ProjectsOf(k)) \subseteq DOMAIN ads
    BY DEF Of
  <2>2. QED
    BY <1>1, <1>7, <2>1 DEF SpentIn, SpentAds
<1>9. QED
  BY <1>1, <1>3, <1>4, <1>6, <1>8

-----------------------------------------------------------------------------
(* What an advertiser owes, what a pool spent *)

Due(a) == RateSum(Exposed(a))
Spent(k) == SpentOn(ProjectsOf(k))

Sums ==
  /\ \A a : /\ Due(a) = Rates(ads, Exposed(a)) /\ Due(a) \in Nat
            /\ Exposed(a) \in SUBSET DOMAIN ads
  /\ \A k : /\ Spent(k) = Rates(ads, SpentIn(k)) /\ Spent(k) \in Nat
            /\ SpentIn(k) \in SUBSET DOMAIN ads

LEMMA SumsAre == AdsOK => Sums
<1> SUFFICES ASSUME AdsOK PROVE Sums
  OBVIOUS
<1>1. ASSUME NEW a
      PROVE  /\ Due(a) = Rates(ads, Exposed(a)) /\ Due(a) \in Nat
             /\ Exposed(a) \in SUBSET DOMAIN ads
  <2>1. Exposed(a) \in SUBSET DOMAIN ads
    BY DEF Exposed
  <2>2. QED
    BY <2>1, RateSumIs, RatesTyped DEF Due, AdsOK
<1>2. ASSUME NEW k
      PROVE  /\ Spent(k) = Rates(ads, SpentIn(k)) /\ Spent(k) \in Nat
             /\ SpentIn(k) \in SUBSET DOMAIN ads
  BY SpentIs, RateSumIs DEF Spent, SpentIn
<1>3. QED
  BY <1>1, <1>2 DEF Sums

LEMMA SumsAfter == AdsOK' => Sums'
BY SumsAre, PTL

LEMMA RatesKept ==
  ASSUME AdsOK, OldAds, NEW S \in SUBSET DOMAIN ads
  PROVE  Rates(ads', S) = Rates(ads, S)
<1>1. \A n \in S : ads'[n].rate = ads[n].rate
  BY DEF OldAds
<1>2. QED
  BY <1>1, RatesSame

-----------------------------------------------------------------------------
(* Budgets that are released *)

\* What is set aside of a budget x of which y is spent.
Aside(x, y) == IF x >= y THEN x - y ELSE 0
Asides(T, K, b, in) == [k \in K |-> Aside(b[k], Rates(T, in[k]))]

LEMMA AsidesTyped ==
  ASSUME NEW T \in Seq(Ad), NEW K, IsFiniteSet(K), NEW b \in [K -> Nat],
         NEW in \in [K -> SUBSET DOMAIN T]
  PROVE  /\ Asides(T, K, b, in) \in [K -> Nat] /\ Total(Asides(T, K, b, in)) \in Nat
         /\ \A k \in K : Rates(T, in[k]) \in Nat
<1>1. \A k \in K : Rates(T, in[k]) \in Nat /\ b[k] \in Nat
  BY RatesTyped
<1>2. Asides(T, K, b, in) \in [K -> Nat]
  BY <1>1 DEF Asides, Aside
<1>3. QED
  BY <1>1, <1>2, TotalType

\* One value grows by at most r, the others stay.
LEMMA TotalOfOneGrown ==
  ASSUME NEW K, IsFiniteSet(K), NEW f \in [K -> Nat], NEW g \in [K -> Nat], NEW k \in K,
         NEW r \in Nat, g[k] <= f[k] + r, \A l \in K : l # k => g[l] = f[l]
  PROVE  Total(g) <= Total(f) + r
<1>1. Total(g) \in Nat /\ Total(f) \in Nat /\ Total(g) + f[k] = Total(f) + g[k]
  BY TotalUpdate
<1>2. f[k] \in Nat /\ g[k] \in Nat
  OBVIOUS
<1>3. QED
  BY <1>1, <1>2

\* One ad less frees its rate at most.
LEMMA ReleaseOne ==
  ASSUME NEW T \in Seq(Ad), NEW K, IsFiniteSet(K), NEW b \in [K -> Nat],
         NEW in \in [K -> SUBSET DOMAIN T], NEW n \in DOMAIN T,
         \A k, l \in K : n \in in[k] /\ n \in in[l] => k = l
  PROVE  Total(Asides(T, K, b, [k \in K |-> in[k] \ {n}])) <= Total(Asides(T, K, b, in)) + T[n].rate
<1> DEFINE less == [k \in K |-> in[k] \ {n}]
           f == Asides(T, K, b, in)
           g == Asides(T, K, b, less)
<1> SUFFICES Total(g) <= Total(f) + T[n].rate
  OBVIOUS
<1>1. less \in [K -> SUBSET DOMAIN T]
  OBVIOUS
<1>2. f \in [K -> Nat] /\ Total(f) \in Nat /\ g \in [K -> Nat] /\ Total(g) \in Nat
  BY <1>1, AsidesTyped
<1>3. T[n].rate \in Nat
  <2>1. T[n] \in Ad
    BY ElementOfSeq, LenProperties
  <2>2. QED
    BY <2>1 DEF Ad
<1>4. \A k \in K : n \notin in[k] => g[k] = f[k]
  <2>1. TAKE k \in K
  <2>2. HAVE n \notin in[k]
  <2>3. less[k] = in[k]
    BY <2>2
  <2>4. QED
    BY <2>3 DEF Asides
<1>5. CASE \A k \in K : n \notin in[k]
  <2>1. g = f
    BY <1>2, <1>4, <1>5
  <2> HIDE DEF f, g
  <2>2. QED
    BY <1>2, <1>3, <2>1
<1>6. ASSUME NEW k \in K, n \in in[k] PROVE Total(g) <= Total(f) + T[n].rate
  <2>1. \A l \in K : l # k => g[l] = f[l]
    BY <1>4, <1>6
  <2>2. Rates(T, in[k]) = T[n].rate + Rates(T, in[k] \ {n})
    <3>1. in[k] \in SUBSET DOMAIN T
      OBVIOUS
    <3>2. QED
      BY <1>6, <3>1, RatesSplit
  <2>3. /\ Rates(T, in[k]) \in Nat /\ Rates(T, less[k]) \in Nat /\ b[k] \in Nat
    BY <1>1, AsidesTyped
  <2>4. f[k] = Aside(b[k], Rates(T, in[k])) /\ g[k] = Aside(b[k], Rates(T, in[k] \ {n}))
    BY DEF Asides
  <2>5. g[k] <= f[k] + T[n].rate /\ f[k] \in Nat /\ g[k] \in Nat
    <3> HIDE DEF f, g
    <3>1. Rates(T, in[k] \ {n}) \in Nat
      BY <2>3
    <3>2. QED
      BY <1>3, <2>2, <2>3, <2>4, <3>1 DEF Aside
  <2> HIDE DEF f, g
  <2>6. QED
    BY <1>2, <1>3, <2>1, <2>5, TotalOfOneGrown
<1>7. QED
  BY <1>5, <1>6

LEMMA LeastNumber ==
  ASSUME NEW N \in SUBSET Nat, N # {}
  PROVE  \E m \in N : \A k \in N : m <= k
<1>1. PICK R : R = OpToRel(<, Nat)
  OBVIOUS
<1>2. IsWellFoundedOn(R, Nat) /\ \A x, y \in Nat : y < x => <<y, x>> \in R
  BY <1>1, NatLessThanWellFounded DEF OpToRel
<1>3. PICK m \in N : \A k \in N : <<k, m>> \notin R
  BY <1>2, WFMin
<1>4. ASSUME NEW k \in N PROVE m <= k
  <2>1. k \in Nat /\ m \in Nat
    OBVIOUS
  <2>2. ~(k < m)
    BY <1>2, <1>3, <2>1
  <2>3. QED
    BY <2>1, <2>2
<1>5. QED
  BY <1>4

\* Neither do many: otherwise take the smallest set that frees too much.
LEMMA ReleaseMany ==
  ASSUME NEW T \in Seq(Ad), NEW K, IsFiniteSet(K), NEW b \in [K -> Nat],
         NEW in \in [K -> SUBSET DOMAIN T], NEW X \in SUBSET DOMAIN T,
         \A n \in X : \A k, l \in K : n \in in[k] /\ n \in in[l] => k = l
  PROVE  Total(Asides(T, K, b, [k \in K |-> in[k] \ X])) <= Total(Asides(T, K, b, in)) + Rates(T, X)
<1> DEFINE without(Y) == [k \in K |-> in[k] \ Y]
           After(Y) == Total(Asides(T, K, b, without(Y)))
           Fits(Y) == After(Y) <= Total(Asides(T, K, b, in)) + Rates(T, Y)
           Sizes == {m \in Nat : \E Y \in SUBSET X : Cardinality(Y) = m /\ ~Fits(Y)}
<1>1. SUFFICES ASSUME ~Fits(X) PROVE FALSE
  OBVIOUS
<1>2. ASSUME NEW Y \in SUBSET X
      PROVE  /\ IsFiniteSet(Y) /\ Cardinality(Y) \in Nat /\ Rates(T, Y) \in Nat
             /\ without(Y) \in [K -> SUBSET DOMAIN T] /\ After(Y) \in Nat
  <2>1. without(Y) \in [K -> SUBSET DOMAIN T] /\ Y \in SUBSET DOMAIN T
    OBVIOUS
  <2> HIDE DEF without
  <2>2. QED
    BY <2>1, AsidesTyped, RatesTyped, FS_CardinalityType
<1>3. Total(Asides(T, K, b, in)) \in Nat
  BY AsidesTyped
<1> HIDE DEF After
<1>4. Cardinality(X) \in Sizes
  BY <1>1, <1>2
<1>5. PICK m \in Sizes : \A k \in Sizes : m <= k
  BY <1>4, LeastNumber
<1>6. PICK Y \in SUBSET X : Cardinality(Y) = m /\ ~Fits(Y)
  OBVIOUS
<1>7. Y # {}
  <2>1. ASSUME Y = {} PROVE FALSE
    <3>1. without(Y) = in
      BY <2>1
    <3>2. After(Y) = Total(Asides(T, K, b, in)) /\ Rates(T, Y) \in Nat
      BY <1>2, <3>1 DEF After
    <3>3. QED
      BY <1>3, <1>6, <3>2
  <2>2. QED
    BY <2>1
<1>8. PICK n \in Y : TRUE
  BY <1>7
<1> DEFINE Z == Y \ {n}
<1>9. Z \in SUBSET X /\ Cardinality(Z) = m - 1 /\ m \in Nat
  BY <1>2, <1>6, <1>8, FS_RemoveElement
<1>10. Fits(Z)
  <2>1. m - 1 \in Nat
    BY <1>2, <1>9
  <2> HIDE DEF Fits, Z
  <2>2. ~Fits(Z) => m - 1 \in Sizes
    BY <1>9, <2>1
  <2>3. QED
    BY <1>5, <1>9, <2>2
<1>11. After(Y) <= After(Z) + T[n].rate
  <2>1. without(Z) \in [K -> SUBSET DOMAIN T] /\ n \in DOMAIN T
    BY <1>8
  <2>2. \A k, l \in K : n \in without(Z)[k] /\ n \in without(Z)[l] => k = l
    BY <1>8
  <2>3. without(Y) = [k \in K |-> without(Z)[k] \ {n}]
    BY <1>8
  <2> HIDE DEF without
  <2>4. Total(Asides(T, K, b, [k \in K |-> without(Z)[k] \ {n}])) <= After(Z) + T[n].rate
    BY <2>1, <2>2, ReleaseOne DEF After
  <2>5. QED
    BY <2>3, <2>4 DEF After
<1>12. Rates(T, Y) = T[n].rate + Rates(T, Z)
  <2>1. Y \in SUBSET DOMAIN T
    OBVIOUS
  <2>2. QED
    BY <1>8, <2>1, RatesSplit
<1>13. T[n].rate \in Nat /\ Rates(T, Z) \in Nat /\ After(Z) \in Nat /\ After(Y) \in Nat
  <2>1. n \in DOMAIN T
    BY <1>8
  <2>2. T[n] \in Ad
    BY <2>1, ElementOfSeq, LenProperties
  <2>3. QED
    BY <1>2, <1>9, <2>2 DEF Ad
<1>14. QED
  <2> HIDE DEF Z, without
  <2>1. After(Z) <= Total(Asides(T, K, b, in)) + Rates(T, Z)
    BY <1>10
  <2>2. After(Y) > Total(Asides(T, K, b, in)) + Rates(T, Y)
    <3>1. Rates(T, Y) \in Nat
      BY <1>2
    <3>2. QED
      BY <1>3, <1>6, <1>13, <3>1
  <2>3. QED
    BY <1>3, <1>11, <1>12, <1>13, <2>1, <2>2

-----------------------------------------------------------------------------
(* How the sums move *)

LEMMA TotalTwoParts ==
  ASSUME NEW S, IsFiniteSet(S), NEW f \in [S -> Nat], NEW X \in SUBSET S
  PROVE  /\ Total(f) = Total([n \in X |-> f[n]]) + Total([n \in S \ X |-> f[n]])
         /\ Total([n \in X |-> f[n]]) \in Nat /\ Total([n \in S \ X |-> f[n]]) \in Nat
<1>1. PICK Y : Y = S \ X
  OBVIOUS
<1>2. Y \in SUBSET S /\ X \cap Y = {} /\ \A x \in S : x \notin X \cup Y => f[x] = 0
  BY <1>1
<1>3. /\ Total(f) = Total([n \in X |-> f[n]]) + Total([n \in Y |-> f[n]])
      /\ Total([n \in X |-> f[n]]) \in Nat /\ Total([n \in Y |-> f[n]]) \in Nat
  <2>1. X \in SUBSET S /\ IsFiniteSet(S) /\ f \in [S -> Nat]
    OBVIOUS
  <2>2. QED
    BY <1>2, <2>1, TotalParts
<1>4. QED
  BY <1>1, <1>3

LEMMA RatesParts ==
  ASSUME NEW T \in Seq(Ad), NEW S \in SUBSET DOMAIN T, NEW X \in SUBSET S
  PROVE  /\ Rates(T, S) = Rates(T, X) + Rates(T, S \ X)
         /\ Rates(T, X) \in Nat /\ Rates(T, S \ X) \in Nat
<1> DEFINE f == [n \in S |-> T[n].rate]
<1>1. IsFiniteSet(S) /\ f \in [S -> Nat]
  BY RatesTyped
<1>2. /\ [n \in X |-> f[n]] = [n \in X |-> T[n].rate]
      /\ [n \in S \ X |-> f[n]] = [n \in S \ X |-> T[n].rate]
  OBVIOUS
<1> HIDE DEF f
<1>3. /\ Total(f) = Total([n \in X |-> f[n]]) + Total([n \in S \ X |-> f[n]])
      /\ Total([n \in X |-> f[n]]) \in Nat /\ Total([n \in S \ X |-> f[n]]) \in Nat
  BY <1>1, TotalTwoParts
<1>4. QED
  BY <1>2, <1>3 DEF Rates, f

LEMMA QuietSums ==
  ASSUME MarketOK, AdsOK, EntriesKnown, Quiet, AdsOK'
  PROVE  (\A a : Due(a)' = Due(a)) /\ (\A k : Spent(k)' = Spent(k))
<1>1. Sums /\ Sums' /\ OldAds
  BY SumsAre, SumsAfter, QuietSets
<1>2. ASSUME NEW a PROVE Due(a)' = Due(a)
  <2>1. Exposed(a)' = Exposed(a) /\ Exposed(a) \in SUBSET DOMAIN ads
    BY <1>1, QuietSets DEF Sums
  <2>2. Due(a)' = Rates(ads', Exposed(a)') /\ Due(a) = Rates(ads, Exposed(a))
    BY <1>1 DEF Sums
  <2>3. QED
    BY <1>1, <2>1, <2>2, RatesKept
<1>3. ASSUME NEW k PROVE Spent(k)' = Spent(k)
  <2>1. SpentIn(k)' = SpentIn(k) /\ SpentIn(k) \in SUBSET DOMAIN ads
    BY <1>1, QuietSets DEF Sums
  <2>2. Spent(k)' = Rates(ads', SpentIn(k)') /\ Spent(k) = Rates(ads, SpentIn(k))
    BY <1>1 DEF Sums
  <2>3. QED
    BY <1>1, <2>1, <2>2, RatesKept
<1>4. QED
  BY <1>2, <1>3

LEMMA TickSums ==
  ASSUME MarketOK, AdsOK, TimesOK, EntriesKnown, Tick
  PROVE  (\A a : Due(a)' <= Due(a)) /\ (\A k : Spent(k)' <= Spent(k))
<1>1. Sums /\ Sums' /\ OldAds
  BY SumsAre, SumsAfter, TickSets
<1>2. ASSUME NEW a PROVE Due(a)' <= Due(a)
  <2>1. Exposed(a)' \in SUBSET Exposed(a) /\ Exposed(a) \in SUBSET DOMAIN ads
    BY <1>1, TickSets DEF Sums
  <2>2. Due(a)' = Rates(ads', Exposed(a)') /\ Due(a) = Rates(ads, Exposed(a))
    BY <1>1 DEF Sums
  <2>3. Rates(ads', Exposed(a)') = Rates(ads, Exposed(a)')
    BY <1>1, <2>1, RatesKept
  <2>4. QED
    BY <2>1, <2>2, <2>3, RatesOfFewer DEF AdsOK
<1>3. ASSUME NEW k PROVE Spent(k)' <= Spent(k)
  <2>1. SpentIn(k)' \in SUBSET SpentIn(k) /\ SpentIn(k) \in SUBSET DOMAIN ads
    BY <1>1, TickSets DEF Sums
  <2>2. Spent(k)' = Rates(ads', SpentIn(k)') /\ Spent(k) = Rates(ads, SpentIn(k))
    BY <1>1 DEF Sums
  <2>3. Rates(ads', SpentIn(k)') = Rates(ads, SpentIn(k)')
    BY <1>1, <2>1, RatesKept
  <2>4. QED
    BY <2>1, <2>2, <2>3, RatesOfFewer DEF AdsOK
<1>4. QED
  BY <1>2, <1>3

LEMMA DecideKeeps ==
  ASSUME MarketOK, AdsOK, TimesOK, EntriesKnown, NEW n \in DOMAIN ads,
         Report(n) \/ Verify(n) \/ Reject(n)
  PROVE  /\ AdsOK' /\ OldAds /\ EntriesKept /\ DOMAIN ads' = DOMAIN ads
         /\ \A m \in DOMAIN ads : ads'[m].at = ads[m].at \/ ads'[m].at = clock
         /\ held' = held /\ returned' = returned /\ clock' = clock
<1>1. PICK from, to : to \in {"pending", "verified", "rejected"} /\ Decide(n, from, to)
  <2>1. Decide(n, "unreported", "pending") \/ Decide(n, "pending", "verified")
          \/ Decide(n, "pending", "rejected")
    BY DEF Report, Verify, Reject
  <2>2. QED
    BY <2>1
<1>2. /\ AdsOK' /\ OldAds /\ EntriesKept /\ DOMAIN ads' = DOMAIN ads
      /\ held' = held /\ returned' = returned /\ clock' = clock
      /\ ads'[n].at = IF from = "unreported" THEN clock ELSE ads[n].at
      /\ \A m \in DOMAIN ads : m # n => ads'[m] = ads[m]
  BY <1>1, DecideAds
<1>3. QED
  BY <1>2

LEMMA DecideSums ==
  ASSUME MarketOK, AdsOK, TimesOK, EntriesKnown, NEW n \in DOMAIN ads,
         Report(n) \/ Verify(n) \/ Reject(n)
  PROVE  /\ Report(n) => \A a : Due(a)' = Due(a)
         /\ ~Report(n) => \A a : /\ a = Payer(n) => Due(a) = ads[n].rate + Due(a)'
                                 /\ a # Payer(n) => Due(a)' = Due(a)
         /\ ~Reject(n) => \A k : Spent(k)' = Spent(k)
         /\ \A k : Spent(k)' <= Spent(k)
<1>1. Sums /\ Sums' /\ OldAds /\ n \in Exposed(Payer(n)) /\ Payer(n)' = Payer(n)
  BY SumsAre, SumsAfter, DecideKeeps, DecideSets, AdKept
<1>2. ASSUME NEW a, Exposed(a)' = Exposed(a) PROVE Due(a)' = Due(a)
  BY <1>1, <1>2, RatesKept DEF Sums
<1>3. ASSUME NEW a, a # Payer(n), Exposed(a)' = Exposed(a) \ {n} PROVE Due(a)' = Due(a)
  <2>1. n \notin Exposed(a)
    BY <1>3 DEF Exposed
  <2>2. Exposed(a)' = Exposed(a)
    BY <1>3, <2>1
  <2>3. QED
    BY <1>2, <2>2
<1>4. ASSUME ~Report(n), NEW a, a = Payer(n) PROVE Due(a) = ads[n].rate + Due(a)'
  <2>1. n \in Exposed(a) /\ Exposed(a) \in SUBSET DOMAIN ads /\ Exposed(a)' = Exposed(a) \ {n}
    BY <1>1, <1>4, DecideSets DEF Sums
  <2>2. Due(a)' = Rates(ads', Exposed(a) \ {n}) /\ Due(a) = Rates(ads, Exposed(a))
    BY <1>1, <2>1 DEF Sums
  <2>3. Rates(ads', Exposed(a) \ {n}) = Rates(ads, Exposed(a) \ {n})
    BY <1>1, <2>1, RatesKept
  <2>4. Rates(ads, Exposed(a)) = ads[n].rate + Rates(ads, Exposed(a) \ {n})
    BY <2>1, RatesSplit DEF AdsOK
  <2>5. QED
    BY <2>2, <2>3, <2>4
<1>5. ASSUME NEW k
      PROVE  /\ ~Reject(n) => Spent(k)' = Spent(k)
             /\ Spent(k)' <= Spent(k)
  <2>1. SpentIn(k) \in SUBSET DOMAIN ads /\ SpentIn(k)' \in SUBSET SpentIn(k)
        /\ (~Reject(n) => SpentIn(k)' = SpentIn(k))
    BY <1>1, DecideSets DEF Sums
  <2>2. Spent(k)' = Rates(ads', SpentIn(k)') /\ Spent(k) = Rates(ads, SpentIn(k))
    BY <1>1 DEF Sums
  <2>3. Rates(ads', SpentIn(k)') = Rates(ads, SpentIn(k)')
    BY <1>1, <2>1, RatesKept
  <2>4. QED
    BY <2>1, <2>2, <2>3, RatesOfFewer DEF AdsOK
<1>6. QED
  BY <1>2, <1>3, <1>4, <1>5, DecideSets

LEMMA DeliverSums ==
  ASSUME Base, NEW p \in Publishers, NEW c \in Eligible(p), Delivers(p, c),
         NEW r, r = RateOf(ClearingPrice(c, Eligible(p)))
  PROVE  /\ \A a : Due(a)' = IF a = Owner(c) THEN Due(a) + r ELSE Due(a)
         /\ \A k : Spent(k)' = IF c \in ProjectsOf(k) THEN Spent(k) + r ELSE Spent(k)
<1> DEFINE n == Len(ads) + 1
<1>1. /\ Sums /\ Sums' /\ OldAds /\ AdsOK /\ AdsOK'
      /\ n \notin DOMAIN ads /\ DOMAIN ads' = DOMAIN ads \cup {n} /\ ads'[n].rate = r
  <2>1. /\ AdsOK' /\ OldAds /\ n \notin DOMAIN ads /\ DOMAIN ads' = DOMAIN ads \cup {n}
        /\ ads'[n] = NewAd(p, c)
    BY DeliverAds
  <2>2. ads'[n].rate = r
    BY <2>1 DEF NewAd
  <2>3. AdsOK
    BY DEF Base
  <2> HIDE DEF n
  <2>4. QED
    BY <2>1, <2>2, <2>3, SumsAre, SumsAfter
<1>2. ASSUME NEW S \in SUBSET DOMAIN ads
      PROVE  /\ Rates(ads', S) = Rates(ads, S)
             /\ Rates(ads', S \cup {n}) = Rates(ads, S) + r
  <2>1. Rates(ads', S) = Rates(ads, S)
    BY <1>1, RatesKept
  <2>2. S \cup {n} \in SUBSET DOMAIN ads' /\ (S \cup {n}) \ {n} = S
    BY <1>1
  <2>3. Rates(ads', S \cup {n}) = ads'[n].rate + Rates(ads', (S \cup {n}) \ {n})
    BY <1>1, <2>2, RatesSplit DEF AdsOK
  <2>4. r \in Nat /\ Rates(ads, S) \in Nat
    BY PriceBounds, RatesTyped DEF Base, AdsOK
  <2> HIDE DEF n
  <2>5. Rates(ads', S \cup {n}) = r + Rates(ads, S)
    BY <1>1, <2>1, <2>2, <2>3
  <2>6. QED
    BY <2>1, <2>4, <2>5
<1>3. /\ \A a : Exposed(a)' = Exposed(a) \cup (IF a = Owner(c) THEN {n} ELSE {})
      /\ \A k : SpentIn(k)' = SpentIn(k) \cup (IF c \in ProjectsOf(k) THEN {n} ELSE {})
  BY DeliverSets
<1> HIDE DEF n
<1>4. ASSUME NEW a PROVE Due(a)' = IF a = Owner(c) THEN Due(a) + r ELSE Due(a)
  <2>1. Due(a)' = Rates(ads', Exposed(a)') /\ Due(a) = Rates(ads, Exposed(a))
        /\ Exposed(a) \in SUBSET DOMAIN ads
    BY <1>1 DEF Sums
  <2>2. Exposed(a)' = IF a = Owner(c) THEN Exposed(a) \cup {n} ELSE Exposed(a)
    BY <1>3
  <2>3. QED
    BY <1>2, <2>1, <2>2
<1>5. ASSUME NEW k PROVE Spent(k)' = IF c \in ProjectsOf(k) THEN Spent(k) + r ELSE Spent(k)
  <2>1. Spent(k)' = Rates(ads', SpentIn(k)') /\ Spent(k) = Rates(ads, SpentIn(k))
        /\ SpentIn(k) \in SUBSET DOMAIN ads
    BY <1>1 DEF Sums
  <2>2. SpentIn(k)' = IF c \in ProjectsOf(k) THEN SpentIn(k) \cup {n} ELSE SpentIn(k)
    BY <1>3
  <2>3. QED
    BY <1>2, <2>1, <2>2
<1>6. QED
  BY <1>4, <1>5

-----------------------------------------------------------------------------
(* The base holds at the start and is kept by every step *)

LEMMA StartBase ==
  ASSUME Init
  PROVE  Base
<1>1. MarketOK
  <2>1. entry \in [Projects -> Entry \cup {None}]
    BY StartAssumption DEF Init, Entry
  <2>2. status \in [Campaigns -> {"none", "paused", "active"}]
    BY DEF Init
  <2>3. budget \in [Pools -> Nat] /\ pool \in [Pools -> {"none", "open", "closed"}]
        /\ member \in [Publishers -> Pools \cup {None}]
    BY StartAssumption DEF Init
  <2>4. asked \in [Publishers \X Pools -> 0 .. MaxRequests]
    BY ConstantsSound DEF Init, Constants
  <2>5. QED
    BY <2>1, <2>2, <2>3, <2>4 DEF MarketOK
<1>2. ads = <<>> /\ held = {} /\ returned = {} /\ DOMAIN ads = {}
  BY DEF Init
<1>3. AdsOK
  BY <1>2 DEF AdsOK
<1>4. StageOK
  BY DEF Init, StageOK
<1>5. BalanceOK /\ TimesOK
  BY StartAssumption DEF Init, BalanceOK, TimesOK
<1>6. EntriesKnown
  <2>1. ASSUME NEW c \in Projects, status[c] # "none" PROVE entry[c] # None
    BY <2>1, StartAssumption, MarketAssumption DEF Init, Campaigns
  <2>2. QED
    BY <1>2, <2>1 DEF EntriesKnown
<1>7. ReportedInPast
  BY <1>2 DEF ReportedInPast
<1>8. Covered
  <2>1. SUFFICES ASSUME NEW a \in Advertisers PROVE RateSum(Exposed(a)) <= balance[a]
    BY DEF Covered
  <2>2. Exposed(a) = {}
    BY <1>2 DEF Exposed
  <2>3. Units([n \in {} |-> ads[n].rate]) = {}
    BY DEF Units
  <2>4. RateSum({}) = 0
    BY <2>3, FS_EmptySet DEF RateSum, Total
  <2>5. balance[a] \in Nat
    BY <1>5 DEF BalanceOK
  <2>6. QED
    BY <2>2, <2>4, <2>5
<1>9. QED
  BY <1>1, <1>3, <1>4, <1>5, <1>6, <1>7, <1>8 DEF Base

\* A step that leaves the ads alone.
LEMMA QuietBase ==
  ASSUME Base, Quiet, MarketOK', StageOK', BalanceOK', returned' \subseteq held,
         edits' \in Nat, restarts' \in Nat,
         \A c \in Projects : status'[c] # "none" => entry'[c] # None,
         \A a \in Advertisers : Due(a) <= balance'[a]
  PROVE  Base'
<1>1. AdsOK' /\ TimesOK' /\ ReportedInPast'
  BY DEF Base, Quiet, AdsOK, TimesOK, ReportedInPast
<1>2. EntriesKnown'
  <2>1. \A n \in DOMAIN ads' : ads'[n].camp \in Projects => entry'[ads'[n].camp] # None
    BY DEF Base, Quiet, EntriesKept, EntriesKnown
  <2>2. QED
    BY <2>1 DEF EntriesKnown
<1>3. \A a : Due(a)' = Due(a)
  BY <1>1, QuietSums DEF Base
<1>4. Covered'
  BY <1>3 DEF Covered, Due
<1>5. QED
  BY <1>1, <1>2, <1>4 DEF Base

LEMMA DuePaid ==
  ASSUME Base, NEW a \in Advertisers
  PROVE  /\ Due(a) <= balance[a] /\ Due(a) \in Nat /\ balance[a] \in Nat
         /\ Spendable(a) = balance[a] - Due(a)
         /\ Withdrawable(a) \in Nat /\ Withdrawable(a) <= balance[a] - Due(a)
<1>1. Due(a) <= balance[a]
  BY DEF Base, Covered, Due
<1>2. /\ RateSum(Exposed(a)) \in Nat /\ balance[a] \in Nat
      /\ Spendable(a) = IF balance[a] >= RateSum(Exposed(a))
                        THEN balance[a] - RateSum(Exposed(a)) ELSE 0
  BY SpendableIs DEF Base
<1>3. Withdrawable(a) \in Nat /\ Withdrawable(a) <= Spendable(a)
  BY WithdrawableIs DEF Base
<1>4. QED
  BY <1>1, <1>2, <1>3 DEF Due

\* The entries of a market step that is no new project.
LEMMA SameEntries ==
  ASSUME Base, Edit, entry' = entry
  PROVE  /\ Quiet /\ StageOK' /\ returned' \subseteq held
         /\ edits' \in Nat /\ restarts' \in Nat /\ clock' = clock
<1>1. Quiet
  BY DEF Edit, Quiet, EntriesKept, deliveries
<1>2. StageOK' /\ returned' \subseteq held /\ edits' \in Nat /\ restarts' \in Nat
  BY DEF Edit, stage, deliveries, StageOK, Base, AdsOK, TimesOK
<1>3. QED
  BY <1>1, <1>2 DEF Quiet

LEMMA ManageBase ==
  ASSUME Base, Manage
  PROVE  /\ Base' /\ Quiet /\ UNCHANGED <<pool, budget>>
         /\ \A x \in Advertisers : balance[x] - balance'[x] <= Withdrawable(x)
<1> DEFINE Goal == /\ Base' /\ Quiet /\ UNCHANGED <<pool, budget>>
                   /\ \A x \in Advertisers : balance[x] - balance'[x] <= Withdrawable(x)
<1>1. ASSUME NEW c \in Ads, CreateCampaign(c) PROVE Goal
  <2>1. Edit /\ entry' = entry /\ balance' = balance /\ status' = [status EXCEPT ![c] = "paused"]
        /\ UNCHANGED <<pool, budget, member, asked>>
    BY <1>1 DEF CreateCampaign
  <2>2. MarketOK' /\ BalanceOK'
    BY <2>1 DEF Base, MarketOK, BalanceOK
  <2>3. \A d \in Projects : status'[d] # "none" => entry'[d] # None
    BY <2>1, MarketAssumption DEF Base, MarketOK, EntriesKnown, Campaigns
  <2>4. \A x \in Advertisers : balance[x] - balance'[x] <= Withdrawable(x)
    BY <2>1, DuePaid
  <2>5. QED
    BY <2>1, <2>2, <2>3, <2>4, SameEntries, DuePaid, QuietBase
<1>2. ASSUME NEW c \in Campaigns, NEW s \in {"active", "paused"}, SetStatus(c, s) PROVE Goal
  <2>1. Edit /\ entry' = entry /\ balance' = balance /\ status' = [status EXCEPT ![c] = s]
        /\ status[c] # "none" /\ UNCHANGED <<pool, budget, member, asked>>
    BY <1>2 DEF SetStatus
  <2>2. MarketOK' /\ BalanceOK'
    BY <2>1 DEF Base, MarketOK, BalanceOK
  <2>3. \A d \in Projects : status'[d] # "none" => entry'[d] # None
    BY <2>1 DEF Base, MarketOK, EntriesKnown, Campaigns
  <2>4. \A x \in Advertisers : balance[x] - balance'[x] <= Withdrawable(x)
    BY <2>1, DuePaid
  <2>5. QED
    BY <2>1, <2>2, <2>3, <2>4, SameEntries, DuePaid, QuietBase
<1>3. ASSUME NEW a \in Advertisers, NEW amount \in Amounts, Deposit(a, amount) \/ Withdraw(a, amount)
      PROVE  Goal
  <2>1. Edit /\ entry' = entry /\ UNCHANGED <<status, pool, budget, member, asked>>
    BY <1>3 DEF Deposit, Withdraw, market
  <2>2. amount \in Nat /\ balance \in [Advertisers -> Nat]
    BY MarketAssumption DEF Base, BalanceOK
  <2>3. /\ balance' \in [Advertisers -> Nat]
        /\ \A x \in Advertisers : /\ Due(x) <= balance'[x]
                                  /\ balance[x] - balance'[x] <= Withdrawable(x)
    <3>1. CASE Deposit(a, amount)
      <4>1. balance' = [balance EXCEPT ![a] = @ + amount]
        BY <3>1 DEF Deposit
      <4>2. QED
        BY <2>2, <4>1, DuePaid
    <3>2. CASE Withdraw(a, amount)
      <4>1. balance' = [balance EXCEPT ![a] = @ - amount] /\ amount <= Withdrawable(a)
        BY <3>2 DEF Withdraw
      <4>2. /\ Due(a) \in Nat /\ balance[a] \in Nat /\ Due(a) <= balance[a] - amount
        BY <2>2, <4>1, DuePaid
      <4>3. QED
        BY <2>2, <4>1, <4>2, DuePaid
    <3>3. QED
      BY <1>3, <3>1, <3>2
  <2>4. MarketOK' /\ BalanceOK'
    BY <2>1, <2>3 DEF Base, MarketOK, BalanceOK
  <2>5. \A d \in Projects : status'[d] # "none" => entry'[d] # None
    BY <2>1 DEF Base, EntriesKnown
  <2>6. QED
    BY <2>1, <2>3, <2>4, <2>5, SameEntries, QuietBase
<1>4. QED
  BY <1>1, <1>2, <1>3 DEF Manage

LEMMA HostBase ==
  ASSUME Base, Host
  PROVE  Base' /\ Quiet /\ balance' = balance
<1> DEFINE Goal == Base' /\ Quiet /\ balance' = balance
<1>1. ASSUME Edit, UNCHANGED <<status, entry, balance>>, MarketOK' PROVE Goal
  <2>1. BalanceOK' /\ \A d \in Projects : status'[d] # "none" => entry'[d] # None
    BY <1>1 DEF Base, BalanceOK, EntriesKnown
  <2>2. balance' = balance
    BY <1>1
  <2>3. QED
    BY <1>1, <2>1, <2>2, SameEntries, DuePaid, QuietBase
<1>2. ASSUME NEW k \in Pools, NEW b \in Budgets, CreatePool(k, b) \/ SetBudget(k, b) PROVE Goal
  <2>1. Edit /\ UNCHANGED <<status, entry, balance>>
    BY <1>2 DEF CreatePool, SetBudget
  <2>2. b \in Nat
    BY MarketAssumption
  <2>3. MarketOK'
    BY <1>2, <2>2 DEF Base, MarketOK, CreatePool, SetBudget
  <2>4. QED
    BY <1>1, <2>1, <2>3
<1>3. ASSUME NEW k \in Pools, ClosePool(k) PROVE Goal
  BY <1>1, <1>3 DEF Base, MarketOK, ClosePool
<1>4. ASSUME NEW p \in Publishers, NEW k \in Pools, Join(p, k) PROVE Goal
  BY <1>1, <1>4 DEF Base, MarketOK, Join
<1>5. ASSUME NEW p \in Publishers, Leave(p) PROVE Goal
  BY <1>1, <1>5 DEF Base, MarketOK, Leave
<1>6. ASSUME NEW p \in Publishers, AskProject(p) PROVE Goal
  <2> DEFINE k == PoolOf(p)
  <2>1. /\ Edit /\ UNCHANGED <<status, entry, balance>> /\ UNCHANGED <<pool, budget, member>>
        /\ k # None /\ asked[<<p, k>>] < MaxRequests
        /\ asked' = [asked EXCEPT ![<<p, k>>] = @ + 1]
    BY <1>6 DEF AskProject, market
  <2>2. k \in Pools
    BY <2>1 DEF PoolOf, Base, MarketOK
  <2> HIDE DEF k
  <2>3. asked \in [Publishers \X Pools -> 0 .. MaxRequests] /\ MaxRequests \in Nat
    BY ConstantsSound DEF Base, MarketOK, Constants
  <2>4. asked[<<p, k>>] \in 0 .. MaxRequests /\ asked[<<p, k>>] + 1 \in 0 .. MaxRequests
    BY <2>1, <2>2, <2>3
  <2>5. asked' \in [Publishers \X Pools -> 0 .. MaxRequests]
    BY <2>1, <2>3, <2>4
  <2>6. MarketOK'
    BY <2>1, <2>5 DEF Base, MarketOK
  <2>7. QED
    BY <1>1, <2>1, <2>6
<1>7. ASSUME NEW p \in Publishers, NEW k \in Pools, CreateProject(p, k) PROVE Goal
  <2>1. PICK c \in Projects :
          /\ entry[c] = None /\ asked[<<p, k>>] > 0
          /\ asked' = [asked EXCEPT ![<<p, k>>] = @ - 1]
          /\ entry' = [entry EXCEPT ![c] = [pool |-> k, team |-> p]]
          /\ status' = [status EXCEPT ![c] = "active"]
    <3> DEFINE c == CHOOSE x \in Projects : entry[x] = None
    <3>1. c \in Projects /\ entry[c] = None
      BY <1>7 DEF CreateProject
    <3>2. QED
      BY <1>7, <3>1 DEF CreateProject
  <2>2. UNCHANGED <<pool, budget, member>> /\ UNCHANGED <<tour, recent, built>>
        /\ UNCHANGED <<ads, held, returned>> /\ UNCHANGED <<balance, clock, edits, restarts>>
    BY <1>7 DEF CreateProject, stage, deliveries
  <2>3. [pool |-> k, team |-> p] \in Entry /\ None \notin Entry
    BY ConstantsSound DEF Entry, Constants
  <2>4. asked' \in [Publishers \X Pools -> 0 .. MaxRequests]
    <3>1. asked \in [Publishers \X Pools -> 0 .. MaxRequests] /\ MaxRequests \in Nat
      BY ConstantsSound DEF Base, MarketOK, Constants
    <3>2. asked[<<p, k>>] \in 0 .. MaxRequests /\ asked[<<p, k>>] - 1 \in 0 .. MaxRequests
      BY <2>1, <3>1
    <3>3. QED
      BY <2>1, <3>1, <3>2
  <2>5. MarketOK'
    BY <2>1, <2>2, <2>3, <2>4 DEF Base, MarketOK, Campaigns
  <2>6. EntriesKept
    BY <2>1 DEF Base, MarketOK, EntriesKept
  <2>7. StageOK' /\ BalanceOK' /\ returned' \subseteq held /\ edits' \in Nat /\ restarts' \in Nat
    BY <2>2 DEF Base, StageOK, BalanceOK, AdsOK, TimesOK
  <2>8. \A d \in Projects : status'[d] # "none" => entry'[d] # None
    BY <2>1, <2>3 DEF Base, MarketOK, EntriesKnown, Campaigns
  <2>9. Quiet /\ balance' = balance
    BY <2>2, <2>6 DEF Quiet
  <2>10. QED
    BY <2>5, <2>7, <2>8, <2>9, DuePaid, QuietBase
<1>8. QED
  BY <1>2, <1>3, <1>4, <1>5, <1>6, <1>7 DEF Host

-----------------------------------------------------------------------------
(* Publishers, time and restarts *)

\* The tours after a delivery.
LEMMA PlaysTyped ==
  ASSUME Base, NEW p \in Publishers, NEW next \in Seq(Campaigns), next # <<>>, Plays(p, next)
  PROVE  StageOK'
<1> DEFINE c == Head(next)
<1>1. c \in Campaigns /\ Tail(next) \in Seq(Campaigns)
  BY HeadTailProperties
<1> HIDE DEF c
<1>2. tour' \in [Publishers -> Seq(Campaigns)]
  <2>1. tour' = [tour EXCEPT ![p] = Tail(next)]
    BY DEF Plays
  <2>2. QED
    BY <1>1, <2>1 DEF Base, StageOK
<1>3. recent' \in [Publishers -> Seq(Campaigns)]
  <2>1. recent[p] \in Seq(Campaigns)
    BY DEF Base, StageOK
  <2>2. Only(recent[p], Campaigns \ {c}) \in Seq(Campaigns)
    BY <2>1, OnlyIs
  <2>3. Append(Only(recent[p], Campaigns \ {c}), c) \in Seq(Campaigns)
    BY <1>1, <2>2, AppendProperties
  <2>4. recent' = [recent EXCEPT ![p] = Append(Only(recent[p], Campaigns \ {c}), c)]
    BY DEF Plays, Remember, c
  <2>5. QED
    BY <2>3, <2>4 DEF Base, StageOK
<1>4. built' \in [Publishers -> [Campaigns -> Nat]]
  <2>1. \A d : Occurrences(next, d) \in Nat
    BY OccurrencesFinite
  <2>2. [d \in Campaigns |-> built[p][d] + Occurrences(next, d)] \in [Campaigns -> Nat]
    BY <2>1 DEF Base, StageOK
  <2>3. built' = built \/ built' = [built EXCEPT ![p] = [d \in Campaigns |-> built[p][d] + Occurrences(next, d)]]
    BY DEF Plays
  <2>4. QED
    BY <2>2, <2>3 DEF Base, StageOK
<1>5. QED
  BY <1>2, <1>3, <1>4 DEF StageOK

LEMMA PriceCovered ==
  ASSUME Base, NEW p \in Publishers, NEW c \in Eligible(p),
         NEW r, r = RateOf(ClearingPrice(c, Eligible(p)))
  PROVE  /\ r \in Nat /\ Owner(c) \in Advertisers /\ Due(Owner(c)) + r <= balance[Owner(c)]
         /\ c \notin Projects => r <= Withdrawable(Owner(c)) /\ Withdrawable(Owner(c)) > 0
<1>1. /\ SpendableFor(c) >= RateOf(Bid(c)) /\ RateOf(Bid(c)) > 0
      /\ Owner(c) \in Advertisers /\ Bid(c) \in Nat
  BY EligibleIs DEF Base
<1>2. RateOf(Bid(c)) \in Nat
  BY <1>1, RateTyped
<1>3. r \in Nat /\ r <= RateOf(Bid(c))
  BY PriceBounds DEF Base
<1>4. /\ Due(Owner(c)) \in Nat /\ balance[Owner(c)] \in Nat /\ Due(Owner(c)) <= balance[Owner(c)]
      /\ Spendable(Owner(c)) = balance[Owner(c)] - Due(Owner(c))
      /\ Withdrawable(Owner(c)) \in Nat
      /\ Withdrawable(Owner(c)) <= balance[Owner(c)] - Due(Owner(c))
  BY <1>1, DuePaid
<1>5. r <= SpendableFor(c) /\ SpendableFor(c) > 0
  <2>1. SpendableFor(c) \in Int
    BY <1>4 DEF SpendableFor
  <2>2. QED
    BY <1>1, <1>2, <1>3, <2>1
<1>6. r <= balance[Owner(c)] - Due(Owner(c))
  BY <1>3, <1>4, <1>5 DEF SpendableFor
<1>7. c \notin Projects => r <= Withdrawable(Owner(c)) /\ Withdrawable(Owner(c)) > 0
  BY <1>5 DEF SpendableFor
<1>8. QED
  BY <1>1, <1>3, <1>4, <1>6, <1>7

LEMMA ServeBase ==
  ASSUME Base, NEW p \in Publishers, ServeAd(p)
  PROVE  Base'
<1>1. PICK next \in Seq(Campaigns) :
        /\ next # <<>> /\ Head(next) \in Eligible(p)
        /\ Delivers(p, Head(next)) /\ Plays(p, next)
  BY ServeParts
<1>2. PICK c : c = Head(next)
  OBVIOUS
<1>3. c \in Eligible(p) /\ Delivers(p, c)
  BY <1>1, <1>2
<1>4. PICK n : n = Len(ads) + 1
  OBVIOUS
<1>5. PICK r : r = RateOf(ClearingPrice(c, Eligible(p)))
  OBVIOUS
<1>6. UNCHANGED <<status, entry, pool, budget, member>> /\ UNCHANGED <<asked, balance, clock, edits, restarts>>
  BY <1>3 DEF Delivers, market
<1>7. /\ AdsOK' /\ n \notin DOMAIN ads /\ DOMAIN ads' = DOMAIN ads \cup {n}
      /\ ads'[n] = NewAd(p, c) /\ \A m \in DOMAIN ads : ads'[m] = ads[m]
  BY <1>3, <1>4, DeliverAds
<1>8. MarketOK' /\ BalanceOK' /\ TimesOK'
  BY <1>6 DEF Base, MarketOK, BalanceOK, TimesOK
<1>9. StageOK'
  BY <1>1, PlaysTyped
<1>10. EntriesKnown'
  <2>1. ads'[n].camp = c /\ (c \in Projects => entry[c] # None)
    BY <1>3, <1>7, EligibleIs DEF NewAd, Base
  <2>2. \A m \in DOMAIN ads' : ads'[m].camp \in Projects => entry'[ads'[m].camp] # None
    BY <1>6, <1>7, <2>1 DEF Base, EntriesKnown
  <2>3. QED
    BY <1>6, <2>2 DEF Base, EntriesKnown
<1>11. ReportedInPast'
  <2>1. ads'[n].at = clock /\ clock \in Nat
    BY <1>7 DEF NewAd, Base, TimesOK
  <2>2. QED
    BY <1>6, <1>7, <2>1 DEF Base, ReportedInPast
<1>12. Covered'
  <2>1. \A a : Due(a)' = IF a = Owner(c) THEN Due(a) + r ELSE Due(a)
    BY <1>3, <1>5, DeliverSums
  <2>2. Due(Owner(c)) + r <= balance[Owner(c)]
    BY <1>3, <1>5, PriceCovered
  <2>3. \A a \in Advertisers : Due(a) <= balance[a]
    BY DuePaid
  <2>4. \A a \in Advertisers : Due(a)' <= balance'[a]
    BY <1>6, <2>1, <2>2, <2>3
  <2>5. QED
    BY <2>4 DEF Covered, Due
<1>13. QED
  BY <1>7, <1>8, <1>9, <1>10, <1>11, <1>12 DEF Base

LEMMA SkipBase ==
  ASSUME Base, NEW p \in Publishers, ServeNothing(p)
  PROVE  Base' /\ Quiet /\ balance' = balance
<1>1. /\ tour' = [tour EXCEPT ![p] = GiveBack(p)] /\ returned' = returned \cup Restored(p)
      /\ UNCHANGED <<status, entry, pool, budget, member>>
      /\ UNCHANGED <<asked, recent, built, ads, held, balance, clock, edits, restarts>>
  BY DEF ServeNothing, market
<1>2. GiveBack(p) \in Seq(Campaigns) /\ Restored(p) \subseteq held
  BY GiveBackIs, RestoredIs DEF Base
<1>3. MarketOK' /\ StageOK' /\ BalanceOK' /\ returned' \subseteq held
  BY <1>1, <1>2 DEF Base, MarketOK, StageOK, BalanceOK, AdsOK
<1>4. /\ edits' \in Nat /\ restarts' \in Nat
      /\ \A d \in Projects : status'[d] # "none" => entry'[d] # None
  BY <1>1 DEF Base, TimesOK, EntriesKnown
<1>5. Quiet /\ balance' = balance
  BY <1>1 DEF Quiet, EntriesKept
<1>6. QED
  BY <1>3, <1>4, <1>5, DuePaid, QuietBase

LEMMA RestartBase ==
  ASSUME Base, Restart
  PROVE  Base' /\ Quiet /\ balance' = balance
<1>1. /\ returned' = Expired /\ recent' = [p \in Publishers |-> <<>>]
      /\ asked' = [pk \in Publishers \X Pools |-> 0] /\ restarts' = restarts + 1
      /\ UNCHANGED <<status, entry, pool, budget, member>>
      /\ UNCHANGED <<tour, built, ads, held, balance, clock, edits>>
  BY DEF Restart, market
<1>2. returned' \subseteq held
  BY <1>1 DEF Expired
<1>3. asked' \in [Publishers \X Pools -> 0 .. MaxRequests]
  BY <1>1, ConstantsSound DEF Constants
<1>4. recent' \in [Publishers -> Seq(Campaigns)]
  BY <1>1
<1>5. MarketOK' /\ StageOK' /\ BalanceOK'
  BY <1>1, <1>3, <1>4 DEF Base, MarketOK, StageOK, BalanceOK
<1>6. /\ edits' \in Nat /\ restarts' \in Nat
      /\ \A d \in Projects : status'[d] # "none" => entry'[d] # None
  BY <1>1 DEF Base, TimesOK, EntriesKnown
<1>7. Quiet /\ balance' = balance
  BY <1>1 DEF Quiet, EntriesKept
<1>8. QED
  BY <1>2, <1>5, <1>6, <1>7, DuePaid, QuietBase

LEMMA TickBase ==
  ASSUME Base, Tick
  PROVE  Base'
<1>1. /\ clock' = clock + 1 /\ UNCHANGED <<status, entry, pool, budget, member>>
      /\ UNCHANGED <<asked, tour, recent, built, ads, held, returned, balance, edits, restarts>>
  BY DEF Tick, market, stage, deliveries
<1>2. MarketOK' /\ StageOK' /\ BalanceOK' /\ TimesOK' /\ AdsOK' /\ EntriesKnown'
  BY <1>1 DEF Base, MarketOK, StageOK, BalanceOK, TimesOK, AdsOK, EntriesKnown
<1>3. ReportedInPast'
  <2>1. \A n \in DOMAIN ads : ads[n].at \in Nat
    BY AdTyped DEF Base
  <2>2. QED
    BY <1>1, <2>1 DEF Base, ReportedInPast, TimesOK
<1>4. \A a \in Advertisers : Due(a)' <= balance'[a]
  <2>1. TAKE a \in Advertisers
  <2>2. Due(a)' <= Due(a) /\ Due(a)' \in Nat
    BY <1>2, TickSums, SumsAfter DEF Base, Sums
  <2>3. QED
    BY <1>1, <2>2, DuePaid
<1>5. QED
  BY <1>2, <1>3, <1>4 DEF Base, Covered, Due

LEMMA DecideBase ==
  ASSUME Base, NEW n \in DOMAIN ads, Report(n) \/ Verify(n) \/ Reject(n)
  PROVE  /\ Base'
         /\ UNCHANGED <<status, entry, pool, budget, member>> /\ UNCHANGED <<tour, recent, built>>
<1>1. /\ AdsOK' /\ OldAds /\ EntriesKept /\ DOMAIN ads' = DOMAIN ads /\ clock' = clock
      /\ \A m \in DOMAIN ads : ads'[m].at = ads[m].at \/ ads'[m].at = clock
  BY DecideKeeps DEF Base
<1>2. /\ UNCHANGED <<status, entry, pool, budget, member>> /\ UNCHANGED <<asked, edits, restarts>>
      /\ UNCHANGED <<tour, recent, built>>
  BY DEF Report, Verify, Reject, Decide, market, stage
<1>3. MarketOK' /\ StageOK' /\ TimesOK'
  BY <1>1, <1>2 DEF Base, MarketOK, StageOK, TimesOK
<1>4. EntriesKnown' /\ ReportedInPast'
  BY <1>1, <1>2 DEF Base, EntriesKnown, ReportedInPast, OldAds, TimesOK
<1>5. /\ \A a : Due(a)' \in Nat
      /\ Report(n) => \A a : Due(a)' = Due(a)
      /\ ~Report(n) => \A a : /\ a = Payer(n) => Due(a) = ads[n].rate + Due(a)'
                              /\ a # Payer(n) => Due(a)' = Due(a)
  BY <1>1, DecideSums, SumsAfter DEF Base, Sums
<1>6. Payer(n) \in Advertisers /\ ads[n].rate \in Nat
  BY <1>1, AdKept, AdTyped DEF Base
<1>7. balance \in [Advertisers -> Nat] /\ \A a \in Advertisers : Due(a) <= balance[a] /\ Due(a) \in Nat
  BY DuePaid DEF Base, BalanceOK
<1>8. balance' \in [Advertisers -> Nat] /\ \A a \in Advertisers : Due(a)' <= balance'[a]
  <2>1. CASE Verify(n)
    <3>1. balance' = [balance EXCEPT ![Payer(n)] = @ - ads[n].rate]
      BY <2>1 DEF Verify, Payer
    <3>2. ~Report(n)
      <4>1. ads[n].state = "pending"
        BY <2>1 DEF Verify, Decide
      <4>2. QED
        BY <4>1 DEF Report, Decide
    <3>4. PICK a : a = Payer(n)
      OBVIOUS
    <3>5. a \in Advertisers /\ Due(a) = ads[n].rate + Due(a)' /\ balance' = [balance EXCEPT ![a] = @ - ads[n].rate]
      BY <1>5, <1>6, <3>1, <3>2, <3>4
    <3>6. balance[a] \in Nat /\ Due(a)' \in Nat /\ Due(a)' + ads[n].rate <= balance[a]
      BY <1>5, <1>6, <1>7, <3>5
    <3>7. balance[a] - ads[n].rate \in Nat /\ Due(a)' <= balance[a] - ads[n].rate
      BY <1>6, <3>6
    <3>8. balance' \in [Advertisers -> Nat] /\ balance'[a] = balance[a] - ads[n].rate
          /\ \A x \in Advertisers : x # a => balance'[x] = balance[x]
      BY <1>7, <3>5, <3>7
    <3>9. \A x \in Advertisers : Due(x)' <= balance'[x]
      BY <1>5, <1>7, <3>2, <3>4, <3>7, <3>8
    <3>10. QED
      BY <3>8, <3>9
  <2>2. CASE ~Verify(n)
    <3>1. balance' = balance
      BY <2>2 DEF Report, Reject
    <3>2. \A a : a \in Advertisers => Due(a)' <= Due(a)
      BY <1>5, <1>6, <1>7
    <3>3. QED
      BY <1>5, <1>7, <3>1, <3>2
  <2>3. QED
    BY <2>1, <2>2
<1>9. QED
  BY <1>1, <1>2, <1>3, <1>4, <1>8 DEF Base, BalanceOK, Covered, Due

LEMMA NextBase == Base /\ [Next]_vars => Base'
<1> SUFFICES ASSUME Base, [Next]_vars PROVE Base'
  OBVIOUS
<1>1. CASE Manage
  BY <1>1, ManageBase
<1>2. CASE Host
  BY <1>2, HostBase
<1>3. CASE Show
  BY <1>3, ServeBase, SkipBase, DecideBase DEF Show
<1>4. CASE Tick
  BY <1>4, TickBase
<1>5. CASE Restart
  BY <1>5, RestartBase
<1>6. CASE UNCHANGED vars
  <2>1. /\ UNCHANGED <<status, entry, pool, budget, member>> /\ UNCHANGED <<tour, recent, built>>
        /\ UNCHANGED <<ads, held, returned>> /\ UNCHANGED <<asked, balance, clock, edits, restarts>>
    BY <1>6 DEF vars, market, stage, deliveries
  <2>2. Quiet /\ MarketOK' /\ StageOK' /\ BalanceOK' /\ returned' \subseteq held
        /\ edits' \in Nat /\ restarts' \in Nat /\ balance' = balance
        /\ \A d \in Projects : status'[d] # "none" => entry'[d] # None
    BY <2>1 DEF Base, Quiet, EntriesKept, MarketOK, StageOK, BalanceOK, AdsOK, TimesOK, EntriesKnown
  <2>3. QED
    BY <2>2, DuePaid, QuietBase
<1>7. QED
  BY <1>1, <1>2, <1>3, <1>4, <1>5, <1>6 DEF Next

LEMMA BaseAlways == Spec => []Base
<1>1. Init => Base
  BY StartBase
<1>2. QED
  BY <1>1, NextBase, PTL DEF Spec

-----------------------------------------------------------------------------
(* What a pool may spend *)

LEMMA IdleQuiet ==
  ASSUME Base, UNCHANGED vars
  PROVE  Quiet /\ balance' = balance /\ UNCHANGED <<pool, budget>>
BY DEF vars, market, deliveries, Quiet, EntriesKept

LEMMA ExcessIs ==
  ASSUME Base, NEW k \in Pools
  PROVE  /\ Spent(k) \in Nat /\ budget[k] \in Nat
         /\ Excess(k) = IF Spent(k) >= budget[k] THEN Spent(k) - budget[k] ELSE 0
<1>1. Spent(k) \in Nat /\ budget[k] \in Nat
  BY SumsAre DEF Base, MarketOK, Sums
<1>2. QED
  BY <1>1, LargerOf DEF Excess, Spent

Excesses ==
  \A k \in Pools : /\ Spent(k) \in Nat /\ budget[k] \in Nat
                   /\ Excess(k) = IF Spent(k) >= budget[k] THEN Spent(k) - budget[k] ELSE 0

LEMMA ExcessesAre == Base => Excesses
BY ExcessIs DEF Excesses

LEMMA ExcessesAfter == Base' => Excesses'
BY ExcessesAre, PTL

\* A pool spends more only within its budget.
LEMMA SpentMoves ==
  ASSUME Base, [Next]_vars, NEW k \in Pools
  PROVE  Spent(k)' <= Spent(k) \/ (Spent(k)' <= budget[k] /\ budget' = budget)
<1>1. Base' /\ Spent(k) \in Nat
  BY NextBase, ExcessIs
<1>2. ASSUME Quiet PROVE Spent(k)' <= Spent(k)
  <2>1. Spent(k)' = Spent(k)
    BY <1>1, <1>2, QuietSums DEF Base
  <2>2. QED
    BY <1>1, <2>1
<1>3. CASE Manage
  BY <1>2, <1>3, ManageBase
<1>4. CASE Host
  BY <1>2, <1>4, HostBase
<1>5. CASE Restart
  BY <1>2, <1>5, RestartBase
<1>6. CASE Tick
  BY <1>6, TickSums DEF Base
<1>7. CASE UNCHANGED vars
  BY <1>2, <1>7, IdleQuiet
<1>8. ASSUME NEW n \in DOMAIN ads, Report(n) \/ Verify(n) \/ Reject(n)
      PROVE  Spent(k)' <= Spent(k)
  BY <1>8, DecideSums DEF Base
<1>9. ASSUME NEW p \in Publishers, ServeNothing(p)
      PROVE  Spent(k)' <= Spent(k)
  BY <1>2, <1>9, SkipBase
<1>10. ASSUME NEW p \in Publishers, ServeAd(p)
       PROVE  Spent(k)' <= Spent(k) \/ (Spent(k)' <= budget[k] /\ budget' = budget)
  <2>1. PICK c \in Eligible(p) : Delivers(p, c)
    BY <1>10, ServeParts
  <2>2. PICK r : r = RateOf(ClearingPrice(c, Eligible(p)))
    OBVIOUS
  <2>3. Spent(k)' = IF c \in ProjectsOf(k) THEN Spent(k) + r ELSE Spent(k)
    BY <2>1, <2>2, DeliverSums
  <2>4. ASSUME c \in ProjectsOf(k) PROVE Spent(k)' <= budget[k] /\ budget' = budget
    <3>1. c \in Projects /\ entry[c].pool = k
      BY <2>4 DEF ProjectsOf
    <3>2. PoolOf(p) = k /\ PoolAllows(p, k, RateOf(Bid(c)))
      BY <2>1, <3>1, EligibleIs DEF Base
    <3>3. r = RateOf(Bid(c))
      BY <2>2, <3>1 DEF ClearingPrice
    <3>4. Spent(k) + r <= budget[k]
      BY <3>2, <3>3 DEF PoolAllows, Spent
    <3>5. budget' = budget
      BY <2>1 DEF Delivers, market
    <3>6. QED
      BY <2>3, <2>4, <3>4, <3>5
  <2>5. QED
    BY <1>1, <2>3, <2>4
<1>11. QED
  BY <1>3, <1>4, <1>5, <1>6, <1>7, <1>8, <1>9, <1>10 DEF Next, Show

\* A pool spends beyond its budget only because the sponsor lowered it.
THEOREM BudgetsKept == Spec => PoolBudgetKept
<1>1. ASSUME Base, [Next]_vars
      PROVE  \A k \in Pools : \/ budget'[k] < budget[k]
                              \/ SpentOn(ProjectsOf(k))' <= budget'[k]
                              \/ Excess(k)' <= Excess(k)
  <2> SUFFICES ASSUME NEW k \in Pools, ~(budget'[k] < budget[k])
      PROVE Spent(k)' <= budget'[k] \/ Excess(k)' <= Excess(k)
    BY DEF Spent
  <2>1. Base' /\ Excesses /\ Excesses'
    BY <1>1, NextBase, ExcessesAre, ExcessesAfter
  <2>2. Spent(k)' <= Spent(k) \/ (Spent(k)' <= budget[k] /\ budget' = budget)
    BY <1>1, SpentMoves
  <2>3. /\ Spent(k) \in Nat /\ budget[k] \in Nat /\ Spent(k)' \in Nat /\ budget'[k] \in Nat
        /\ Excess(k) = IF Spent(k) >= budget[k] THEN Spent(k) - budget[k] ELSE 0
        /\ Excess(k)' = IF Spent(k)' >= budget'[k] THEN Spent(k)' - budget'[k] ELSE 0
    BY <2>1 DEF Excesses
  <2>4. QED
    BY <2>2, <2>3
<1>2. Base /\ [Next]_vars =>
        [\A k \in Pools : \/ budget'[k] < budget[k]
                          \/ SpentOn(ProjectsOf(k))' <= budget'[k]
                          \/ Excess(k)' <= Excess(k)]_vars
  BY <1>1
<1>3. QED
  BY <1>2, BaseAlways, PTL DEF Spec, PoolBudgetKept

-----------------------------------------------------------------------------
(* What is set aside for the open pools of a sponsor *)

Terms(a) == [k \in OpenPools(a) |-> budget[k]]
SpentBy(a) == [k \in OpenPools(a) |-> SpentIn(k)]

Reserves ==
  \A a \in Advertisers :
    /\ IsFiniteSet(OpenPools(a)) /\ OpenPools(a) \subseteq Pools
    /\ Terms(a) \in [OpenPools(a) -> Nat]
    /\ SpentBy(a) \in [OpenPools(a) -> SUBSET DOMAIN ads]
    /\ PoolReserve(a) = Total(Asides(ads, OpenPools(a), Terms(a), SpentBy(a)))
    /\ PoolReserve(a) \in Nat
    /\ Spendable(a) = balance[a] - Due(a) /\ Spendable(a) \in Nat
    /\ Withdrawable(a) = IF Spendable(a) >= PoolReserve(a)
                         THEN Spendable(a) - PoolReserve(a) ELSE 0
    /\ Shortfall(a) = IF PoolReserve(a) >= Spendable(a)
                      THEN PoolReserve(a) - Spendable(a) ELSE 0

LEMMA ReservesAre == Base => Reserves
<1> SUFFICES ASSUME Base, NEW a \in Advertisers
    PROVE  /\ IsFiniteSet(OpenPools(a)) /\ OpenPools(a) \subseteq Pools
           /\ Terms(a) \in [OpenPools(a) -> Nat]
           /\ SpentBy(a) \in [OpenPools(a) -> SUBSET DOMAIN ads]
           /\ PoolReserve(a) = Total(Asides(ads, OpenPools(a), Terms(a), SpentBy(a)))
           /\ PoolReserve(a) \in Nat
           /\ Spendable(a) = balance[a] - Due(a) /\ Spendable(a) \in Nat
           /\ Withdrawable(a) = IF Spendable(a) >= PoolReserve(a)
                                THEN Spendable(a) - PoolReserve(a) ELSE 0
           /\ Shortfall(a) = IF PoolReserve(a) >= Spendable(a)
                             THEN PoolReserve(a) - Spendable(a) ELSE 0
  BY DEF Reserves
<1> DEFINE K == OpenPools(a)
<1>1. /\ IsFiniteSet(K) /\ K \subseteq Pools /\ PoolReserve(a) \in Nat
      /\ PoolReserve(a) = Total([k \in K |-> SetAside(k)])
      /\ \A k \in K : SetAside(k) = IF budget[k] >= SpentOn(ProjectsOf(k))
                                    THEN budget[k] - SpentOn(ProjectsOf(k)) ELSE 0
  BY ReserveIs DEF Base
<1>2. /\ Terms(a) \in [K -> Nat] /\ SpentBy(a) \in [K -> SUBSET DOMAIN ads]
      /\ \A k \in K : Spent(k) = Rates(ads, SpentIn(k))
  <2>1. Sums
    BY SumsAre DEF Base
  <2>2. QED
    BY <1>1, <2>1 DEF Sums, Terms, SpentBy, Base, MarketOK
<1>3. [k \in K |-> SetAside(k)] = Asides(ads, K, Terms(a), SpentBy(a))
  <2>1. \A k \in K : SetAside(k) = Aside(Terms(a)[k], Rates(ads, SpentBy(a)[k]))
    BY <1>1, <1>2 DEF Aside, Spent, Terms, SpentBy
  <2> HIDE DEF K
  <2>2. QED
    BY <2>1 DEF Asides
<1>4. Spendable(a) = balance[a] - Due(a) /\ Spendable(a) \in Nat
  BY DuePaid, SpendableIs DEF Base
<1>5. Withdrawable(a) = IF Spendable(a) >= PoolReserve(a)
                        THEN Spendable(a) - PoolReserve(a) ELSE 0
  BY WithdrawableIs DEF Base
<1>6. Shortfall(a) = IF PoolReserve(a) >= Spendable(a)
                     THEN PoolReserve(a) - Spendable(a) ELSE 0
  BY <1>1, <1>4, LargerOf DEF Shortfall
<1>7. QED
  BY <1>1, <1>2, <1>3, <1>4, <1>5, <1>6

LEMMA ReservesAfter == Base' => Reserves'
BY ReservesAre, PTL

LEMMA TermsKept ==
  ASSUME NEW a, SameTerms(a)
  PROVE  OpenPools(a)' = OpenPools(a) /\ Terms(a)' = Terms(a)
<1>1. \A k \in Pools : Sponsor[k] = a => pool'[k] = pool[k] /\ budget'[k] = budget[k]
  BY DEF SameTerms
<1>2. OpenPools(a)' = OpenPools(a)
  BY <1>1 DEF OpenPools
<1>3. QED
  BY <1>1, <1>2 DEF Terms, OpenPools

LEMMA AsidesKept ==
  ASSUME AdsOK, OldAds, NEW K, NEW b, NEW in \in [K -> SUBSET DOMAIN ads]
  PROVE  Asides(ads', K, b, in) = Asides(ads, K, b, in)
<1>1. \A k \in K : Rates(ads', in[k]) = Rates(ads, in[k])
  BY RatesKept
<1>2. QED
  BY <1>1 DEF Asides

\* When a set X of ads is given up, the reserve grows by their rates at most.
LEMMA ReserveMoves ==
  ASSUME Base, Base', OldAds, EntriesKept, NEW a \in Advertisers, SameTerms(a),
         NEW X \in SUBSET DOMAIN ads,
         \A k \in OpenPools(a) : SpentIn(k)' = SpentIn(k) \ X
  PROVE  PoolReserve(a)' <= PoolReserve(a) + Rates(ads, X)
<1> DEFINE K == OpenPools(a)
           in == SpentBy(a)
           left == [k \in K |-> in[k] \ X]
<1>1. K' = K /\ Terms(a)' = Terms(a)
  BY TermsKept
<1>2. /\ IsFiniteSet(K) /\ K \subseteq Pools /\ Terms(a) \in [K -> Nat] /\ in \in [K -> SUBSET DOMAIN ads]
      /\ PoolReserve(a) = Total(Asides(ads, K, Terms(a), in))
  BY ReservesAre DEF Reserves
<1>3. PoolReserve(a)' = Total(Asides(ads', K, Terms(a), SpentBy(a)'))
  <2>1. PoolReserve(a)' = Total(Asides(ads', OpenPools(a)', Terms(a)', SpentBy(a)'))
    BY ReservesAfter DEF Reserves
  <2>2. QED
    BY <1>1, <2>1
<1>4. SpentBy(a)' = left
  <2>1. SpentBy(a)' = [k \in K |-> SpentIn(k)']
    BY <1>1 DEF SpentBy
  <2>2. \A k \in K : left[k] = SpentIn(k) \ X
    BY DEF SpentBy
  <2>3. QED
    BY <2>1, <2>2
<1>5. left \in [K -> SUBSET DOMAIN ads]
  BY <1>2
<1>6. \A n \in X : \A k, l \in K : n \in in[k] /\ n \in in[l] => k = l
  <2>1. TAKE n \in X
  <2>2. \A k, l : n \in Of(ProjectsOf(k)) /\ n \in Of(ProjectsOf(l)) => k = l
    BY AdKept DEF Base
  <2>3. \A k \in K : n \in in[k] => n \in Of(ProjectsOf(k))
    BY DEF SpentBy, SpentIn, SpentAds
  <2>4. QED
    BY <2>2, <2>3
<1>7. Asides(ads', K, Terms(a), left) = Asides(ads, K, Terms(a), left)
  BY <1>5, AsidesKept DEF Base
<1>8. Total(Asides(ads, K, Terms(a), left)) <= Total(Asides(ads, K, Terms(a), in)) + Rates(ads, X)
  <2> HIDE DEF K, in
  <2>1. ads \in Seq(Ad) /\ X \in SUBSET DOMAIN ads
    BY DEF Base, AdsOK
  <2>2. QED
    BY <1>2, <1>6, <2>1, ReleaseMany
<1>9. QED
  BY <1>2, <1>3, <1>4, <1>7, <1>8

LEMMA NoRates == Rates(ads, {}) = 0
<1>1. Units([n \in {} |-> ads[n].rate]) = {}
  BY DEF Units
<1>2. QED
  BY <1>1, FS_EmptySet DEF Rates, Total

LEMMA ReserveStays ==
  ASSUME Base, Base', OldAds, EntriesKept, NEW a \in Advertisers, SameTerms(a),
         \A k \in OpenPools(a) : SpentIn(k)' = SpentIn(k)
  PROVE  PoolReserve(a)' <= PoolReserve(a)
<1>1. \A k \in OpenPools(a) : SpentIn(k)' = SpentIn(k) \ {}
  OBVIOUS
<1>2. {} \in SUBSET DOMAIN ads
  OBVIOUS
<1>3. PoolReserve(a)' <= PoolReserve(a) + Rates(ads, {})
  BY <1>1, <1>2, ReserveMoves
<1>4. PoolReserve(a) \in Nat /\ PoolReserve(a)' \in Nat
  BY ReservesAre, ReservesAfter DEF Reserves
<1>5. QED
  BY <1>3, <1>4, NoRates

Safe(a) == PoolReserve(a)' <= Spendable(a)' \/ Shortfall(a)' <= Shortfall(a)

\* What must be shown of a step: the reserve grows by no more than what is
\* free, or nothing is missing afterwards.
LEMMA SafeWhen ==
  ASSUME Base, Base', NEW a \in Advertisers,
         PoolReserve(a)' - PoolReserve(a) <= Spendable(a)' - Spendable(a)
  PROVE  Safe(a)
<1>1. /\ PoolReserve(a) \in Nat /\ Spendable(a) \in Nat
      /\ Shortfall(a) = IF PoolReserve(a) >= Spendable(a)
                        THEN PoolReserve(a) - Spendable(a) ELSE 0
  BY ReservesAre DEF Reserves
<1>2. /\ PoolReserve(a)' \in Nat /\ Spendable(a)' \in Nat
      /\ Shortfall(a)' = IF PoolReserve(a)' >= Spendable(a)'
                         THEN PoolReserve(a)' - Spendable(a)' ELSE 0
  BY ReservesAfter DEF Reserves
<1>3. Shortfall(a)' <= Shortfall(a)
  BY <1>1, <1>2
<1>4. QED
  BY <1>3 DEF Safe

LEMMA MoneyTyped ==
  ASSUME Base, Base', NEW a \in Advertisers
  PROVE  /\ PoolReserve(a) \in Nat /\ PoolReserve(a)' \in Nat
         /\ Spendable(a) = balance[a] - Due(a) /\ Spendable(a)' = balance'[a] - Due(a)'
         /\ Spendable(a) \in Nat /\ Spendable(a)' \in Nat
         /\ balance[a] \in Nat /\ balance'[a] \in Nat
         /\ Due(a) \in Nat /\ Due(a)' \in Nat
         /\ Withdrawable(a) = IF Spendable(a) >= PoolReserve(a)
                              THEN Spendable(a) - PoolReserve(a) ELSE 0
<1>1. Sums /\ Sums' /\ balance[a] \in Nat /\ balance'[a] \in Nat
  BY SumsAre, SumsAfter DEF Base, BalanceOK
<1>2. Reserves /\ Reserves'
  BY ReservesAre, ReservesAfter
<1>3. QED
  BY <1>1, <1>2 DEF Sums, Reserves

LEMMA QuietSafe ==
  ASSUME Base, Base', Quiet, NEW a \in Advertisers, SameTerms(a),
         balance[a] - balance'[a] <= Withdrawable(a)
  PROVE  Safe(a)
<1>1. /\ OldAds /\ EntriesKept /\ Due(a)' = Due(a)
      /\ \A k : SpentIn(k)' = SpentIn(k)
  BY QuietSets, QuietSums DEF Base, Quiet
<1>2. PoolReserve(a)' <= PoolReserve(a)
  BY <1>1, ReserveStays
<1>3. CASE balance'[a] >= balance[a]
  BY <1>1, <1>2, <1>3, MoneyTyped, SafeWhen
<1>4. CASE balance'[a] < balance[a]
  <2>1. PoolReserve(a)' <= Spendable(a)'
    BY <1>1, <1>2, <1>4, MoneyTyped
  <2>2. QED
    BY <2>1 DEF Safe
<1>5. QED
  BY <1>3, <1>4, MoneyTyped

LEMMA TickSafe ==
  ASSUME Base, Base', Tick, NEW a \in Advertisers, SameTerms(a)
  PROVE  Safe(a)
<1> DEFINE X == Exposed(a) \ Exposed(a)'
<1>1. /\ OldAds /\ EntriesKept /\ ads' = ads
      /\ \A n : (Live(n)' => Live(n)) /\ (Waiting(n)' <=> Waiting(n)) /\ (Billed(n)' <=> Billed(n))
      /\ \A x : Exposed(x)' \subseteq Exposed(x)
      /\ \A k : /\ SpentIn(k)' \subseteq SpentIn(k)
                /\ \A n \in SpentIn(k) \ SpentIn(k)' : n \in DOMAIN ads /\ Live(n) /\ ~Live(n)'
                                                       /\ ~Waiting(n) /\ n \in Of(ProjectsOf(k))
  BY TickSets DEF Base
<1>2. Sums /\ Sums'
  BY SumsAre, SumsAfter DEF Base
<1>3. X \in SUBSET Exposed(a) /\ Exposed(a) \ X = Exposed(a)' /\ Exposed(a) \in SUBSET DOMAIN ads
      /\ X \in SUBSET DOMAIN ads
  BY <1>1, <1>2 DEF Sums
<1>4. Due(a) = Rates(ads, X) + Due(a)' /\ Rates(ads, X) \in Nat
  <2>1. ads \in Seq(Ad)
    BY DEF Base, AdsOK
  <2> HIDE DEF X
  <2>2. Rates(ads, Exposed(a)) = Rates(ads, X) + Rates(ads, Exposed(a) \ X) /\ Rates(ads, X) \in Nat
    BY <1>3, <2>1, RatesParts
  <2>3. Due(a) = Rates(ads, Exposed(a)) /\ Due(a)' = Rates(ads', Exposed(a)')
    BY <1>2 DEF Sums
  <2>4. QED
    BY <1>1, <1>3, <2>2, <2>3
<1>5. ASSUME NEW k \in OpenPools(a) PROVE SpentIn(k)' = SpentIn(k) \ X
  <2>1. k \in Pools /\ Sponsor[k] = a
    BY DEF OpenPools
  <2>2. ASSUME NEW n \in SpentIn(k), n \notin SpentIn(k)' PROVE n \in X
    <3>1. n \in DOMAIN ads /\ Live(n) /\ ~Live(n)' /\ ~Waiting(n) /\ n \in Of(ProjectsOf(k))
      BY <1>1, <2>2
    <3>2. Payer(n) = a
      BY <1>1, <2>1, <3>1, AdKept DEF Base
    <3>3. n \in Exposed(a)
      BY <3>1, <3>2 DEF Exposed
    <3>4. n \notin Exposed(a)'
      BY <1>1, <3>1 DEF Exposed
    <3>5. QED
      BY <3>3, <3>4
  <2>3. ASSUME NEW n \in SpentIn(k)', n \in X PROVE FALSE
    <3>1. n \in Exposed(a) /\ n \notin Exposed(a)' /\ n \in DOMAIN ads
      BY <1>3, <2>3
    <3>2. Payer(n) = a /\ Payer(n)' = Payer(n) /\ (Live(n) \/ Waiting(n))
      BY <1>1, <3>1, AdKept DEF Base, Exposed
    <3>3. ~Live(n)' /\ ~Waiting(n)'
      BY <1>1, <3>1, <3>2 DEF Exposed
    <3>4. ~Billed(n)
      BY <3>2 DEF Live, Waiting, Billed
    <3>5. QED
      BY <1>1, <2>3, <3>3, <3>4 DEF SpentIn, SpentAds
  <2> HIDE DEF X
  <2>4. SpentIn(k)' \subseteq SpentIn(k)
    BY <1>1
  <2>5. QED
    BY <2>2, <2>3, <2>4
<1>6. PoolReserve(a)' <= PoolReserve(a) + Rates(ads, X)
  <2> HIDE DEF X
  <2>1. QED
    BY <1>1, <1>3, <1>5, ReserveMoves
<1>7. balance'[a] = balance[a]
  BY DEF Tick
<1> HIDE DEF X
<1>8. PoolReserve(a)' - PoolReserve(a) <= Spendable(a)' - Spendable(a)
  BY <1>4, <1>6, <1>7, MoneyTyped
<1>9. QED
  BY <1>8, SafeWhen

LEMMA DecideSafe ==
  ASSUME Base, Base', NEW n \in DOMAIN ads, Report(n) \/ Verify(n) \/ Reject(n),
         NEW a \in Advertisers, SameTerms(a)
  PROVE  Safe(a)
<1>1. /\ OldAds /\ EntriesKept /\ Payer(n) \in Advertisers /\ ads[n].rate \in Nat
      /\ n \in Exposed(Payer(n))
      /\ \A k \in Pools : n \in Of(ProjectsOf(k)) => Payer(n) = Sponsor[k]
  BY DecideKeeps, DecideSets, AdKept, AdTyped DEF Base
<1>2. /\ Report(n) => \A x : Due(x)' = Due(x)
      /\ ~Report(n) => \A x : /\ x = Payer(n) => Due(x) = ads[n].rate + Due(x)'
                              /\ x # Payer(n) => Due(x)' = Due(x)
      /\ ~Reject(n) => \A k : SpentIn(k)' = SpentIn(k)
      /\ Reject(n) => \A k : SpentIn(k)' = SpentIn(k) \ {n}
  BY DecideSums, DecideSets DEF Base
<1>3. CASE Report(n)
  <2>1. balance' = balance /\ ~Reject(n)
    <3>1. ads[n].state = "unreported"
      BY <1>3 DEF Report, Decide
    <3>2. QED
      BY <1>3, <3>1 DEF Report, Reject, Decide
  <2>2. PoolReserve(a)' <= PoolReserve(a)
    BY <1>1, <1>2, <2>1, ReserveStays
  <2>3. PoolReserve(a)' - PoolReserve(a) <= Spendable(a)' - Spendable(a)
    BY <1>2, <1>3, <2>1, <2>2, MoneyTyped
  <2>4. QED
    BY <2>3, SafeWhen
<1>4. CASE Verify(n)
  <2>1. balance' = [balance EXCEPT ![Payer(n)] = @ - ads[n].rate] /\ ~Report(n)
    <3>1. ads[n].state = "pending"
      BY <1>4 DEF Verify, Decide
    <3>2. QED
      BY <1>4, <3>1 DEF Verify, Report, Decide, Payer
  <2>2. ~Reject(n)
    <3>1. ads'[n].state = "verified"
      BY <1>4, DecideAds DEF Base, Verify
    <3>2. Reject(n) => ads'[n].state = "rejected"
      BY DecideAds DEF Base, Reject
    <3>3. QED
      BY <3>1, <3>2
  <2>3. PoolReserve(a)' <= PoolReserve(a)
    BY <1>1, <1>2, <2>2, ReserveStays
  <2>4. balance'[a] - Due(a)' = balance[a] - Due(a)
    <3>1. balance \in [Advertisers -> Nat]
      BY DEF Base, BalanceOK
    <3>2. CASE a = Payer(n)
      <4>1. balance'[a] = balance[a] - ads[n].rate /\ Due(a) = ads[n].rate + Due(a)'
        BY <1>2, <2>1, <3>1, <3>2
      <4>2. QED
        BY <1>1, <4>1, MoneyTyped
    <3>3. CASE a # Payer(n)
      BY <1>2, <2>1, <3>1, <3>3
    <3>4. QED
      BY <3>2, <3>3
  <2>5. PoolReserve(a)' - PoolReserve(a) <= Spendable(a)' - Spendable(a)
    BY <2>3, <2>4, MoneyTyped
  <2>6. QED
    BY <2>5, SafeWhen
<1>5. CASE Reject(n)
  <2>1. balance' = balance /\ ~Report(n)
    <3>1. ads[n].state = "pending"
      BY <1>5 DEF Reject, Decide
    <3>2. QED
      BY <1>5, <3>1 DEF Reject, Report, Decide
  <2>2. CASE a = Payer(n)
    <3>1. PoolReserve(a)' <= PoolReserve(a) + Rates(ads, {n})
      <4>1. {n} \in SUBSET DOMAIN ads
        OBVIOUS
      <4>2. \A k \in OpenPools(a) : SpentIn(k)' = SpentIn(k) \ {n}
        BY <1>2, <1>5
      <4>3. QED
        BY <1>1, <4>1, <4>2, ReserveMoves
    <3>2. Rates(ads, {n}) = ads[n].rate
      <4>1. {n} \in SUBSET DOMAIN ads /\ n \in {n} /\ ads \in Seq(Ad) /\ {n} \ {n} = {}
        BY DEF Base, AdsOK
      <4>2. Rates(ads, {n}) = ads[n].rate + Rates(ads, {n} \ {n})
        BY <4>1, RatesSplit
      <4>3. PICK S : S = {n} \ {n}
        OBVIOUS
      <4>4. S = {} /\ Rates(ads, {n}) = ads[n].rate + Rates(ads, S)
        BY <4>2, <4>3
      <4>5. Rates(ads, S) = 0
        BY <4>4, NoRates
      <4>6. QED
        BY <1>1, <4>4, <4>5
    <3>3. Due(a) = ads[n].rate + Due(a)'
      BY <1>2, <2>1, <2>2
    <3>4. PoolReserve(a)' - PoolReserve(a) <= Spendable(a)' - Spendable(a)
      BY <1>1, <2>1, <3>1, <3>2, <3>3, MoneyTyped
    <3>5. QED
      BY <3>4, SafeWhen
  <2>3. CASE a # Payer(n)
    <3>1. \A k \in OpenPools(a) : SpentIn(k)' = SpentIn(k)
      <4>1. TAKE k \in OpenPools(a)
      <4>2. k \in Pools /\ Sponsor[k] = a
        BY DEF OpenPools
      <4>3. n \notin SpentIn(k)
        BY <1>1, <2>3, <4>2 DEF SpentIn, SpentAds
      <4>4. QED
        BY <1>2, <1>5, <4>3
    <3>2. PoolReserve(a)' <= PoolReserve(a)
      BY <1>1, <3>1, ReserveStays
    <3>3. PoolReserve(a)' - PoolReserve(a) <= Spendable(a)' - Spendable(a)
      BY <1>2, <2>1, <2>3, <3>2, MoneyTyped
    <3>4. QED
      BY <3>3, SafeWhen
  <2>4. QED
    BY <2>2, <2>3
<1>6. QED
  BY <1>3, <1>4, <1>5

\* A pool's ad takes what it costs from the pool's budget and its sponsor alike.
LEMMA PoolAdMoves ==
  ASSUME Base, Base', NEW p \in Publishers, NEW c \in Eligible(p), Delivers(p, c), c \in Projects,
         NEW a, a = Owner(c), SameTerms(a),
         NEW r, r = RateOf(ClearingPrice(c, Eligible(p)))
  PROVE  PoolReserve(a)' + r = PoolReserve(a)
<1> DEFINE K == OpenPools(a)
           f == Asides(ads, K, Terms(a), SpentBy(a))
           g == Asides(ads', K, Terms(a), SpentBy(a)')
<1>1. a \in Advertisers /\ r \in Nat
  BY PriceCovered
<1>2. /\ IsFiniteSet(K) /\ Terms(a) \in [K -> Nat] /\ SpentBy(a) \in [K -> SUBSET DOMAIN ads]
      /\ PoolReserve(a) = Total(f)
  BY <1>1, ReservesAre DEF Reserves
<1>3. K' = K /\ Terms(a)' = Terms(a)
  BY TermsKept
<1>4. PoolReserve(a)' = Total(g) /\ SpentBy(a)' \in [K -> SUBSET DOMAIN ads']
  <2>1. /\ PoolReserve(a)' = Total(Asides(ads', OpenPools(a)', Terms(a)', SpentBy(a)'))
        /\ SpentBy(a)' \in [OpenPools(a)' -> SUBSET DOMAIN ads']
    BY <1>1, ReservesAfter DEF Reserves
  <2>2. QED
    BY <1>3, <2>1
<1>5. f \in [K -> Nat] /\ g \in [K -> Nat]
  <2>1. ads \in Seq(Ad) /\ ads' \in Seq(Ad)
    BY DEF Base, AdsOK
  <2> HIDE DEF K
  <2>2. QED
    BY <1>2, <1>4, <2>1, AsidesTyped
<1>6. PICK k : k = PoolOf(p)
  OBVIOUS
<1>7. /\ k \in Pools /\ k = entry[c].pool /\ entry[c] # None
      /\ PoolAllows(p, k, RateOf(Bid(c)))
      /\ c \in Ads => FALSE
  BY <1>6, EligibleIs, MarketAssumption DEF Base
<1>8. k \in K
  <2>1. Sponsor[k] = a
    BY <1>7 DEF Owner
  <2>2. pool[k] = "open"
    BY <1>6, <1>7, MarketAssumption DEF PoolOf
  <2>3. QED
    BY <1>7, <2>1, <2>2 DEF OpenPools
<1>9. c \in ProjectsOf(k) /\ \A l : c \in ProjectsOf(l) => l = k
  BY <1>7 DEF ProjectsOf
<1>10. Spent(k) + r <= budget[k]
  <2>1. r = RateOf(Bid(c))
    BY DEF ClearingPrice
  <2>2. QED
    BY <1>7, <2>1 DEF PoolAllows, Spent
<1>11. \A l : Spent(l)' = IF c \in ProjectsOf(l) THEN Spent(l) + r ELSE Spent(l)
  BY DeliverSums
<1>12. \A l \in K : /\ Spent(l) \in Nat /\ Spent(l)' \in Nat /\ budget[l] \in Nat
                    /\ f[l] = Aside(budget[l], Spent(l)) /\ g[l] = Aside(budget[l], Spent(l)')
  <2>1. Sums /\ Sums'
    BY SumsAre, SumsAfter DEF Base
  <2>2. ASSUME NEW l \in K
        PROVE  /\ Spent(l) \in Nat /\ Spent(l)' \in Nat /\ budget[l] \in Nat
               /\ Rates(ads, SpentBy(a)[l]) = Spent(l) /\ Rates(ads', SpentBy(a)'[l]) = Spent(l)'
               /\ Terms(a)[l] = budget[l]
    <3>1. SpentBy(a)[l] = SpentIn(l) /\ Terms(a)[l] = budget[l] /\ budget[l] \in Nat
      BY <1>2 DEF SpentBy, Terms
    <3>2. SpentBy(a)' = [x \in K |-> SpentIn(x)']
      BY <1>3 DEF SpentBy
    <3>3. SpentBy(a)'[l] = SpentIn(l)'
      BY <3>2
    <3>4. QED
      BY <2>1, <3>1, <3>3 DEF Sums
  <2> HIDE DEF K
  <2>3. QED
    BY <2>2 DEF Asides
<1>13. f[k] = g[k] + r /\ \A l \in K : l # k => g[l] = f[l]
  <2> HIDE DEF f, g, K
  <2>1. Spent(k)' = Spent(k) + r
    BY <1>9, <1>11
  <2>2. f[k] = g[k] + r
    BY <1>1, <1>8, <1>10, <1>12, <2>1 DEF Aside
  <2>3. \A l \in K : l # k => Spent(l)' = Spent(l)
    BY <1>9, <1>11
  <2>4. QED
    BY <1>12, <2>2, <2>3
<1> HIDE DEF f, g, K
<1>14. Total(g) + f[k] = Total(f) + g[k] /\ Total(f) \in Nat /\ Total(g) \in Nat
  <2>1. IsFiniteSet(K) /\ f \in [K -> Nat] /\ g \in [K -> Nat] /\ k \in K
    BY <1>2, <1>5, <1>8
  <2>2. \A l \in K : l # k => g[l] = f[l]
    BY <1>13
  <2>3. QED
    BY <2>1, <2>2, TotalUpdate
<1>15. g[k] \in Nat /\ f[k] \in Nat
  BY <1>5, <1>8
<1>16. QED
  BY <1>1, <1>2, <1>4, <1>13, <1>14, <1>15

LEMMA ServeSafe ==
  ASSUME Base, Base', NEW p \in Publishers, ServeAd(p), NEW a \in Advertisers, SameTerms(a)
  PROVE  Safe(a)
<1>1. PICK c \in Eligible(p) : Delivers(p, c)
  BY ServeParts
<1>2. PICK r : r = RateOf(ClearingPrice(c, Eligible(p)))
  OBVIOUS
<1>3. /\ OldAds /\ EntriesKept
      /\ \A x : Due(x)' = IF x = Owner(c) THEN Due(x) + r ELSE Due(x)
      /\ r \in Nat /\ balance' = balance
      /\ c \notin Projects => r <= Withdrawable(Owner(c)) /\ Withdrawable(Owner(c)) > 0
  BY <1>1, <1>2, DeliverAds, DeliverSums, PriceCovered DEF Delivers
<1>4. ASSUME \A k \in OpenPools(a) : c \notin ProjectsOf(k)
      PROVE  PoolReserve(a)' <= PoolReserve(a)
  <2>1. \A k : SpentIn(k)' = SpentIn(k) \cup (IF c \in ProjectsOf(k) THEN {Len(ads) + 1} ELSE {})
    BY <1>1, DeliverSets
  <2>2. \A k \in OpenPools(a) : SpentIn(k)' = SpentIn(k)
    BY <1>4, <2>1
  <2>3. QED
    BY <1>3, <2>2, ReserveStays
<1>5. CASE a # Owner(c)
  <2>1. \A k \in OpenPools(a) : c \notin ProjectsOf(k)
    BY <1>5, MarketAssumption DEF OpenPools, ProjectsOf, Owner
  <2>2. PoolReserve(a)' - PoolReserve(a) <= Spendable(a)' - Spendable(a)
    BY <1>3, <1>4, <1>5, <2>1, MoneyTyped
  <2>3. QED
    BY <2>2, SafeWhen
<1>6. CASE a = Owner(c) /\ c \notin Projects
  <2>1. PoolReserve(a)' <= PoolReserve(a)
    BY <1>4, <1>6 DEF ProjectsOf
  <2>2. Due(a)' = Due(a) + r /\ r <= Withdrawable(a) /\ Withdrawable(a) > 0
    BY <1>3, <1>6
  <2>3. PoolReserve(a)' <= Spendable(a)'
    BY <1>3, <2>1, <2>2, MoneyTyped
  <2>4. QED
    BY <2>3 DEF Safe
<1>7. CASE a = Owner(c) /\ c \in Projects
  <2>1. PoolReserve(a)' + r = PoolReserve(a)
    BY <1>1, <1>2, <1>7, PoolAdMoves
  <2>2. Due(a)' = Due(a) + r
    BY <1>3, <1>7
  <2>3. PoolReserve(a)' - PoolReserve(a) <= Spendable(a)' - Spendable(a)
    BY <1>3, <2>1, <2>2, MoneyTyped
  <2>4. QED
    BY <2>3, SafeWhen
<1>8. QED
  BY <1>5, <1>6, <1>7

LEMMA StepSafe ==
  ASSUME Base, [Next]_vars, NEW a \in Advertisers, SameTerms(a)
  PROVE  Safe(a)
<1>1. Base'
  BY NextBase
<1>2. ASSUME Quiet, balance' = balance PROVE Safe(a)
  <2>1. balance[a] - balance'[a] <= Withdrawable(a)
    BY <1>1, <1>2, MoneyTyped
  <2>2. QED
    BY <1>1, <1>2, <2>1, QuietSafe
<1>3. CASE Manage
  BY <1>1, <1>3, ManageBase, QuietSafe
<1>4. CASE Host
  BY <1>2, <1>4, HostBase
<1>5. CASE Restart
  BY <1>2, <1>5, RestartBase
<1>6. CASE Tick
  BY <1>1, <1>6, TickSafe
<1>7. CASE UNCHANGED vars
  BY <1>2, <1>7, IdleQuiet
<1>8. CASE Show
  BY <1>1, <1>2, <1>8, ServeSafe, SkipBase, DecideSafe DEF Show
<1>9. QED
  BY <1>3, <1>4, <1>5, <1>6, <1>7, <1>8 DEF Next

\* What a sponsor's open pools lack grows only when the sponsor opens a pool
\* or changes a budget.
THEOREM PoolMoneySafe == Spec => PoolMoneyKept
<1>1. Base /\ [Next]_vars =>
        [\A a \in Advertisers : SameTerms(a) =>
           \/ PoolReserve(a)' <= Spendable(a)'
           \/ Shortfall(a)' <= Shortfall(a)]_vars
  BY StepSafe DEF Safe
<1>2. QED
  BY <1>1, BaseAlways, PTL DEF Spec, PoolMoneyKept

-----------------------------------------------------------------------------
(* How many ads of a pool a member is paid for in a day *)

Counts(n) == Waiting(n) \/ Billed(n)

\* Those of a day, and those that already have their place in the current day.
DayAds(p, k, d) ==
  {n \in Of(ProjectsOf(k)) : ads[n].pub = p /\ Counts(n) /\ DayOf(ads[n].at) = d}
TodayAds(p, k) ==
  {n \in Of(ProjectsOf(k)) :
     ads[n].pub = p /\ ((Counts(n) /\ DayOf(ads[n].at) >= DayOf(clock)) \/ Live(n))}

CapInv ==
  \A p \in Publishers, k \in Pools :
    /\ Cardinality(TodayAds(p, k)) <= MemberCap[k]
    /\ \A d \in Nat : Cardinality(DayAds(p, k, d)) <= MemberCap[k]

LEMMA AdSetSize ==
  ASSUME AdsOK, NEW S \in SUBSET DOMAIN ads
  PROVE  /\ IsFiniteSet(S) /\ Cardinality(S) \in Nat
         /\ \A R \in SUBSET S : Cardinality(R) \in Nat /\ Cardinality(R) <= Cardinality(S)
<1>1. IsFiniteSet(S)
  BY RatesTyped DEF AdsOK
<1>2. QED
  BY <1>1, FS_Subset, FS_CardinalityType

LEMMA OneMore ==
  ASSUME NEW S, IsFiniteSet(S), NEW x
  PROVE  /\ IsFiniteSet(S \cup {x}) /\ Cardinality(S \cup {x}) \in Nat
         /\ Cardinality(S \cup {x}) <= Cardinality(S) + 1
<1>1. Cardinality(S) \in Nat
  BY FS_CardinalityType
<1>2. IsFiniteSet(S \cup {x}) /\ Cardinality(S \cup {x}) <= Cardinality(S) + 1
  BY <1>1, FS_AddElement
<1>3. QED
  BY <1>2, FS_CardinalityType

LEMMA CapTyped == \A k \in Pools : MemberCap[k] \in Nat
BY MarketAssumption

LEMMA StartCap ==
  ASSUME Init
  PROVE  CapInv
<1>1. DOMAIN ads = {}
  BY DEF Init
<1>2. \A p, k, d : TodayAds(p, k) = {} /\ DayAds(p, k, d) = {}
  BY <1>1 DEF TodayAds, DayAds, Of
<1>3. QED
  BY <1>2, FS_EmptySet, CapTyped DEF CapInv

LEMMA DayTyped ==
  ASSUME NEW x \in Nat, NEW y \in Nat, x <= y
  PROVE  DayOf(x) \in Nat /\ DayOf(y) \in Nat /\ DayOf(x) <= DayOf(y)
BY QuotientGrows, TimesAssumption DEF DayOf

\* What the current day has counted is what the pool's gate counts.
LEMMA ServedIs ==
  ASSUME AdsOK, NEW p, NEW k
  PROVE  Cardinality(TodayAds(p, k)) = ServedToday(p, ProjectsOf(k))
<1> DEFINE P == Of(ProjectsOf(k))
           R == {n \in P : /\ ads[n].pub = p /\ (Waiting(n) \/ Billed(n))
                           /\ DayOf(ads[n].at) >= DayOf(clock)}
           L == {n \in P : ads[n].pub = p /\ Live(n)}
<1>1. ServedToday(p, ProjectsOf(k)) = Cardinality(R) + Cardinality(L)
  BY DEF ServedToday, ReportedToday
<1>2. R \in SUBSET DOMAIN ads /\ L \in SUBSET DOMAIN ads /\ R \cap L = {}
  BY DEF Of, Waiting, Billed, Live
<1>3. TodayAds(p, k) = R \cup L
  BY DEF TodayAds, Counts
<1> HIDE DEF R, L
<1>4. /\ IsFiniteSet(R) /\ IsFiniteSet(L)
      /\ Cardinality(R) \in Nat /\ Cardinality(L) \in Nat
  BY <1>2, AdSetSize
<1>5. Cardinality(R \cup L) = Cardinality(R) + Cardinality(L) - Cardinality({})
  BY <1>2, <1>4, FS_Union
<1>6. QED
  BY <1>1, <1>3, <1>4, <1>5, FS_EmptySet

\* A step after which every ad counts as before, or was live and is reported now.
Progress ==
  \A n \in DOMAIN ads :
    \/ /\ ads'[n].at = ads[n].at
       /\ (Live(n)' => Live(n)) /\ (Counts(n)' => Counts(n))
    \/ Live(n) /\ ads'[n].at = clock /\ clock' = clock

LEMMA CapWhen ==
  ASSUME Base, CapInv, OldAds, EntriesKept, DOMAIN ads' = DOMAIN ads,
         clock' \in Nat, clock <= clock', Progress
  PROVE  CapInv'
<1> SUFFICES ASSUME NEW p \in Publishers, NEW k \in Pools
    PROVE /\ Cardinality(TodayAds(p, k)') <= MemberCap[k]
          /\ \A d \in Nat : Cardinality(DayAds(p, k, d)') <= MemberCap[k]
  BY DEF CapInv
<1>1. /\ Cardinality(TodayAds(p, k)) <= MemberCap[k] /\ MemberCap[k] \in Nat
      /\ \A d \in Nat : Cardinality(DayAds(p, k, d)) <= MemberCap[k]
  BY CapTyped DEF CapInv
<1>2. TodayAds(p, k) \in SUBSET DOMAIN ads /\ \A d \in Nat : DayAds(p, k, d) \in SUBSET DOMAIN ads
  BY DEF TodayAds, DayAds, Of
<1>3. ASSUME NEW n \in DOMAIN ads
      PROVE  /\ n \in Of(ProjectsOf(k))' <=> n \in Of(ProjectsOf(k))
             /\ ads'[n].pub = ads[n].pub
             /\ ads[n].at \in Nat /\ DayOf(ads[n].at) \in Nat
             /\ DayOf(clock) \in Nat /\ DayOf(clock') \in Nat /\ DayOf(clock) <= DayOf(clock')
  <2>1. n \in Of(ProjectsOf(k))' <=> n \in Of(ProjectsOf(k))
    BY AdKept DEF Base
  <2>2. ads[n].at \in Nat /\ clock \in Nat
    BY AdTyped DEF Base, TimesOK
  <2>3. QED
    BY <2>1, <2>2, DayTyped DEF OldAds
<1>4. TodayAds(p, k)' \subseteq TodayAds(p, k)
  <2>1. SUFFICES ASSUME NEW n \in TodayAds(p, k)' PROVE n \in TodayAds(p, k)
    OBVIOUS
  <2>2. /\ n \in DOMAIN ads /\ n \in Of(ProjectsOf(k))' /\ ads'[n].pub = p
        /\ (Counts(n)' /\ DayOf(ads'[n].at) >= DayOf(clock')) \/ Live(n)'
    BY DEF TodayAds, Of
  <2>3. n \in Of(ProjectsOf(k)) /\ ads[n].pub = p
    BY <1>3, <2>2
  <2>4. (Counts(n) /\ DayOf(ads[n].at) >= DayOf(clock)) \/ Live(n)
    <3>1. CASE Live(n)
      BY <3>1
    <3>2. CASE ~Live(n)
      <4>1. ads'[n].at = ads[n].at /\ ~Live(n)' /\ (Counts(n)' => Counts(n))
        BY <2>2, <3>2 DEF Progress
      <4>2. QED
        BY <1>3, <2>2, <4>1
    <3>3. QED
      BY <3>1, <3>2
  <2>5. QED
    BY <2>3, <2>4 DEF TodayAds
<1>5. Cardinality(TodayAds(p, k)') <= MemberCap[k]
  <2>1. Cardinality(TodayAds(p, k)') <= Cardinality(TodayAds(p, k))
        /\ Cardinality(TodayAds(p, k)) \in Nat /\ Cardinality(TodayAds(p, k)') \in Nat
    BY <1>2, <1>4, AdSetSize DEF Base
  <2>2. QED
    BY <1>1, <2>1
<1>6. ASSUME NEW d \in Nat
      PROVE  Cardinality(DayAds(p, k, d)') <= MemberCap[k]
  <2>1. ASSUME NEW n \in DayAds(p, k, d)'
        PROVE  n \in DayAds(p, k, d) \/ (n \in TodayAds(p, k)' /\ d = DayOf(clock'))
    <3>1. /\ n \in DOMAIN ads /\ n \in Of(ProjectsOf(k))' /\ ads'[n].pub = p
          /\ Counts(n)' /\ DayOf(ads'[n].at) = d
      BY DEF DayAds, Of
    <3>2. n \in Of(ProjectsOf(k)) /\ ads[n].pub = p
      BY <1>3, <3>1
    <3>3. CASE ads'[n].at = ads[n].at /\ (Counts(n)' => Counts(n))
      <4>1. Counts(n)
        BY <3>1, <3>3
      <4>2. DayOf(ads[n].at) = d
        BY <3>1, <3>3
      <4>3. n \in DayAds(p, k, d)
        BY <3>2, <4>1, <4>2 DEF DayAds
      <4>4. QED
        BY <4>3
    <3>4. CASE ads'[n].at = clock /\ clock' = clock
      <4>1. d = DayOf(clock')
        BY <3>1, <3>4
      <4>2. DayOf(ads'[n].at) >= DayOf(clock')
        BY <1>3, <3>1, <3>4
      <4>3. n \in TodayAds(p, k)'
        BY <3>1, <4>2 DEF TodayAds
      <4>4. QED
        BY <4>1, <4>3
    <3>5. QED
      BY <3>1, <3>3, <3>4 DEF Progress
  <2>2. CASE d = DayOf(clock')
    <3>1. DayAds(p, k, d)' \subseteq TodayAds(p, k)'
      <4>1. ASSUME NEW n \in DayAds(p, k, d)' PROVE n \in TodayAds(p, k)'
        <5>1. /\ n \in Of(ProjectsOf(k))' /\ ads'[n].pub = p
              /\ Counts(n)' /\ DayOf(ads'[n].at) = d
          BY DEF DayAds
        <5>2. DayOf(ads'[n].at) >= DayOf(clock')
          BY <2>2, <5>1
        <5>3. QED
          BY <5>1, <5>2 DEF TodayAds
      <4>2. QED
        BY <4>1
    <3>2. TodayAds(p, k)' \in SUBSET DOMAIN ads
      BY <1>2, <1>4
    <3>3. QED
      BY <1>1, <1>5, <3>1, <3>2, AdSetSize DEF Base
  <2>3. CASE d # DayOf(clock')
    <3>1. DayAds(p, k, d)' \subseteq DayAds(p, k, d)
      BY <2>1, <2>3
    <3>2. Cardinality(DayAds(p, k, d)') <= Cardinality(DayAds(p, k, d))
          /\ Cardinality(DayAds(p, k, d)') \in Nat /\ Cardinality(DayAds(p, k, d)) \in Nat
      BY <1>2, <3>1, AdSetSize DEF Base
    <3>3. QED
      BY <1>1, <3>2
  <2>4. QED
    BY <2>2, <2>3
<1>7. QED
  BY <1>5, <1>6

LEMMA QuietCap ==
  ASSUME Base, CapInv, Quiet
  PROVE  CapInv'
<1>1. OldAds /\ EntriesKept /\ DOMAIN ads' = DOMAIN ads /\ clock' = clock /\ clock \in Nat
  BY QuietSets DEF Base, Quiet, TimesOK
<1>2. Progress
  BY DEF Quiet, Progress, Live, Counts, Waiting, Billed
<1>3. QED
  BY <1>1, <1>2, CapWhen

LEMMA TickCap ==
  ASSUME Base, CapInv, Tick
  PROVE  CapInv'
<1>1. /\ OldAds /\ EntriesKept /\ ads' = ads /\ clock' = clock + 1 /\ clock \in Nat
      /\ \A n : (Live(n)' => Live(n)) /\ (Waiting(n)' <=> Waiting(n)) /\ (Billed(n)' <=> Billed(n))
  BY TickSets DEF Base, TimesOK
<1>2. Progress
  BY <1>1 DEF Progress, Counts
<1>3. QED
  BY <1>1, <1>2, CapWhen

LEMMA DecideCap ==
  ASSUME Base, CapInv, NEW n \in DOMAIN ads, Report(n) \/ Verify(n) \/ Reject(n)
  PROVE  CapInv'
<1>1. PICK from, to :
        /\ to \in {"pending", "verified", "rejected"} /\ Decide(n, from, to)
        /\ (from = "unreported" /\ Live(n)) \/ from = "pending"
  <2>1. \/ Live(n) /\ Decide(n, "unreported", "pending")
        \/ Decide(n, "pending", "verified") \/ Decide(n, "pending", "rejected")
    BY DEF Report, Verify, Reject
  <2>2. QED
    BY <2>1
<1>2. /\ OldAds /\ EntriesKept /\ DOMAIN ads' = DOMAIN ads /\ clock' = clock
      /\ ads[n].state = from
      /\ ads'[n].at = IF from = "unreported" THEN clock ELSE ads[n].at
      /\ \A m \in DOMAIN ads : m # n => ads'[m] = ads[m]
      /\ \A m : m # n => (Live(m)' <=> Live(m)) /\ (m \in DOMAIN ads => (Waiting(m)' <=> Waiting(m))
                                                     /\ (Billed(m)' <=> Billed(m)))
      /\ ~Live(n)'
  BY <1>1, DecideAds DEF Base
<1>3. clock \in Nat
  BY DEF Base, TimesOK
<1>4. Progress
  <2>1. SUFFICES ASSUME NEW m \in DOMAIN ads
        PROVE \/ /\ ads'[m].at = ads[m].at
                 /\ (Live(m)' => Live(m)) /\ (Counts(m)' => Counts(m))
              \/ Live(m) /\ ads'[m].at = clock /\ clock' = clock
    BY DEF Progress
  <2>2. CASE m # n
    BY <1>2, <2>2 DEF Counts
  <2>3. CASE m = n /\ from = "unreported"
    BY <1>1, <1>2, <2>3
  <2>4. CASE m = n /\ from = "pending"
    <3>1. Counts(n) /\ from # "unreported"
      BY <1>2, <2>4 DEF Counts, Waiting
    <3>2. QED
      BY <1>2, <2>4, <3>1
  <2>5. QED
    BY <1>1, <2>2, <2>3, <2>4
<1>5. QED
  BY <1>2, <1>3, <1>4, CapWhen

LEMMA ServeCap ==
  ASSUME Base, CapInv, NEW p \in Publishers, ServeAd(p)
  PROVE  CapInv'
<1>1. PICK c \in Eligible(p) : Delivers(p, c)
  BY ServeParts
<1>2. PICK n : n = Len(ads) + 1
  OBVIOUS
<1>3. /\ n \notin DOMAIN ads /\ DOMAIN ads' = DOMAIN ads \cup {n} /\ ads'[n] = NewAd(p, c)
      /\ \A m \in DOMAIN ads : ads'[m] = ads[m]
      /\ clock' = clock /\ OldAds /\ EntriesKept
      /\ \A m \in DOMAIN ads : (Live(m)' <=> Live(m)) /\ (Counts(m)' <=> Counts(m))
      /\ ~Counts(n)'
  BY <1>1, <1>2, DeliverAds DEF Counts
<1>4. /\ \A k : n \in Of(ProjectsOf(k))' <=> c \in ProjectsOf(k)
      /\ ads'[n].pub = p
  BY <1>1, <1>2, <1>3, DeliverSets DEF NewAd
<1>5. \A m \in DOMAIN ads : \A k : m \in Of(ProjectsOf(k))' <=> m \in Of(ProjectsOf(k))
  BY <1>3, AdKept DEF Base
<1> SUFFICES ASSUME NEW q \in Publishers, NEW k \in Pools
    PROVE /\ Cardinality(TodayAds(q, k)') <= MemberCap[k]
          /\ \A d \in Nat : Cardinality(DayAds(q, k, d)') <= MemberCap[k]
  BY DEF CapInv
<1>6. /\ Cardinality(TodayAds(q, k)) <= MemberCap[k] /\ MemberCap[k] \in Nat
      /\ \A d \in Nat : Cardinality(DayAds(q, k, d)) <= MemberCap[k]
  BY CapTyped DEF CapInv
<1>7. TodayAds(q, k) \in SUBSET DOMAIN ads /\ \A d \in Nat : DayAds(q, k, d) \in SUBSET DOMAIN ads
  BY DEF TodayAds, DayAds, Of
<1>8. \A m : m \in Of(ProjectsOf(k))' => m \in DOMAIN ads \/ m = n
  BY <1>3 DEF Of
<1>9. \A d \in Nat : DayAds(q, k, d)' \subseteq DayAds(q, k, d)
  BY <1>3, <1>5, <1>8 DEF DayAds
<1>10. TodayAds(q, k)' \subseteq TodayAds(q, k) \cup (IF q = p /\ c \in ProjectsOf(k) THEN {n} ELSE {})
  BY <1>3, <1>4, <1>5, <1>8 DEF TodayAds
<1>11. \A d \in Nat : Cardinality(DayAds(q, k, d)') <= MemberCap[k]
  <2>1. TAKE d \in Nat
  <2>2. /\ Cardinality(DayAds(q, k, d)') <= Cardinality(DayAds(q, k, d))
        /\ Cardinality(DayAds(q, k, d)') \in Nat /\ Cardinality(DayAds(q, k, d)) \in Nat
    BY <1>7, <1>9, AdSetSize DEF Base
  <2>3. QED
    BY <1>6, <2>2
<1>12. Cardinality(TodayAds(q, k)') <= MemberCap[k]
  <2>1. IsFiniteSet(TodayAds(q, k)) /\ Cardinality(TodayAds(q, k)) \in Nat
    BY <1>7, AdSetSize DEF Base
  <2>2. CASE q = p /\ c \in ProjectsOf(k)
    <3>1. c \in Projects /\ entry[c].pool = k
      BY <2>2 DEF ProjectsOf
    <3>2. PoolAllows(p, k, RateOf(Bid(c)))
      BY <1>1, <3>1, EligibleIs DEF Base
    <3>3. Cardinality(TodayAds(q, k)) < MemberCap[k]
      BY <2>2, <3>2, ServedIs DEF PoolAllows, Base
    <3>4. /\ IsFiniteSet(TodayAds(q, k) \cup {n})
          /\ Cardinality(TodayAds(q, k) \cup {n}) <= Cardinality(TodayAds(q, k)) + 1
      BY <2>1, OneMore
    <3>5. /\ Cardinality(TodayAds(q, k)') <= Cardinality(TodayAds(q, k) \cup {n})
          /\ Cardinality(TodayAds(q, k)') \in Nat
          /\ Cardinality(TodayAds(q, k) \cup {n}) \in Nat
      BY <1>10, <2>2, <3>4, FS_Subset, FS_CardinalityType
    <3>6. QED
      BY <1>6, <2>1, <3>3, <3>4, <3>5
  <2>3. CASE ~(q = p /\ c \in ProjectsOf(k))
    <3>1. TodayAds(q, k)' \subseteq TodayAds(q, k)
      BY <1>10, <2>3
    <3>2. /\ Cardinality(TodayAds(q, k)') <= Cardinality(TodayAds(q, k))
          /\ Cardinality(TodayAds(q, k)') \in Nat
      BY <1>7, <3>1, AdSetSize DEF Base
    <3>3. QED
      BY <1>6, <2>1, <3>2
  <2>4. QED
    BY <2>2, <2>3
<1>13. QED
  BY <1>11, <1>12

LEMMA NextCap == Base /\ CapInv /\ [Next]_vars => CapInv'
<1> SUFFICES ASSUME Base, CapInv, [Next]_vars PROVE CapInv'
  OBVIOUS
<1>1. CASE Manage
  BY <1>1, ManageBase, QuietCap
<1>2. CASE Host
  BY <1>2, HostBase, QuietCap
<1>3. CASE Show
  BY <1>3, ServeCap, SkipBase, QuietCap, DecideCap DEF Show
<1>4. CASE Tick
  BY <1>4, TickCap
<1>5. CASE Restart
  BY <1>5, RestartBase, QuietCap
<1>6. CASE UNCHANGED vars
  BY <1>6, IdleQuiet, QuietCap
<1>7. QED
  BY <1>1, <1>2, <1>3, <1>4, <1>5, <1>6 DEF Next

\* A member of a pool earns at most the cap of its impressions in a day,
\* however late it reports and however often it leaves and joins again.
THEOREM CapsKept == Spec => []MemberCapKept
<1>1. Init => CapInv
  BY StartCap
<1>2. Base /\ CapInv => MemberCapKept
  <2> SUFFICES ASSUME Base, CapInv, NEW p \in Publishers, NEW k \in Pools, NEW d \in 0 .. DayOf(clock)
      PROVE Cardinality({n \in Of(ProjectsOf(k)) :
              /\ ads[n].pub = p /\ (Waiting(n) \/ Billed(n))
              /\ DayOf(ads[n].at) = d}) <= MemberCap[k]
    BY DEF MemberCapKept
  <2>1. d \in Nat
    BY DayTyped DEF Base, TimesOK
  <2>2. Cardinality(DayAds(p, k, d)) <= MemberCap[k]
    BY <2>1 DEF CapInv
  <2>3. QED
    BY <2>2 DEF DayAds, Counts
<1>3. QED
  BY <1>1, <1>2, NextCap, BaseAlways, PTL DEF Spec

-----------------------------------------------------------------------------
(* Slots: what is left of the tours, and what is out on the daemons *)

\* The ads of c that use a slot of p, or whose slot has yet to come back.
Out(p, c) ==
  {n \in DOMAIN ads : /\ ads[n].pub = p /\ ads[n].camp = c
                      /\ ~Lapsed(n) \/ n \in held \ returned}

SlotInv ==
  \A p \in Publishers, c \in Campaigns :
    Occurrences(tour[p], c) + Cardinality(Out(p, c)) <= built[p][c]

LEMMA SlotSizes ==
  ASSUME Base, NEW p \in Publishers, NEW c \in Campaigns
  PROVE  /\ Out(p, c) \in SUBSET DOMAIN ads /\ IsFiniteSet(Out(p, c))
         /\ Cardinality(Out(p, c)) \in Nat
         /\ Occurrences(tour[p], c) \in Nat /\ built[p][c] \in Nat
<1>1. Out(p, c) \in SUBSET DOMAIN ads
  BY DEF Out
<1>2. tour[p] \in Seq(Campaigns) /\ built[p][c] \in Nat
  BY DEF Base, StageOK
<1>3. QED
  BY <1>1, <1>2, AdSetSize, OccurrencesFinite DEF Base

LEMMA StartSlots ==
  ASSUME Init
  PROVE  SlotInv
<1>1. DOMAIN ads = {}
  BY DEF Init
<1> SUFFICES ASSUME NEW p \in Publishers, NEW c \in Campaigns
    PROVE Occurrences(tour[p], c) + Cardinality(Out(p, c)) <= built[p][c]
  BY DEF SlotInv
<1>2. Out(p, c) = {}
  BY <1>1 DEF Out
<1>3. tour[p] = <<>> /\ built[p][c] = 0
  BY DEF Init
<1>4. {i \in DOMAIN tour[p] : tour[p][i] = c} = {}
  BY <1>3
<1>5. QED
  BY <1>2, <1>3, <1>4, FS_EmptySet DEF Occurrences

\* Nothing more is out, and no tour changes.
LEMMA SlotsWhen ==
  ASSUME Base, Base', SlotInv, tour' = tour, built' = built,
         \A p \in Publishers, c \in Campaigns : Out(p, c)' \subseteq Out(p, c)
  PROVE  SlotInv'
<1> SUFFICES ASSUME NEW p \in Publishers, NEW c \in Campaigns
    PROVE Occurrences(tour[p], c) + Cardinality(Out(p, c)') <= built[p][c]
  BY DEF SlotInv
<1>1. /\ Cardinality(Out(p, c)') <= Cardinality(Out(p, c))
      /\ Cardinality(Out(p, c)') \in Nat /\ Cardinality(Out(p, c)) \in Nat
  BY SlotSizes, AdSetSize DEF Base
<1>2. /\ Occurrences(tour[p], c) \in Nat /\ built[p][c] \in Nat
      /\ Occurrences(tour[p], c) + Cardinality(Out(p, c)) <= built[p][c]
  BY SlotSizes DEF SlotInv
<1>3. QED
  BY <1>1, <1>2

LEMMA MarketSlots ==
  ASSUME Base, SlotInv, Manage \/ Host
  PROVE  SlotInv'
<1>1. UNCHANGED <<tour, built>> /\ UNCHANGED <<ads, held, returned>> /\ clock' = clock
  <2>1. ASSUME Edit PROVE UNCHANGED <<tour, built>> /\ UNCHANGED <<ads, held, returned>> /\ clock' = clock
    BY <2>1 DEF Edit, stage, deliveries
  <2>2. CASE Manage
    BY <2>1, <2>2 DEF Manage, CreateCampaign, SetStatus, Deposit, Withdraw
  <2>3. ASSUME NEW p \in Publishers, NEW k \in Pools, CreateProject(p, k)
        PROVE  UNCHANGED <<tour, built>> /\ UNCHANGED <<ads, held, returned>> /\ clock' = clock
    BY <2>3 DEF CreateProject, stage, deliveries
  <2>4. CASE Host
    BY <2>1, <2>3, <2>4 DEF Host, CreatePool, SetBudget, ClosePool, Join, Leave, AskProject
  <2>5. QED
    BY <2>2, <2>4
<1>2. \A p, c : Out(p, c)' = Out(p, c)
  BY <1>1 DEF Out, Lapsed
<1>3. Base'
  BY ManageBase, HostBase
<1>4. QED
  BY <1>1, <1>2, <1>3, SlotsWhen

LEMMA IdleSlots ==
  ASSUME Base, Base', SlotInv, UNCHANGED vars
  PROVE  SlotInv'
<1>1. UNCHANGED <<tour, built>> /\ UNCHANGED <<ads, held, returned>> /\ clock' = clock
  BY DEF vars, stage, deliveries
<1>2. \A p, c : Out(p, c)' = Out(p, c)
  BY <1>1 DEF Out, Lapsed
<1>3. QED
  BY <1>1, <1>2, SlotsWhen

LEMMA TickSlots ==
  ASSUME Base, SlotInv, Tick
  PROVE  SlotInv'
<1>1. UNCHANGED <<tour, built>> /\ UNCHANGED <<ads, held, returned>> /\ clock' = clock + 1 /\ clock \in Nat
  BY DEF Tick, stage, deliveries, Base, TimesOK
<1>2. \A n \in DOMAIN ads : Lapsed(n) => Lapsed(n)'
  <2>1. TAKE n \in DOMAIN ads
  <2>2. ads[n].expires \in Nat
    BY AdTyped DEF Base
  <2>3. QED
    BY <1>1, <2>2 DEF Lapsed
<1>3. \A p, c : Out(p, c)' \subseteq Out(p, c)
  BY <1>1, <1>2 DEF Out
<1>4. Base'
  BY TickBase
<1>5. QED
  BY <1>1, <1>3, <1>4, SlotsWhen

\* After a restart the expired deliveries count as given back.
LEMMA RestartSlots ==
  ASSUME Base, SlotInv, Restart
  PROVE  SlotInv'
<1>1. /\ UNCHANGED <<tour, built>> /\ UNCHANGED <<ads, held>> /\ clock' = clock /\ returned' = Expired
  BY DEF Restart
<1>2. \A p, c : Out(p, c)' \subseteq Out(p, c)
  <2>1. TAKE p, c
  <2>2. ASSUME NEW n \in Out(p, c)' PROVE n \in Out(p, c)
    <3>1. /\ n \in DOMAIN ads /\ ads[n].pub = p /\ ads[n].camp = c
          /\ ~Lapsed(n)' \/ n \in held \ Expired
      BY <1>1, <2>2 DEF Out
    <3>2. ~Lapsed(n)
      BY <1>1, <3>1 DEF Lapsed, Expired
    <3>3. QED
      BY <3>1, <3>2 DEF Out
  <2>3. QED
    BY <2>2
<1>3. Base'
  BY RestartBase
<1>4. QED
  BY <1>1, <1>2, <1>3, SlotsWhen

\* A report comes before the ad lapses, a decision after the report.
LEMMA DecideSlots ==
  ASSUME Base, SlotInv, NEW n \in DOMAIN ads, Report(n) \/ Verify(n) \/ Reject(n)
  PROVE  SlotInv'
<1>1. PICK from, to :
        /\ to \in {"pending", "verified", "rejected"} /\ Decide(n, from, to)
        /\ (from = "unreported" /\ Live(n)) \/ from = "pending"
  <2>1. \/ Live(n) /\ Decide(n, "unreported", "pending")
        \/ Decide(n, "pending", "verified") \/ Decide(n, "pending", "rejected")
    BY DEF Report, Verify, Reject
  <2>2. QED
    BY <2>1
<1>2. /\ OldAds /\ DOMAIN ads' = DOMAIN ads /\ clock' = clock /\ held' = held /\ returned' = returned
      /\ ads[n].state = from
      /\ \A m \in DOMAIN ads : m # n => ads'[m] = ads[m]
  BY <1>1, DecideAds DEF Base
<1>3. ~Lapsed(n)
  <2>1. ads[n].expires \in Nat /\ clock \in Nat
    BY AdTyped DEF Base, TimesOK
  <2>2. QED
    BY <1>1, <1>2, <2>1 DEF Lapsed, Live
<1>4. \A p, c : Out(p, c)' \subseteq Out(p, c)
  <2>1. TAKE p, c
  <2>2. ASSUME NEW m \in Out(p, c)' PROVE m \in Out(p, c)
    <3>1. /\ m \in DOMAIN ads /\ ads'[m].pub = p /\ ads'[m].camp = c
          /\ ~Lapsed(m)' \/ m \in held \ returned
      BY <1>2, <2>2 DEF Out
    <3>2. ads[m].pub = p /\ ads[m].camp = c
      BY <1>2, <3>1 DEF OldAds
    <3>3. m # n => (Lapsed(m)' <=> Lapsed(m))
      BY <1>2, <3>1 DEF Lapsed
    <3>4. QED
      BY <1>3, <3>1, <3>2, <3>3 DEF Out
  <2>3. QED
    BY <2>2
<1>5. Base' /\ UNCHANGED <<tour, recent, built>>
  BY DecideBase
<1>6. QED
  BY <1>4, <1>5, SlotsWhen

\* Giving the lapsed slots back puts no more into the tour than it takes from
\* what is out.
BackOf(p, c) == {n \in Restored(p) : ads[n].camp = c}

LEMMA GiveBackSlots ==
  ASSUME Base, SlotInv, NEW p \in Publishers, NEW c \in Campaigns
  PROVE  /\ IsFiniteSet(Out(p, c) \ BackOf(p, c))
         /\ Cardinality(Out(p, c) \ BackOf(p, c)) \in Nat
         /\ Occurrences(GiveBack(p), c) \in Nat
         /\ Occurrences(GiveBack(p), c) + Cardinality(Out(p, c) \ BackOf(p, c)) <= built[p][c]
<1>1. BackOf(p, c) \in SUBSET Out(p, c)
  <2>1. Restored(p) \in SUBSET DOMAIN ads
    BY RestoredIs DEF Base
  <2>2. QED
    BY <2>1 DEF BackOf, Out, Restored
<1>2. PICK S, B : S = Out(p, c) /\ B = BackOf(p, c)
  OBVIOUS
<1>3. /\ IsFiniteSet(S) /\ Cardinality(S) \in Nat
      /\ Occurrences(tour[p], c) \in Nat /\ built[p][c] \in Nat
      /\ Occurrences(tour[p], c) + Cardinality(S) <= built[p][c]
  BY <1>2, SlotSizes DEF SlotInv
<1>4. IsFiniteSet(B) /\ Cardinality(B) \in Nat /\ S \cap B = B
  BY <1>1, <1>2, <1>3, FS_Subset, FS_CardinalityType
<1>5. IsFiniteSet(S \ B) /\ Cardinality(S \ B) = Cardinality(S) - Cardinality(B)
  BY <1>3, <1>4, FS_Difference
<1>6. Cardinality(S \ B) \in Nat
  BY <1>5, FS_CardinalityType
<1>7. Occurrences(GiveBack(p), c) <= Cardinality(B) + Occurrences(tour[p], c)
  BY <1>2, GiveBackIs DEF Base, BackOf
<1>8. Occurrences(GiveBack(p), c) \in Nat
  <2>1. GiveBack(p) \in Seq(Campaigns)
    BY GiveBackIs DEF Base
  <2>2. QED
    BY <2>1, OccurrencesFinite
<1>9. Occurrences(GiveBack(p), c) + Cardinality(S \ B) <= built[p][c]
  BY <1>3, <1>4, <1>5, <1>6, <1>7, <1>8
<1>10. QED
  BY <1>2, <1>5, <1>6, <1>8, <1>9

LEMMA SkipSlots ==
  ASSUME Base, SlotInv, NEW p \in Publishers, ServeNothing(p)
  PROVE  SlotInv'
<1>1. /\ tour' = [tour EXCEPT ![p] = GiveBack(p)] /\ returned' = returned \cup Restored(p)
      /\ built' = built /\ ads' = ads /\ held' = held /\ clock' = clock
  BY DEF ServeNothing
<1>2. Base'
  BY SkipBase
<1>3. \A n : Lapsed(n)' <=> Lapsed(n)
  BY <1>1 DEF Lapsed
<1> SUFFICES ASSUME NEW q \in Publishers, NEW c \in Campaigns
    PROVE Occurrences(tour'[q], c) + Cardinality(Out(q, c)') <= built'[q][c]
  BY DEF SlotInv
<1>4. tour \in [Publishers -> Seq(Campaigns)]
  BY DEF Base, StageOK
<1>5. CASE q = p
  <2>1. Out(p, c)' \subseteq Out(p, c) \ BackOf(p, c)
    <3>1. ASSUME NEW n \in Out(p, c)' PROVE n \in Out(p, c) \ BackOf(p, c)
      <4>1. /\ n \in DOMAIN ads /\ ads[n].pub = p /\ ads[n].camp = c
            /\ ~Lapsed(n) \/ n \in held \ (returned \cup Restored(p))
        BY <1>1, <1>3, <3>1 DEF Out
      <4>2. n \in Out(p, c)
        BY <4>1 DEF Out
      <4>3. n \notin Restored(p)
        BY <4>1 DEF Restored
      <4>4. QED
        BY <4>2, <4>3 DEF BackOf
    <3>2. QED
      BY <3>1
  <2>2. /\ IsFiniteSet(Out(p, c) \ BackOf(p, c)) /\ Cardinality(Out(p, c) \ BackOf(p, c)) \in Nat
        /\ Occurrences(GiveBack(p), c) \in Nat /\ built[p][c] \in Nat
        /\ Occurrences(GiveBack(p), c) + Cardinality(Out(p, c) \ BackOf(p, c)) <= built[p][c]
    BY GiveBackSlots, SlotSizes
  <2>3. /\ Cardinality(Out(p, c)') <= Cardinality(Out(p, c) \ BackOf(p, c))
        /\ Cardinality(Out(p, c)') \in Nat
    BY <2>1, <2>2, FS_Subset, FS_CardinalityType
  <2>4. tour'[p] = GiveBack(p)
    BY <1>1, <1>4
  <2>5. QED
    BY <1>1, <1>5, <2>2, <2>3, <2>4
<1>6. CASE q # p
  <2>1. Out(q, c)' \subseteq Out(q, c)
    BY <1>1, <1>3 DEF Out
  <2>2. /\ Cardinality(Out(q, c)') <= Cardinality(Out(q, c)) /\ Cardinality(Out(q, c)') \in Nat
        /\ Cardinality(Out(q, c)) \in Nat /\ Occurrences(tour[q], c) \in Nat /\ built[q][c] \in Nat
        /\ Occurrences(tour[q], c) + Cardinality(Out(q, c)) <= built[q][c]
    BY <2>1, SlotSizes, AdSetSize DEF Base, SlotInv
  <2>3. tour'[q] = tour[q]
    BY <1>1, <1>4, <1>6
  <2>4. QED
    BY <1>1, <2>2, <2>3
<1>7. QED
  BY <1>5, <1>6

\* What is out after a delivery of c to p.
LEMMA DeliverOut ==
  ASSUME Base, NEW p \in Publishers, NEW c \in Eligible(p), Delivers(p, c),
         NEW n, n = Len(ads) + 1, NEW q, NEW d
  PROVE  Out(q, d)' \subseteq (IF q = p THEN Out(p, d) \ BackOf(p, d) ELSE Out(q, d))
                              \cup (IF q = p /\ d = c THEN {n} ELSE {})
<1>1. /\ n \notin DOMAIN ads /\ DOMAIN ads' = DOMAIN ads \cup {n} /\ ads'[n] = NewAd(p, c)
      /\ \A m \in DOMAIN ads : ads'[m] = ads[m]
      /\ clock' = clock /\ held' \subseteq held \cup {n}
      /\ returned' = (returned \cup Restored(p)) \cap held'
  BY DeliverAds
<1>2. ads'[n].pub = p /\ ads'[n].camp = c
  BY <1>1 DEF NewAd
<1>3. ASSUME NEW m \in Out(q, d)', m # n
      PROVE  /\ m \in Out(q, d)
             /\ q = p => m \notin BackOf(p, d)
  <2>1. /\ m \in DOMAIN ads /\ ads'[m] = ads[m]
    BY <1>1, <1>3 DEF Out
  <2>2. /\ ads[m].pub = q /\ ads[m].camp = d
        /\ ~Lapsed(m)' \/ m \in held' \ returned'
    BY <1>3, <2>1 DEF Out
  <2>3. Lapsed(m)' <=> Lapsed(m)
    BY <1>1, <2>1 DEF Lapsed
  <2>4. m \in held' \ returned' => m \in held /\ m \notin returned /\ m \notin Restored(p)
    BY <1>1, <1>3
  <2>5. m \in Out(q, d)
    BY <2>1, <2>2, <2>3, <2>4 DEF Out
  <2>6. m \notin BackOf(p, d)
    BY <2>2, <2>3, <2>4 DEF BackOf, Restored
  <2>7. QED
    BY <2>5, <2>6
<1>4. n \in Out(q, d)' => q = p /\ d = c
  BY <1>2 DEF Out
<1>5. QED
  BY <1>3, <1>4

LEMMA ServeSlots ==
  ASSUME Base, SlotInv, NEW p \in Publishers, ServeAd(p)
  PROVE  SlotInv'
<1>1. PICK next \in Seq(Campaigns) :
        /\ next # <<>> /\ Head(next) \in Eligible(p)
        /\ Delivers(p, Head(next)) /\ Plays(p, next)
        /\ Continues(GiveBack(p), Eligible(p)) =>
             \A x : Occurrences(next, x) <= Occurrences(GiveBack(p), x)
  BY ServeParts
<1>2. PICK c : c = Head(next)
  OBVIOUS
<1>3. PICK n : n = Len(ads) + 1
  OBVIOUS
<1>4. c \in Eligible(p) /\ Delivers(p, c)
  BY <1>1, <1>2
<1>5. tour \in [Publishers -> Seq(Campaigns)] /\ built \in [Publishers -> [Campaigns -> Nat]]
  BY DEF Base, StageOK
<1>6. /\ tour' = [tour EXCEPT ![p] = Tail(next)]
      /\ built' = IF Continues(GiveBack(p), Eligible(p)) THEN built
                  ELSE [built EXCEPT ![p] = [x \in Campaigns |-> @[x] + Occurrences(next, x)]]
  BY <1>1 DEF Plays
<1> SUFFICES ASSUME NEW q \in Publishers, NEW d \in Campaigns
    PROVE Occurrences(tour'[q], d) + Cardinality(Out(q, d)') <= built'[q][d]
  BY DEF SlotInv
<1>7. Out(q, d)' \subseteq (IF q = p THEN Out(p, d) \ BackOf(p, d) ELSE Out(q, d))
                           \cup (IF q = p /\ d = c THEN {n} ELSE {})
  BY <1>3, <1>4, DeliverOut
<1>8. CASE q = p
  <2>1. PICK R : R = Out(p, d) \ BackOf(p, d)
    OBVIOUS
  <2>2. /\ IsFiniteSet(R) /\ Cardinality(R) \in Nat
        /\ Occurrences(GiveBack(p), d) \in Nat /\ built[p][d] \in Nat
        /\ Occurrences(GiveBack(p), d) + Cardinality(R) <= built[p][d]
    BY <2>1, GiveBackSlots, SlotSizes
  <2>3. PICK one \in {0, 1} : one = IF d = c THEN 1 ELSE 0
    OBVIOUS
  <2>4. Cardinality(Out(p, d)') <= Cardinality(R) + one /\ Cardinality(Out(p, d)') \in Nat
    <3>1. CASE d = c
      <4>1. Out(p, d)' \subseteq R \cup {n}
        BY <1>7, <1>8, <2>1, <3>1
      <4>2. IsFiniteSet(R \cup {n}) /\ Cardinality(R \cup {n}) <= Cardinality(R) + 1
            /\ Cardinality(R \cup {n}) \in Nat
        BY <2>2, OneMore
      <4>3. Cardinality(Out(p, d)') <= Cardinality(R \cup {n}) /\ Cardinality(Out(p, d)') \in Nat
        BY <4>1, <4>2, FS_Subset, FS_CardinalityType
      <4>4. QED
        BY <2>2, <2>3, <3>1, <4>2, <4>3
    <3>2. CASE d # c
      <4>1. Out(p, d)' \subseteq R
        BY <1>7, <1>8, <2>1, <3>2
      <4>2. Cardinality(Out(p, d)') <= Cardinality(R) /\ Cardinality(Out(p, d)') \in Nat
        BY <2>2, <4>1, FS_Subset, FS_CardinalityType
      <4>3. QED
        BY <2>2, <2>3, <3>2, <4>2
    <3>3. QED
      BY <3>1, <3>2
  <2>5. /\ Occurrences(Tail(next), d) + one <= Occurrences(next, d)
        /\ Occurrences(next, d) \in Nat /\ Occurrences(Tail(next), d) \in Nat
    <3>1. Tail(next) \in Seq(Campaigns)
      BY <1>1, HeadTailProperties
    <3>2. Occurrences(next, d) \in Nat /\ Occurrences(Tail(next), d) \in Nat
      BY <3>1, OccurrencesFinite
    <3>3. /\ Occurrences(Tail(next), d) <= Occurrences(next, d)
          /\ d = Head(next) => Occurrences(Tail(next), d) + 1 <= Occurrences(next, d)
      BY <1>1, OccurrencesTail
    <3>4. QED
      BY <1>2, <2>3, <3>2, <3>3
  <2>6. tour'[p] = Tail(next)
    BY <1>5, <1>6
  <2>7. CASE Continues(GiveBack(p), Eligible(p))
    <3>1. Occurrences(next, d) <= Occurrences(GiveBack(p), d) /\ built'[p][d] = built[p][d]
      BY <1>1, <1>6, <2>7
    <3>2. Occurrences(Tail(next), d) + Cardinality(Out(p, d)') <= built[p][d]
      BY <2>2, <2>3, <2>4, <2>5, <3>1
    <3>3. QED
      BY <1>8, <2>6, <3>1, <3>2
  <2>8. CASE ~Continues(GiveBack(p), Eligible(p))
    <3>1. built'[p][d] = built[p][d] + Occurrences(next, d)
      BY <1>5, <1>6, <2>8
    <3>2. Occurrences(Tail(next), d) + Cardinality(Out(p, d)') <= built[p][d] + Occurrences(next, d)
      BY <2>2, <2>3, <2>4, <2>5
    <3>3. QED
      BY <1>8, <2>6, <3>1, <3>2
  <2>9. QED
    BY <2>7, <2>8
<1>9. CASE q # p
  <2>1. Out(q, d)' \subseteq Out(q, d)
    BY <1>7, <1>9
  <2>2. /\ Cardinality(Out(q, d)') <= Cardinality(Out(q, d)) /\ Cardinality(Out(q, d)') \in Nat
        /\ Cardinality(Out(q, d)) \in Nat /\ Occurrences(tour[q], d) \in Nat /\ built[q][d] \in Nat
        /\ Occurrences(tour[q], d) + Cardinality(Out(q, d)) <= built[q][d]
    BY <2>1, SlotSizes, AdSetSize DEF Base, SlotInv
  <2>3. tour'[q] = tour[q] /\ built'[q] = built[q]
    BY <1>5, <1>6, <1>9
  <2>4. QED
    BY <2>2, <2>3
<1>10. QED
  BY <1>8, <1>9

LEMMA NextSlots == Base /\ SlotInv /\ [Next]_vars => SlotInv'
<1> SUFFICES ASSUME Base, SlotInv, [Next]_vars PROVE SlotInv'
  OBVIOUS
<1>1. CASE Manage \/ Host
  BY <1>1, MarketSlots
<1>2. CASE Show
  BY <1>2, ServeSlots, SkipSlots, DecideSlots DEF Show
<1>3. CASE Tick
  BY <1>3, TickSlots
<1>4. CASE Restart
  BY <1>4, RestartSlots
<1>5. CASE UNCHANGED vars
  BY <1>5, NextBase, IdleSlots
<1>6. QED
  BY <1>1, <1>2, <1>3, <1>4, <1>5 DEF Next

\* A slot that comes back for an expired ad comes back once, through restarts
\* too: a campaign never comes on stage more often than tours were built with.
THEOREM SlotsOnce == Spec => []NoSlotTwice
<1>1. Init => SlotInv
  BY StartSlots
<1>2. Base /\ SlotInv => NoSlotTwice
  <2> SUFFICES ASSUME Base, SlotInv, NEW p \in Publishers, NEW c \in Campaigns
      PROVE Occurrences(tour[p], c)
              + Cardinality({n \in Of({c}) : ads[n].pub = p /\ ~Lapsed(n)}) <= built[p][c]
    BY DEF NoSlotTwice
  <2> DEFINE S == {n \in Of({c}) : ads[n].pub = p /\ ~Lapsed(n)}
  <2>1. S \subseteq Out(p, c)
    BY DEF Out, Of
  <2>2. /\ Occurrences(tour[p], c) + Cardinality(Out(p, c)) <= built[p][c]
        /\ Occurrences(tour[p], c) \in Nat /\ built[p][c] \in Nat
        /\ Out(p, c) \in SUBSET DOMAIN ads /\ Cardinality(Out(p, c)) \in Nat
    BY SlotSizes DEF SlotInv
  <2> HIDE DEF S
  <2>3. Cardinality(S) <= Cardinality(Out(p, c)) /\ Cardinality(S) \in Nat
    BY <2>1, <2>2, AdSetSize DEF Base
  <2>4. Occurrences(tour[p], c) + Cardinality(S) <= built[p][c]
    BY <2>2, <2>3
  <2>5. QED
    BY <2>4 DEF S
<1>3. QED
  BY <1>1, <1>2, NextSlots, BaseAlways, PTL DEF Spec

\* Every store keeps its shape.
THEOREM TypeCorrect == Spec => []TypeOK
<1>1. Base => TypeOK
  BY TypeParts DEF Base
<1>2. QED
  BY <1>1, BaseAlways, PTL

\* Own campaigns never raise a price, nobody pays above its bid, and the
\* higher bid never pays less.
THEOREM PricesAlwaysFair == Spec => []FairPrices
<1>1. Base => FairPrices
  BY PricesFair DEF Base
<1>2. QED
  BY <1>1, BaseAlways, PTL

\* Whoever comes on stage next can pay for it.
THEOREM NobodySilenced == Spec => []NeverSilent
<1>1. Base => NeverSilent
  BY SomebodyPays DEF Base
<1>2. QED
  BY <1>1, BaseAlways, PTL
=============================================================================
