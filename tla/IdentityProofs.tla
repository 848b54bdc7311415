--------------------------- MODULE IdentityProofs ---------------------------
(***************************************************************************)
(* Proofs about logins and deposits: types with the counter of challenges, *)
(* one token for one challenge, logouts that last, wallets bound before    *)
(* their tokens are answered.                                              *)
(*                                                                         *)
(* TypeOK is taken in five groups of variables, and an action has a lemma  *)
(* for the groups it changes.  UsedOnce makes OneTokenPerChallenge         *)
(* inductive: a number is on a pending challenge or on a token, never on   *)
(* both.  OnDisk makes the other two inductive: what a restart finds is    *)
(* what was in memory.                                                     *)
(***************************************************************************)
EXTENDS Identity, FiniteSetTheorems, SequenceTheorems, WellFoundedInduction, TLAPS

ChallengesOK ==
  /\ pending \subseteq Challenge /\ IsFiniteSet(pending) /\ made \in 0 .. MaxChallenges
  /\ \A w \in Wallets : Cardinality(ListOf(w, pending)) <= MaxPerAddress
  /\ total = Cardinality(pending) /\ total <= MaxTotal

WaitingOK == IsABag(verifying) /\ BagToSet(verifying) \subseteq Check

TokensOK ==
  /\ tokens \in Seq(Token) /\ savedTokens \in Seq(Token)
  /\ bound \subseteq Wallets /\ savedBound \subseteq Wallets
  /\ handed \subseteq DOMAIN tokens /\ loggedOut \subseteq DOMAIN tokens

ClockOK ==
  /\ bucket \in [tokens : 0 .. Capacity, at : 0 .. clock]
  /\ clock \in 0 .. MaxClock /\ restarts \in 0 .. MaxRestarts

DepositsOK ==
  /\ chain \in Seq(Payment) /\ cursor \in 0 .. Len(chain)
  /\ polling \in [after : 0 .. Len(chain)] \cup {None}
  /\ credited \in [1 .. MaxPayments -> Nat] /\ lost \subseteq DOMAIN chain

UsedOnce ==
  /\ \A c, d \in pending : c.id = d.id => c = d
  /\ \A c \in pending : c.id <= made
  /\ \A t \in DOMAIN tokens : tokens[t].id <= made
  /\ \A t \in DOMAIN tokens, c \in pending : tokens[t].id # c.id
  /\ OneTokenPerChallenge

OnDisk ==
  /\ tokens = savedTokens /\ bound = savedBound
  /\ LogoutIsFinal /\ LoggedInIsPayable

IInv == TypeOK /\ UsedOnce /\ OnDisk

LEMMA Groups ==
  TypeOK <=> ChallengesOK /\ WaitingOK /\ TokensOK /\ ClockOK /\ DepositsOK
BY DEF TypeOK, ChallengesOK, WaitingOK, TokensOK, ClockOK, DepositsOK

LEMMA Constants ==
  /\ "publisher" \in Roles
  /\ Lifetime \in Nat /\ Linger \in Nat /\ MaxTotal \in Nat /\ MaxClock \in Nat
  /\ MaxChallenges \in Nat /\ MaxRestarts \in Nat
  /\ MaxPerAddress \in Nat \ {0} /\ Capacity \in Nat \ {0} /\ Refill \in Nat \ {0}
  /\ PageSize \in Nat \ {0} /\ MaxPayments \in Nat /\ MaxLost \in Nat
BY LoginAssumption, DepositAssumption

(***************************************************************************)
(* Sets of numbers, bags, and the bucket                                   *)
(***************************************************************************)
LEMMA MinOfTwo ==
  ASSUME NEW a \in Int, NEW b \in Int
  PROVE  Min({a, b}) = IF a <= b THEN a ELSE b
BY DEF Min

LEMMA DivBound ==
  ASSUME NEW x \in Nat, NEW r \in Nat \ {0}
  PROVE  x \div r \in Nat /\ (x \div r) * r <= x
OBVIOUS

LEMMA BagGains ==
  ASSUME NEW b, IsABag(b), NEW v
  PROVE  IsABag(b (+) SetToBag({v})) /\ BagToSet(b (+) SetToBag({v})) = BagToSet(b) \cup {v}
BY DEF BagToSet, SetToBag, IsABag, (+)

LEMMA BagLoses ==
  ASSUME NEW b, IsABag(b), NEW v
  PROVE  IsABag(b (-) SetToBag({v})) /\ BagToSet(b (-) SetToBag({v})) \subseteq BagToSet(b)
BY DEF BagToSet, SetToBag, IsABag, (-)

LEMMA BagEmpty == IsABag(EmptyBag) /\ BagToSet(EmptyBag) = {}
BY DEF IsABag, BagToSet, EmptyBag, SetToBag

LEMMA NatLess ==
  \E R : IsWellFoundedOn(R, Nat) /\ \A x, y \in Nat : y < x => <<y, x>> \in R
<1>1. \A x, y \in Nat : y < x => <<y, x>> \in OpToRel(<, Nat)
  BY DEF OpToRel
<1>2. QED
  BY <1>1, NatLessThanWellFounded

\* A set of numbers has a least element.
LEMMA Least ==
  ASSUME NEW T \in SUBSET Nat, T # {}
  PROVE  \E m \in T : \A k \in T : m <= k
<1>1. PICK R : IsWellFoundedOn(R, Nat) /\ \A x, y \in Nat : y < x => <<y, x>> \in R
  BY NatLess
<1>2. PICK m \in T : \A k \in T : <<k, m>> \notin R
  BY <1>1, WFMin
<1>3. ASSUME NEW k \in T PROVE m <= k
  <2>1. k \in Nat /\ m \in Nat
    OBVIOUS
  <2>2. ~(k < m)
    BY <1>1, <1>2, <2>1
  <2>3. QED
    BY <2>1, <2>2
<1>4. QED
  BY <1>3

\* The oldest challenge of a list is one of it.
LEMMA OldestThere ==
  ASSUME NEW list, list # {}, \A c \in list : c.id \in Nat
  PROVE  Oldest(list) \in list
<1> DEFINE ids == {c.id : c \in list}
<1>1. ids # {} /\ ids \subseteq Nat
  OBVIOUS
<1>2. PICK n \in ids : \A k \in ids : n <= k
  BY <1>1, Least
<1>3. PICK c \in list : c.id = n
  OBVIOUS
<1>4. \A d \in list : c.id <= d.id
  BY <1>2, <1>3
<1>5. QED
  BY <1>4 DEF Oldest

\* What the bucket holds after the time that passed.
LEMMA RefilledTyped ==
  ASSUME ClockOK
  PROVE  Refilled(bucket) \in [tokens : 0 .. Capacity, at : 0 .. clock]
<1> DEFINE x == clock - bucket.at
           grown == x \div Refill
           held == Min({Capacity, bucket.tokens + grown})
<1>1. /\ bucket.tokens \in 0 .. Capacity /\ bucket.at \in 0 .. clock
      /\ clock \in Nat /\ Capacity \in Nat /\ Refill \in Nat \ {0}
  BY Constants DEF ClockOK
<1>2. x \in Nat
  BY <1>1
<1>3. grown \in Nat /\ grown * Refill <= x /\ grown * Refill \in Nat
  <2>1. grown \in Nat /\ grown * Refill <= x
    BY <1>1, <1>2, DivBound
  <2>2. QED
    BY <1>1, <2>1
<1>4. held \in 0 .. Capacity
  <2>1. held = IF Capacity <= bucket.tokens + grown THEN Capacity ELSE bucket.tokens + grown
    BY <1>1, <1>3, MinOfTwo
  <2>2. QED
    BY <1>1, <1>3, <2>1
<1>5. bucket.at + grown * Refill \in 0 .. clock
  BY <1>1, <1>3
<1>6. clock \in 0 .. clock
  BY <1>1
<1>7. Refilled(bucket) = [tokens |-> held, at |-> IF grown > 0 /\ held = Capacity THEN clock
                                                  ELSE bucket.at + grown * Refill]
  BY DEF Refilled
<1> HIDE DEF grown, held
<1>8. QED
  BY <1>4, <1>5, <1>6, <1>7

LEMMA AdmitTyped ==
  ASSUME ClockOK, Admit, UNCHANGED <<clock, restarts>>
  PROVE  ClockOK'
<1>1. PICK b : b = Refilled(bucket)
  OBVIOUS
<1>2. b \in [tokens : 0 .. Capacity, at : 0 .. clock] /\ Capacity \in Nat
  BY <1>1, RefilledTyped, Constants
<1>3. b.tokens >= 1 /\ bucket' = [b EXCEPT !.tokens = b.tokens - 1]
  BY <1>1 DEF Admit
<1>4. b.tokens - 1 \in 0 .. Capacity
  BY <1>2, <1>3
<1>5. bucket' \in [tokens : 0 .. Capacity, at : 0 .. clock]
  BY <1>2, <1>3, <1>4
<1>6. QED
  BY <1>5 DEF ClockOK

(***************************************************************************)
(* Challenges                                                              *)
(***************************************************************************)
\* Challenges may be collected, pushed out or used up: the counter follows,
\* and no number is taken anew.
LEMMA FewerChallenges ==
  ASSUME ChallengesOK, UNCHANGED made, pending' \subseteq pending,
         total' = total - (Cardinality(pending) - Cardinality(pending'))
  PROVE  ChallengesOK'
<1>1. IsFiniteSet(pending) /\ MaxTotal \in Nat /\ MaxPerAddress \in Nat
  BY Constants DEF ChallengesOK
<1>2. /\ IsFiniteSet(pending') /\ Cardinality(pending') \in Nat /\ Cardinality(pending) \in Nat
      /\ Cardinality(pending') <= Cardinality(pending)
  BY <1>1, FS_Subset, FS_CardinalityType
<1>3. ASSUME NEW w \in Wallets PROVE Cardinality(ListOf(w, pending')) <= MaxPerAddress
  <2>1. ListOf(w, pending') \subseteq ListOf(w, pending) /\ ListOf(w, pending) \subseteq pending
    BY DEF ListOf
  <2>2. IsFiniteSet(ListOf(w, pending))
    BY <1>1, <2>1, FS_Subset
  <2>3. /\ Cardinality(ListOf(w, pending')) \in Nat /\ Cardinality(ListOf(w, pending)) \in Nat
        /\ Cardinality(ListOf(w, pending')) <= Cardinality(ListOf(w, pending))
    BY <2>1, <2>2, FS_Subset, FS_CardinalityType
  <2>4. Cardinality(ListOf(w, pending)) <= MaxPerAddress
    BY DEF ChallengesOK
  <2>5. QED
    BY <1>1, <2>3, <2>4
<1>4. total' = Cardinality(pending') /\ total' <= MaxTotal
  BY <1>1, <1>2 DEF ChallengesOK
<1>5. QED
  BY <1>2, <1>3, <1>4 DEF ChallengesOK

LEMMA OneFewer ==
  ASSUME NEW S, IsFiniteSet(S), NEW x \in S
  PROVE  IsFiniteSet(S \ {x}) /\ Cardinality(S \ {x}) = Cardinality(S) - 1
         /\ Cardinality(S) \in Nat
BY FS_RemoveElement, FS_CardinalityType

LEMMA RemovedTyped ==
  ASSUME ChallengesOK, NEW c \in pending, Removed(c), UNCHANGED made
  PROVE  ChallengesOK'
<1>1. IsFiniteSet(pending) /\ pending' = pending \ {c} /\ total' = total - 1
  BY DEF ChallengesOK, Removed
<1>2. Cardinality(pending') = Cardinality(pending) - 1 /\ Cardinality(pending) \in Nat
  BY <1>1, FS_RemoveElement, FS_CardinalityType
<1>3. total' = total - (Cardinality(pending) - Cardinality(pending'))
  BY <1>1, <1>2
<1>4. QED
  BY <1>1, <1>3, FewerChallenges

LEMMA CollectedTyped ==
  ASSUME ChallengesOK
  PROVE  /\ Collected \subseteq pending /\ IsFiniteSet(Collected)
         /\ Cardinality(Collected) \in Nat /\ Swept = Cardinality(Collected)
<1>1. Collected \subseteq pending /\ IsFiniteSet(pending)
  BY DEF Collected, ChallengesOK
<1>2. IsFiniteSet(Collected) /\ Cardinality(Collected) \in Nat /\ Cardinality(pending) \in Nat
  BY <1>1, FS_Subset, FS_CardinalityType
<1>3. Swept = Cardinality(Collected)
  BY <1>2 DEF Swept, ChallengesOK
<1>4. QED
  BY <1>1, <1>2, <1>3

\* The number of a new challenge is on no other.
LEMMA NewChallengeTyped ==
  ASSUME ChallengesOK, ClockOK, UsedOnce, made < MaxChallenges, NEW w \in Wallets
  PROVE  /\ NewChallenge(w) \in Challenge /\ NewChallenge(w) \notin pending
         /\ NewChallenge(w).wallet = w /\ NewChallenge(w).id = made + 1
<1>1. made \in Nat /\ clock + Lifetime \in Nat /\ made + 1 \in 1 .. MaxChallenges
  BY Constants DEF ChallengesOK, ClockOK
<1>2. NewChallenge(w) \in Challenge /\ NewChallenge(w).id = made + 1
  BY <1>1 DEF NewChallenge, Challenge
<1>3. NewChallenge(w) \notin pending
  BY <1>1, <1>2 DEF UsedOnce
<1>4. QED
  BY <1>2, <1>3 DEF NewChallenge

LEMMA TokenTyped ==
  ASSUME TokensOK
  PROVE  \A t \in DOMAIN tokens : tokens[t] \in Token /\ tokens[t].id \in 1 .. MaxChallenges
                                  /\ tokens[t].id \in Nat
<1>1. \A t \in DOMAIN tokens : tokens[t] \in Token
  BY DEF TokensOK
<1>2. QED
  BY <1>1, Constants DEF Token

LEMMA AskTyped ==
  ASSUME ChallengesOK, TokensOK, ClockOK, UsedOnce, NEW w \in Wallets, AskChallenge(w)
  PROVE  ChallengesOK' /\ UsedOnce'
<1> DEFINE n == NewChallenge(w)
           old == ListOf(w, Collected)
           list == old \cup {n}
           over == Cardinality(list) > MaxPerAddress
<1>1. UNCHANGED tokens
  BY DEF AskChallenge, identities
<1>2. CASE Swept >= MaxTotal
  <2>1. pending' = Collected /\ total' = Swept /\ UNCHANGED made
    BY <1>2 DEF AskChallenge
  <2>2. pending' \subseteq pending
        /\ total' = total - (Cardinality(pending) - Cardinality(pending'))
    BY <2>1, CollectedTyped DEF Swept
  <2>3. ChallengesOK'
    BY <2>1, <2>2, FewerChallenges
  <2>4. UsedOnce'
    BY <1>1, <2>1, <2>2 DEF UsedOnce, OneTokenPerChallenge
  <2>5. QED
    BY <2>3, <2>4
<1>3. CASE ~(Swept >= MaxTotal)
  <2>1. /\ made < MaxChallenges
        /\ pending' = (Collected \cup list) \ (IF over THEN {Oldest(list)} ELSE {})
        /\ total' = IF over THEN Swept ELSE Swept + 1
        /\ made' = made + 1
    BY <1>3 DEF AskChallenge
  <2>2. n \in Challenge /\ n \notin pending /\ n.wallet = w /\ n.id = made + 1
    BY <2>1, NewChallengeTyped
  <2> HIDE DEF n
  <2>3. /\ old \subseteq Collected /\ n \notin Collected /\ n \notin old
        /\ Collected \cup list = Collected \cup {n}
        /\ pending' \subseteq pending \cup {n}
    BY <2>1, <2>2, CollectedTyped DEF ListOf
  <2>4. IsFiniteSet(old) /\ Cardinality(old) \in Nat /\ Cardinality(old) <= MaxPerAddress
    <3>1. old \subseteq ListOf(w, pending) /\ ListOf(w, pending) \subseteq pending
      BY CollectedTyped DEF ListOf
    <3>2. IsFiniteSet(ListOf(w, pending))
      BY <3>1, FS_Subset DEF ChallengesOK
    <3>3. /\ IsFiniteSet(old) /\ Cardinality(old) \in Nat
          /\ Cardinality(ListOf(w, pending)) \in Nat
          /\ Cardinality(old) <= Cardinality(ListOf(w, pending))
      BY <3>1, <3>2, FS_Subset, FS_CardinalityType
    <3>4. Cardinality(ListOf(w, pending)) <= MaxPerAddress
      BY DEF ChallengesOK
    <3>5. QED
      BY <3>3, <3>4, Constants
  <2>5. IsFiniteSet(list) /\ Cardinality(list) = Cardinality(old) + 1
    BY <2>3, <2>4, FS_AddElement
  <2>6. /\ IsFiniteSet(Collected \cup {n})
        /\ Cardinality(Collected \cup {n}) = Cardinality(Collected) + 1
    BY <2>3, CollectedTyped, FS_AddElement
  <2>7. over => Oldest(list) \in list
    <3>1. list # {} /\ \A c \in list : c.id \in Nat
      BY <2>2, <2>3, CollectedTyped DEF ChallengesOK, Challenge
    <3>2. QED
      BY <3>1, OldestThere
  <2>8. IsFiniteSet(pending') /\ total' = Cardinality(pending') /\ total' <= MaxTotal
    <3>1. CASE over
      <4>1. pending' = (Collected \cup {n}) \ {Oldest(list)} /\ Oldest(list) \in Collected \cup {n}
        BY <2>1, <2>3, <2>7, <3>1
      <4>2. PICK S, o : /\ pending' = S \ {o} /\ o \in S /\ IsFiniteSet(S)
                        /\ Cardinality(S) = Cardinality(Collected) + 1
        BY <2>6, <4>1
      <4>3. IsFiniteSet(pending') /\ Cardinality(pending') = Cardinality(S) - 1
        BY <4>2, OneFewer
      <4>4. total' = Swept
        BY <2>1, <3>1
      <4>5. QED
        BY <1>3, <4>2, <4>3, <4>4, CollectedTyped, Constants
    <3>2. CASE ~over
      <4>1. pending' = Collected \cup {n}
        BY <2>1, <2>3, <3>2
      <4>2. total' = Swept + 1
        BY <2>1, <3>2
      <4>3. QED
        BY <1>3, <2>6, <4>1, <4>2, CollectedTyped, Constants
    <3>3. QED
      BY <3>1, <3>2
  <2>9. ASSUME NEW u \in Wallets PROVE Cardinality(ListOf(u, pending')) <= MaxPerAddress
    <3>1. CASE u = w /\ over
      <4>1. ListOf(u, pending') = list \ {Oldest(list)}
        BY <2>1, <2>2, <2>3, <2>7, <3>1 DEF ListOf
      <4>2. Cardinality(list \ {Oldest(list)}) = Cardinality(list) - 1
        BY <2>5, <2>7, <3>1, OneFewer
      <4>3. QED
        BY <2>4, <2>5, <4>1, <4>2, Constants
    <3>2. CASE u = w /\ ~over
      <4>1. ListOf(u, pending') = list
        BY <2>1, <2>2, <2>3, <3>2 DEF ListOf
      <4>2. QED
        BY <2>4, <2>5, <3>2, <4>1, Constants
    <3>3. CASE u # w
      <4>1. ListOf(u, pending') \subseteq ListOf(u, pending) /\ ListOf(u, pending) \subseteq pending
        BY <2>2, <2>3, <3>3 DEF ListOf
      <4>2. IsFiniteSet(ListOf(u, pending))
        BY <4>1, FS_Subset DEF ChallengesOK
      <4>3. /\ Cardinality(ListOf(u, pending)) \in Nat /\ Cardinality(ListOf(u, pending')) \in Nat
            /\ Cardinality(ListOf(u, pending')) <= Cardinality(ListOf(u, pending))
        BY <4>1, <4>2, FS_Subset, FS_CardinalityType
      <4>4. Cardinality(ListOf(u, pending)) <= MaxPerAddress
        BY DEF ChallengesOK
      <4>5. QED
        BY <4>3, <4>4, Constants
    <3>4. QED
      BY <3>1, <3>2, <3>3
  <2>10. pending' \subseteq Challenge /\ made' \in 0 .. MaxChallenges
    BY <2>1, <2>2, <2>3, Constants DEF ChallengesOK
  <2>11. UsedOnce'
    <3>1. made \in Nat /\ n.id = made + 1 /\ made' = made + 1
      BY <2>1, <2>2 DEF ChallengesOK
    <3>2. /\ \A c \in pending : c.id \in Nat /\ c.id <= made
          /\ \A c, d \in pending : c.id = d.id => c = d
      BY DEF UsedOnce, ChallengesOK, Challenge
    <3>3. \A c, d \in pending' : c.id = d.id => c = d
      BY <2>3, <3>1, <3>2
    <3>4. \A c \in pending' : c.id <= made'
      BY <2>3, <3>1, <3>2
    <3>5. ASSUME NEW t \in DOMAIN tokens
          PROVE  tokens[t].id <= made' /\ \A c \in pending' : tokens[t].id # c.id
      <4>1. tokens[t].id \in Nat
        BY TokenTyped
      <4>2. QED
        BY <2>3, <3>1, <4>1 DEF UsedOnce
    <3>6. QED
      BY <1>1, <3>3, <3>4, <3>5 DEF UsedOnce, OneTokenPerChallenge
  <2>12. QED
    BY <2>8, <2>9, <2>10, <2>11 DEF ChallengesOK
<1>4. QED
  BY <1>2, <1>3

(***************************************************************************)
(* The steps of a login, logouts and restarts                              *)
(***************************************************************************)
\* A step that leaves tokens and wallets alone, and adds no challenge.
LEMMA NothingIssued ==
  ASSUME TokensOK, UsedOnce, OnDisk, UNCHANGED <<identities, handed, loggedOut>>
  PROVE  /\ TokensOK' /\ OnDisk'
         /\ UNCHANGED made /\ pending' \subseteq pending => UsedOnce'
<1>1. UNCHANGED <<tokens, savedTokens, bound, savedBound, handed, loggedOut>>
  BY DEF identities
<1>2. TokensOK'
  BY <1>1 DEF TokensOK
<1>3. OnDisk'
  BY <1>1 DEF OnDisk, LogoutIsFinal, Accepted, LoggedInIsPayable, PayoutBlocked
<1>4. UNCHANGED made /\ pending' \subseteq pending => UsedOnce'
  BY <1>1 DEF UsedOnce, OneTokenPerChallenge
<1>5. QED
  BY <1>2, <1>3, <1>4

LEMMA VerifyTyped ==
  ASSUME TypeOK, UsedOnce, OnDisk, NEW w \in Wallets, NEW role \in Roles, NEW id \in 1 .. made,
         Verify(w, role, id)
  PROVE  ChallengesOK' /\ WaitingOK' /\ TokensOK' /\ ClockOK' /\ UsedOnce' /\ OnDisk'
<1>1. /\ ChallengesOK /\ WaitingOK /\ TokensOK /\ ClockOK
      /\ Admit /\ UNCHANGED <<made, identities, handed, loggedOut, clock, restarts>>
  BY Groups DEF Verify
<1>2. ClockOK'
  BY <1>1, AdmitTyped
<1>3. ChallengesOK' /\ WaitingOK' /\ pending' \subseteq pending
  <2>1. CASE UNCHANGED <<pending, total, verifying>>
    BY <1>1, <2>1 DEF ChallengesOK, WaitingOK, ListOf
  <2>2. ASSUME NEW c \in Find(w, id), Removed(c), UNCHANGED verifying
        PROVE  ChallengesOK' /\ WaitingOK' /\ pending' \subseteq pending
    <3>1. c \in pending
      BY DEF Find, ListOf
    <3>2. QED
      BY <1>1, <2>2, <3>1, RemovedTyped DEF WaitingOK, Removed
  <2>3. ASSUME NEW c \in Find(w, id), UNCHANGED <<pending, total>>,
               verifying' = verifying (+) SetToBag({[role |-> role, challenge |-> c]})
        PROVE  ChallengesOK' /\ WaitingOK' /\ pending' \subseteq pending
    <3>1. [role |-> role, challenge |-> c] \in Check
      BY <1>1 DEF Find, ListOf, Check, ChallengesOK
    <3>2. PICK k \in Check : verifying' = verifying (+) SetToBag({k})
      BY <2>3, <3>1
    <3>3. WaitingOK'
      <4>1. IsABag(verifying) /\ BagToSet(verifying) \subseteq Check
        BY <1>1 DEF WaitingOK
      <4>2. IsABag(verifying') /\ BagToSet(verifying') = BagToSet(verifying) \cup {k}
        BY <3>2, <4>1, BagGains
      <4>3. QED
        BY <4>1, <4>2 DEF WaitingOK
    <3>4. QED
      BY <1>1, <2>3, <3>3 DEF ChallengesOK, ListOf
  <2>4. QED
    BY <2>1, <2>2, <2>3 DEF Verify
<1>4. TokensOK' /\ OnDisk' /\ UsedOnce'
  BY <1>1, <1>3, NothingIssued
<1>5. QED
  BY <1>2, <1>3, <1>4

LEMMA AnsweredTyped ==
  ASSUME WaitingOK, NEW v \in BagToSet(verifying), Answered(v)
  PROVE  WaitingOK' /\ v \in Check
BY BagLoses DEF WaitingOK, Answered

LEMMA UnverifiedTyped ==
  ASSUME TypeOK, UsedOnce, OnDisk, NEW v \in BagToSet(verifying), Unverified(v)
  PROVE  ChallengesOK' /\ WaitingOK' /\ TokensOK' /\ ClockOK' /\ UsedOnce' /\ OnDisk'
<1>1. /\ ChallengesOK /\ WaitingOK /\ TokensOK /\ ClockOK /\ Answered(v)
      /\ UNCHANGED <<pending, total, made, identities, handed, loggedOut, bucket, clock, restarts>>
  BY Groups DEF Unverified
<1>2. WaitingOK'
  BY <1>1, AnsweredTyped
<1>3. ChallengesOK' /\ ClockOK'
  BY <1>1 DEF ChallengesOK, ListOf, ClockOK
<1>4. QED
  BY <1>1, <1>2, <1>3, NothingIssued

\* A token for a challenge that is still there, and is no longer.
LEMMA TokenAdded ==
  ASSUME ChallengesOK, TokensOK, UsedOnce, OnDisk, NEW v \in Check, StillThere(v),
         tokens' = Append(tokens, NewToken(v)), pending' \subseteq pending \ {v.challenge},
         UNCHANGED made
  PROVE  /\ UsedOnce' /\ tokens' \in Seq(Token) /\ Len(tokens') = Len(tokens) + 1
         /\ DOMAIN tokens' = DOMAIN tokens \cup {Len(tokens) + 1}
         /\ tokens'[Len(tokens) + 1] = NewToken(v)
         /\ \A t \in DOMAIN tokens : t # Len(tokens) + 1 /\ tokens'[t] = tokens[t]
<1> DEFINE n == NewToken(v)
<1>1. n \in Token /\ n.id = v.challenge.id
  BY DEF NewToken, Token, Check, Challenge
<1> HIDE DEF n
<1>2. tokens \in Seq(Token)
  BY DEF TokensOK
<1>3. /\ tokens' \in Seq(Token) /\ Len(tokens') = Len(tokens) + 1
      /\ DOMAIN tokens' = DOMAIN tokens \cup {Len(tokens) + 1}
      /\ tokens'[Len(tokens) + 1] = n
      /\ \A t \in DOMAIN tokens : t # Len(tokens) + 1 /\ tokens'[t] = tokens[t]
  BY <1>1, <1>2 DEF n
<1>4. v.challenge \in pending /\ v.challenge.id <= made
  BY DEF StillThere, UsedOnce
<1>5. \A t \in DOMAIN tokens' : tokens'[t].id <= made'
  BY <1>1, <1>3, <1>4 DEF UsedOnce
<1>6. \A t \in DOMAIN tokens', c \in pending' : tokens'[t].id # c.id
  BY <1>1, <1>3, <1>4 DEF UsedOnce
<1>7. \A t, u \in DOMAIN tokens' : tokens'[t].id = tokens'[u].id => t = u
  BY <1>1, <1>3, <1>4 DEF UsedOnce, OneTokenPerChallenge
<1>8. UsedOnce'
  BY <1>5, <1>6, <1>7 DEF UsedOnce, OneTokenPerChallenge
<1>9. QED
  BY <1>3, <1>8 DEF n

LEMMA VerifiedTyped ==
  ASSUME TypeOK, UsedOnce, OnDisk, NEW v \in BagToSet(verifying), Verified(v)
  PROVE  ChallengesOK' /\ WaitingOK' /\ TokensOK' /\ ClockOK' /\ UsedOnce' /\ OnDisk'
<1>1. /\ ChallengesOK /\ WaitingOK /\ TokensOK /\ ClockOK /\ Answered(v)
      /\ UNCHANGED <<made, loggedOut, bucket, clock, restarts>>
  BY Groups DEF Verified
<1>2. WaitingOK' /\ v \in Check
  BY <1>1, AnsweredTyped
<1>3. ClockOK'
  BY <1>1 DEF ClockOK
<1>4. CASE ~StillThere(v) /\ UNCHANGED <<pending, total, identities, handed>>
  <2>1. ChallengesOK'
    BY <1>1, <1>4 DEF ChallengesOK, ListOf
  <2>2. QED
    BY <1>1, <1>2, <1>3, <1>4, <2>1, NothingIssued
<1>5. CASE /\ StillThere(v) /\ Removed(v.challenge) /\ AddToken(v) /\ BindOnce(v)
           /\ handed' = handed \cup {Len(tokens) + 1}
  <2>1. v.challenge \in pending /\ pending' = pending \ {v.challenge}
    BY <1>5 DEF StillThere, Removed
  <2>2. ChallengesOK'
    BY <1>1, <1>5, <2>1, RemovedTyped
  <2>3. tokens' = Append(tokens, NewToken(v)) /\ savedTokens' = tokens'
    BY <1>5 DEF AddToken, OnDisk
  <2>4. /\ UsedOnce' /\ tokens' \in Seq(Token)
        /\ DOMAIN tokens' = DOMAIN tokens \cup {Len(tokens) + 1}
        /\ tokens'[Len(tokens) + 1] = NewToken(v)
        /\ \A t \in DOMAIN tokens : t # Len(tokens) + 1 /\ tokens'[t] = tokens[t]
    BY <1>1, <1>2, <1>5, <2>1, <2>3, TokenAdded
  <2>5. /\ bound \subseteq Wallets /\ savedBound = bound /\ v.challenge.wallet \in Wallets
        /\ handed \subseteq DOMAIN tokens /\ loggedOut \subseteq DOMAIN tokens
    BY <1>1, <1>2 DEF OnDisk, TokensOK, Check, Challenge
  <2>6. /\ bound' \subseteq Wallets /\ savedBound' = bound' /\ bound \subseteq bound'
        /\ v.role = "publisher" => v.challenge.wallet \in bound'
    BY <1>5, <2>5 DEF BindOnce, Bind
  <2>7. TokensOK'
    BY <1>1, <1>5, <2>3, <2>4, <2>5, <2>6 DEF TokensOK
  <2>8. LogoutIsFinal'
    BY <1>1, <2>4, <2>5 DEF OnDisk, LogoutIsFinal, Accepted
  <2>9. LoggedInIsPayable'
    <3>1. ASSUME NEW t \in handed', tokens'[t].role = "publisher"
          PROVE  tokens'[t].wallet \in bound'
      <4>1. CASE t = Len(tokens) + 1
        BY <2>4, <2>6, <3>1, <4>1 DEF NewToken
      <4>2. CASE t \in handed
        BY <2>4, <2>5, <2>6, <3>1, <4>2 DEF OnDisk, LoggedInIsPayable, PayoutBlocked
      <4>3. QED
        BY <1>5, <4>1, <4>2
    <3>2. QED
      BY <3>1 DEF LoggedInIsPayable, PayoutBlocked
  <2>10. QED
    BY <1>2, <1>3, <2>2, <2>3, <2>4, <2>6, <2>7, <2>8, <2>9 DEF OnDisk
<1>6. QED
  BY <1>4, <1>5 DEF Verified

\* Revoking a token changes nothing else of the tokens.
LEMMA RevokedTyped ==
  ASSUME TokensOK, NEW t \in DOMAIN tokens, NEW r, r = [tokens EXCEPT ![t].revoked = TRUE]
  PROVE  /\ r \in Seq(Token) /\ DOMAIN r = DOMAIN tokens
         /\ \A u \in DOMAIN tokens : /\ r[u].id = tokens[u].id /\ r[u].role = tokens[u].role
                                     /\ r[u].wallet = tokens[u].wallet
                                     /\ tokens[u].revoked => r[u].revoked
         /\ r[t].revoked
<1> DEFINE n == [tokens[t] EXCEPT !.revoked = TRUE]
<1>1. tokens \in Seq(Token) /\ tokens[t] \in Token
  BY DEF TokensOK
<1>2. /\ n \in Token /\ n.id = tokens[t].id /\ n.role = tokens[t].role
      /\ n.wallet = tokens[t].wallet /\ n.revoked
  BY <1>1 DEF Token
<1>3. r = [tokens EXCEPT ![t] = n]
  OBVIOUS
<1> HIDE DEF n
<1>4. /\ r \in Seq(Token) /\ DOMAIN r = DOMAIN tokens
      /\ \A u \in DOMAIN tokens : r[u] = IF u = t THEN n ELSE tokens[u]
  <2>1. t \in 1 .. Len(tokens)
    BY <1>1
  <2>2. [tokens EXCEPT ![t] = n] \in Seq(Token)
    BY <1>1, <1>2, <2>1, ExceptSeq
  <2>3. QED
    BY <1>1, <1>3, <2>2
<1>5. QED
  BY <1>2, <1>4

LEMMA LogoutTyped ==
  ASSUME TypeOK, UsedOnce, OnDisk, NEW t \in DOMAIN tokens, Logout(t)
  PROVE  ChallengesOK' /\ WaitingOK' /\ TokensOK' /\ ClockOK' /\ UsedOnce' /\ OnDisk'
<1>1. /\ ChallengesOK /\ WaitingOK /\ TokensOK /\ ClockOK
      /\ UNCHANGED <<pending, total, made, verifying, bound, savedBound, handed, bucket, clock, restarts>>
      /\ loggedOut' = loggedOut \cup {t}
  BY Groups DEF Logout, challenges
<1>2. ChallengesOK' /\ WaitingOK' /\ ClockOK'
  BY <1>1 DEF ChallengesOK, ListOf, WaitingOK, ClockOK
<1>3. tokens' = [tokens EXCEPT ![t].revoked = TRUE] /\ savedTokens' = tokens'
  BY DEF Logout, Revoke, OnDisk
<1>4. /\ tokens' \in Seq(Token) /\ DOMAIN tokens' = DOMAIN tokens
      /\ \A u \in DOMAIN tokens : /\ tokens'[u].id = tokens[u].id /\ tokens'[u].role = tokens[u].role
                                  /\ tokens'[u].wallet = tokens[u].wallet
                                  /\ tokens[u].revoked => tokens'[u].revoked
      /\ tokens'[t].revoked
  <2>1. PICK r : r = tokens' /\ r = [tokens EXCEPT ![t].revoked = TRUE]
    BY <1>3
  <2>2. /\ r \in Seq(Token) /\ DOMAIN r = DOMAIN tokens
        /\ \A u \in DOMAIN tokens : /\ r[u].id = tokens[u].id /\ r[u].role = tokens[u].role
                                    /\ r[u].wallet = tokens[u].wallet
                                    /\ tokens[u].revoked => r[u].revoked
        /\ r[t].revoked
    BY <1>1, <2>1, RevokedTyped
  <2>3. QED
    BY <2>1, <2>2
<1>5. TokensOK'
  BY <1>1, <1>3, <1>4 DEF TokensOK
<1>6. UsedOnce'
  BY <1>1, <1>4 DEF UsedOnce, OneTokenPerChallenge
<1>7. LogoutIsFinal'
  BY <1>1, <1>4 DEF OnDisk, LogoutIsFinal, Accepted, TokensOK
<1>8. LoggedInIsPayable'
  BY <1>1, <1>4 DEF OnDisk, LoggedInIsPayable, PayoutBlocked, TokensOK
<1>9. QED
  BY <1>1, <1>2, <1>3, <1>5, <1>6, <1>7, <1>8 DEF OnDisk

\* What a restart finds on the disk: at least what was in memory, perhaps a
\* token nobody was told of, perhaps a logout nobody was told of.
LEMMA ReloadTyped ==
  ASSUME TypeOK, UsedOnce, OnDisk, NEW disk, Reload(disk),
         \/ disk = savedTokens
         \/ \E v \in BagToSet(verifying) : StillThere(v) /\ disk = Append(savedTokens, NewToken(v))
         \/ \E t \in DOMAIN tokens : disk = [savedTokens EXCEPT ![t].revoked = TRUE]
  PROVE  ChallengesOK' /\ WaitingOK' /\ TokensOK' /\ ClockOK' /\ UsedOnce' /\ OnDisk'
<1> DEFINE ReloadedTokens ==
      /\ tokens' \in Seq(Token) /\ DOMAIN tokens \subseteq DOMAIN tokens' /\ UsedOnce'
      /\ \A u \in DOMAIN tokens : /\ tokens'[u].role = tokens[u].role
                                  /\ tokens'[u].wallet = tokens[u].wallet
                                  /\ tokens[u].revoked => tokens'[u].revoked
<1>1. ChallengesOK /\ WaitingOK /\ TokensOK /\ ClockOK
  BY Groups
<1>2. /\ restarts < MaxRestarts /\ restarts' = restarts + 1
      /\ pending' = {} /\ total' = 0 /\ verifying' = EmptyBag
      /\ tokens' = disk /\ savedTokens' = disk /\ bound' = savedBound
      /\ bucket' = Full /\ UNCHANGED <<made, savedBound, handed, loggedOut, clock>>
  BY DEF Reload
<1>3. ChallengesOK'
  <2>1. \A w \in Wallets : ListOf(w, pending') = {}
    BY <1>2 DEF ListOf
  <2>2. IsFiniteSet(pending') /\ Cardinality(pending') = 0
    BY <1>2, FS_EmptySet
  <2>3. \A w \in Wallets : Cardinality(ListOf(w, pending')) <= MaxPerAddress
    <3>1. Cardinality({}) = 0 /\ 0 <= MaxPerAddress
      BY Constants, FS_EmptySet
    <3>2. QED
      BY <2>1, <3>1
  <2>4. QED
    BY <1>1, <1>2, <2>2, <2>3, Constants DEF ChallengesOK
<1>4. WaitingOK'
  BY <1>2, BagEmpty DEF WaitingOK
<1>5. ClockOK'
  <2>1. Capacity \in 0 .. Capacity /\ clock \in 0 .. clock /\ restarts' \in 0 .. MaxRestarts
    BY <1>1, <1>2, Constants DEF ClockOK
  <2>2. QED
    BY <1>1, <1>2, <2>1 DEF ClockOK, Full
<1>6. tokens = savedTokens /\ bound' = bound
  BY <1>2 DEF OnDisk
<1>7. ReloadedTokens
  <2>1. CASE disk = savedTokens
    BY <1>1, <1>2, <1>6, <2>1 DEF TokensOK, UsedOnce, OneTokenPerChallenge
  <2>2. ASSUME NEW v \in BagToSet(verifying), StillThere(v),
               disk = Append(savedTokens, NewToken(v))
        PROVE  ReloadedTokens
    <3>1. v \in Check /\ tokens' = Append(tokens, NewToken(v)) /\ pending' \subseteq pending \ {v.challenge}
      BY <1>1, <1>2, <1>6, <2>2 DEF WaitingOK
    <3>2. QED
      BY <1>1, <1>2, <2>2, <3>1, TokenAdded
  <2>3. ASSUME NEW t \in DOMAIN tokens, disk = [savedTokens EXCEPT ![t].revoked = TRUE]
        PROVE  ReloadedTokens
    <3>1. tokens' = [tokens EXCEPT ![t].revoked = TRUE]
      BY <1>2, <1>6, <2>3
    <3>2. /\ tokens' \in Seq(Token) /\ DOMAIN tokens' = DOMAIN tokens
          /\ \A u \in DOMAIN tokens : /\ tokens'[u].id = tokens[u].id
                                      /\ tokens'[u].role = tokens[u].role
                                      /\ tokens'[u].wallet = tokens[u].wallet
                                      /\ tokens[u].revoked => tokens'[u].revoked
      <4>1. PICK r : r = tokens' /\ r = [tokens EXCEPT ![t].revoked = TRUE]
        BY <3>1
      <4>2. /\ r \in Seq(Token) /\ DOMAIN r = DOMAIN tokens
            /\ \A u \in DOMAIN tokens : /\ r[u].id = tokens[u].id /\ r[u].role = tokens[u].role
                                        /\ r[u].wallet = tokens[u].wallet
                                        /\ tokens[u].revoked => r[u].revoked
            /\ r[t].revoked
        BY <1>1, <4>1, RevokedTyped
      <4>3. QED
        BY <4>1, <4>2
    <3>3. UsedOnce'
      BY <1>2, <3>2 DEF UsedOnce, OneTokenPerChallenge
    <3>4. QED
      BY <3>2, <3>3
  <2>4. QED
    BY <2>1, <2>2, <2>3
<1>8. TokensOK'
  BY <1>1, <1>2, <1>7 DEF TokensOK
<1>9. OnDisk'
  BY <1>1, <1>2, <1>6, <1>7 DEF OnDisk, LogoutIsFinal, Accepted, LoggedInIsPayable, PayoutBlocked, TokensOK
<1>10. QED
  BY <1>3, <1>4, <1>5, <1>7, <1>8, <1>9

LEMMA RestartTyped ==
  ASSUME TypeOK, UsedOnce, OnDisk, Restart
  PROVE  ChallengesOK' /\ WaitingOK' /\ TokensOK' /\ ClockOK' /\ UsedOnce' /\ OnDisk'
BY ReloadTyped DEF Restart, TornLogin, TornLogout

LEMMA LoginStep ==
  ASSUME TypeOK, UsedOnce, OnDisk, LoginNext
  PROVE  ChallengesOK' /\ WaitingOK' /\ TokensOK' /\ ClockOK' /\ UsedOnce' /\ OnDisk'
<1>1. ChallengesOK /\ WaitingOK /\ TokensOK /\ ClockOK
  BY Groups
<1>2. CASE Refuse
  <2>1. PICK b : b = Refilled(bucket)
    OBVIOUS
  <2>2. b \in [tokens : 0 .. Capacity, at : 0 .. clock] /\ bucket' = b
    BY <1>1, <1>2, <2>1, RefilledTyped DEF Refuse
  <2>3. UNCHANGED <<challenges, identities, handed, loggedOut, clock, restarts>>
    BY <1>2 DEF Refuse
  <2>4. ChallengesOK' /\ WaitingOK' /\ ClockOK' /\ pending' = pending /\ made' = made
    BY <1>1, <2>2, <2>3 DEF ChallengesOK, ListOf, WaitingOK, ClockOK, challenges
  <2>5. QED
    BY <1>1, <2>3, <2>4, NothingIssued
<1>3. CASE Tick
  <2>1. /\ clock < MaxClock /\ clock' = clock + 1
        /\ UNCHANGED <<challenges, identities, handed, loggedOut, bucket, restarts>>
    BY <1>3 DEF Tick
  <2>2. ClockOK'
    BY <1>1, <2>1, Constants DEF ClockOK
  <2>3. ChallengesOK' /\ WaitingOK' /\ pending' = pending /\ made' = made
    BY <1>1, <2>1 DEF ChallengesOK, ListOf, WaitingOK, challenges
  <2>4. QED
    BY <1>1, <2>1, <2>2, <2>3, NothingIssued
<1>4. ASSUME NEW w \in Wallets, AskChallenge(w)
      PROVE  ChallengesOK' /\ WaitingOK' /\ TokensOK' /\ ClockOK' /\ UsedOnce' /\ OnDisk'
  <2>1. Admit /\ UNCHANGED <<verifying, identities, handed, loggedOut, clock, restarts>>
    BY <1>4 DEF AskChallenge
  <2>2. ChallengesOK' /\ UsedOnce'
    BY <1>1, <1>4, AskTyped
  <2>3. WaitingOK' /\ ClockOK'
    BY <1>1, <2>1, AdmitTyped DEF WaitingOK
  <2>4. QED
    BY <1>1, <2>1, <2>2, <2>3, NothingIssued
<1>5. QED
  BY <1>2, <1>3, <1>4, VerifyTyped, UnverifiedTyped, VerifiedTyped, LogoutTyped DEF LoginNext

LEMMA LoginIdle ==
  ASSUME TypeOK, UsedOnce, OnDisk, UNCHANGED loginVars
  PROVE  ChallengesOK' /\ WaitingOK' /\ TokensOK' /\ ClockOK' /\ UsedOnce' /\ OnDisk'
<1>1. ChallengesOK /\ WaitingOK /\ TokensOK /\ ClockOK
  BY Groups
<1>2. /\ UNCHANGED <<pending, total, made, verifying, bucket, clock, restarts>>
      /\ UNCHANGED <<identities, handed, loggedOut>>
  BY DEF loginVars, challenges
<1>3. ChallengesOK' /\ WaitingOK' /\ ClockOK'
  BY <1>1, <1>2 DEF ChallengesOK, ListOf, WaitingOK, ClockOK
<1>4. QED
  BY <1>1, <1>2, <1>3, NothingIssued

(***************************************************************************)
(* Payments and the watcher                                                *)
(***************************************************************************)
LEMMA PageEndTyped ==
  ASSUME DepositsOK, polling # None
  PROVE  /\ polling.after \in 0 .. Len(chain) /\ PageEnd \in polling.after .. Len(chain)
         /\ Len(chain) \in Nat
<1>1. polling.after \in 0 .. Len(chain) /\ Len(chain) \in Nat
  BY DEF DepositsOK
<1>2. PageEnd = IF Len(chain) <= polling.after + PageSize THEN Len(chain) ELSE polling.after + PageSize
  BY <1>1, Constants, MinOfTwo DEF PageEnd
<1>3. QED
  BY <1>1, <1>2, Constants

LEMMA HandledTyped ==
  ASSUME DepositsOK, polling # None, NEW last \in polling.after .. PageEnd, NEW failed,
         Handled(last, failed)
  PROVE  credited' \in [1 .. MaxPayments -> Nat] /\ lost' \subseteq DOMAIN chain
<1>1. last \in 0 .. Len(chain) /\ polling.after \in Nat
  BY PageEndTyped
<1>2. DOMAIN chain = 1 .. Len(chain)
  BY DEF DepositsOK
<1>3. failed \subseteq polling.after + 1 .. last
  BY DEF Handled
<1>4. lost' \subseteq DOMAIN chain
  <2>1. lost' = lost \cup failed /\ lost \subseteq DOMAIN chain
    BY DEF Handled, DepositsOK
  <2>2. polling.after + 1 .. last \subseteq 1 .. Len(chain)
    BY <1>1, PageEndTyped
  <2>3. QED
    BY <1>2, <1>3, <2>1, <2>2
<1>5. credited' \in [1 .. MaxPayments -> Nat]
  BY DEF Handled, Credit, DepositsOK
<1>6. QED
  BY <1>4, <1>5

LEMMA PayTyped ==
  ASSUME DepositsOK, NEW a \in Senders, Pay(a)
  PROVE  DepositsOK'
<1> DEFINE p == [from |-> a, known |-> IsKnownAdvertiser(a)]
<1>1. IsKnownAdvertiser(a) \in BOOLEAN
  BY DEF IsKnownAdvertiser
<1>2. p \in Payment
  BY <1>1 DEF Payment
<1>3. chain' = Append(chain, p) /\ UNCHANGED <<cursor, polling, credited, lost>>
  BY DEF Pay
<1> HIDE DEF p
<1>4. /\ chain' \in Seq(Payment) /\ Len(chain') = Len(chain) + 1 /\ Len(chain) \in Nat
      /\ DOMAIN chain = 1 .. Len(chain) /\ DOMAIN chain' = 1 .. Len(chain')
  BY <1>2, <1>3 DEF DepositsOK
<1>5. cursor' \in 0 .. Len(chain') /\ lost' \subseteq DOMAIN chain'
  BY <1>3, <1>4 DEF DepositsOK
<1>6. polling' \in [after : 0 .. Len(chain')] \cup {None}
  BY <1>3, <1>4 DEF DepositsOK
<1>7. QED
  BY <1>3, <1>4, <1>5, <1>6 DEF DepositsOK

LEMMA PageTyped ==
  ASSUME DepositsOK, NEW failed, Page(failed)
  PROVE  DepositsOK'
<1>1. /\ polling # None /\ Handled(PageEnd, failed) /\ polling' = None /\ UNCHANGED chain
      /\ cursor' = IF PageEnd > polling.after THEN PageEnd ELSE cursor
  BY DEF Page
<1>2. PageEnd \in polling.after .. PageEnd /\ PageEnd \in 0 .. Len(chain)
  BY <1>1, PageEndTyped
<1>3. credited' \in [1 .. MaxPayments -> Nat] /\ lost' \subseteq DOMAIN chain
  BY <1>1, <1>2, HandledTyped
<1>4. QED
  BY <1>1, <1>2, <1>3 DEF DepositsOK

LEMMA TornPageTyped ==
  ASSUME DepositsOK, NEW last, TornPage(last)
  PROVE  DepositsOK'
<1>1. /\ polling # None /\ last \in polling.after .. PageEnd /\ Handled(last, {})
      /\ polling' = None /\ UNCHANGED chain /\ cursor' = cursor
  BY DEF TornPage, CursorLast
<1>2. credited' \in [1 .. MaxPayments -> Nat] /\ lost' \subseteq DOMAIN chain
  BY <1>1, HandledTyped
<1>3. QED
  BY <1>1, <1>2 DEF DepositsOK

(***************************************************************************)
(* The invariant                                                           *)
(***************************************************************************)
LEMMA InitInv == Init => IInv
<1> SUFFICES ASSUME Init PROVE IInv
  OBVIOUS
<1>1. LoginInit /\ DepositInit
  BY DEF Init
<1>2. ChallengesOK
  <2>1. pending = {} /\ total = 0 /\ made = 0
    BY <1>1 DEF LoginInit
  <2>2. IsFiniteSet({}) /\ Cardinality({}) = 0
    BY FS_EmptySet
  <2>3. \A w \in Wallets : ListOf(w, pending) = {}
    BY <2>1 DEF ListOf
  <2>4. QED
    BY <2>1, <2>2, <2>3, Constants DEF ChallengesOK
<1>3. WaitingOK
  BY <1>1, BagEmpty DEF LoginInit, WaitingOK
<1>4. tokens = <<>> /\ savedTokens = <<>> /\ bound = {} /\ savedBound = {} /\ handed = {} /\ loggedOut = {}
  BY <1>1 DEF LoginInit
<1>5. TokensOK
  BY <1>4 DEF TokensOK
<1>6. ClockOK
  <2>1. Capacity \in 0 .. Capacity /\ clock = 0 /\ clock \in 0 .. clock
    BY <1>1, Constants DEF LoginInit
  <2>2. QED
    BY <1>1, <2>1, Constants DEF LoginInit, ClockOK, Full
<1>7. DepositsOK
  BY <1>1, Constants DEF DepositInit, DepositsOK
<1>8. UsedOnce
  BY <1>1, <1>4 DEF LoginInit, UsedOnce, OneTokenPerChallenge
<1>9. OnDisk
  BY <1>4 DEF OnDisk, LogoutIsFinal, LoggedInIsPayable
<1>10. QED
  BY <1>2, <1>3, <1>5, <1>6, <1>7, <1>8, <1>9, Groups DEF IInv

LEMMA Regroup ==
  ASSUME ChallengesOK', WaitingOK', TokensOK', ClockOK', DepositsOK', UsedOnce', OnDisk'
  PROVE  IInv'
BY DEF IInv, TypeOK, ChallengesOK, WaitingOK, TokensOK, ClockOK, DepositsOK

LEMMA NextInv == IInv /\ [Next]_vars => IInv'
<1> SUFFICES ASSUME IInv, [Next]_vars PROVE IInv'
  OBVIOUS
<1> DEFINE LoginOK == ChallengesOK' /\ WaitingOK' /\ TokensOK' /\ ClockOK' /\ UsedOnce' /\ OnDisk'
<1>1. TypeOK /\ UsedOnce /\ OnDisk /\ DepositsOK
  BY Groups DEF IInv
<1>2. CASE UNCHANGED vars
  <2>1. UNCHANGED loginVars /\ UNCHANGED <<chain, cursor, polling, credited, lost>>
    BY <1>2 DEF vars, depositVars
  <2>2. LoginOK /\ DepositsOK'
    BY <1>1, <2>1, LoginIdle DEF DepositsOK
  <2>3. QED
    BY <2>2, Regroup
<1>3. CASE LoginNext /\ UNCHANGED depositVars
  <2>1. UNCHANGED <<chain, cursor, polling, credited, lost>>
    BY <1>3 DEF depositVars
  <2>2. LoginOK /\ DepositsOK'
    BY <1>1, <1>3, <2>1, LoginStep DEF DepositsOK
  <2>3. QED
    BY <2>2, Regroup
<1>4. ASSUME NEW a \in Senders, Pay(a) PROVE IInv'
  <2>1. UNCHANGED loginVars
    BY <1>4 DEF Pay
  <2>2. LoginOK /\ DepositsOK'
    BY <1>1, <1>4, <2>1, LoginIdle, PayTyped
  <2>3. QED
    BY <2>2, Regroup
<1>5. CASE Poll \/ PollFails
  <2>1. UNCHANGED loginVars
    BY <1>5 DEF Poll, PollFails
  <2>2. DepositsOK'
    BY <1>1, <1>5 DEF Poll, PollFails, DepositsOK
  <2>3. LoginOK
    BY <1>1, <2>1, LoginIdle
  <2>4. QED
    BY <2>2, <2>3, Regroup
<1>6. ASSUME NEW failed, Page(failed) PROVE IInv'
  <2>1. UNCHANGED loginVars
    BY <1>6 DEF Page
  <2>2. LoginOK /\ DepositsOK'
    BY <1>1, <1>6, <2>1, LoginIdle, PageTyped
  <2>3. QED
    BY <2>2, Regroup
<1>7. CASE Crash
  <2>1. Restart /\ polling' = None /\ UNCHANGED <<chain, cursor, credited, lost>>
    BY <1>7 DEF Crash
  <2>2. LoginOK /\ DepositsOK'
    BY <1>1, <2>1, RestartTyped DEF DepositsOK
  <2>3. QED
    BY <2>2, Regroup
<1>8. ASSUME NEW last, TornPage(last) PROVE IInv'
  <2>1. Reload(savedTokens)
    BY <1>8 DEF TornPage
  <2>2. LoginOK /\ DepositsOK'
    BY <1>1, <1>8, <2>1, ReloadTyped, TornPageTyped
  <2>3. QED
    BY <2>2, Regroup
<1>9. QED
  BY <1>2, <1>3, <1>4, <1>5, <1>6, <1>7, <1>8 DEF Next, Watch

THEOREM Invariant == Spec => []IInv
BY InitInv, NextInv, PTL DEF Spec

\* The types of all variables, and that the counter of the challenges, which
\* refuses logins when it reaches MaxTotal, is their number.
THEOREM TypeCorrect == Spec => []TypeOK
<1>1. IInv => TypeOK
  BY DEF IInv
<1>2. QED
  BY <1>1, Invariant, PTL

\* A signed challenge buys one token, whatever requests carry it at once and
\* whatever restarts come between (WalletAuth.verify, #remove).
THEOREM SingleUse == Spec => []OneTokenPerChallenge
<1>1. IInv => OneTokenPerChallenge
  BY DEF IInv, UsedOnce
<1>2. QED
  BY <1>1, Invariant, PTL

\* A token whose logout was answered is never accepted again.
THEOREM LogoutLasts == Spec => []LogoutIsFinal
<1>1. IInv => LogoutIsFinal
  BY DEF IInv, OnDisk
<1>2. QED
  BY <1>1, Invariant, PTL

\* A publisher whose token was answered has a bound wallet: payouts to it are
\* not held back (issueToken binds before it answers).
THEOREM PayableOnceAnswered == Spec => []LoggedInIsPayable
<1>1. IInv => LoggedInIsPayable
  BY DEF IInv, OnDisk
<1>2. QED
  BY <1>1, Invariant, PTL
=============================================================================
