---------------------------- MODULE BillingProofs ----------------------------
(***************************************************************************)
(* Proofs about Billing, for every set of publishers, advertisers,         *)
(* campaigns and ids and every price, share and time: the ledger balances  *)
(* and never overdraws an account, the balance of an advertiser covers     *)
(* what it has been promised to pay, a delivery is charged once and at its *)
(* price, neither blocks nor the daily cap are exceeded, and the pipeline  *)
(* implements the abstract escrow.                                         *)
(***************************************************************************)
EXTENDS Billing, TotalsProofs

\* The nonces the server remembers were delivered.
NoncesDelivered == \A n \in known \cup stored : delivery[n] # NoDelivery

\* A delivery forgotten by the memory and not yet vacuumed is long expired.
ForgottenExpired == \A n \in stored \ known : delivery[n].expiresAt < now

\* The invariant.  The balance of an advertiser stays non-negative because
\* it covers the exposure, and the exposure of a charge is its rate.
IInv == TypeOK /\ NoncesDelivered /\ ForgottenExpired /\ CommittedCovered

-----------------------------------------------------------------------------
(* What the totals are taken of *)

LiveOf(a)     == {m \in Live : Owner[delivery[m].campaign] = a}
PendingOf(a)  == {j \in Pending : Owner[imp[j].campaign] = a}
UnpostedOf(a) == {j \in Unposted : Owner[imp[j].campaign] = a}

LEMMA ConstantTypes ==
  /\ Owner \in [Campaigns -> Advertisers]
  /\ Bid \in [Campaigns -> Nat \ {0}]
  /\ NonceTtl \in Nat /\ PendingMs \in Nat /\ GcAfter \in Nat
  /\ Prices \subseteq Nat
  /\ \A x \in Amounts : x \in Nat /\ x > 0
  /\ IsFiniteSet(Nonces) /\ IsFiniteSet(Keys)
<1>1. IsFiniteSet(Keys)
  BY SetsAssumption, FS_Product DEF Keys
<1>2. \A x \in Amounts : x \in Nat /\ x > 0
  BY RatesAssumption
<1>3. /\ Owner \in [Campaigns -> Advertisers] /\ IsFiniteSet(Nonces)
      /\ Bid \in [Campaigns -> Nat \ {0}] /\ Prices \subseteq Nat
  BY SetsAssumption, RatesAssumption
<1>4. QED
  BY <1>1, <1>2, <1>3, TimesAssumption

LEMMA LiveDelivery ==
  ASSUME TypeOK, NoncesDelivered, NEW n \in Live
  PROVE  n \in Nonces /\ delivery[n] \in Delivery
BY DEF TypeOK, NoncesDelivered, Live

LEMMA PendingImpression ==
  ASSUME TypeOK, NEW k \in Pending
  PROVE  k \in Keys /\ imp[k] \in Impression /\ imp[k].state = "pending"
BY DEF TypeOK, Pending, InState, Refusal

\* The exposures are totals of functions into the numbers.
RatesTyped ==
  \A a \in Advertisers :
    /\ IsFiniteSet(LiveOf(a)) /\ LiveRates(a) \in [LiveOf(a) -> Nat]
    /\ IsFiniteSet(PendingOf(a)) /\ PendingRates(a) \in [PendingOf(a) -> Nat]
    /\ IsFiniteSet(UnpostedOf(a)) /\ UnpostedRates(a) \in [UnpostedOf(a) -> Nat]

LEMMA RatesAreTyped == TypeOK /\ NoncesDelivered => RatesTyped
<1>1. SUFFICES ASSUME TypeOK, NoncesDelivered, NEW a \in Advertisers
               PROVE  /\ IsFiniteSet(LiveOf(a)) /\ LiveRates(a) \in [LiveOf(a) -> Nat]
                      /\ IsFiniteSet(PendingOf(a))
                      /\ PendingRates(a) \in [PendingOf(a) -> Nat]
                      /\ IsFiniteSet(UnpostedOf(a))
                      /\ UnpostedRates(a) \in [UnpostedOf(a) -> Nat]
  BY DEF RatesTyped
<1>2. \A n \in Live : delivery[n].rate \in Nat
  BY <1>1, LiveDelivery DEF Delivery
<1>3. \A k \in Pending : imp[k].rate \in Nat
  BY <1>1, PendingImpression DEF Impression
<1>4. Live \subseteq Nonces /\ Pending \subseteq Keys /\ Unposted \subseteq Pending
  BY <1>1 DEF TypeOK, Live, Pending, InState, Unposted
<1>5. IsFiniteSet(LiveOf(a))
  <2>1. LiveOf(a) \in SUBSET Nonces
    BY <1>4 DEF LiveOf
  <2>2. QED
    BY <2>1, ConstantTypes, FS_Subset
<1>6. IsFiniteSet(PendingOf(a)) /\ IsFiniteSet(UnpostedOf(a))
  <2>1. PendingOf(a) \in SUBSET Keys /\ UnpostedOf(a) \in SUBSET Keys
    BY <1>4 DEF PendingOf, UnpostedOf
  <2>2. QED
    BY <2>1, ConstantTypes, FS_Subset
<1>7. LiveRates(a) \in [LiveOf(a) -> Nat]
  BY <1>2 DEF LiveRates, LiveOf
<1>8. PendingRates(a) \in [PendingOf(a) -> Nat]
  BY <1>3 DEF PendingRates, PendingOf
<1>9. UnpostedRates(a) \in [UnpostedOf(a) -> Nat]
  BY <1>3, <1>4 DEF UnpostedRates, UnpostedOf
<1>10. QED
  BY <1>5, <1>6, <1>7, <1>8, <1>9

\* The exposure is a part of the reservation: what is posted and still
\* pending (after a crash) is reserved once more.
LEMMA ExposureReserved ==
  ASSUME RatesTyped, NEW a \in Advertisers
  PROVE  /\ Exposure(a) \in Nat /\ Reserved(a) \in Nat
         /\ Exposure(a) <= Reserved(a)
<1>1. /\ IsFiniteSet(LiveOf(a)) /\ LiveRates(a) \in [LiveOf(a) -> Nat]
      /\ IsFiniteSet(PendingOf(a)) /\ PendingRates(a) \in [PendingOf(a) -> Nat]
      /\ IsFiniteSet(UnpostedOf(a)) /\ UnpostedRates(a) \in [UnpostedOf(a) -> Nat]
  BY DEF RatesTyped
<1>2. /\ Total(LiveRates(a)) \in Nat /\ Total(PendingRates(a)) \in Nat
      /\ Total(UnpostedRates(a)) \in Nat
  BY <1>1, TotalType
<1>3. UnpostedOf(a) \in SUBSET PendingOf(a)
      /\ \A k \in UnpostedOf(a) : UnpostedRates(a)[k] = PendingRates(a)[k]
  BY DEF UnpostedOf, PendingOf, Unposted, UnpostedRates, PendingRates
<1>4. Total(UnpostedRates(a)) <= Total(PendingRates(a))
  BY <1>1, <1>3, TotalOfFewer
<1>5. QED
  BY <1>2, <1>4 DEF Exposure, Reserved

-----------------------------------------------------------------------------
(* How a step can change the exposures *)

LiveKept ==
  \A n \in Live' : n \in Live /\ delivery'[n].campaign = delivery[n].campaign
                              /\ delivery'[n].rate = delivery[n].rate

UnpostedKept ==
  \A k \in Unposted' : k \in Unposted /\ imp'[k].campaign = imp[k].campaign
                                      /\ imp'[k].rate = imp[k].rate

LEMMA LiveTotalShrinks ==
  ASSUME RatesTyped, RatesTyped', LiveKept, NEW a \in Advertisers
  PROVE  Total(LiveRates(a)') <= Total(LiveRates(a))
<1>1. /\ IsFiniteSet(LiveOf(a)) /\ LiveRates(a) \in [LiveOf(a) -> Nat]
      /\ LiveRates(a)' \in [LiveOf(a)' -> Nat]
  BY DEF RatesTyped
<1>2. LiveOf(a)' \in SUBSET LiveOf(a)
      /\ \A n \in LiveOf(a)' : LiveRates(a)'[n] = LiveRates(a)[n]
  BY DEF LiveKept, LiveOf, LiveRates
<1>3. QED
  BY <1>1, <1>2, TotalOfFewer

LEMMA UnpostedTotalShrinks ==
  ASSUME RatesTyped, RatesTyped', UnpostedKept, NEW a \in Advertisers
  PROVE  Total(UnpostedRates(a)') <= Total(UnpostedRates(a))
<1>1. /\ IsFiniteSet(UnpostedOf(a)) /\ UnpostedRates(a) \in [UnpostedOf(a) -> Nat]
      /\ UnpostedRates(a)' \in [UnpostedOf(a)' -> Nat]
  BY DEF RatesTyped
<1>2. UnpostedOf(a)' \in SUBSET UnpostedOf(a)
      /\ \A k \in UnpostedOf(a)' : UnpostedRates(a)'[k] = UnpostedRates(a)[k]
  BY DEF UnpostedKept, UnpostedOf, UnpostedRates
<1>3. QED
  BY <1>1, <1>2, TotalOfFewer

LEMMA ExposureTotals ==
  ASSUME RatesTyped, NEW a \in Advertisers
  PROVE  Total(LiveRates(a)) \in Nat /\ Total(UnpostedRates(a)) \in Nat
BY TotalType DEF RatesTyped

\* Most steps set nothing new aside and leave the balances or add to them.
LEMMA ExposureShrinks ==
  ASSUME RatesTyped, RatesTyped', LiveKept, UnpostedKept, CommittedCovered,
         adv \in [Advertisers -> Nat], adv' \in [Advertisers -> Nat],
         \A a \in Advertisers : adv[a] <= adv'[a]
  PROVE  CommittedCovered'
<1>1. SUFFICES ASSUME NEW a \in Advertisers
               PROVE  Total(LiveRates(a)') + Total(UnpostedRates(a)') <= adv'[a]
  BY DEF CommittedCovered, Exposure
<1>2. /\ Total(LiveRates(a)') <= Total(LiveRates(a))
      /\ Total(UnpostedRates(a)') <= Total(UnpostedRates(a))
  BY LiveTotalShrinks, UnpostedTotalShrinks
<1>3. Total(LiveRates(a)) \in Nat /\ Total(UnpostedRates(a)) \in Nat
  BY ExposureTotals
<1>4. Total(LiveRates(a)') \in Nat /\ Total(UnpostedRates(a)') \in Nat
  BY TotalType DEF RatesTyped
<1>5. Total(LiveRates(a)) + Total(UnpostedRates(a)) <= adv[a]
  BY DEF CommittedCovered, Exposure
<1>6. QED
  BY <1>2, <1>3, <1>4, <1>5
-----------------------------------------------------------------------------
(* Types *)

Bps == 0 .. 10000

\* splitRevenue never gives the publisher more than the rate.
LEMMA SplitsExactly ==
  ASSUME NEW rate \in Nat, NEW bps \in Bps
  PROVE  /\ PublisherShare(rate, bps) \in Nat
         /\ PlatformShare(rate, bps) \in Nat
         /\ PublisherShare(rate, bps) + PlatformShare(rate, bps) = rate
<1>1. rate * bps \in Nat /\ rate * bps <= rate * 10000
  BY DEF Bps
<1>2. (rate * bps) \div 10000 \in Nat /\ (rate * bps) \div 10000 <= rate
  <2> DEFINE x == rate * bps
  <2>1. x \in Nat /\ x <= rate * 10000
    BY <1>1
  <2> HIDE DEF x
  <2>2. x \div 10000 \in Nat /\ x \div 10000 <= rate
    BY <2>1
  <2>3. QED
    BY <2>2 DEF x
<1>3. QED
  BY <1>2 DEF PublisherShare, PlatformShare

LEMMA SharesTyped ==
  ASSUME NEW rate \in Nat, NEW bps \in Shares
  PROVE  /\ PublisherShare(rate, bps) \in Nat
         /\ PlatformShare(rate, bps) \in Nat
<1>1. bps \in Bps
  BY RatesAssumption DEF Bps
<1>2. QED
  BY <1>1, SplitsExactly

\* A pending impression that is not posted is part of the exposure of the
\* advertiser, whose balance therefore covers its rate.
LEMMA UnpostedCovered ==
  ASSUME TypeOK, RatesTyped, CommittedCovered, NEW k \in Unposted
  PROVE  /\ Owner[imp[k].campaign] \in Advertisers
         /\ imp[k].rate \in Nat
         /\ imp[k].rate <= adv[Owner[imp[k].campaign]]
<1> DEFINE a == Owner[imp[k].campaign]
<1>1. k \in Keys /\ imp[k] \in Impression
  BY PendingImpression DEF Unposted
<1>2. imp[k].rate \in Nat /\ imp[k].campaign \in Campaigns
  BY <1>1 DEF Impression
<1>3. a \in Advertisers
  BY <1>2, ConstantTypes
<1>4. k \in UnpostedOf(a)
  BY DEF UnpostedOf
<1>5. UnpostedRates(a)[k] = imp[k].rate
  BY <1>4 DEF UnpostedRates, UnpostedOf
<1> HIDE DEF a
<1>6. IsFiniteSet(UnpostedOf(a)) /\ UnpostedRates(a) \in [UnpostedOf(a) -> Nat]
  BY <1>3 DEF RatesTyped
<1> DEFINE rest == [j \in UnpostedOf(a) \ {k} |-> UnpostedRates(a)[j]]
<1>7. IsFiniteSet(UnpostedOf(a) \ {k}) /\ rest \in [UnpostedOf(a) \ {k} -> Nat]
  BY <1>6, FS_RemoveElement
<1>8. Total(rest) \in Nat
  BY <1>7, TotalType
<1>9. Total(UnpostedRates(a)) = imp[k].rate + Total(rest)
  BY <1>4, <1>5, <1>6, TotalSplit
<1> HIDE DEF rest
<1>10. Total(LiveRates(a)) \in Nat /\ Total(UnpostedRates(a)) \in Nat
  BY <1>3, ExposureTotals
<1>11. Total(LiveRates(a)) + Total(UnpostedRates(a)) <= adv[a] /\ adv[a] \in Nat
  BY <1>3 DEF CommittedCovered, Exposure, TypeOK
<1>12. imp[k].rate <= adv[a]
  BY <1>2, <1>8, <1>9, <1>10, <1>11
<1>13. QED
  BY <1>2, <1>3, <1>12 DEF a

\* Posting a group keeps the ledger typed.
LEMMA PostTyped ==
  ASSUME TypeOK, RatesTyped, CommittedCovered, NEW k \in Pending, PostImpression(k)
  PROVE  /\ adv' \in [Advertisers -> Nat] /\ pub' \in [Publishers -> Nat]
         /\ platform' \in Nat /\ billed' \in [ImpIds -> Bill \cup {NoBill}]
<1>1. k \in Keys /\ imp[k] \in Impression
  BY PendingImpression
<1>2. /\ k[1] \in Publishers /\ k[2] \in ImpIds
      /\ imp[k].rate \in Nat /\ imp[k].campaign \in Campaigns /\ imp[k].nonce \in Nonces
      /\ imp[k].bps \in Shares
  BY <1>1 DEF Keys, Impression
<1>3. CASE billed[k[2]] # NoBill
  BY <1>3 DEF PostImpression, TypeOK
<1>4. CASE billed[k[2]] = NoBill
  <2> DEFINE a == Owner[imp[k].campaign]
  <2> DEFINE share == PublisherShare(imp[k].rate, imp[k].bps)
  <2> DEFINE rest == PlatformShare(imp[k].rate, imp[k].bps)
  <2>1. k \in Unposted
    BY <1>4 DEF Unposted
  <2>2. a \in Advertisers /\ imp[k].rate <= adv[a]
    BY <2>1, UnpostedCovered
  <2>4. share \in Nat /\ rest \in Nat
    BY <1>2, SharesTyped
  <2>5. /\ adv' = [adv EXCEPT ![a] = @ - imp[k].rate]
        /\ pub' = [pub EXCEPT ![k[1]] = @ + share]
        /\ platform' = platform + rest
        /\ billed' = [billed EXCEPT ![k[2]] =
             [pub |-> k[1], campaign |-> imp[k].campaign, rate |-> imp[k].rate,
              bps |-> imp[k].bps, nonce |-> imp[k].nonce]]
    BY <1>4 DEF PostImpression
  <2> HIDE DEF a, share, rest
  <2>6. adv' \in [Advertisers -> Nat]
    BY <1>2, <2>2, <2>5 DEF TypeOK
  <2>7. pub' \in [Publishers -> Nat] /\ platform' \in Nat
    BY <1>2, <2>4, <2>5 DEF TypeOK
  <2>8. [pub |-> k[1], campaign |-> imp[k].campaign, rate |-> imp[k].rate,
         bps |-> imp[k].bps, nonce |-> imp[k].nonce] \in Bill
    BY <1>2 DEF Bill
  <2>9. billed' \in [ImpIds -> Bill \cup {NoBill}]
    BY <1>2, <2>5, <2>8 DEF TypeOK
  <2>10. QED
    BY <2>6, <2>7, <2>9
<1>5. QED
  BY <1>3, <1>4

\* Consuming a delivery, deciding an impression and reading the tables back
\* keep the rows of the stores typed.
LEMMA ConsumeTyped ==
  ASSUME TypeOK, NEW n \in Nonces, delivery[n] # NoDelivery
  PROVE  /\ [delivery EXCEPT ![n].consumed = TRUE] \in [Nonces -> Delivery \cup {NoDelivery}]
         /\ [delivery[n] EXCEPT !.consumed = TRUE] \in Delivery
<1>1. delivery[n] \in Delivery
  BY DEF TypeOK
<1>2. [delivery[n] EXCEPT !.consumed = TRUE] \in Delivery
  BY <1>1 DEF Delivery
<1>3. QED
  BY <1>2 DEF TypeOK

LEMMA DecideTyped ==
  ASSUME TypeOK, NEW k \in Pending, NEW s \in {"verified", "rejected"}
  PROVE  [imp EXCEPT ![k].state = s] \in [Keys -> Impression \cup Refusal \cup {NoImp}]
<1>1. k \in Keys /\ imp[k] \in Impression
  BY PendingImpression
<1>2. [imp[k] EXCEPT !.state = s] \in Impression
  BY <1>1 DEF Impression
<1>3. QED
  BY <1>1, <1>2 DEF TypeOK

LEMMA RecoverTyped ==
  ASSUME TypeOK, Recover
  PROVE  /\ known' \subseteq Nonces /\ crashes' \in Nat
         /\ imp' \in [Keys -> Impression \cup Refusal \cup {NoImp}]
BY DEF TypeOK, Recover

LEMMA MoneyTyped == ASSUME TypeOK, RatesTyped, Money PROVE TypeOK'
<1>1. ASSUME NEW a \in Advertisers, NEW x \in Amounts, Deposit(a, x) PROVE TypeOK'
  <2>1. x \in Nat
    BY ConstantTypes
  <2>2. adv' \in [Advertisers -> Nat] /\ funded' \in Nat
    BY <1>1, <2>1 DEF TypeOK, Deposit
  <2>3. QED
    BY <1>1, <2>2 DEF TypeOK, Deposit, store
<1>2. ASSUME NEW w \in Draws, NEW a \in Advertisers, NEW x \in Amounts, DrawSubmit(w, a, x)
      PROVE  TypeOK'
  <2>1. x \in Nat /\ x > 0
    BY ConstantTypes
  <2>2. adv[a] \in Nat /\ Reserved(a) \in Nat
    BY <1>2, ExposureReserved DEF TypeOK
  <2>3. x <= adv[a]
    BY <1>2, <2>1, <2>2 DEF DrawSubmit, Spendable
  <2>4. adv' \in [Advertisers -> Nat]
    BY <1>2, <2>1, <2>3 DEF TypeOK, DrawSubmit
  <2>5. [adv |-> a, amount |-> x, state |-> "submitted"] \in Draw
    BY <1>2, <2>1 DEF Draw
  <2>6. draw' \in [Draws -> Draw \cup {NoDraw}]
    BY <1>2, <2>5 DEF TypeOK, DrawSubmit
  <2>7. QED
    BY <1>2, <2>4, <2>6 DEF TypeOK, DrawSubmit, store
<1>3. ASSUME NEW w \in Draws, DrawSettled(w) PROVE TypeOK'
  <2>1. draw[w] \in Draw
    BY <1>3 DEF TypeOK, DrawSettled
  <2>2. [draw[w] EXCEPT !.state = "settled"] \in Draw
    BY <2>1 DEF Draw
  <2>3. draw' \in [Draws -> Draw \cup {NoDraw}]
    BY <1>3, <2>2 DEF TypeOK, DrawSettled
  <2>4. QED
    BY <1>3, <2>3 DEF TypeOK, DrawSettled, store
<1>4. ASSUME NEW w \in Draws, DrawReversed(w) PROVE TypeOK'
  <2>1. draw[w] \in Draw
    BY <1>4 DEF TypeOK, DrawReversed
  <2>2. [draw[w] EXCEPT !.state = "failed"] \in Draw
    BY <2>1 DEF Draw
  <2>3. draw' \in [Draws -> Draw \cup {NoDraw}]
    BY <1>4, <2>2 DEF TypeOK, DrawReversed
  <2>4. draw[w].adv \in Advertisers /\ draw[w].amount \in Nat
    BY <2>1 DEF Draw
  <2>5. adv' \in [Advertisers -> Nat]
    BY <1>4, <2>4 DEF TypeOK, DrawReversed
  <2>6. QED
    BY <1>4, <2>3, <2>5 DEF TypeOK, DrawReversed, store
<1>5. QED
  BY <1>1, <1>2, <1>3, <1>4 DEF Money

LEMMA ServeTyped == ASSUME TypeOK, Serve PROVE TypeOK'
<1>1. PICK p \in Publishers, c \in Campaigns, n \in Nonces, rate \in Prices,
        bps \in Shares : ServeAd(p, c, n, rate, bps)
  BY DEF Serve
<1>2. rate \in Nat /\ now + NonceTtl \in Nat
  BY ConstantTypes DEF TypeOK
<1>3. [pub |-> p, campaign |-> c, rate |-> rate, bps |-> bps,
       expiresAt |-> now + NonceTtl, consumed |-> FALSE] \in Delivery
  BY <1>2 DEF Delivery
<1>4. delivery' \in [Nonces -> Delivery \cup {NoDelivery}]
  BY <1>1, <1>3 DEF TypeOK, ServeAd
<1>5. known' \subseteq Nonces /\ stored' \subseteq Nonces
  BY <1>1 DEF TypeOK, ServeAd
<1>6. QED
  BY <1>1, <1>4, <1>5 DEF TypeOK, ServeAd, ledger

LEMMA IngestTyped == ASSUME TypeOK, NoncesDelivered, Ingest PROVE TypeOK'
<1>1. ASSUME NEW p \in Publishers, NEW id \in ImpIds, NEW n \in Nonces,
             NEW c \in Campaigns, NEW d \in Durations, IngestAccept(p, id, n, c, d)
      PROVE  TypeOK'
  <2>1. n \in known /\ delivery[n] # NoDelivery
    BY <1>1 DEF IngestAccept, Reportable, FirstReport, NoncesDelivered
  <2>2. delivery' \in [Nonces -> Delivery \cup {NoDelivery}]
    BY <1>1, <2>1, ConsumeTyped DEF IngestAccept
  <2>3. delivery[n].rate \in Nat /\ delivery[n].bps \in Shares
    BY <2>1 DEF TypeOK, Delivery
  <2>4. [nonce |-> n, campaign |-> c, rate |-> FrozenPrice(n),
         bps |-> delivery[n].bps, serverTs |-> now, state |-> "pending"] \in Impression
    BY <2>3 DEF Impression, FrozenPrice, TypeOK
  <2>5. <<p, id>> \in Keys
    BY DEF Keys
  <2>6. imp' \in [Keys -> Impression \cup Refusal \cup {NoImp}] /\ kept' \subseteq Keys
    BY <1>1, <2>4, <2>5 DEF TypeOK, IngestAccept
  <2>7. QED
    BY <1>1, <2>2, <2>6 DEF TypeOK, IngestAccept, ledger
<1>2. ASSUME NEW p \in Publishers, NEW id \in ImpIds, NEW n \in Nonces,
             NEW c \in Campaigns, NEW d \in Durations, NEW w \in BOOLEAN,
             IngestReject(p, id, n, c, d, w)
      PROVE  TypeOK'
  <2>1. <<p, id>> \in Keys
    BY DEF Keys
  <2>2. [serverTs |-> now, state |-> "rejected"] \in Refusal
    BY DEF Refusal, TypeOK
  <2>3. imp' \in [Keys -> Impression \cup Refusal \cup {NoImp}] /\ kept' \subseteq Keys
    BY <1>2, <2>1, <2>2 DEF TypeOK, IngestReject
  <2>4. QED
    BY <1>2, <2>3 DEF TypeOK, IngestReject, ledger
<1>3. ASSUME NEW p \in Publishers, NEW id \in ImpIds, NEW n \in Nonces,
             NEW c \in Campaigns, NEW d \in Durations, IngestCrash(p, id, n, c, d)
      PROVE  TypeOK'
  <2>1. n \in known /\ delivery[n] # NoDelivery
    BY <1>3 DEF IngestCrash, Reportable, FirstReport, NoncesDelivered
  <2>2. delivery' \in [Nonces -> Delivery \cup {NoDelivery}]
    BY <1>3, <2>1, ConsumeTyped DEF IngestCrash
  <2>3. /\ known' \subseteq Nonces /\ crashes' \in Nat
        /\ imp' \in [Keys -> Impression \cup Refusal \cup {NoImp}]
    BY <1>3, RecoverTyped DEF IngestCrash
  <2>4. QED
    BY <1>3, <2>2, <2>3 DEF TypeOK, IngestCrash, ledger
<1>4. \A p \in Publishers : IdsOf[p] \subseteq ImpIds
  BY SetsAssumption
<1>5. QED
  BY <1>1, <1>2, <1>3, <1>4 DEF Ingest

LEMMA VerificationTyped ==
  ASSUME TypeOK, RatesTyped, CommittedCovered, RunVerification
  PROVE  TypeOK'
<1>1. ASSUME NEW k \in Keys, Verify(k) PROVE TypeOK'
  <2>1. k \in Pending
    BY <1>1 DEF Verify, Passes
  <2>2. /\ adv' \in [Advertisers -> Nat] /\ pub' \in [Publishers -> Nat]
        /\ platform' \in Nat /\ billed' \in [ImpIds -> Bill \cup {NoBill}]
    BY <1>1, <2>1, PostTyped DEF Verify
  <2>3. imp' \in [Keys -> Impression \cup Refusal \cup {NoImp}]
    BY <1>1, <2>1, DecideTyped DEF Verify
  <2>4. QED
    BY <1>1, <2>2, <2>3 DEF TypeOK, Verify
<1>2. ASSUME NEW k \in Keys, Reject(k) PROVE TypeOK'
  <2>1. imp' \in [Keys -> Impression \cup Refusal \cup {NoImp}]
    BY <1>2, DecideTyped DEF Reject
  <2>2. QED
    BY <1>2, <2>1 DEF TypeOK, Reject, ledger
<1>3. ASSUME NEW k \in Keys, VerifyCrash(k) PROVE TypeOK'
  <2>1. k \in Pending
    BY <1>3 DEF VerifyCrash, Passes
  <2>2. /\ adv' \in [Advertisers -> Nat] /\ pub' \in [Publishers -> Nat]
        /\ platform' \in Nat /\ billed' \in [ImpIds -> Bill \cup {NoBill}]
    BY <1>3, <2>1, PostTyped DEF VerifyCrash
  <2>3. /\ known' \subseteq Nonces /\ crashes' \in Nat
        /\ imp' \in [Keys -> Impression \cup Refusal \cup {NoImp}]
    BY <1>3, RecoverTyped DEF VerifyCrash
  <2>4. QED
    BY <1>3, <2>2, <2>3 DEF TypeOK, VerifyCrash
<1>4. QED
  BY <1>1, <1>2, <1>3 DEF RunVerification

\* Every step keeps the types.
LEMMA StepTyped == ASSUME IInv, [Next]_vars PROVE TypeOK'
<1>1. TypeOK /\ NoncesDelivered /\ CommittedCovered /\ RatesTyped
  BY RatesAreTyped DEF IInv
<1>2. CASE Money \/ Serve \/ Ingest \/ RunVerification
  BY <1>1, <1>2, MoneyTyped, ServeTyped, IngestTyped, VerificationTyped
<1>3. CASE Admin
  BY <1>1, <1>3 DEF Admin, Ban, Unban, TypeOK, ledger, store
<1>4. CASE Vacuum
  BY <1>1, <1>4 DEF Vacuum, TypeOK, ledger
<1>5. CASE Restart
  BY <1>1, <1>5, RecoverTyped DEF Restart, TypeOK, ledger
<1>6. CASE Tick
  BY <1>1, <1>6 DEF Tick, TypeOK, ledger, store
<1>7. CASE UNCHANGED vars
  BY <1>1, <1>7 DEF vars, TypeOK, ledger, store
<1>8. QED
  BY <1>2, <1>3, <1>4, <1>5, <1>6, <1>7 DEF Next

-----------------------------------------------------------------------------
(* What the memory forgets *)

\* A step that keeps the nonces, and the deliveries up to `consumed'.
LEMMA SameNoncesRemembered ==
  ASSUME NoncesDelivered, ForgottenExpired, known' = known, stored' \subseteq stored,
         now' \in Nat, now \in Nat, now <= now', TypeOK,
         \A n \in known \cup stored : /\ delivery'[n] # NoDelivery
                                      /\ delivery'[n].expiresAt = delivery[n].expiresAt
  PROVE  NoncesDelivered' /\ ForgottenExpired'
<1>1. \A n \in stored : delivery[n] \in Delivery
  BY DEF TypeOK, NoncesDelivered
<1>2. \A n \in stored : delivery[n].expiresAt \in Nat
  BY <1>1 DEF Delivery
<1>3. QED
  BY <1>2 DEF NoncesDelivered, ForgottenExpired

\* A restart remembers exactly what is stored.
LEMMA RestartRemembered ==
  ASSUME NoncesDelivered, known' = stored, stored' = stored,
         \A n \in known \cup stored : delivery'[n] # NoDelivery
  PROVE  NoncesDelivered' /\ ForgottenExpired'
BY DEF NoncesDelivered, ForgottenExpired

\* Consuming a delivery does not change when it expires.
LEMMA ConsumeKeeps ==
  ASSUME TypeOK, NoncesDelivered, NEW n \in known,
         delivery' = [delivery EXCEPT ![n].consumed = TRUE]
  PROVE  \A m \in known \cup stored :
           /\ delivery'[m] # NoDelivery
           /\ delivery'[m].expiresAt = delivery[m].expiresAt
           /\ delivery'[m].campaign = delivery[m].campaign
           /\ delivery'[m].rate = delivery[m].rate
<1>1. n \in Nonces /\ delivery[n] \in Delivery /\ delivery[n] # NoDelivery
  BY DEF TypeOK, NoncesDelivered
<1>2. [delivery[n] EXCEPT !.consumed = TRUE] \in Delivery
  BY <1>1, ConsumeTyped
<1>3. [delivery[n] EXCEPT !.consumed = TRUE] # NoDelivery
  BY <1>2 DEF Delivery, NoDelivery
<1>4. \A m \in known \cup stored : m \in Nonces /\ delivery[m] # NoDelivery
  BY DEF TypeOK, NoncesDelivered
<1>5. \A m \in known \cup stored : m # n => delivery'[m] = delivery[m]
  BY <1>4 DEF TypeOK
<1>6. delivery'[n] = [delivery[n] EXCEPT !.consumed = TRUE]
  BY <1>1 DEF TypeOK
<1>7. /\ delivery'[n].expiresAt = delivery[n].expiresAt
      /\ delivery'[n].campaign = delivery[n].campaign
      /\ delivery'[n].rate = delivery[n].rate
  BY <1>1, <1>6 DEF Delivery
<1>8. QED
  BY <1>3, <1>4, <1>5, <1>6, <1>7

\* The sweep of ServeAd forgets what expired GcAfter ago; what the restart
\* forgets is not in the table either.
LEMMA StepRemembers == ASSUME IInv, [Next]_vars PROVE NoncesDelivered' /\ ForgottenExpired'
<1>1. TypeOK /\ NoncesDelivered /\ ForgottenExpired /\ now \in Nat
  BY DEF IInv, TypeOK
<1>2. CASE Serve
  <2>1. PICK p \in Publishers, c \in Campaigns, n \in Nonces, rate \in Prices,
          bps \in Shares : ServeAd(p, c, n, rate, bps)
    BY <1>2 DEF Serve
  <2>2. n \notin known \cup stored
    BY <1>1, <2>1 DEF ServeAd, NoncesDelivered
  <2>3. delivery'[n] # NoDelivery
    <3>1. delivery'[n] = [pub |-> p, campaign |-> c, rate |-> rate, bps |-> bps,
                          expiresAt |-> now + NonceTtl, consumed |-> FALSE]
      BY <1>1, <2>1 DEF ServeAd, TypeOK
    <3>2. QED
      BY <3>1 DEF NoDelivery
  <2>4. \A m \in known \cup stored : delivery'[m] = delivery[m]
    BY <1>1, <2>1, <2>2 DEF ServeAd, TypeOK
  <2>5. NoncesDelivered'
    BY <1>1, <2>1, <2>3, <2>4 DEF ServeAd, NoncesDelivered
  <2>6. \A m \in known : delivery[m].expiresAt \in Nat
    BY <1>1 DEF TypeOK, NoncesDelivered, Delivery
  <2>7. GcAfter \in Nat
    BY ConstantTypes
  <2>8. \A m \in stored' \ known' : m \in stored /\ delivery[m].expiresAt < now
    BY <1>1, <2>1, <2>6, <2>7 DEF ServeAd, ForgottenExpired
  <2>9. QED
    BY <2>1, <2>4, <2>5, <2>8 DEF ServeAd, ForgottenExpired
<1>3. CASE Money \/ RunVerification \/ Admin \/ UNCHANGED vars
  <2>1. CASE known' = known
    <3>1. UNCHANGED <<delivery, stored, now>>
      BY <1>3 DEF Money, Deposit, DrawSubmit, DrawSettled, DrawReversed,
                  RunVerification, Verify, Reject, VerifyCrash, Admin, Ban, Unban,
                  vars, store
    <3>2. QED
      BY <1>1, <2>1, <3>1 DEF NoncesDelivered, ForgottenExpired
  <2>2. CASE known' # known
    <3>1. UNCHANGED <<delivery, stored, now>> /\ known' = stored
      BY <1>3, <2>2 DEF Money, Deposit, DrawSubmit, DrawSettled, DrawReversed,
                  RunVerification, Verify, Reject, VerifyCrash, Admin, Ban, Unban,
                  vars, store, Recover
    <3>2. QED
      BY <1>1, <3>1 DEF NoncesDelivered, ForgottenExpired
  <2>3. QED
    BY <2>1, <2>2
<1>4. CASE Ingest
  <2>1. PICK p \in Publishers, n \in Nonces, c \in Campaigns, d \in Durations :
          \E id \in IdsOf[p] :
            \/ IngestAccept(p, id, n, c, d)
            \/ \E w \in BOOLEAN : IngestReject(p, id, n, c, d, w)
            \/ IngestCrash(p, id, n, c, d)
    BY <1>4 DEF Ingest
  <2>2. CASE UNCHANGED <<delivery, known, stored, now>>
    BY <1>1, <2>2 DEF NoncesDelivered, ForgottenExpired
  <2>3. CASE /\ n \in known /\ delivery' = [delivery EXCEPT ![n].consumed = TRUE]
             /\ UNCHANGED <<stored, now>> /\ known' \in {known, stored}
    <3>1. \A m \in known \cup stored :
            /\ delivery'[m] # NoDelivery
            /\ delivery'[m].expiresAt = delivery[m].expiresAt
      BY <1>1, <2>3, ConsumeKeeps
    <3>2. CASE known' = known
      BY <1>1, <2>3, <3>1, <3>2, SameNoncesRemembered
    <3>3. CASE known' = stored
      BY <1>1, <2>3, <3>1, <3>3, RestartRemembered
    <3>4. QED
      BY <2>3, <3>2, <3>3
  <2>4. QED
    BY <2>1, <2>2, <2>3 DEF IngestAccept, IngestReject, IngestCrash, Recover,
                            Reportable, FirstReport
<1>5. CASE Vacuum
  <2>1. UNCHANGED <<delivery, known, now>> /\ stored' \subseteq stored
    BY <1>5 DEF Vacuum
  <2>2. QED
    BY <1>1, <2>1 DEF NoncesDelivered, ForgottenExpired
<1>6. CASE Restart
  <2>1. UNCHANGED <<delivery, stored, now>> /\ known' = stored
    BY <1>6 DEF Restart, Recover
  <2>2. QED
    BY <1>1, <2>1 DEF NoncesDelivered, ForgottenExpired
<1>7. CASE Tick
  <2>1. UNCHANGED <<delivery, known, stored>> /\ now' = now + 1
    BY <1>7 DEF Tick, store
  <2>2. \A n \in known \cup stored :
          /\ delivery'[n] # NoDelivery /\ delivery'[n].expiresAt = delivery[n].expiresAt
    BY <1>1, <2>1 DEF NoncesDelivered
  <2>3. QED
    BY <1>1, <2>1, <2>2, SameNoncesRemembered
<1>8. QED
  BY <1>2, <1>3, <1>4, <1>5, <1>6, <1>7 DEF IInv, Next

-----------------------------------------------------------------------------
(* The balance covers the exposure *)

LEMMA RatesTypedNext == TypeOK' /\ NoncesDelivered' => RatesTyped'
BY RatesAreTyped, PTL

\* Nothing becomes live when no delivery is made: the clock only goes on, and
\* what a restart brings back from the table had expired.
LEMMA NothingRevived ==
  ASSUME TypeOK, NoncesDelivered, ForgottenExpired,
         known' \in {known, stored}, now' \in {now, now + 1},
         delivery' = delivery \/ \E n \in known : delivery' = [delivery EXCEPT ![n].consumed = TRUE]
  PROVE  LiveKept
<1>1. \A m \in known \cup stored : m \in Nonces /\ delivery[m] \in Delivery
  BY DEF TypeOK, NoncesDelivered
<1>2. \A m \in known \cup stored : /\ delivery'[m].expiresAt = delivery[m].expiresAt
                                   /\ delivery'[m].campaign = delivery[m].campaign
                                   /\ delivery'[m].rate = delivery[m].rate
  <2>1. CASE delivery' = delivery
    BY <2>1
  <2>2. CASE \E n \in known : delivery' = [delivery EXCEPT ![n].consumed = TRUE]
    BY <2>2, ConsumeKeeps
  <2>3. QED
    BY <2>1, <2>2
<1>3. \A m \in known \cup stored : delivery[m].consumed => delivery'[m].consumed
  <2>1. CASE delivery' = delivery
    BY <2>1
  <2>2. ASSUME NEW n \in known, delivery' = [delivery EXCEPT ![n].consumed = TRUE],
               NEW m \in known \cup stored, delivery[m].consumed
        PROVE  delivery'[m].consumed
    <3>1. n \in Nonces /\ m \in Nonces /\ delivery[n] \in Delivery /\ DOMAIN delivery = Nonces
      BY <1>1 DEF TypeOK
    <3>2. delivery'[m] = IF m = n THEN [delivery[n] EXCEPT !.consumed = TRUE] ELSE delivery[m]
      BY <2>2, <3>1
    <3>3. CASE m = n
      BY <3>1, <3>2, <3>3 DEF Delivery
    <3>4. CASE m # n
      BY <2>2, <3>2, <3>4
    <3>5. QED
      BY <3>3, <3>4
  <2>3. QED
    BY <2>1, <2>2
<1>4. SUFFICES ASSUME NEW n \in Live'
               PROVE  /\ n \in Live
                      /\ delivery'[n].campaign = delivery[n].campaign
                      /\ delivery'[n].rate = delivery[n].rate
  BY DEF LiveKept
<1>5. n \in known' /\ ~delivery'[n].consumed /\ delivery'[n].expiresAt >= now'
  BY <1>4 DEF Live, Unexpired
<1>6. n \in known \cup stored
  BY <1>5
<1>7. now \in Nat /\ delivery[n].expiresAt \in Nat
  BY <1>1, <1>6 DEF TypeOK, Delivery
<1>8. delivery[n].expiresAt >= now /\ ~delivery[n].consumed
  BY <1>2, <1>3, <1>5, <1>6, <1>7
<1>9. n \in known
  BY <1>6, <1>7, <1>8 DEF ForgottenExpired
<1>10. QED
  BY <1>2, <1>8, <1>9 DEF Live, Unexpired

\* Nothing becomes unposted when no report is accepted.
LEMMA NothingUnposted ==
  ASSUME \A id \in ImpIds : billed[id] # NoBill => billed'[id] # NoBill,
         \A k \in Keys : \/ imp'[k] = imp[k]
                         \/ imp'[k] = NoImp
                         \/ imp'[k].state # "pending"
  PROVE  UnpostedKept
<1>1. SUFFICES ASSUME NEW k \in Unposted'
               PROVE  k \in Unposted /\ imp'[k] = imp[k]
  BY DEF UnpostedKept
<1>2. k \in Keys /\ imp'[k] # NoImp /\ imp'[k].state = "pending" /\ billed'[k[2]] = NoBill
  BY DEF Unposted, Pending, InState
<1>3. imp'[k] = imp[k] /\ k[2] \in ImpIds
  BY <1>2 DEF Keys
<1>4. QED
  BY <1>2, <1>3 DEF Unposted, Pending, InState

\* An advertiser can only withdraw what is not reserved.
LEMMA DrawCovered ==
  ASSUME RatesTyped, RatesTyped', CommittedCovered, TypeOK, TypeOK',
         NEW w \in Draws, NEW a \in Advertisers, NEW x \in Amounts, DrawSubmit(w, a, x)
  PROVE  CommittedCovered'
<1>1. SUFFICES ASSUME NEW b \in Advertisers
               PROVE  Total(LiveRates(b)') + Total(UnpostedRates(b)') <= adv'[b]
  BY DEF CommittedCovered, Exposure
<1>2. LiveRates(b)' = LiveRates(b) /\ UnpostedRates(b)' = UnpostedRates(b)
  BY DEF DrawSubmit, store, LiveRates, Live, Unexpired, UnpostedRates, Unposted,
         Pending, InState
<1>3. Exposure(b) <= adv[b]
  BY DEF CommittedCovered
<1>4. /\ x \in Nat /\ x > 0
      /\ adv[a] \in Nat /\ Reserved(a) \in Nat /\ Exposure(a) \in Nat
      /\ Exposure(a) <= Reserved(a)
  BY ConstantTypes, ExposureReserved DEF TypeOK
<1>5. Exposure(a) <= adv[a] - x
  BY <1>4 DEF DrawSubmit, Spendable
<1>6. CASE b = a
  BY <1>2, <1>5, <1>6 DEF DrawSubmit, TypeOK, Exposure
<1>7. CASE b # a
  BY <1>2, <1>3, <1>7 DEF DrawSubmit, TypeOK, Exposure
<1>8. QED
  BY <1>6, <1>7

\* An ad is delivered only when the balance covers the bid beyond everything
\* reserved, and the rate is at most the bid.
LEMMA ServeCovered ==
  ASSUME RatesTyped, RatesTyped', CommittedCovered, TypeOK, NoncesDelivered,
         NEW p \in Publishers, NEW c \in Campaigns, NEW n \in Nonces,
         NEW rate \in Prices, NEW bps \in Shares, ServeAd(p, c, n, rate, bps)
  PROVE  CommittedCovered'
<1>1. SUFFICES ASSUME NEW a \in Advertisers
               PROVE  Total(LiveRates(a)') + Total(UnpostedRates(a)') <= adv'[a]
  BY DEF CommittedCovered, Exposure
<1>2. UnpostedRates(a)' = UnpostedRates(a) /\ adv' = adv /\ now' = now
  BY DEF ServeAd, ledger, UnpostedRates, Unposted, Pending, InState
<1>3. n \notin known /\ n \notin LiveOf(a)
  BY DEF ServeAd, NoncesDelivered, LiveOf, Live
<1>4. delivery'[n] = [pub |-> p, campaign |-> c, rate |-> rate, bps |-> bps,
                      expiresAt |-> now + NonceTtl, consumed |-> FALSE]
  BY DEF ServeAd, TypeOK
<1>5. \A m \in known : delivery'[m] = delivery[m]
  BY <1>3 DEF ServeAd, TypeOK
<1>6. LiveOf(a)' \in SUBSET (LiveOf(a) \cup {n})
  BY <1>2, <1>4, <1>5 DEF ServeAd, LiveOf, Live, Unexpired
<1>7. \A m \in LiveOf(a)' : m # n => LiveRates(a)'[m] = LiveRates(a)[m]
  BY <1>2, <1>5, <1>6 DEF LiveOf, Live, LiveRates
<1>8. n \in LiveOf(a)' => a = Owner[c] /\ LiveRates(a)'[n] = rate
  BY <1>4 DEF LiveOf, LiveRates
<1>9. /\ IsFiniteSet(LiveOf(a)) /\ LiveRates(a) \in [LiveOf(a) -> Nat]
      /\ LiveRates(a)' \in [LiveOf(a)' -> Nat] /\ rate \in Nat
  BY ConstantTypes DEF RatesTyped
<1>10. Exposure(a) <= adv[a]
  BY DEF CommittedCovered
<1>11. /\ Total(LiveRates(a)) \in Nat /\ Total(UnpostedRates(a)) \in Nat
       /\ Total(LiveRates(a)') \in Nat /\ adv[a] \in Nat
  BY TotalType DEF RatesTyped, TypeOK
<1>12. CASE n \in LiveOf(a)'
  <2>1. Total(LiveRates(a)') <= Total(LiveRates(a)) + rate
    BY <1>3, <1>6, <1>7, <1>8, <1>9, TotalOfOneMore
  <2>2. /\ Bid[c] \in Nat /\ Bid[c] > 0 /\ rate <= Bid[c] /\ Spendable(a) >= Bid[c]
    BY <1>8, <1>12, ConstantTypes DEF ServeAd, Eligible
  <2>3. /\ Reserved(a) \in Nat /\ Exposure(a) \in Nat /\ Exposure(a) <= Reserved(a)
    BY ExposureReserved
  <2>4. Exposure(a) + rate <= adv[a]
    BY <1>9, <1>11, <2>2, <2>3 DEF Spendable
  <2>5. QED
    BY <1>2, <1>9, <1>11, <2>1, <2>4 DEF Exposure
<1>13. CASE n \notin LiveOf(a)'
  <2>1. LiveOf(a)' \in SUBSET LiveOf(a)
        /\ \A m \in LiveOf(a)' : LiveRates(a)'[m] = LiveRates(a)[m]
    BY <1>6, <1>7, <1>13
  <2>2. Total(LiveRates(a)') <= Total(LiveRates(a))
    BY <1>9, <2>1, TotalOfFewer
  <2>3. QED
    BY <1>2, <1>10, <1>11, <2>2 DEF Exposure
<1>14. QED
  BY <1>12, <1>13

\* A report moves its rate from the live deliveries to the pending
\* impressions, for the same advertiser.
LEMMA AcceptCovered ==
  ASSUME RatesTyped, RatesTyped', CommittedCovered, TypeOK, NoncesDelivered,
         NEW p \in Publishers, NEW id \in ImpIds, NEW n \in Nonces,
         NEW c \in Campaigns, NEW d \in Durations, IngestAccept(p, id, n, c, d)
  PROVE  CommittedCovered'
<1> DEFINE k == <<p, id>>
<1>1. SUFFICES ASSUME NEW a \in Advertisers
               PROVE  Total(LiveRates(a)') + Total(UnpostedRates(a)') <= adv'[a]
  BY DEF CommittedCovered, Exposure
<1>2. /\ adv' = adv /\ now' = now /\ known' = known /\ billed' = billed
      /\ delivery' = [delivery EXCEPT ![n].consumed = TRUE]
      /\ n \in known /\ ~delivery[n].consumed /\ delivery[n].expiresAt >= now
      /\ delivery[n].campaign = c /\ imp[k] = NoImp
  BY DEF IngestAccept, ledger, Reportable, FirstReport, InTime, Unexpired
<1>3. k \in Keys
  BY DEF Keys
<1>4. /\ imp'[k] = [nonce |-> n, campaign |-> c, rate |-> delivery[n].rate,
                    bps |-> delivery[n].bps, serverTs |-> now, state |-> "pending"]
      /\ \A j \in Keys : j # k => imp'[j] = imp[j]
  BY <1>3 DEF IngestAccept, TypeOK, FrozenPrice
<1> HIDE DEF k
<1>5. \A m \in known : /\ delivery'[m].expiresAt = delivery[m].expiresAt
                       /\ delivery'[m].campaign = delivery[m].campaign
                       /\ delivery'[m].rate = delivery[m].rate
  BY <1>2, ConsumeKeeps
<1>6. \A m \in known : m # n => delivery'[m] = delivery[m]
  BY <1>2 DEF TypeOK
<1>7. delivery'[n].consumed
  <2>1. delivery[n] \in Delivery /\ delivery'[n] = [delivery[n] EXCEPT !.consumed = TRUE]
    BY <1>2 DEF TypeOK, NoncesDelivered
  <2>2. QED
    BY <2>1 DEF Delivery
<1>8. n \in Live /\ (a = Owner[c] => n \in LiveOf(a) /\ LiveRates(a)[n] = delivery[n].rate)
  BY <1>2 DEF Live, Unexpired, LiveOf, LiveRates
<1>9. LiveOf(a)' \in SUBSET (LiveOf(a) \ {n})
  BY <1>2, <1>5, <1>6, <1>7 DEF LiveOf, Live, Unexpired
<1>10. \A m \in LiveOf(a)' : LiveRates(a)'[m] = LiveRates(a)[m]
  BY <1>5, <1>9 DEF LiveOf, Live, LiveRates
<1>11. k \notin UnpostedOf(a)
  BY <1>2 DEF UnpostedOf, Unposted, Pending, InState
<1>12. UnpostedOf(a)' \in SUBSET (UnpostedOf(a) \cup {k})
  BY <1>2, <1>4 DEF UnpostedOf, Unposted, Pending, InState
<1>13. \A j \in UnpostedOf(a)' : j # k => UnpostedRates(a)'[j] = UnpostedRates(a)[j]
  BY <1>4, <1>12 DEF UnpostedOf, Unposted, Pending, InState, UnpostedRates
<1>14. k \in UnpostedOf(a)' => a = Owner[c] /\ UnpostedRates(a)'[k] = delivery[n].rate
  BY <1>4 DEF UnpostedOf, UnpostedRates
<1>15. /\ IsFiniteSet(LiveOf(a)) /\ LiveRates(a) \in [LiveOf(a) -> Nat]
       /\ LiveRates(a)' \in [LiveOf(a)' -> Nat]
       /\ IsFiniteSet(UnpostedOf(a)) /\ UnpostedRates(a) \in [UnpostedOf(a) -> Nat]
       /\ UnpostedRates(a)' \in [UnpostedOf(a)' -> Nat]
  BY DEF RatesTyped
<1>16. /\ Total(LiveRates(a)) \in Nat /\ Total(UnpostedRates(a)) \in Nat
       /\ Total(LiveRates(a)') \in Nat /\ Total(UnpostedRates(a)') \in Nat
       /\ adv[a] \in Nat
  BY TotalType DEF RatesTyped, TypeOK
<1>17. delivery[n].rate \in Nat
  BY <1>8, LiveDelivery DEF Delivery
<1>18. Total(LiveRates(a)) + Total(UnpostedRates(a)) <= adv[a]
  BY DEF CommittedCovered, Exposure
<1>19. CASE a = Owner[c]
  <2>1. n \in LiveOf(a) /\ LiveRates(a)[n] = delivery[n].rate
    BY <1>8, <1>19
  <2>2. Total(LiveRates(a)') + delivery[n].rate <= Total(LiveRates(a))
    BY <1>9, <1>10, <1>15, <2>1, TotalOfFewerBut
  <2>3. Total(UnpostedRates(a)') <= Total(UnpostedRates(a)) + delivery[n].rate
    BY <1>11, <1>12, <1>13, <1>14, <1>15, <1>17, TotalOfOneMore
  <2>4. QED
    BY <1>2, <1>16, <1>17, <1>18, <2>2, <2>3
<1>20. CASE a # Owner[c]
  <2>1. LiveOf(a)' \in SUBSET LiveOf(a)
    BY <1>9
  <2>2. Total(LiveRates(a)') <= Total(LiveRates(a))
    BY <1>10, <1>15, <2>1, TotalOfFewer
  <2>3. /\ UnpostedOf(a)' \in SUBSET UnpostedOf(a)
        /\ \A j \in UnpostedOf(a)' : UnpostedRates(a)'[j] = UnpostedRates(a)[j]
    BY <1>12, <1>13, <1>14, <1>20
  <2>4. Total(UnpostedRates(a)') <= Total(UnpostedRates(a))
    BY <1>15, <2>3, TotalOfFewer
  <2>5. QED
    BY <1>2, <1>16, <1>18, <2>2, <2>4
<1>21. QED
  BY <1>19, <1>20

\* A posting takes from the balance what leaves the exposure.
LEMMA PostCovered ==
  ASSUME RatesTyped, RatesTyped', CommittedCovered, TypeOK, TypeOK', LiveKept,
         NEW k \in Pending, PostImpression(k),
         \A j \in Keys : \/ imp'[j] = imp[j]
                         \/ imp'[j] = NoImp
                         \/ imp'[j].state # "pending"
  PROVE  CommittedCovered'
<1>1. k \in Keys /\ k[2] \in ImpIds
  BY PendingImpression DEF Keys
<1>2. CASE billed[k[2]] # NoBill
  <2>1. adv' = adv /\ billed' = billed
    BY <1>2 DEF PostImpression
  <2>2. UnpostedKept
    BY <2>1, NothingUnposted
  <2>3. \A a \in Advertisers : adv[a] <= adv'[a]
    BY <2>1 DEF TypeOK
  <2>4. QED
    BY <2>2, <2>3, ExposureShrinks DEF TypeOK
<1>3. CASE billed[k[2]] = NoBill
  <2> DEFINE o == Owner[imp[k].campaign]
  <2>1. k \in Unposted
    BY <1>3 DEF Unposted
  <2>2. o \in Advertisers /\ imp[k].rate \in Nat
    BY <2>1, UnpostedCovered
  <2>3. adv' = [adv EXCEPT ![o] = @ - imp[k].rate]
    BY <1>3 DEF PostImpression
  <2>4. /\ billed'[k[2]] # NoBill
        /\ \A id \in ImpIds : billed[id] # NoBill => billed'[id] # NoBill
    <3>1. PICK b : /\ billed' = [billed EXCEPT ![k[2]] = b]
                   /\ b = [pub |-> k[1], campaign |-> imp[k].campaign,
                           rate |-> imp[k].rate, bps |-> imp[k].bps, nonce |-> imp[k].nonce]
      BY <1>3 DEF PostImpression
    <3>2. b # NoBill
      BY <3>1 DEF NoBill
    <3>3. QED
      BY <1>1, <3>1, <3>2 DEF TypeOK
  <2>5. UnpostedKept
    BY <2>4, NothingUnposted
  <2>6. SUFFICES ASSUME NEW a \in Advertisers
                 PROVE  Total(LiveRates(a)') + Total(UnpostedRates(a)') <= adv'[a]
    BY DEF CommittedCovered, Exposure
  <2>7. Total(LiveRates(a)') <= Total(LiveRates(a))
    BY LiveTotalShrinks
  <2>8. /\ Total(LiveRates(a)) \in Nat /\ Total(UnpostedRates(a)) \in Nat
        /\ Total(LiveRates(a)') \in Nat /\ Total(UnpostedRates(a)') \in Nat
        /\ adv[a] \in Nat
    BY TotalType DEF RatesTyped, TypeOK
  <2>9. Total(LiveRates(a)) + Total(UnpostedRates(a)) <= adv[a]
    BY DEF CommittedCovered, Exposure
  <2>10. CASE a = o
    <3>1. k \in UnpostedOf(a) /\ UnpostedRates(a)[k] = imp[k].rate
      BY <2>1, <2>10 DEF UnpostedOf, UnpostedRates
    <3>2. k \notin UnpostedOf(a)'
      BY <2>4 DEF UnpostedOf, Unposted
    <3>3. /\ UnpostedOf(a)' \in SUBSET (UnpostedOf(a) \ {k})
          /\ \A j \in UnpostedOf(a)' : UnpostedRates(a)'[j] = UnpostedRates(a)[j]
      BY <2>5, <3>2 DEF UnpostedKept, UnpostedOf, UnpostedRates
    <3>4. /\ IsFiniteSet(UnpostedOf(a)) /\ UnpostedRates(a) \in [UnpostedOf(a) -> Nat]
          /\ UnpostedRates(a)' \in [UnpostedOf(a)' -> Nat]
      BY DEF RatesTyped
    <3>5. Total(UnpostedRates(a)') + imp[k].rate <= Total(UnpostedRates(a))
      BY <3>1, <3>3, <3>4, TotalOfFewerBut
    <3>6. adv'[a] = adv[a] - imp[k].rate
      BY <2>2, <2>3, <2>10 DEF TypeOK
    <3>7. QED
      BY <2>2, <2>7, <2>8, <2>9, <3>5, <3>6
  <2>11. CASE a # o
    <3>1. Total(UnpostedRates(a)') <= Total(UnpostedRates(a))
      BY <2>5, UnpostedTotalShrinks
    <3>2. adv'[a] = adv[a]
      BY <2>3, <2>11 DEF TypeOK
    <3>3. QED
      BY <2>7, <2>8, <2>9, <3>1, <3>2
  <2>12. QED
    BY <2>10, <2>11
<1>4. QED
  BY <1>2, <1>3

\* Every step keeps the balances above the exposures.
LEMMA StepCovers == ASSUME IInv, [Next]_vars PROVE CommittedCovered'
<1>1. TypeOK /\ NoncesDelivered /\ ForgottenExpired /\ CommittedCovered /\ RatesTyped
  BY RatesAreTyped DEF IInv
<1>2. TypeOK' /\ NoncesDelivered' /\ RatesTyped'
  BY StepTyped, StepRemembers, RatesTypedNext
<1>3. adv \in [Advertisers -> Nat] /\ adv' \in [Advertisers -> Nat] /\ now \in Nat
  BY <1>1, <1>2 DEF TypeOK
<1>4. ASSUME LiveKept, UnpostedKept, UNCHANGED adv PROVE CommittedCovered'
  <2>1. \A a \in Advertisers : adv[a] <= adv'[a]
    BY <1>3, <1>4
  <2>2. QED
    BY <1>1, <1>2, <1>3, <1>4, <2>1, ExposureShrinks
<1>5. ASSUME UNCHANGED <<delivery, known>>, now' \in {now, now + 1},
             UNCHANGED <<imp, billed>>
      PROVE  LiveKept /\ UnpostedKept
  BY <1>1, <1>5, NothingRevived, NothingUnposted
<1>6. CASE Money
  <2>1. LiveKept /\ UnpostedKept
    BY <1>5, <1>6 DEF Money, Deposit, DrawSubmit, DrawSettled, DrawReversed, store
  <2>2. ASSUME NEW a \in Advertisers, NEW x \in Amounts, Deposit(a, x)
        PROVE  CommittedCovered'
    <3>1. x \in Nat
      BY ConstantTypes
    <3>2. \A b \in Advertisers : adv[b] <= adv'[b]
      BY <1>3, <2>2, <3>1 DEF Deposit
    <3>3. QED
      BY <1>1, <1>2, <1>3, <2>1, <3>2, ExposureShrinks
  <2>3. ASSUME NEW w \in Draws, DrawReversed(w) PROVE CommittedCovered'
    <3>1. draw[w].adv \in Advertisers /\ draw[w].amount \in Nat
      BY <1>1, <2>3 DEF DrawReversed, TypeOK, Draw
    <3>2. \A b \in Advertisers : adv[b] <= adv'[b]
      BY <1>3, <2>3, <3>1 DEF DrawReversed
    <3>3. QED
      BY <1>1, <1>2, <1>3, <2>1, <3>2, ExposureShrinks
  <2>4. ASSUME NEW w \in Draws, DrawSettled(w) PROVE CommittedCovered'
    BY <1>4, <2>1, <2>4 DEF DrawSettled
  <2>5. QED
    BY <1>1, <1>2, <1>6, <2>2, <2>3, <2>4, DrawCovered DEF Money
<1>7. CASE Serve
  BY <1>1, <1>2, <1>7, ServeCovered DEF Serve
<1>8. CASE Ingest
  <2>1. PICK p \in Publishers, n \in Nonces, c \in Campaigns, d \in Durations,
             id \in ImpIds :
          \/ IngestAccept(p, id, n, c, d)
          \/ \E w \in BOOLEAN : IngestReject(p, id, n, c, d, w)
          \/ IngestCrash(p, id, n, c, d)
    BY <1>8, SetsAssumption DEF Ingest
  <2>2. CASE IngestAccept(p, id, n, c, d)
    BY <1>1, <1>2, <2>2, AcceptCovered
  <2>3. ASSUME NEW w \in BOOLEAN, IngestReject(p, id, n, c, d, w) PROVE CommittedCovered'
    <3>1. LiveKept
      BY <1>1, <2>3, NothingRevived DEF IngestReject
    <3>2. imp'[<<p, id>>].state = "rejected"
          /\ \A k \in Keys : k # <<p, id>> => imp'[k] = imp[k]
      BY <1>1, <2>3 DEF IngestReject, TypeOK, Keys
    <3>3. \A k \in Keys : imp'[k] = imp[k] \/ imp'[k].state # "pending"
      BY <3>2
    <3>4. billed' = billed /\ adv' = adv
      BY <2>3 DEF IngestReject, ledger
    <3>5. QED
      BY <1>4, <3>1, <3>3, <3>4, NothingUnposted
  <2>4. CASE IngestCrash(p, id, n, c, d)
    <3>1. n \in known /\ delivery' = [delivery EXCEPT ![n].consumed = TRUE]
          /\ known' = stored /\ now' = now /\ adv' = adv /\ billed' = billed
      BY <2>4 DEF IngestCrash, Reportable, FirstReport, Recover, ledger
    <3>2. LiveKept
      BY <1>1, <3>1, NothingRevived
    <3>3. \A k \in Keys : imp'[k] = imp[k] \/ imp'[k] = NoImp
      BY <2>4 DEF IngestCrash, Recover
    <3>4. QED
      BY <1>4, <3>1, <3>2, <3>3, NothingUnposted
  <2>5. QED
    BY <2>1, <2>2, <2>3, <2>4
<1>9. CASE RunVerification
  <2>1. PICK k \in Keys : Verify(k) \/ Reject(k) \/ VerifyCrash(k)
    BY <1>9 DEF RunVerification
  <2>2. k \in Pending
    BY <2>1 DEF Verify, Reject, VerifyCrash, Passes
  <2>3. LiveKept
    BY <1>1, <2>1, NothingRevived DEF Verify, Reject, VerifyCrash, Recover
  <2>4. ASSUME NEW s \in {"verified", "rejected"}, imp' = [imp EXCEPT ![k].state = s]
        PROVE  \A j \in Keys : imp'[j] = imp[j] \/ imp'[j].state # "pending"
    <3>1. imp[k] \in Impression
      BY <1>1, <2>2, PendingImpression
    <3>2. imp'[k].state = s /\ \A j \in Keys : j # k => imp'[j] = imp[j]
      BY <1>1, <2>4, <3>1 DEF TypeOK, Impression
    <3>3. QED
      BY <3>2
  <2>5. CASE Verify(k)
    <3>1. PostImpression(k) /\ imp' = [imp EXCEPT ![k].state = "verified"]
      BY <2>5 DEF Verify
    <3>2. \A j \in Keys : imp'[j] = imp[j] \/ imp'[j].state # "pending"
      BY <2>4, <3>1
    <3>3. QED
      BY <1>1, <1>2, <2>2, <2>3, <3>1, <3>2, PostCovered
  <2>6. CASE Reject(k)
    <3>1. billed' = billed /\ adv' = adv
          /\ \A j \in Keys : imp'[j] = imp[j] \/ imp'[j].state # "pending"
      BY <2>4, <2>6 DEF Reject, ledger
    <3>2. QED
      BY <1>4, <2>3, <3>1, NothingUnposted
  <2>7. CASE VerifyCrash(k)
    <3>1. PostImpression(k) /\ \A j \in Keys : imp'[j] = imp[j] \/ imp'[j] = NoImp
      BY <2>7 DEF VerifyCrash, Recover
    <3>2. QED
      BY <1>1, <1>2, <2>2, <2>3, <3>1, PostCovered
  <2>8. QED
    BY <2>1, <2>5, <2>6, <2>7
<1>10. CASE Admin \/ Tick \/ UNCHANGED vars
  <2>1. UNCHANGED <<delivery, known, imp, billed, adv>> /\ now' \in {now, now + 1}
    BY <1>10 DEF Admin, Ban, Unban, Tick, vars, ledger, store
  <2>2. QED
    BY <1>4, <1>5, <2>1
<1>11. CASE Vacuum
  <2>1. UNCHANGED <<delivery, known, imp, billed, adv, now>>
    BY <1>11 DEF Vacuum, ledger
  <2>2. QED
    BY <1>4, <1>5, <2>1
<1>12. CASE Restart
  <2>1. UNCHANGED <<delivery, billed, adv, now>> /\ known' = stored
        /\ \A k \in Keys : imp'[k] = imp[k] \/ imp'[k] = NoImp
    BY <1>12 DEF Restart, Recover, ledger
  <2>2. QED
    BY <1>1, <1>4, <2>1, NothingRevived, NothingUnposted
<1>13. QED
  BY <1>6, <1>7, <1>8, <1>9, <1>10, <1>11, <1>12 DEF Next

LEMMA InitInv == Init => IInv
<1>1. SUFFICES ASSUME Init PROVE IInv
  OBVIOUS
<1>2. TypeOK
  BY <1>1 DEF Init, TypeOK
<1>3. NoncesDelivered /\ ForgottenExpired
  BY <1>1 DEF Init, NoncesDelivered, ForgottenExpired
<1>4. Live = {} /\ Unposted = {}
  BY <1>1 DEF Init, Live, Unposted, Pending, InState
<1>5. ASSUME NEW a \in Advertisers PROVE Exposure(a) <= adv[a]
  <2>1. Units(LiveRates(a)) = {} /\ Units(UnpostedRates(a)) = {}
    BY <1>4 DEF Units, LiveRates, UnpostedRates
  <2>2. Exposure(a) = 0
    BY <2>1, FS_EmptySet DEF Exposure, Total
  <2>3. QED
    BY <1>1, <2>2 DEF Init
<1>6. QED
  BY <1>2, <1>3, <1>5 DEF IInv, CommittedCovered

\* The invariant holds in every state.
LEMMA Invariant == Spec => []IInv
<1>1. IInv /\ [Next]_vars => IInv'
  BY StepTyped, StepRemembers, StepCovers DEF IInv
<1>2. QED
  BY <1>1, InitInv, PTL DEF Spec

\* The stores keep their types and no account of the ledger goes below zero,
\* although Ledger.postImpression does not look at the balance it debits.
THEOREM TypeCorrect == Spec => []TypeOK
<1>1. IInv => TypeOK
  BY DEF IInv
<1>2. QED
  BY <1>1, Invariant, PTL

\* The balance of an advertiser covers every delivered or reported impression
\* that is not yet charged (ADR-021: AdSelector.select, Pipeline.spendable and
\* WithdrawService.withdraw count the same reservation).
THEOREM ExposureAlwaysCovered == Spec => []CommittedCovered
<1>1. IInv => CommittedCovered
  BY DEF IInv
<1>2. QED
  BY <1>1, Invariant, PTL

-----------------------------------------------------------------------------
(* One charge for a delivery *)

\* An accepted impression is that of a delivery of this publisher, which was
\* used up for it, and carries the price and the campaign of the delivery.
AcceptedAsDelivered ==
  \A k \in Accepted :
    LET d == delivery[imp[k].nonce]
    IN  /\ imp[k] \in Impression
        /\ d # NoDelivery
        /\ d.consumed
        /\ <<k[1], imp[k].campaign, imp[k].rate, imp[k].bps>>
             = <<d.pub, d.campaign, d.rate, d.bps>>

\* The invariant.  A nonce is charged once because its impression is unique
\* as long as it may still be charged, and the ledger knows the key it is
\* charged under.
ChargeInv == DeliveryChargedOnce /\ ChargedAsDelivered /\ AcceptedAsDelivered

\* A delivery that was used up stays as it is.
UsedKept ==
  \A n \in Nonces : delivery[n] # NoDelivery /\ delivery[n].consumed => delivery'[n] = delivery[n]

\* No report is accepted.
AcceptedKept ==
  \A k \in Accepted' : /\ k \in Accepted
                       /\ imp'[k] \in Impression
                       /\ imp'[k].nonce = imp[k].nonce
                       /\ imp'[k].campaign = imp[k].campaign
                       /\ imp'[k].rate = imp[k].rate
                       /\ imp'[k].bps = imp[k].bps

LEMMA ChargedBill ==
  ASSUME TypeOK, NEW i \in Charged
  PROVE  i \in ImpIds /\ billed[i] \in Bill /\ billed[i].nonce \in Nonces
BY DEF TypeOK, Charged, Bill

LEMMA AcceptedImpression ==
  ASSUME TypeOK, NEW k \in Accepted
  PROVE  k \in Keys /\ imp[k] \in Impression /\ imp[k].nonce \in Nonces
BY DEF TypeOK, Accepted, Pending, InState, Refusal, Impression

\* Steps that neither accept a report nor post a group.
LEMMA ChargeKept ==
  ASSUME TypeOK, ChargeInv, AcceptedKept, UsedKept, billed' = billed
  PROVE  ChargeInv'
<1>1. Charged' = Charged
  BY DEF Charged
<1>2. DeliveryChargedOnce'
  BY <1>1 DEF ChargeInv, DeliveryChargedOnce, AcceptedKept
<1>3. ASSUME NEW i \in Charged PROVE delivery'[billed[i].nonce] = delivery[billed[i].nonce]
  BY ChargedBill DEF ChargeInv, ChargedAsDelivered, UsedKept
<1>4. ChargedAsDelivered'
  BY <1>1, <1>3 DEF ChargeInv, ChargedAsDelivered
<1>5. ASSUME NEW k \in Accepted PROVE delivery'[imp[k].nonce] = delivery[imp[k].nonce]
  BY AcceptedImpression DEF ChargeInv, AcceptedAsDelivered, UsedKept
<1>6. AcceptedAsDelivered'
  BY <1>5 DEF ChargeInv, AcceptedAsDelivered, AcceptedKept
<1>7. QED
  BY <1>2, <1>4, <1>6 DEF ChargeInv

\* A report is accepted for a delivery that no impression and no charge has
\* used yet.
LEMMA ChargeAccept ==
  ASSUME TypeOK, NoncesDelivered, ChargeInv,
         NEW p \in Publishers, NEW id \in ImpIds, NEW n \in Nonces,
         NEW c \in Campaigns, NEW d \in Durations, IngestAccept(p, id, n, c, d)
  PROVE  ChargeInv'
<1> DEFINE k == <<p, id>>
<1>1. /\ billed' = billed /\ delivery' = [delivery EXCEPT ![n].consumed = TRUE]
      /\ n \in known /\ ~delivery[n].consumed
      /\ delivery[n].pub = p /\ delivery[n].campaign = c
  BY DEF IngestAccept, ledger, Reportable, FirstReport
<1>2. k \in Keys
  BY DEF Keys
<1>3. /\ imp'[k] = [nonce |-> n, campaign |-> c, rate |-> delivery[n].rate,
                    bps |-> delivery[n].bps, serverTs |-> now, state |-> "pending"]
      /\ \A j \in Keys : j # k => imp'[j] = imp[j]
  BY <1>2 DEF IngestAccept, TypeOK, FrozenPrice
<1>4. k = <<k[1], k[2]>> /\ k[1] = p
  OBVIOUS
<1> HIDE DEF k
<1>5. delivery[n] \in Delivery /\ delivery[n] # NoDelivery
  BY <1>1 DEF TypeOK, NoncesDelivered
<1>6. /\ delivery'[n] # NoDelivery /\ delivery'[n].consumed
      /\ delivery'[n].pub = p /\ delivery'[n].campaign = c
      /\ delivery'[n].rate = delivery[n].rate /\ delivery'[n].bps = delivery[n].bps
      /\ \A m \in Nonces : m # n => delivery'[m] = delivery[m]
  <2>1. delivery'[n] = [delivery[n] EXCEPT !.consumed = TRUE]
    BY <1>1, <1>5 DEF TypeOK
  <2>2. /\ delivery'[n].consumed /\ delivery'[n].pub = p /\ delivery'[n].campaign = c
        /\ delivery'[n].rate = delivery[n].rate /\ delivery'[n].bps = delivery[n].bps
    BY <1>1, <1>5, <2>1 DEF Delivery
  <2>3. delivery'[n] # NoDelivery
    BY <1>1, <1>5, ConsumeKeeps
  <2>4. QED
    BY <1>1, <2>2, <2>3 DEF TypeOK
<1>7. \A j \in Accepted : imp[j].nonce # n
  BY <1>1 DEF ChargeInv, AcceptedAsDelivered
<1>8. \A i \in Charged : billed[i].nonce # n
  BY <1>1 DEF ChargeInv, ChargedAsDelivered
<1>9. Charged' = Charged
  BY <1>1 DEF Charged
<1>10. \A j \in Accepted' : j # k => j \in Accepted /\ imp'[j] = imp[j]
  BY <1>3 DEF Accepted, Pending, InState
<1>11. imp'[k].nonce = n
  BY <1>3
<1>12. DeliveryChargedOnce'
  <2>1. ASSUME NEW i \in Charged', NEW j \in Charged', billed'[i].nonce = billed'[j].nonce
        PROVE  i = j
    BY <1>1, <1>9, <2>1 DEF ChargeInv, DeliveryChargedOnce
  <2>2. ASSUME NEW j \in Accepted', NEW l \in Accepted', imp'[j].nonce = imp'[l].nonce
        PROVE  j = l
    BY <1>7, <1>10, <1>11, <2>2 DEF ChargeInv, DeliveryChargedOnce
  <2>3. ASSUME NEW j \in Accepted', NEW i \in Charged', imp'[j].nonce = billed'[i].nonce
        PROVE  j = <<billed'[i].pub, i>>
    BY <1>1, <1>8, <1>9, <1>10, <1>11, <2>3 DEF ChargeInv, DeliveryChargedOnce
  <2>4. QED
    BY <2>1, <2>2, <2>3 DEF DeliveryChargedOnce
<1>13. ChargedAsDelivered'
  <2>1. ASSUME NEW i \in Charged PROVE delivery'[billed[i].nonce] = delivery[billed[i].nonce]
    BY <1>6, <1>8, ChargedBill
  <2>2. QED
    BY <1>1, <1>9, <2>1 DEF ChargeInv, ChargedAsDelivered
<1>14. AcceptedAsDelivered'
  <2>1. ASSUME NEW j \in Accepted', j # k
        PROVE  /\ j \in Accepted /\ imp'[j] = imp[j]
               /\ delivery'[imp'[j].nonce] = delivery[imp[j].nonce]
    BY <1>6, <1>7, <1>10, <2>1, AcceptedImpression
  <2>2. /\ imp'[k] \in Impression
        /\ <<k[1], imp'[k].campaign, imp'[k].rate, imp'[k].bps>>
             = <<delivery'[n].pub, delivery'[n].campaign, delivery'[n].rate, delivery'[n].bps>>
    <3>1. delivery[n].rate \in Nat /\ delivery[n].bps \in Shares /\ now \in Nat
      BY <1>5 DEF Delivery, TypeOK
    <3>2. QED
      BY <1>3, <1>4, <1>6, <3>1 DEF Impression
  <2>3. ASSUME NEW j \in Accepted'
        PROVE  /\ imp'[j] \in Impression
               /\ delivery'[imp'[j].nonce] # NoDelivery
               /\ delivery'[imp'[j].nonce].consumed
               /\ <<j[1], imp'[j].campaign, imp'[j].rate, imp'[j].bps>>
                    = <<delivery'[imp'[j].nonce].pub, delivery'[imp'[j].nonce].campaign,
                        delivery'[imp'[j].nonce].rate, delivery'[imp'[j].nonce].bps>>
    <3>1. CASE j = k
      BY <1>6, <1>11, <2>2, <3>1
    <3>2. CASE j # k
      BY <2>1, <3>2 DEF ChargeInv, AcceptedAsDelivered
    <3>3. QED
      BY <3>1, <3>2
  <2>4. QED
    BY <2>3 DEF AcceptedAsDelivered
<1>15. QED
  BY <1>12, <1>13, <1>14 DEF ChargeInv

\* A posting charges the nonce of an impression that is the only one to have
\* it, and that no group in the ledger has.
LEMMA ChargePost ==
  ASSUME TypeOK, ChargeInv, AcceptedKept, delivery' = delivery,
         NEW k \in Pending, PostImpression(k)
  PROVE  ChargeInv'
<1>1. CASE billed[k[2]] # NoBill
  <2>1. billed' = billed /\ UsedKept
    BY <1>1 DEF PostImpression, UsedKept
  <2>2. QED
    BY <2>1, ChargeKept
<1>2. CASE billed[k[2]] = NoBill
  <2> DEFINE b == [pub |-> k[1], campaign |-> imp[k].campaign, rate |-> imp[k].rate,
                   bps |-> imp[k].bps, nonce |-> imp[k].nonce]
  <2>1. k \in Accepted /\ k \in Keys /\ k = <<k[1], k[2]>> /\ k[2] \in ImpIds
    BY PendingImpression DEF Accepted, Keys
  <2>2. billed'[k[2]] = b /\ \A i \in ImpIds : i # k[2] => billed'[i] = billed[i]
    BY <1>2, <2>1 DEF PostImpression, TypeOK
  <2>3. /\ b.pub = k[1] /\ b.campaign = imp[k].campaign /\ b.rate = imp[k].rate
        /\ b.bps = imp[k].bps /\ b.nonce = imp[k].nonce
    OBVIOUS
  <2> HIDE DEF b
  <2>4. \A i \in Charged' : i # k[2] => i \in Charged /\ billed'[i] = billed[i]
    BY <2>2 DEF Charged
  <2>5. k[2] \notin Charged
    BY <1>2 DEF Charged
  <2>6. \A i \in Charged : billed[i].nonce # imp[k].nonce
    <3>1. ASSUME NEW i \in Charged, billed[i].nonce = imp[k].nonce PROVE FALSE
      <4>1. k = <<billed[i].pub, i>>
        BY <2>1, <3>1 DEF ChargeInv, DeliveryChargedOnce
      <4>2. k[2] = i
        BY <4>1
      <4>3. QED
        BY <2>5, <4>2
    <3>2. QED
      BY <3>1
  <2>7. DeliveryChargedOnce'
    <3>1. ASSUME NEW i \in Charged', NEW j \in Charged', billed'[i].nonce = billed'[j].nonce
          PROVE  i = j
      BY <2>2, <2>3, <2>4, <2>6, <3>1 DEF ChargeInv, DeliveryChargedOnce
    <3>2. ASSUME NEW j \in Accepted', NEW l \in Accepted', imp'[j].nonce = imp'[l].nonce
          PROVE  j = l
      BY <3>2 DEF ChargeInv, DeliveryChargedOnce, AcceptedKept
    <3>3. ASSUME NEW j \in Accepted', NEW i \in Charged', imp'[j].nonce = billed'[i].nonce
          PROVE  j = <<billed'[i].pub, i>>
      <4>1. j \in Accepted /\ imp'[j].nonce = imp[j].nonce
        BY DEF AcceptedKept
      <4>2. CASE i = k[2]
        <5>1. imp[j].nonce = imp[k].nonce
          BY <2>2, <2>3, <3>3, <4>1, <4>2
        <5>2. j = k
          BY <2>1, <4>1, <5>1 DEF ChargeInv, DeliveryChargedOnce
        <5>3. QED
          BY <2>1, <2>2, <2>3, <4>2, <5>2
      <4>3. CASE i # k[2]
        <5>1. i \in Charged /\ billed'[i] = billed[i] /\ imp[j].nonce = billed[i].nonce
          BY <2>4, <3>3, <4>1, <4>3
        <5>2. j = <<billed[i].pub, i>>
          BY <4>1, <5>1 DEF ChargeInv, DeliveryChargedOnce
        <5>3. QED
          BY <5>1, <5>2
      <4>4. QED
        BY <4>2, <4>3
    <3>4. QED
      BY <3>1, <3>2, <3>3 DEF DeliveryChargedOnce
  <2>8. ChargedAsDelivered'
    <3>1. ASSUME NEW i \in Charged'
          PROVE  /\ delivery'[billed'[i].nonce] # NoDelivery
                 /\ delivery'[billed'[i].nonce].consumed
                 /\ <<billed'[i].pub, billed'[i].campaign, billed'[i].rate, billed'[i].bps>>
                      = <<delivery'[billed'[i].nonce].pub,
                          delivery'[billed'[i].nonce].campaign,
                          delivery'[billed'[i].nonce].rate,
                          delivery'[billed'[i].nonce].bps>>
      <4>1. CASE i = k[2]
        BY <2>1, <2>2, <2>3, <4>1 DEF ChargeInv, AcceptedAsDelivered
      <4>2. CASE i # k[2]
        BY <2>4, <4>2 DEF ChargeInv, ChargedAsDelivered
      <4>3. QED
        BY <4>1, <4>2
    <3>2. QED
      BY <3>1 DEF ChargedAsDelivered
  <2>9. AcceptedAsDelivered'
    BY DEF ChargeInv, AcceptedAsDelivered, AcceptedKept
  <2>10. QED
    BY <2>7, <2>8, <2>9 DEF ChargeInv
<1>3. QED
  BY <1>1, <1>2

\* Reading the tables back, and deciding impressions, accept no report.
LEMMA NothingAccepted ==
  ASSUME TypeOK,
         \A j \in Keys : imp'[j] = imp[j] \/ imp'[j] = NoImp
  PROVE  AcceptedKept
<1>1. SUFFICES ASSUME NEW k \in Accepted'
               PROVE  k \in Accepted /\ imp'[k] = imp[k]
  BY AcceptedImpression DEF AcceptedKept
<1>2. k \in Keys /\ imp'[k] # NoImp
  BY DEF Accepted, Pending, InState
<1>3. imp'[k] = imp[k]
  BY <1>2
<1>4. QED
  BY <1>2, <1>3 DEF Accepted, Pending, InState

LEMMA DecidedKept ==
  ASSUME TypeOK, NEW k \in Pending, NEW s \in {"verified", "rejected"},
         imp' = [imp EXCEPT ![k].state = s]
  PROVE  /\ AcceptedKept
         /\ imp'[k] \in Impression /\ imp'[k].state = s
         /\ imp'[k].serverTs = imp[k].serverTs /\ imp'[k].nonce = imp[k].nonce
         /\ \A j \in Keys : j # k => imp'[j] = imp[j]
<1>1. k \in Keys /\ imp[k] \in Impression /\ k \in Accepted
  BY PendingImpression DEF Accepted
<1>2. /\ imp'[k] = [imp[k] EXCEPT !.state = s]
      /\ \A j \in Keys : j # k => imp'[j] = imp[j]
  BY <1>1 DEF TypeOK
<1>3. /\ imp'[k] \in Impression /\ imp'[k].nonce = imp[k].nonce /\ imp'[k].state = s
      /\ imp'[k].campaign = imp[k].campaign /\ imp'[k].rate = imp[k].rate
      /\ imp'[k].serverTs = imp[k].serverTs
  BY <1>1, <1>2 DEF Impression
<1>4. \A j \in Accepted' : j # k => j \in Accepted /\ imp'[j] = imp[j]
  BY <1>2 DEF Accepted, Pending, InState
<1>5. AcceptedKept
  <2>1. ASSUME NEW j \in Accepted'
        PROVE  /\ j \in Accepted /\ imp'[j] \in Impression
               /\ imp'[j].nonce = imp[j].nonce
               /\ imp'[j].campaign = imp[j].campaign /\ imp'[j].rate = imp[j].rate
    <3>1. CASE j = k
      BY <1>1, <1>3, <3>1
    <3>2. CASE j # k
      BY <1>4, <3>2, AcceptedImpression
    <3>3. QED
      BY <3>1, <3>2
  <2>2. QED
    BY <2>1 DEF AcceptedKept
<1>6. QED
  BY <1>2, <1>3, <1>5

LEMMA StepCharges == ASSUME IInv, ChargeInv, [Next]_vars PROVE ChargeInv'
<1>1. TypeOK /\ NoncesDelivered
  BY DEF IInv
<1>2. ASSUME UNCHANGED <<imp, delivery, billed>> PROVE ChargeInv'
  <2>1. AcceptedKept
    BY <1>1, <1>2, NothingAccepted
  <2>2. UsedKept
    BY <1>2 DEF UsedKept
  <2>3. QED
    BY <1>1, <1>2, <2>1, <2>2, ChargeKept
<1>3. CASE Serve
  <2>1. PICK p \in Publishers, c \in Campaigns, n \in Nonces, rate \in Prices,
          bps \in Shares : ServeAd(p, c, n, rate, bps)
    BY <1>3 DEF Serve
  <2>2. UsedKept
    BY <1>1, <2>1 DEF ServeAd, UsedKept, TypeOK
  <2>3. AcceptedKept
    BY <1>1, <2>1, NothingAccepted DEF ServeAd
  <2>4. QED
    BY <1>1, <2>1, <2>2, <2>3, ChargeKept DEF ServeAd, ledger
<1>4. CASE Ingest
  <2>1. PICK p \in Publishers, n \in Nonces, c \in Campaigns, d \in Durations,
             id \in ImpIds :
          \/ IngestAccept(p, id, n, c, d)
          \/ \E w \in BOOLEAN : IngestReject(p, id, n, c, d, w)
          \/ IngestCrash(p, id, n, c, d)
    BY <1>4, SetsAssumption DEF Ingest
  <2>2. CASE IngestAccept(p, id, n, c, d)
    BY <1>1, <2>2, ChargeAccept
  <2>3. ASSUME NEW w \in BOOLEAN, IngestReject(p, id, n, c, d, w) PROVE ChargeInv'
    <3>1. imp'[<<p, id>>].state = "rejected"
          /\ \A k \in Keys : k # <<p, id>> => imp'[k] = imp[k]
      BY <1>1, <2>3 DEF IngestReject, TypeOK, Keys
    <3>2. \A k \in Accepted' : k \in Accepted /\ imp'[k] = imp[k]
      BY <3>1 DEF Accepted, Pending, InState
    <3>3. AcceptedKept
      BY <1>1, <3>2, AcceptedImpression DEF AcceptedKept
    <3>4. UsedKept /\ billed' = billed
      BY <2>3 DEF UsedKept, IngestReject, ledger
    <3>5. QED
      BY <1>1, <3>3, <3>4, ChargeKept
  <2>4. CASE IngestCrash(p, id, n, c, d)
    <3>1. /\ ~delivery[n].consumed /\ billed' = billed
          /\ delivery' = [delivery EXCEPT ![n].consumed = TRUE]
      BY <2>4 DEF IngestCrash, Reportable, FirstReport, ledger
    <3>2. UsedKept
      BY <1>1, <3>1 DEF UsedKept, TypeOK
    <3>3. \A k \in Keys : imp'[k] = imp[k] \/ imp'[k] = NoImp
      BY <2>4 DEF IngestCrash, Recover
    <3>4. QED
      BY <1>1, <3>1, <3>2, <3>3, NothingAccepted, ChargeKept
  <2>5. QED
    BY <2>1, <2>2, <2>3, <2>4
<1>5. CASE RunVerification
  <2>1. PICK k \in Keys : Verify(k) \/ Reject(k) \/ VerifyCrash(k)
    BY <1>5 DEF RunVerification
  <2>2. k \in Pending /\ delivery' = delivery
    BY <2>1 DEF Verify, Reject, VerifyCrash, Passes
  <2>3. CASE Verify(k)
    <3>1. AcceptedKept
      BY <1>1, <2>2, <2>3, DecidedKept DEF Verify
    <3>2. QED
      BY <1>1, <2>2, <2>3, <3>1, ChargePost DEF Verify
  <2>4. CASE VerifyCrash(k)
    <3>1. \A j \in Keys : imp'[j] = imp[j] \/ imp'[j] = NoImp
      BY <2>4 DEF VerifyCrash, Recover
    <3>2. QED
      BY <1>1, <2>2, <2>4, <3>1, NothingAccepted, ChargePost DEF VerifyCrash
  <2>5. CASE Reject(k)
    <3>1. AcceptedKept
      BY <1>1, <2>2, <2>5, DecidedKept DEF Reject
    <3>2. UsedKept /\ billed' = billed
      BY <2>2, <2>5 DEF UsedKept, Reject, ledger
    <3>3. QED
      BY <1>1, <3>1, <3>2, ChargeKept
  <2>6. QED
    BY <2>1, <2>3, <2>4, <2>5
<1>6. CASE Restart
  <2>1. UNCHANGED <<delivery, billed>> /\ \A k \in Keys : imp'[k] = imp[k] \/ imp'[k] = NoImp
    BY <1>6 DEF Restart, Recover, ledger
  <2>2. UsedKept
    BY <2>1 DEF UsedKept
  <2>3. QED
    BY <1>1, <2>1, <2>2, NothingAccepted, ChargeKept
<1>7. CASE Money \/ Admin \/ Vacuum \/ Tick \/ UNCHANGED vars
  <2>1. UNCHANGED <<imp, delivery, billed>>
    BY <1>7 DEF Money, Deposit, DrawSubmit, DrawSettled, DrawReversed, Admin, Ban, Unban,
                Vacuum, Tick, vars, ledger, store
  <2>2. QED
    BY <1>2, <2>1
<1>8. QED
  BY <1>3, <1>4, <1>5, <1>6, <1>7 DEF Next

LEMMA ChargeInvariant == Spec => []ChargeInv
<1>1. Init => ChargeInv
  <2>1. ASSUME Init PROVE Charged = {} /\ Accepted = {}
    BY <2>1 DEF Init, Charged, Accepted, Pending, InState
  <2>2. QED
    BY <2>1 DEF ChargeInv, DeliveryChargedOnce, ChargedAsDelivered, AcceptedAsDelivered
<1>2. IInv /\ ChargeInv /\ [Next]_vars => ChargeInv'
  BY StepCharges
<1>3. QED
  BY <1>1, <1>2, Invariant, PTL DEF Spec

\* A delivery is charged at most once and counted as one impression, whatever
\* the client repeats and wherever the server restarts: the mark on the
\* delivery (ImpressionIngest.ingest, consume) outlives every row that could
\* show the repetition.
THEOREM ChargedOnce == Spec => []DeliveryChargedOnce
<1>1. ChargeInv => DeliveryChargedOnce
  BY DEF ChargeInv
<1>2. QED
  BY <1>1, ChargeInvariant, PTL

\* Every charge is for a delivery to that publisher, at the price and for the
\* campaign frozen when it was delivered (ADR-011).
THEOREM PricesFrozen == Spec => []ChargedAsDelivered
<1>1. ChargeInv => ChargedAsDelivered
  BY DEF ChargeInv
<1>2. QED
  BY <1>1, ChargeInvariant, PTL

-----------------------------------------------------------------------------
(* The daily cap *)

VerifiedOn(p, day) ==
  {k \in InState("verified") : k[1] = p /\ DayOf(imp[k].serverTs) = day}

\* The cap holds for every day, those that are over included.
CapInv == \A p \in Publishers : \A day \in Nat : CountOn(p, day) <= DailyCap

LEMMA VerifiedImpression ==
  ASSUME TypeOK, NEW k \in InState("verified")
  PROVE  k \in Keys /\ k \in Accepted /\ imp[k] \in Impression /\ imp[k].serverTs \in Nat
BY DEF TypeOK, Accepted, InState, Refusal, Impression

LEMMA VerifiedFinite ==
  ASSUME TypeOK, NEW p, NEW day
  PROVE  IsFiniteSet(VerifiedOn(p, day)) /\ CountOn(p, day) = Cardinality(VerifiedOn(p, day))
         /\ CountOn(p, day) \in Nat
<1>1. VerifiedOn(p, day) \in SUBSET Keys
  BY DEF VerifiedOn, InState
<1>2. IsFiniteSet(VerifiedOn(p, day))
  BY <1>1, ConstantTypes, FS_Subset
<1>3. CountOn(p, day) = Cardinality(VerifiedOn(p, day))
  BY DEF CountOn, VerifiedOn
<1>4. QED
  BY <1>2, <1>3, FS_CardinalityType

\* Steps that verify nothing.
LEMMA CapKept ==
  ASSUME TypeOK, CapInv,
         \A k \in InState("verified")' :
           k \in InState("verified") /\ imp'[k].serverTs = imp[k].serverTs
  PROVE  CapInv'
<1>1. SUFFICES ASSUME NEW p \in Publishers, NEW day \in Nat
               PROVE  CountOn(p, day)' <= DailyCap
  BY DEF CapInv
<1>2. IsFiniteSet(VerifiedOn(p, day)) /\ CountOn(p, day) = Cardinality(VerifiedOn(p, day))
      /\ CountOn(p, day) \in Nat
  BY VerifiedFinite
<1>3. VerifiedOn(p, day)' \subseteq VerifiedOn(p, day)
  BY DEF VerifiedOn, DayOf
<1>4. CountOn(p, day)' = Cardinality(VerifiedOn(p, day)')
  BY DEF CountOn, VerifiedOn
<1>5. /\ IsFiniteSet(VerifiedOn(p, day)')
      /\ Cardinality(VerifiedOn(p, day)') <= Cardinality(VerifiedOn(p, day))
      /\ Cardinality(VerifiedOn(p, day)') \in Nat
  BY <1>2, <1>3, FS_Subset, FS_CardinalityType
<1>6. CountOn(p, day) <= DailyCap /\ DailyCap \in Nat
  BY TimesAssumption DEF CapInv
<1>7. QED
  BY <1>2, <1>4, <1>5, <1>6

\* One more is verified, on a day and for a publisher below the cap.
LEMMA CapVerify ==
  ASSUME TypeOK, CapInv, NEW k \in Keys, Verify(k)
  PROVE  CapInv'
<1>1. /\ k \in Pending /\ imp' = [imp EXCEPT ![k].state = "verified"]
      /\ ~(CountOn(k[1], DayOf(imp[k].serverTs)) >= DailyCap)
  BY DEF Verify, Passes, CapReached
<1>2. /\ imp'[k].serverTs = imp[k].serverTs /\ \A j \in Keys : j # k => imp'[j] = imp[j]
  BY <1>1, DecidedKept
<1>3. SUFFICES ASSUME NEW p \in Publishers, NEW day \in Nat
               PROVE  CountOn(p, day)' <= DailyCap
  BY DEF CapInv
<1>4. IsFiniteSet(VerifiedOn(p, day)) /\ CountOn(p, day) = Cardinality(VerifiedOn(p, day))
      /\ CountOn(p, day) \in Nat
  BY VerifiedFinite
<1>5. CountOn(p, day)' = Cardinality(VerifiedOn(p, day)')
  BY DEF CountOn, VerifiedOn
<1>6. CountOn(p, day) <= DailyCap /\ DailyCap \in Nat
  BY TimesAssumption DEF CapInv
<1>7. VerifiedOn(p, day)' \subseteq VerifiedOn(p, day) \cup {k}
  BY <1>2 DEF VerifiedOn, InState, DayOf
<1>8. CASE k[1] = p /\ DayOf(imp[k].serverTs) = day
  <2>1. IsFiniteSet(VerifiedOn(p, day) \cup {k})
        /\ Cardinality(VerifiedOn(p, day) \cup {k}) <= Cardinality(VerifiedOn(p, day)) + 1
    <3>1. k \notin VerifiedOn(p, day)
      BY <1>1 DEF VerifiedOn, Pending, InState
    <3>2. Cardinality(VerifiedOn(p, day) \cup {k}) = Cardinality(VerifiedOn(p, day)) + 1
      BY <1>4, <3>1, FS_AddElement
    <3>3. QED
      BY <1>4, <3>2, FS_AddElement
  <2>2. Cardinality(VerifiedOn(p, day)') <= Cardinality(VerifiedOn(p, day) \cup {k})
        /\ IsFiniteSet(VerifiedOn(p, day)')
    BY <1>7, <2>1, FS_Subset
  <2>3. CountOn(p, day) < DailyCap
    BY <1>1, <1>4, <1>6, <1>8
  <2>4. Cardinality(VerifiedOn(p, day)') \in Nat
        /\ Cardinality(VerifiedOn(p, day) \cup {k}) \in Nat
    BY <2>1, <2>2, FS_CardinalityType
  <2>5. QED
    BY <1>4, <1>5, <1>6, <2>1, <2>2, <2>3, <2>4
<1>9. CASE ~(k[1] = p /\ DayOf(imp[k].serverTs) = day)
  <2>1. VerifiedOn(p, day)' \subseteq VerifiedOn(p, day)
    BY <1>2, <1>7, <1>9 DEF VerifiedOn, DayOf
  <2>2. /\ IsFiniteSet(VerifiedOn(p, day)')
        /\ Cardinality(VerifiedOn(p, day)') <= Cardinality(VerifiedOn(p, day))
        /\ Cardinality(VerifiedOn(p, day)') \in Nat
    BY <1>4, <2>1, FS_Subset, FS_CardinalityType
  <2>3. QED
    BY <1>4, <1>5, <1>6, <2>2
<1>10. QED
  BY <1>8, <1>9

LEMMA StepCapped == ASSUME IInv, CapInv, [Next]_vars PROVE CapInv'
<1>1. TypeOK /\ NoncesDelivered
  BY DEF IInv
<1>2. ASSUME \A k \in Keys : \/ imp'[k] = imp[k]
                             \/ imp'[k] = NoImp
                             \/ imp'[k].state # "verified"
      PROVE  CapInv'
  <2>1. \A k \in InState("verified")' :
          k \in InState("verified") /\ imp'[k].serverTs = imp[k].serverTs
    BY <1>2 DEF InState
  <2>2. QED
    BY <1>1, <2>1, CapKept
<1>3. CASE Ingest
  <2>1. PICK p \in Publishers, n \in Nonces, c \in Campaigns, d \in Durations,
             id \in ImpIds :
          \/ IngestAccept(p, id, n, c, d)
          \/ \E w \in BOOLEAN : IngestReject(p, id, n, c, d, w)
          \/ IngestCrash(p, id, n, c, d)
    BY <1>3, SetsAssumption DEF Ingest
  <2>2. <<p, id>> \in Keys
    BY DEF Keys
  <2>3. CASE IngestAccept(p, id, n, c, d)
    <3>1. imp'[<<p, id>>].state = "pending"
          /\ \A k \in Keys : k # <<p, id>> => imp'[k] = imp[k]
      BY <1>1, <2>2, <2>3 DEF IngestAccept, TypeOK
    <3>2. QED
      BY <1>2, <3>1
  <2>4. ASSUME NEW w \in BOOLEAN, IngestReject(p, id, n, c, d, w) PROVE CapInv'
    <3>1. imp'[<<p, id>>].state = "rejected"
          /\ \A k \in Keys : k # <<p, id>> => imp'[k] = imp[k]
      BY <1>1, <2>2, <2>4 DEF IngestReject, TypeOK
    <3>2. QED
      BY <1>2, <3>1
  <2>5. CASE IngestCrash(p, id, n, c, d)
    BY <1>2, <2>5 DEF IngestCrash, Recover
  <2>6. QED
    BY <2>1, <2>3, <2>4, <2>5
<1>4. CASE RunVerification
  <2>1. PICK k \in Keys : Verify(k) \/ Reject(k) \/ VerifyCrash(k)
    BY <1>4 DEF RunVerification
  <2>2. CASE Verify(k)
    BY <1>1, <2>2, CapVerify
  <2>3. CASE Reject(k)
    <3>1. imp'[k].state = "rejected" /\ \A j \in Keys : j # k => imp'[j] = imp[j]
      BY <1>1, <2>3, DecidedKept DEF Reject
    <3>2. QED
      BY <1>2, <3>1
  <2>4. CASE VerifyCrash(k)
    BY <1>2, <2>4 DEF VerifyCrash, Recover
  <2>5. QED
    BY <2>1, <2>2, <2>3, <2>4
<1>5. CASE Restart
  BY <1>2, <1>5 DEF Restart, Recover
<1>6. CASE Money \/ Serve \/ Admin \/ Vacuum \/ Tick \/ UNCHANGED vars
  <2>1. imp' = imp
    BY <1>6 DEF Money, Deposit, DrawSubmit, DrawSettled, DrawReversed, Serve, ServeAd,
                Admin, Ban, Unban, Vacuum, Tick, vars, store
  <2>2. QED
    BY <1>2, <2>1
<1>7. QED
  BY <1>3, <1>4, <1>5, <1>6 DEF Next

LEMMA CapInvariant == Spec => []CapInv
<1>1. Init => CapInv
  <2>1. SUFFICES ASSUME Init, NEW p \in Publishers, NEW day \in Nat
                 PROVE  CountOn(p, day) <= DailyCap
    BY DEF CapInv
  <2>2. VerifiedOn(p, day) = {}
    BY <2>1 DEF Init, VerifiedOn, InState
  <2>3. CountOn(p, day) = 0 /\ DailyCap \in Nat
    BY <2>2, FS_EmptySet, TimesAssumption DEF CountOn, VerifiedOn
  <2>4. QED
    BY <2>3
<1>2. IInv /\ CapInv /\ [Next]_vars => CapInv'
  BY StepCapped
<1>3. QED
  BY <1>1, <1>2, Invariant, PTL DEF Spec

\* No publisher ever has more verified impressions of one day than the cap,
\* although a round of the verifier counts them one by one and impressions of
\* several days wait in it (Verifier.#anomaly, countToday).
THEOREM CapNeverExceeded == Spec => []DailyCapHolds
<1>1. TypeOK /\ CapInv => DailyCapHolds
  <2>1. SUFFICES ASSUME TypeOK, CapInv, NEW p \in Publishers, NEW t \in 0 .. now
                 PROVE  CountOn(p, DayOf(t)) <= DailyCap
    BY DEF DailyCapHolds
  <2>2. t \in Nat /\ DayLen \in Nat /\ DayLen # 0
    BY <2>1, TimesAssumption DEF TypeOK
  <2>3. DayOf(t) \in Nat
    BY <2>2 DEF DayOf
  <2>4. QED
    BY <2>1, <2>3 DEF CapInv
<1>2. QED
  BY <1>1, TypeCorrect, CapInvariant, PTL

-----------------------------------------------------------------------------
(* The blocks of a campaign *)

ChargedIn(c)  == {id \in Charged : billed[id].campaign = c}
LiveIn(c)     == {n \in Live : delivery[n].campaign = c}
UnpostedIn(c) == {k \in Unposted : imp[k].campaign = c}
PendingIn(c)  == {k \in Pending : imp[k].campaign = c}

\* What was charged, may be reported or is reported and may be charged.
BlockUse(c) ==
  Cardinality(ChargedIn(c)) + Cardinality(LiveIn(c)) + Cardinality(UnpostedIn(c))

BlockInv == \A c \in Campaigns : BlockUse(c) <= BlockLimit[c]

LEMMA BlockSets ==
  ASSUME TypeOK, NEW c
  PROVE  /\ IsFiniteSet(ChargedIn(c)) /\ IsFiniteSet(LiveIn(c))
         /\ IsFiniteSet(UnpostedIn(c)) /\ IsFiniteSet(PendingIn(c))
         /\ Cardinality(ChargedIn(c)) \in Nat /\ Cardinality(LiveIn(c)) \in Nat
         /\ Cardinality(UnpostedIn(c)) \in Nat /\ Cardinality(PendingIn(c)) \in Nat
<1>1. ChargedIn(c) \in SUBSET ImpIds
  BY DEF ChargedIn, Charged
<1>2. LiveIn(c) \in SUBSET Nonces
  BY DEF LiveIn, Live, TypeOK
<1>3. UnpostedIn(c) \in SUBSET Keys /\ PendingIn(c) \in SUBSET Keys
  BY DEF UnpostedIn, PendingIn, Unposted, Pending, InState
<1>4. IsFiniteSet(ImpIds)
  BY SetsAssumption
<1>5. /\ IsFiniteSet(ChargedIn(c)) /\ IsFiniteSet(LiveIn(c))
      /\ IsFiniteSet(UnpostedIn(c)) /\ IsFiniteSet(PendingIn(c))
  BY <1>1, <1>2, <1>3, <1>4, ConstantTypes, FS_Subset
<1>6. QED
  BY <1>5, FS_CardinalityType

\* A part is not larger than the whole.
LEMMA PartSize ==
  ASSUME NEW S, IsFiniteSet(S), NEW T \in SUBSET S
  PROVE  Cardinality(T) <= Cardinality(S) /\ Cardinality(T) \in Nat /\ Cardinality(S) \in Nat
BY FS_Subset, FS_CardinalityType

\* ... and one larger with one more.
LEMMA OneMoreSize ==
  ASSUME NEW S, IsFiniteSet(S), NEW x, NEW T \in SUBSET (S \cup {x})
  PROVE  /\ Cardinality(T) <= Cardinality(S) + 1
         /\ Cardinality(T) \in Nat /\ Cardinality(S) \in Nat
<1>1. IsFiniteSet(S \cup {x}) /\ Cardinality(S) \in Nat
      /\ Cardinality(S \cup {x}) <= Cardinality(S) + 1
  <2>1. IsFiniteSet(S \cup {x}) /\ Cardinality(S) \in Nat
    BY FS_AddElement, FS_CardinalityType
  <2>2. CASE x \in S
    <3>1. S \cup {x} = S
      BY <2>2
    <3>2. QED
      BY <2>1, <3>1
  <2>3. CASE x \notin S
    BY <2>1, <2>3, FS_AddElement
  <2>4. QED
    BY <2>2, <2>3
<1>2. Cardinality(T) <= Cardinality(S \cup {x}) /\ Cardinality(T) \in Nat
      /\ Cardinality(S \cup {x}) \in Nat
  BY <1>1, PartSize
<1>3. QED
  BY <1>1, <1>2

\* ... and one smaller without one of its elements.
LEMMA OneLessSize ==
  ASSUME NEW S, IsFiniteSet(S), NEW x \in S, NEW T \in SUBSET (S \ {x})
  PROVE  /\ Cardinality(T) + 1 <= Cardinality(S)
         /\ Cardinality(T) \in Nat /\ Cardinality(S) \in Nat
<1>1. IsFiniteSet(S \ {x}) /\ Cardinality(S \ {x}) = Cardinality(S) - 1
  BY FS_RemoveElement
<1>2. Cardinality(T) <= Cardinality(S \ {x}) /\ Cardinality(T) \in Nat
  BY <1>1, PartSize
<1>3. Cardinality(S) \in Nat
  BY FS_CardinalityType
<1>4. QED
  BY <1>1, <1>2, <1>3

\* Steps that deliver, report and charge nothing.
LEMMA BlocksKept ==
  ASSUME TypeOK, BlockInv, LiveKept, UnpostedKept, billed' = billed
  PROVE  BlockInv'
<1>1. SUFFICES ASSUME NEW c \in Campaigns
               PROVE  Cardinality(ChargedIn(c)') + Cardinality(LiveIn(c)')
                        + Cardinality(UnpostedIn(c)') <= BlockLimit[c]
  BY DEF BlockInv, BlockUse
<1>2. ChargedIn(c)' = ChargedIn(c)
  BY DEF ChargedIn, Charged
<1>3. LiveIn(c)' \in SUBSET LiveIn(c) /\ UnpostedIn(c)' \in SUBSET UnpostedIn(c)
  BY DEF LiveKept, UnpostedKept, LiveIn, UnpostedIn
<1>4. /\ IsFiniteSet(LiveIn(c)) /\ IsFiniteSet(UnpostedIn(c))
      /\ Cardinality(ChargedIn(c)) \in Nat
  BY BlockSets
<1>5. /\ Cardinality(LiveIn(c)') <= Cardinality(LiveIn(c))
      /\ Cardinality(LiveIn(c)') \in Nat /\ Cardinality(LiveIn(c)) \in Nat
  BY <1>3, <1>4, PartSize
<1>6. /\ Cardinality(UnpostedIn(c)') <= Cardinality(UnpostedIn(c))
      /\ Cardinality(UnpostedIn(c)') \in Nat /\ Cardinality(UnpostedIn(c)) \in Nat
  BY <1>3, <1>4, PartSize
<1>7. BlockUse(c) <= BlockLimit[c] /\ BlockLimit[c] \in Nat
  BY RatesAssumption DEF BlockInv
<1>8. QED
  BY <1>2, <1>4, <1>5, <1>6, <1>7 DEF BlockUse

\* An ad is delivered while less than the blocks is charged, live or pending.
LEMMA ServeBlocks ==
  ASSUME TypeOK, NoncesDelivered, BlockInv,
         NEW p \in Publishers, NEW c \in Campaigns, NEW n \in Nonces,
         NEW rate \in Prices, NEW bps \in Shares, ServeAd(p, c, n, rate, bps)
  PROVE  BlockInv'
<1>1. SUFFICES ASSUME NEW e \in Campaigns
               PROVE  Cardinality(ChargedIn(e)') + Cardinality(LiveIn(e)')
                        + Cardinality(UnpostedIn(e)') <= BlockLimit[e]
  BY DEF BlockInv, BlockUse
<1>2. UNCHANGED <<imp, billed, now>>
  BY DEF ServeAd, ledger
<1>3. ChargedIn(e)' = ChargedIn(e) /\ UnpostedIn(e)' = UnpostedIn(e)
  BY <1>2 DEF ChargedIn, Charged, UnpostedIn, Unposted, Pending, InState
<1>4. n \notin known /\ delivery'[n] = [pub |-> p, campaign |-> c, rate |-> rate, bps |-> bps,
                      expiresAt |-> now + NonceTtl, consumed |-> FALSE]
  BY DEF ServeAd, TypeOK, NoncesDelivered
<1>5. \A m \in known : delivery'[m] = delivery[m]
  BY <1>4 DEF ServeAd, TypeOK
<1>6. LiveIn(e)' \in SUBSET (LiveIn(e) \cup {n})
  BY <1>2, <1>4, <1>5 DEF ServeAd, LiveIn, Live, Unexpired
<1>7. /\ IsFiniteSet(LiveIn(e)) /\ IsFiniteSet(UnpostedIn(e)) /\ IsFiniteSet(PendingIn(e))
      /\ Cardinality(ChargedIn(e)) \in Nat /\ Cardinality(UnpostedIn(e)) \in Nat
      /\ Cardinality(LiveIn(e)) \in Nat /\ Cardinality(PendingIn(e)) \in Nat
  BY BlockSets
<1>8. BlockUse(e) <= BlockLimit[e] /\ BlockLimit[e] \in Nat
  BY RatesAssumption DEF BlockInv
<1>9. CASE e = c
  <2>1. Cardinality(LiveIn(e)') <= Cardinality(LiveIn(e)) + 1
        /\ Cardinality(LiveIn(e)') \in Nat
    BY <1>6, <1>7, OneMoreSize
  <2>2. UnpostedIn(e) \in SUBSET PendingIn(e)
    BY DEF UnpostedIn, PendingIn, Unposted
  <2>3. Cardinality(UnpostedIn(e)) <= Cardinality(PendingIn(e))
    BY <1>7, <2>2, PartSize
  <2>4. Cardinality(ChargedIn(e)) + Cardinality(LiveIn(e)) + Cardinality(PendingIn(e))
          < BlockLimit[e]
    BY <1>9 DEF ServeAd, Eligible, Committed, ChargedIn, Charged, LiveIn, PendingIn
  <2>5. QED
    BY <1>3, <1>7, <1>8, <2>1, <2>3, <2>4
<1>10. CASE e # c
  <2>1. LiveIn(e)' \in SUBSET LiveIn(e)
    BY <1>4, <1>6, <1>10 DEF LiveIn
  <2>2. Cardinality(LiveIn(e)') <= Cardinality(LiveIn(e))
        /\ Cardinality(LiveIn(e)') \in Nat
    BY <1>7, <2>1, PartSize
  <2>3. QED
    BY <1>3, <1>7, <1>8, <2>2 DEF BlockUse
<1>11. QED
  BY <1>9, <1>10

\* A report moves a delivery of the campaign to its pending impressions.
LEMMA AcceptBlocks ==
  ASSUME TypeOK, NoncesDelivered, BlockInv,
         NEW p \in Publishers, NEW id \in ImpIds, NEW n \in Nonces,
         NEW c \in Campaigns, NEW d \in Durations, IngestAccept(p, id, n, c, d)
  PROVE  BlockInv'
<1> DEFINE k == <<p, id>>
<1>1. SUFFICES ASSUME NEW e \in Campaigns
               PROVE  Cardinality(ChargedIn(e)') + Cardinality(LiveIn(e)')
                        + Cardinality(UnpostedIn(e)') <= BlockLimit[e]
  BY DEF BlockInv, BlockUse
<1>2. /\ now' = now /\ known' = known /\ billed' = billed
      /\ delivery' = [delivery EXCEPT ![n].consumed = TRUE]
      /\ n \in known /\ ~delivery[n].consumed /\ delivery[n].expiresAt >= now
      /\ delivery[n].campaign = c /\ imp[k] = NoImp
  BY DEF IngestAccept, ledger, Reportable, FirstReport, InTime, Unexpired
<1>3. k \in Keys
  BY DEF Keys
<1>4. /\ imp'[k].state = "pending" /\ imp'[k].campaign = c
      /\ \A j \in Keys : j # k => imp'[j] = imp[j]
  BY <1>3 DEF IngestAccept, TypeOK
<1> HIDE DEF k
<1>5. /\ \A m \in known : /\ delivery'[m].expiresAt = delivery[m].expiresAt
                          /\ delivery'[m].campaign = delivery[m].campaign
                          /\ m # n => delivery'[m] = delivery[m]
      /\ delivery'[n].consumed
  <2>1. \A m \in known : /\ delivery'[m].expiresAt = delivery[m].expiresAt
                         /\ delivery'[m].campaign = delivery[m].campaign
    BY <1>2, ConsumeKeeps
  <2>2. delivery[n] \in Delivery /\ delivery'[n] = [delivery[n] EXCEPT !.consumed = TRUE]
    BY <1>2 DEF TypeOK, NoncesDelivered
  <2>3. delivery'[n].consumed
    BY <2>2 DEF Delivery
  <2>4. \A m \in known : m # n => delivery'[m] = delivery[m]
    BY <1>2 DEF TypeOK
  <2>5. QED
    BY <2>1, <2>3, <2>4
<1>6. ChargedIn(e)' = ChargedIn(e)
  BY <1>2 DEF ChargedIn, Charged
<1>7. LiveIn(e)' \in SUBSET (LiveIn(e) \ {n})
  BY <1>2, <1>5 DEF LiveIn, Live, Unexpired
<1>8. UnpostedIn(e)' \in SUBSET (UnpostedIn(e) \cup {k})
  BY <1>2, <1>4 DEF UnpostedIn, Unposted, Pending, InState
<1>9. /\ IsFiniteSet(LiveIn(e)) /\ IsFiniteSet(UnpostedIn(e))
      /\ Cardinality(ChargedIn(e)) \in Nat /\ Cardinality(UnpostedIn(e)) \in Nat
      /\ Cardinality(LiveIn(e)) \in Nat
  BY BlockSets
<1>10. BlockUse(e) <= BlockLimit[e] /\ BlockLimit[e] \in Nat
  BY RatesAssumption DEF BlockInv
<1>11. CASE e = c
  <2>1. n \in LiveIn(e)
    BY <1>2, <1>11 DEF LiveIn, Live, Unexpired
  <2>2. Cardinality(LiveIn(e)') + 1 <= Cardinality(LiveIn(e))
        /\ Cardinality(LiveIn(e)') \in Nat
    BY <1>7, <1>9, <2>1, OneLessSize
  <2>3. Cardinality(UnpostedIn(e)') <= Cardinality(UnpostedIn(e)) + 1
        /\ Cardinality(UnpostedIn(e)') \in Nat
    BY <1>8, <1>9, OneMoreSize
  <2>4. QED
    BY <1>6, <1>9, <1>10, <2>2, <2>3 DEF BlockUse
<1>12. CASE e # c
  <2>1. LiveIn(e)' \in SUBSET LiveIn(e) /\ UnpostedIn(e)' \in SUBSET UnpostedIn(e)
    BY <1>4, <1>7, <1>8, <1>12 DEF UnpostedIn
  <2>2. /\ Cardinality(LiveIn(e)') <= Cardinality(LiveIn(e))
        /\ Cardinality(LiveIn(e)') \in Nat
        /\ Cardinality(UnpostedIn(e)') <= Cardinality(UnpostedIn(e))
        /\ Cardinality(UnpostedIn(e)') \in Nat
    BY <1>9, <2>1, PartSize
  <2>3. QED
    BY <1>6, <1>9, <1>10, <2>2 DEF BlockUse
<1>13. QED
  BY <1>11, <1>12

\* A charge takes the place of the impression it is for.
LEMMA PostBlocks ==
  ASSUME TypeOK, BlockInv, LiveKept, NEW k \in Pending, PostImpression(k),
         \A j \in Keys : \/ imp'[j] = imp[j]
                         \/ imp'[j] = NoImp
                         \/ imp'[j].state # "pending"
  PROVE  BlockInv'
<1>1. k \in Keys /\ k[2] \in ImpIds
  BY PendingImpression DEF Keys
<1>2. CASE billed[k[2]] # NoBill
  <2>1. billed' = billed
    BY <1>2 DEF PostImpression
  <2>2. UnpostedKept
    BY <2>1, NothingUnposted
  <2>3. QED
    BY <2>1, <2>2, BlocksKept
<1>3. CASE billed[k[2]] = NoBill
  <2>1. PICK b : /\ billed' = [billed EXCEPT ![k[2]] = b]
                 /\ b = [pub |-> k[1], campaign |-> imp[k].campaign,
                         rate |-> imp[k].rate, bps |-> imp[k].bps, nonce |-> imp[k].nonce]
    BY <1>3 DEF PostImpression
  <2>2. b # NoBill /\ b.campaign = imp[k].campaign
    BY <2>1 DEF NoBill
  <2>3. billed'[k[2]] = b /\ \A i \in ImpIds : i # k[2] => billed'[i] = billed[i]
    BY <1>1, <2>1 DEF TypeOK
  <2>4. UnpostedKept
    <3>1. \A i \in ImpIds : billed[i] # NoBill => billed'[i] # NoBill
      BY <2>2, <2>3
    <3>2. QED
      BY <3>1, NothingUnposted
  <2>5. SUFFICES ASSUME NEW e \in Campaigns
                 PROVE  Cardinality(ChargedIn(e)') + Cardinality(LiveIn(e)')
                          + Cardinality(UnpostedIn(e)') <= BlockLimit[e]
    BY DEF BlockInv, BlockUse
  <2>6. LiveIn(e)' \in SUBSET LiveIn(e)
    BY DEF LiveKept, LiveIn
  <2>7. k \notin UnpostedIn(e)' /\ UnpostedIn(e)' \in SUBSET (UnpostedIn(e) \ {k})
    BY <2>2, <2>3, <2>4 DEF UnpostedKept, UnpostedIn, Unposted
  <2>8. ChargedIn(e)' \in SUBSET (ChargedIn(e) \cup {k[2]})
    BY <2>3 DEF ChargedIn, Charged
  <2>9. /\ IsFiniteSet(LiveIn(e)) /\ IsFiniteSet(UnpostedIn(e)) /\ IsFiniteSet(ChargedIn(e))
        /\ Cardinality(ChargedIn(e)) \in Nat /\ Cardinality(UnpostedIn(e)) \in Nat
        /\ Cardinality(LiveIn(e)) \in Nat
    BY BlockSets
  <2>10. BlockUse(e) <= BlockLimit[e] /\ BlockLimit[e] \in Nat
    BY RatesAssumption DEF BlockInv
  <2>11. Cardinality(LiveIn(e)') <= Cardinality(LiveIn(e)) /\ Cardinality(LiveIn(e)') \in Nat
    BY <2>6, <2>9, PartSize
  <2>12. CASE imp[k].campaign = e
    <3>1. k \in UnpostedIn(e)
      BY <1>3, <2>12 DEF UnpostedIn, Unposted
    <3>2. Cardinality(UnpostedIn(e)') + 1 <= Cardinality(UnpostedIn(e))
          /\ Cardinality(UnpostedIn(e)') \in Nat
      BY <2>7, <2>9, <3>1, OneLessSize
    <3>3. Cardinality(ChargedIn(e)') <= Cardinality(ChargedIn(e)) + 1
          /\ Cardinality(ChargedIn(e)') \in Nat
      BY <2>8, <2>9, OneMoreSize
    <3>4. QED
      BY <2>9, <2>10, <2>11, <3>2, <3>3 DEF BlockUse
  <2>13. CASE imp[k].campaign # e
    <3>1. ChargedIn(e)' \in SUBSET ChargedIn(e) /\ UnpostedIn(e)' \in SUBSET UnpostedIn(e)
      BY <2>2, <2>3, <2>7, <2>8, <2>13 DEF ChargedIn
    <3>2. /\ Cardinality(ChargedIn(e)') <= Cardinality(ChargedIn(e))
          /\ Cardinality(ChargedIn(e)') \in Nat
          /\ Cardinality(UnpostedIn(e)') <= Cardinality(UnpostedIn(e))
          /\ Cardinality(UnpostedIn(e)') \in Nat
      BY <2>9, <3>1, PartSize
    <3>3. QED
      BY <2>9, <2>10, <2>11, <3>2 DEF BlockUse
  <2>14. QED
    BY <2>12, <2>13
<1>4. QED
  BY <1>2, <1>3

LEMMA StepBlocks == ASSUME IInv, BlockInv, [Next]_vars PROVE BlockInv'
<1>1. TypeOK /\ NoncesDelivered /\ ForgottenExpired
  BY DEF IInv
<1>2. ASSUME LiveKept, billed' = billed,
             \A k \in Keys : \/ imp'[k] = imp[k]
                             \/ imp'[k] = NoImp
                             \/ imp'[k].state # "pending"
      PROVE  BlockInv'
  <2>1. UnpostedKept
    BY <1>2, NothingUnposted
  <2>2. QED
    BY <1>1, <1>2, <2>1, BlocksKept
<1>3. CASE Serve
  BY <1>1, <1>3, ServeBlocks DEF Serve
<1>4. CASE Ingest
  <2>1. PICK p \in Publishers, n \in Nonces, c \in Campaigns, d \in Durations,
             id \in ImpIds :
          \/ IngestAccept(p, id, n, c, d)
          \/ \E w \in BOOLEAN : IngestReject(p, id, n, c, d, w)
          \/ IngestCrash(p, id, n, c, d)
    BY <1>4, SetsAssumption DEF Ingest
  <2>2. CASE IngestAccept(p, id, n, c, d)
    BY <1>1, <2>2, AcceptBlocks
  <2>3. ASSUME NEW w \in BOOLEAN, IngestReject(p, id, n, c, d, w) PROVE BlockInv'
    <3>1. LiveKept /\ billed' = billed
      BY <1>1, <2>3, NothingRevived DEF IngestReject, ledger
    <3>2. imp'[<<p, id>>].state = "rejected"
          /\ \A k \in Keys : k # <<p, id>> => imp'[k] = imp[k]
      BY <1>1, <2>3 DEF IngestReject, TypeOK, Keys
    <3>3. QED
      BY <1>2, <3>1, <3>2
  <2>4. CASE IngestCrash(p, id, n, c, d)
    <3>1. n \in known /\ delivery' = [delivery EXCEPT ![n].consumed = TRUE]
          /\ known' = stored /\ now' = now /\ billed' = billed
      BY <2>4 DEF IngestCrash, Reportable, FirstReport, Recover, ledger
    <3>2. LiveKept
      BY <1>1, <3>1, NothingRevived
    <3>3. \A k \in Keys : imp'[k] = imp[k] \/ imp'[k] = NoImp
      BY <2>4 DEF IngestCrash, Recover
    <3>4. QED
      BY <1>2, <3>1, <3>2, <3>3
  <2>5. QED
    BY <2>1, <2>2, <2>3, <2>4
<1>5. CASE RunVerification
  <2>1. PICK k \in Keys : Verify(k) \/ Reject(k) \/ VerifyCrash(k)
    BY <1>5 DEF RunVerification
  <2>2. k \in Pending
    BY <2>1 DEF Verify, Reject, VerifyCrash, Passes
  <2>3. LiveKept
    BY <1>1, <2>1, NothingRevived DEF Verify, Reject, VerifyCrash, Recover
  <2>4. CASE Verify(k)
    <3>1. imp'[k].state = "verified" /\ \A j \in Keys : j # k => imp'[j] = imp[j]
      BY <1>1, <2>2, <2>4, DecidedKept DEF Verify
    <3>2. PostImpression(k) /\ \A j \in Keys : imp'[j] = imp[j] \/ imp'[j].state # "pending"
      BY <2>4, <3>1 DEF Verify
    <3>3. QED
      BY <1>1, <2>2, <2>3, <3>2, PostBlocks
  <2>5. CASE Reject(k)
    <3>1. imp'[k].state = "rejected" /\ \A j \in Keys : j # k => imp'[j] = imp[j]
      BY <1>1, <2>2, <2>5, DecidedKept DEF Reject
    <3>2. billed' = billed /\ \A j \in Keys : imp'[j] = imp[j] \/ imp'[j].state # "pending"
      BY <2>5, <3>1 DEF Reject, ledger
    <3>3. QED
      BY <1>2, <2>3, <3>2
  <2>6. CASE VerifyCrash(k)
    <3>1. PostImpression(k) /\ \A j \in Keys : imp'[j] = imp[j] \/ imp'[j] = NoImp
      BY <2>6 DEF VerifyCrash, Recover
    <3>2. QED
      BY <1>1, <2>2, <2>3, <3>1, PostBlocks
  <2>7. QED
    BY <2>1, <2>4, <2>5, <2>6
<1>6. CASE Restart
  <2>1. UNCHANGED <<delivery, billed, now>> /\ known' = stored
        /\ \A k \in Keys : imp'[k] = imp[k] \/ imp'[k] = NoImp
    BY <1>6 DEF Restart, Recover, ledger
  <2>2. LiveKept
    BY <1>1, <2>1, NothingRevived
  <2>3. QED
    BY <1>2, <2>1, <2>2
<1>7. CASE Money \/ Admin \/ Vacuum \/ Tick \/ UNCHANGED vars
  <2>1. UNCHANGED <<imp, delivery, known, billed>> /\ now' \in {now, now + 1}
    BY <1>7 DEF Money, Deposit, DrawSubmit, DrawSettled, DrawReversed, Admin, Ban, Unban,
                Vacuum, Tick, vars, ledger, store
  <2>2. LiveKept
    BY <1>1, <2>1, NothingRevived
  <2>3. QED
    BY <1>2, <2>1, <2>2
<1>8. QED
  BY <1>3, <1>4, <1>5, <1>6, <1>7 DEF Next

LEMMA BlockInvariant == Spec => []BlockInv
<1>1. Init => BlockInv
  <2>1. SUFFICES ASSUME Init, NEW c \in Campaigns PROVE BlockUse(c) <= BlockLimit[c]
    BY DEF BlockInv
  <2>2. ChargedIn(c) = {} /\ LiveIn(c) = {} /\ UnpostedIn(c) = {}
    BY <2>1 DEF Init, ChargedIn, Charged, LiveIn, Live, UnpostedIn, Unposted, Pending, InState
  <2>3. BlockUse(c) = 0 /\ BlockLimit[c] \in Nat
    BY <2>2, FS_EmptySet, RatesAssumption DEF BlockUse
  <2>4. QED
    BY <2>3
<1>2. IInv /\ BlockInv /\ [Next]_vars => BlockInv'
  BY StepBlocks
<1>3. QED
  BY <1>1, <1>2, Invariant, PTL DEF Spec

\* A campaign is not charged for more impressions than it bought, although
\* the limit is only looked at when an ad is delivered: a delivery holds a
\* place until it expires, a report until it is decided (AdSelector.select,
\* Pipeline.committedImpressions).
THEOREM BlocksHold == Spec => []BlocksNotOversold
<1>1. TypeOK /\ BlockInv => BlocksNotOversold
  <2>1. SUFFICES ASSUME TypeOK, BlockInv, NEW c \in Campaigns
                 PROVE  Cardinality(ChargedIn(c)) <= BlockLimit[c]
    BY DEF BlocksNotOversold, ChargedIn
  <2>2. /\ Cardinality(ChargedIn(c)) \in Nat /\ Cardinality(LiveIn(c)) \in Nat
        /\ Cardinality(UnpostedIn(c)) \in Nat
    BY <2>1, BlockSets
  <2>3. BlockUse(c) <= BlockLimit[c] /\ BlockLimit[c] \in Nat
    BY <2>1, RatesAssumption DEF BlockInv
  <2>4. QED
    BY <2>2, <2>3 DEF BlockUse
<1>2. QED
  BY <1>1, TypeCorrect, BlockInvariant, PTL

-----------------------------------------------------------------------------
(* The ledger balances *)

OpenDraws == {v \in Draws : draw[v] # NoDraw /\ draw[v].state # "failed"}
DrawnAmounts == [w \in OpenDraws |-> draw[w].amount]

GroupsOf(p) == {i \in Charged : billed[i].pub = p}
SharesOf(p) == [id \in GroupsOf(p) |->
                  PublisherShare(billed[id].rate, billed[id].bps)]

MoneyBalanced  == funded = Total(adv) + Total(pub) + platform + Total(DrawnAmounts)
SharesBalanced == \A p \in Publishers : pub[p] = Total(SharesOf(p))

LEMMA LedgerParts == LedgerBalanced <=> MoneyBalanced /\ SharesBalanced
BY DEF LedgerBalanced, MoneyBalanced, SharesBalanced, DrawnAmounts, OpenDraws,
       SharesOf, GroupsOf

LEMMA LedgerTyped ==
  ASSUME TypeOK
  PROVE  /\ IsFiniteSet(Advertisers) /\ IsFiniteSet(Publishers)
         /\ IsFiniteSet(OpenDraws) /\ DrawnAmounts \in [OpenDraws -> Nat]
         /\ Total(adv) \in Nat /\ Total(pub) \in Nat /\ Total(DrawnAmounts) \in Nat
         /\ \A p \in Publishers : /\ IsFiniteSet(GroupsOf(p))
                                  /\ SharesOf(p) \in [GroupsOf(p) -> Nat]
<1>1. IsFiniteSet(Advertisers) /\ IsFiniteSet(Publishers) /\ IsFiniteSet(Draws)
      /\ IsFiniteSet(ImpIds)
  BY SetsAssumption
<1>2. IsFiniteSet(OpenDraws)
  <2>1. OpenDraws \in SUBSET Draws
    BY DEF OpenDraws
  <2>2. QED
    BY <1>1, <2>1, FS_Subset
<1>3. DrawnAmounts \in [OpenDraws -> Nat]
  BY DEF DrawnAmounts, OpenDraws, TypeOK, Draw
<1>4. Total(adv) \in Nat /\ Total(pub) \in Nat /\ Total(DrawnAmounts) \in Nat
  BY <1>1, <1>2, <1>3, TotalType DEF TypeOK
<1>5. ASSUME NEW p \in Publishers
      PROVE  IsFiniteSet(GroupsOf(p)) /\ SharesOf(p) \in [GroupsOf(p) -> Nat]
  <2>1. GroupsOf(p) \in SUBSET ImpIds
    BY DEF GroupsOf, Charged
  <2>2. \A i \in GroupsOf(p) : billed[i].rate \in Nat /\ billed[i].bps \in Shares
    BY ChargedBill DEF GroupsOf, Bill
  <2>3. \A i \in GroupsOf(p) :
          PublisherShare(billed[i].rate, billed[i].bps) \in Nat
    BY <2>2, SharesTyped
  <2>4. QED
    BY <1>1, <2>1, <2>3, FS_Subset DEF SharesOf
<1>6. QED
  BY <1>1, <1>2, <1>3, <1>4, <1>5

\* Money in and out of the account of an advertiser.
LEMMA DepositBalanced ==
  ASSUME TypeOK, MoneyBalanced, NEW a \in Advertisers, NEW x \in Amounts, Deposit(a, x)
  PROVE  MoneyBalanced'
<1>1. x \in Nat /\ adv[a] \in Nat /\ adv[a] + x \in Nat /\ adv \in [Advertisers -> Nat]
  BY ConstantTypes DEF TypeOK
<1>2. /\ adv' \in [Advertisers -> Nat] /\ adv'[a] = adv[a] + x
      /\ \A b \in Advertisers : b # a => adv'[b] = adv[b]
  BY <1>1 DEF Deposit
<1>3. Total(adv') + adv[a] = Total(adv) + (adv[a] + x) /\ Total(adv') \in Nat
  <2>1. IsFiniteSet(Advertisers)
    BY LedgerTyped
  <2>2. QED
    BY <1>1, <1>2, <2>1, TotalUpdate
<1>4. /\ funded' = funded + x /\ pub' = pub /\ platform' = platform
      /\ DrawnAmounts' = DrawnAmounts
  BY DEF Deposit, DrawnAmounts, OpenDraws
<1>5. platform \in Nat
  BY DEF TypeOK
<1>6. QED
  BY <1>1, <1>3, <1>4, <1>5, LedgerTyped DEF MoneyBalanced

LEMMA DrawBalanced ==
  ASSUME TypeOK, TypeOK', MoneyBalanced, NEW w \in Draws, NEW a \in Advertisers,
         NEW x \in Amounts, DrawSubmit(w, a, x)
  PROVE  MoneyBalanced'
<1>1. x \in Nat /\ adv[a] \in Nat /\ adv \in [Advertisers -> Nat]
      /\ adv' \in [Advertisers -> Nat]
  BY ConstantTypes DEF TypeOK
<1>2. adv'[a] = adv[a] - x /\ \A b \in Advertisers : b # a => adv'[b] = adv[b]
  BY <1>1 DEF DrawSubmit
<1>3. adv[a] - x \in Nat
  BY <1>1, <1>2
<1>4. Total(adv') + adv[a] = Total(adv) + (adv[a] - x) /\ Total(adv') \in Nat
  <2>1. IsFiniteSet(Advertisers)
    BY LedgerTyped
  <2>2. Total(adv') + adv[a] = Total(adv) + adv'[a] /\ Total(adv') \in Nat
    BY <1>1, <1>2, <2>1, TotalUpdate
  <2>3. QED
    BY <1>2, <2>2
<1>5. /\ draw'[w] = [adv |-> a, amount |-> x, state |-> "submitted"]
      /\ \A v \in Draws : v # w => draw'[v] = draw[v]
  BY DEF DrawSubmit, TypeOK
<1>6. w \notin OpenDraws /\ OpenDraws' = OpenDraws \cup {w}
  BY <1>5 DEF OpenDraws, DrawSubmit, NoDraw
<1>7. /\ DrawnAmounts' \in [OpenDraws \cup {w} -> Nat] /\ DrawnAmounts'[w] = x
      /\ \A v \in OpenDraws : DrawnAmounts'[v] = DrawnAmounts[v]
  <2>1. DrawnAmounts' = [v \in OpenDraws \cup {w} |-> draw'[v].amount]
    BY <1>6 DEF DrawnAmounts
  <2>2. draw'[w].amount = x /\ \A v \in OpenDraws : draw'[v].amount = draw[v].amount
    BY <1>5, <1>6 DEF OpenDraws
  <2>3. \A v \in OpenDraws : draw[v].amount \in Nat
    BY DEF OpenDraws, TypeOK, Draw
  <2>4. QED
    BY <1>1, <2>1, <2>2, <2>3 DEF DrawnAmounts
<1>8. Total(DrawnAmounts') = Total(DrawnAmounts) + x
  <2>1. IsFiniteSet(OpenDraws) /\ DrawnAmounts \in [OpenDraws -> Nat]
    BY LedgerTyped
  <2>2. QED
    BY <1>6, <1>7, <2>1, TotalExtend
<1>9. funded' = funded /\ pub' = pub /\ platform' = platform /\ platform \in Nat
  BY DEF DrawSubmit, TypeOK
<1>10. QED
  BY <1>1, <1>4, <1>8, <1>9, LedgerTyped DEF MoneyBalanced

LEMMA ReverseBalanced ==
  ASSUME TypeOK, MoneyBalanced, NEW w \in Draws, DrawReversed(w)
  PROVE  MoneyBalanced'
<1>1. draw[w] \in Draw /\ draw[w] # NoDraw /\ draw[w].state = "submitted"
  BY DEF TypeOK, DrawReversed
<1> DEFINE a == draw[w].adv
<1> DEFINE x == draw[w].amount
<1>2. a \in Advertisers /\ x \in Nat
  BY <1>1 DEF Draw
<1>3. adv' = [adv EXCEPT ![a] = adv[a] + x]
  BY DEF DrawReversed
<1>4. adv[a] \in Nat /\ adv[a] + x \in Nat /\ adv \in [Advertisers -> Nat]
  BY <1>2 DEF TypeOK
<1>5. Total(adv') + adv[a] = Total(adv) + (adv[a] + x) /\ Total(adv') \in Nat
  <2>1. /\ adv' \in [Advertisers -> Nat] /\ adv'[a] = adv[a] + x
        /\ \A b \in Advertisers : b # a => adv'[b] = adv[b]
    BY <1>2, <1>3, <1>4
  <2>2. IsFiniteSet(Advertisers)
    BY LedgerTyped
  <2>3. Total(adv') + adv[a] = Total(adv) + adv'[a] /\ Total(adv') \in Nat
    BY <1>2, <1>4, <2>1, <2>2, TotalUpdate
  <2>4. QED
    BY <2>1, <2>3
<1>6. draw'[w].state = "failed" /\ \A v \in Draws : v # w => draw'[v] = draw[v]
  BY <1>1 DEF DrawReversed, TypeOK, Draw
<1>7. w \in OpenDraws /\ OpenDraws' = OpenDraws \ {w} /\ DrawnAmounts[w] = x
  BY <1>1, <1>6 DEF OpenDraws, DrawnAmounts
<1>8. DrawnAmounts' = [v \in OpenDraws \ {w} |-> DrawnAmounts[v]]
  BY <1>6, <1>7 DEF DrawnAmounts, OpenDraws
<1>9. Total(DrawnAmounts) = x + Total(DrawnAmounts')
  BY <1>7, <1>8, LedgerTyped, TotalSplit
<1>10. Total(DrawnAmounts') \in Nat
  <2>1. IsFiniteSet(OpenDraws \ {w}) /\ DrawnAmounts' \in [OpenDraws \ {w} -> Nat]
    BY <1>8, LedgerTyped, FS_RemoveElement
  <2>2. QED
    BY <2>1, TotalType
<1>11. funded' = funded /\ pub' = pub /\ platform' = platform /\ platform \in Nat
  BY DEF DrawReversed, TypeOK
<1> HIDE DEF a, x
<1>12. QED
  BY <1>2, <1>4, <1>5, <1>9, <1>10, <1>11, LedgerTyped DEF MoneyBalanced

\* splitRevenue gives the publisher and the platform the whole rate.
LEMMA SharesSum ==
  ASSUME NEW rate \in Nat, NEW bps \in Shares
  PROVE  PublisherShare(rate, bps) + PlatformShare(rate, bps) = rate
<1>1. bps \in Bps
  BY RatesAssumption DEF Bps
<1>2. QED
  BY <1>1, SplitsExactly

\* A group moves the rate of an impression from the account of the advertiser
\* to that of the publisher and the platform, to the last stroop.
LEMMA PostBalanced ==
  ASSUME TypeOK, TypeOK', RatesTyped, CommittedCovered, MoneyBalanced, SharesBalanced,
         NEW k \in Pending, PostImpression(k), draw' = draw, funded' = funded
  PROVE  MoneyBalanced' /\ SharesBalanced'
<1>1. /\ k \in Keys /\ k[1] \in Publishers /\ k[2] \in ImpIds
      /\ imp[k] \in Impression /\ imp[k].rate \in Nat /\ imp[k].campaign \in Campaigns
      /\ imp[k].bps \in Shares
  BY PendingImpression DEF Keys, Impression
<1>2. DrawnAmounts' = DrawnAmounts
  BY DEF DrawnAmounts, OpenDraws
<1>3. CASE billed[k[2]] # NoBill
  <2>1. UNCHANGED <<adv, pub, platform, billed>>
    BY <1>3 DEF PostImpression
  <2>2. \A p \in Publishers : SharesOf(p)' = SharesOf(p)
    BY <2>1 DEF SharesOf, GroupsOf, Charged
  <2>3. QED
    BY <1>2, <2>1, <2>2 DEF MoneyBalanced, SharesBalanced
<1>4. CASE billed[k[2]] = NoBill
  <2> DEFINE o == Owner[imp[k].campaign]
  <2> DEFINE share == PublisherShare(imp[k].rate, imp[k].bps)
  <2> DEFINE rest == PlatformShare(imp[k].rate, imp[k].bps)
  <2>1. share \in Nat /\ rest \in Nat /\ share + rest = imp[k].rate
    BY <1>1, SharesTyped, SharesSum
  <2>2. o \in Advertisers
    BY <1>1, ConstantTypes
  <2>3. /\ adv' = [adv EXCEPT ![o] = adv[o] - imp[k].rate]
        /\ pub' = [pub EXCEPT ![k[1]] = pub[k[1]] + share]
        /\ platform' = platform + rest
    BY <1>4 DEF PostImpression
  <2>4. PICK b : /\ billed' = [billed EXCEPT ![k[2]] = b]
                 /\ b = [pub |-> k[1], campaign |-> imp[k].campaign,
                         rate |-> imp[k].rate, bps |-> imp[k].bps, nonce |-> imp[k].nonce]
    BY <1>4 DEF PostImpression
  <2>5. b # NoBill /\ b.pub = k[1] /\ PublisherShare(b.rate, b.bps) = share
    BY <2>4 DEF NoBill
  <2>6. billed'[k[2]] = b /\ \A i \in ImpIds : i # k[2] => billed'[i] = billed[i]
    BY <1>1, <2>4 DEF TypeOK
  <2> HIDE DEF o, share, rest
  <2>7. adv[o] \in Nat /\ adv[o] - imp[k].rate \in Nat /\ adv \in [Advertisers -> Nat]
    BY <1>1, <2>2, <2>3 DEF TypeOK
  <2>8. Total(adv') + adv[o] = Total(adv) + (adv[o] - imp[k].rate) /\ Total(adv') \in Nat
    <3>1. /\ adv' \in [Advertisers -> Nat] /\ adv'[o] = adv[o] - imp[k].rate
          /\ \A a \in Advertisers : a # o => adv'[a] = adv[a]
      BY <2>2, <2>3, <2>7
    <3>2. IsFiniteSet(Advertisers)
      BY LedgerTyped
    <3>3. Total(adv') + adv[o] = Total(adv) + adv'[o] /\ Total(adv') \in Nat
      BY <2>2, <2>7, <3>1, <3>2, TotalUpdate
    <3>4. QED
      BY <3>1, <3>3
  <2>9. pub[k[1]] \in Nat /\ pub[k[1]] + share \in Nat /\ pub \in [Publishers -> Nat]
        /\ platform \in Nat
    BY <1>1, <2>1 DEF TypeOK
  <2>10. Total(pub') + pub[k[1]] = Total(pub) + (pub[k[1]] + share) /\ Total(pub') \in Nat
    <3>1. /\ pub' \in [Publishers -> Nat] /\ pub'[k[1]] = pub[k[1]] + share
          /\ \A p \in Publishers : p # k[1] => pub'[p] = pub[p]
      BY <1>1, <2>3, <2>9
    <3>2. IsFiniteSet(Publishers)
      BY LedgerTyped
    <3>3. Total(pub') + pub[k[1]] = Total(pub) + pub'[k[1]] /\ Total(pub') \in Nat
      BY <1>1, <2>9, <3>1, <3>2, TotalUpdate
    <3>4. QED
      BY <3>1, <3>3
  <2>11. MoneyBalanced'
    <3>1. funded = Total(adv) + Total(pub) + platform + Total(DrawnAmounts)
      BY DEF MoneyBalanced
    <3>2. Total(adv) \in Nat /\ Total(pub) \in Nat /\ Total(DrawnAmounts) \in Nat
      BY LedgerTyped
    <3>3. Total(adv') = Total(adv) - imp[k].rate
      BY <1>1, <2>7, <2>8, <3>2
    <3>4. Total(pub') = Total(pub) + share
      BY <2>1, <2>9, <2>10, <3>2
    <3>5. funded' = Total(adv') + Total(pub') + platform' + Total(DrawnAmounts)
      BY <1>1, <2>1, <2>3, <2>9, <3>1, <3>2, <3>3, <3>4
    <3>6. QED
      BY <1>2, <3>5 DEF MoneyBalanced
  <2>12. ASSUME NEW p \in Publishers PROVE pub'[p] = Total(SharesOf(p)')
    <3>1. \A i \in ImpIds : i # k[2] => (i \in GroupsOf(p)' <=> i \in GroupsOf(p))
      BY <2>6 DEF GroupsOf, Charged
    <3>2. k[2] \notin GroupsOf(p) /\ GroupsOf(p) \subseteq ImpIds /\ GroupsOf(p)' \subseteq ImpIds
      BY <1>4 DEF GroupsOf, Charged
    <3>3. \A i \in GroupsOf(p) : SharesOf(p)'[i] = SharesOf(p)[i]
      BY <2>6, <3>1, <3>2 DEF SharesOf, GroupsOf
    <3>4. pub[p] = Total(SharesOf(p))
      BY DEF SharesBalanced
    <3>5. CASE p = k[1]
      <4>1. GroupsOf(p)' = GroupsOf(p) \cup {k[2]}
        BY <1>1, <2>5, <2>6, <3>1, <3>2, <3>5 DEF GroupsOf, Charged
      <4>2. SharesOf(p)'[k[2]] = share
        BY <2>5, <2>6, <4>1 DEF SharesOf
      <4>3. SharesOf(p)' \in [GroupsOf(p) \cup {k[2]} -> Nat]
        <5>1. \A i \in GroupsOf(p) : SharesOf(p)[i] \in Nat
          BY LedgerTyped
        <5>2. DOMAIN SharesOf(p)' = GroupsOf(p) \cup {k[2]}
              /\ SharesOf(p)' = [i \in DOMAIN SharesOf(p)' |-> SharesOf(p)'[i]]
          BY <4>1 DEF SharesOf
        <5>3. QED
          BY <2>1, <3>3, <4>2, <5>1, <5>2
      <4>4. Total(SharesOf(p)') = Total(SharesOf(p)) + share
        <5>1. IsFiniteSet(GroupsOf(p)) /\ SharesOf(p) \in [GroupsOf(p) -> Nat]
          BY LedgerTyped
        <5>2. PICK g : g = SharesOf(p)'
          OBVIOUS
        <5>3. /\ g \in [GroupsOf(p) \cup {k[2]} -> Nat] /\ k[2] \notin GroupsOf(p)
              /\ \A i \in GroupsOf(p) : g[i] = SharesOf(p)[i]
          BY <3>2, <3>3, <4>3, <5>2
        <5>4. Total(g) = Total(SharesOf(p)) + g[k[2]]
          BY <5>1, <5>3, TotalExtend
        <5>5. QED
          BY <4>2, <5>2, <5>4
      <4>5. pub'[p] = pub[p] + share
        BY <2>3, <2>9, <3>5
      <4>6. QED
        BY <3>4, <4>4, <4>5
    <3>6. CASE p # k[1]
      <4>1. GroupsOf(p)' = GroupsOf(p)
        BY <2>5, <2>6, <3>1, <3>2, <3>6 DEF GroupsOf
      <4>2. SharesOf(p)' = SharesOf(p)
        BY <2>6, <3>2, <4>1 DEF SharesOf
      <4>3. pub'[p] = pub[p]
        BY <2>3, <2>9, <3>6
      <4>4. QED
        BY <3>4, <4>2, <4>3
    <3>7. QED
      BY <3>5, <3>6
  <2>13. QED
    BY <2>11, <2>12 DEF SharesBalanced
<1>5. QED
  BY <1>3, <1>4

LEMMA StepBalanced ==
  ASSUME IInv, TypeOK', MoneyBalanced, SharesBalanced, [Next]_vars
  PROVE  MoneyBalanced' /\ SharesBalanced'
<1>1. TypeOK /\ CommittedCovered /\ RatesTyped
  BY RatesAreTyped DEF IInv
<1>2. ASSUME UNCHANGED <<pub, billed>> PROVE SharesBalanced'
  <2>1. \A p \in Publishers : SharesOf(p)' = SharesOf(p)
    BY <1>2 DEF SharesOf, GroupsOf, Charged
  <2>2. QED
    BY <1>2, <2>1 DEF SharesBalanced
<1>3. ASSUME UNCHANGED ledger PROVE MoneyBalanced' /\ SharesBalanced'
  <2>1. UNCHANGED <<adv, pub, platform, billed, draw, funded>>
    BY <1>3 DEF ledger
  <2>2. DrawnAmounts' = DrawnAmounts
    BY <2>1 DEF DrawnAmounts, OpenDraws
  <2>3. QED
    BY <1>2, <2>1, <2>2 DEF MoneyBalanced
<1>4. CASE Money
  <2>1. SharesBalanced'
    BY <1>2, <1>4 DEF Money, Deposit, DrawSubmit, DrawSettled, DrawReversed
  <2>2. ASSUME NEW w \in Draws, DrawSettled(w) PROVE MoneyBalanced'
    <3>1. draw[w] \in Draw /\ draw[w] # NoDraw /\ draw[w].state = "submitted"
      BY <1>1, <2>2 DEF TypeOK, DrawSettled
    <3>2. /\ draw'[w].state = "settled" /\ draw'[w].amount = draw[w].amount
          /\ draw'[w] # NoDraw
          /\ \A v \in Draws : v # w => draw'[v] = draw[v]
      <4>1. draw'[w] = [draw[w] EXCEPT !.state = "settled"]
            /\ \A v \in Draws : v # w => draw'[v] = draw[v]
        BY <1>1, <2>2 DEF DrawSettled, TypeOK
      <4>2. draw'[w] \in Draw /\ draw'[w].state = "settled"
            /\ draw'[w].amount = draw[w].amount
        BY <3>1, <4>1 DEF Draw
      <4>3. draw'[w] # NoDraw
        BY <4>2 DEF Draw, NoDraw
      <4>4. QED
        BY <4>1, <4>2, <4>3
    <3>3. OpenDraws' = OpenDraws
      BY <3>1, <3>2 DEF OpenDraws
    <3>4. DrawnAmounts' = DrawnAmounts
      BY <3>2, <3>3 DEF DrawnAmounts, OpenDraws
    <3>5. QED
      BY <2>2, <3>4 DEF DrawSettled, MoneyBalanced
  <2>3. MoneyBalanced'
    BY <1>1, <1>4, <2>2, DepositBalanced, DrawBalanced, ReverseBalanced DEF Money
  <2>4. QED
    BY <2>1, <2>3
<1>5. CASE RunVerification
  <2>1. PICK k \in Keys : Verify(k) \/ Reject(k) \/ VerifyCrash(k)
    BY <1>5 DEF RunVerification
  <2>2. CASE Reject(k)
    BY <1>3, <2>2 DEF Reject
  <2>3. CASE Verify(k) \/ VerifyCrash(k)
    <3>1. k \in Pending /\ PostImpression(k) /\ draw' = draw /\ funded' = funded
      BY <2>3 DEF Verify, VerifyCrash, Passes
    <3>2. QED
      BY <1>1, <3>1, PostBalanced
  <2>4. QED
    BY <2>1, <2>2, <2>3
<1>6. ASSUME Serve \/ Ingest \/ Admin \/ Vacuum \/ Restart \/ Tick \/ UNCHANGED vars
      PROVE  UNCHANGED ledger
  <2>1. CASE Ingest
    BY <2>1 DEF Ingest, IngestAccept, IngestReject, IngestCrash
  <2>2. CASE Serve \/ Admin \/ Vacuum \/ Restart \/ Tick \/ UNCHANGED vars
    BY <2>2 DEF Serve, ServeAd, Admin, Ban, Unban, Vacuum, Restart, Tick, vars
  <2>3. QED
    BY <1>6, <2>1, <2>2
<1>7. QED
  BY <1>3, <1>4, <1>5, <1>6 DEF Next

\* Nothing has moved yet.
LEMMA InitBalanced == Init => MoneyBalanced /\ SharesBalanced
<1>1. SUFFICES ASSUME Init PROVE MoneyBalanced /\ SharesBalanced
  OBVIOUS
<1>2. Units(adv) = {} /\ Units(pub) = {}
  BY <1>1 DEF Init, Units
<1>3. OpenDraws = {} /\ Charged = {}
  BY <1>1 DEF Init, OpenDraws, Charged
<1>4. Units(DrawnAmounts) = {} /\ \A p \in Publishers : Units(SharesOf(p)) = {}
  BY <1>3 DEF Units, DrawnAmounts, SharesOf, GroupsOf
<1>5. MoneyBalanced
  BY <1>1, <1>2, <1>4, FS_EmptySet DEF Init, MoneyBalanced, Total
<1>6. SharesBalanced
  BY <1>1, <1>4, FS_EmptySet DEF Init, SharesBalanced, Total
<1>7. QED
  BY <1>5, <1>6

\* No money appears or disappears: Ledger.audit finds the books balanced
\* after every step, crashes between postImpression and the saved state
\* included, and rounding (splitRevenue) costs nobody a stroop.
THEOREM BooksBalance == Spec => []LedgerBalanced
<1>1. Init => MoneyBalanced /\ SharesBalanced
  BY InitBalanced
<1>2. IInv /\ TypeOK' /\ (MoneyBalanced /\ SharesBalanced) /\ [Next]_vars
        => (MoneyBalanced /\ SharesBalanced)'
  BY StepBalanced
<1>3. Spec => [](MoneyBalanced /\ SharesBalanced)
  BY <1>1, <1>2, Invariant, TypeCorrect, PTL DEF Spec
<1>4. QED
  BY <1>3, LedgerParts, PTL

-----------------------------------------------------------------------------
(* The pipeline implements the escrow: the state of a price *)

\* There is a group in the ledger for the delivery.
ItemCharged(n) == \E id \in Charged : billed[id].nonce = n

\* No price is both set aside and charged.
LEMMA ReservedNotCharged ==
  ASSUME TypeOK, ChargeInv, NEW n \in Reserving
  PROVE  ~ItemCharged(n)
<1>1. SUFFICES ASSUME NEW id \in Charged, billed[id].nonce = n PROVE FALSE
  BY DEF ItemCharged
<1>2. CASE n \in Live
  BY <1>1, <1>2 DEF Live, ChargeInv, ChargedAsDelivered
<1>3. CASE n \notin Live
  <2>1. PICK k \in Unposted : imp[k].nonce = n
    BY <1>3 DEF Reserving
  <2>2. k \in Accepted /\ billed[k[2]] = NoBill
    BY <2>1 DEF Unposted, Accepted
  <2>3. k = <<billed[id].pub, id>>
    BY <1>1, <2>1, <2>2 DEF ChargeInv, DeliveryChargedOnce
  <2>4. QED
    BY <2>2, <2>3 DEF Charged
<1>4. QED
  BY <1>2, <1>3

\* Only deliveries set money aside.
LEMMA ReservingDelivered ==
  ASSUME TypeOK, NoncesDelivered, ChargeInv, NEW n \in Reserving
  PROVE  n \in Nonces /\ delivery[n] # NoDelivery /\ delivery[n] \in Delivery
<1>1. CASE n \in Live
  BY <1>1, LiveDelivery DEF Live, NoncesDelivered
<1>2. CASE n \notin Live
  <2>1. PICK k \in Unposted : imp[k].nonce = n
    BY <1>2 DEF Reserving
  <2>2. k \in Accepted
    BY <2>1 DEF Unposted, Accepted
  <2>3. n \in Nonces /\ delivery[n] # NoDelivery
    BY <2>1, <2>2, AcceptedImpression DEF ChargeInv, AcceptedAsDelivered
  <2>4. QED
    BY <2>3 DEF TypeOK
<1>3. QED
  BY <1>1, <1>2

\* PriceState with its first two cases in order: they never overlap.
ItemState(n) == IF ItemCharged(n) THEN "charged"
                ELSE IF n \in Reserving THEN "held" ELSE "released"

ItemShape ==
  EscrowItem = [n \in Nonces |->
                  IF delivery[n] = NoDelivery
                  THEN [state |-> "new"]
                  ELSE [state |-> ItemState(n),
                        adv |-> Owner[delivery[n].campaign],
                        price |-> delivery[n].rate]]

LEMMA ItemIs == TypeOK /\ ChargeInv => ItemShape
<1>1. SUFFICES ASSUME TypeOK, ChargeInv, NEW n \in Nonces
               PROVE  PriceState(n) = ItemState(n)
  BY DEF EscrowItem, ItemShape
<1>2. CASE ItemCharged(n)
  <2>1. n \notin Reserving
    BY <1>1, <1>2, ReservedNotCharged
  <2>2. QED
    BY <1>2, <2>1 DEF PriceState, ItemState, ItemCharged
<1>3. CASE ~ItemCharged(n)
  BY <1>3 DEF PriceState, ItemState, ItemCharged
<1>4. QED
  BY <1>2, <1>3

LEMMA ItemIsNext == (TypeOK /\ ChargeInv)' => ItemShape'
BY ItemIs, PTL

\* What the escrow holds are the deliveries that reserve money.
LEMMA HeldIsReserving ==
  ASSUME TypeOK, NoncesDelivered, ChargeInv
  PROVE  E!Held = Reserving
<1>1. ItemShape
  BY ItemIs
<1>2. ASSUME NEW n \in Reserving PROVE n \in E!Held
  <2>1. n \in Nonces /\ delivery[n] # NoDelivery /\ ~ItemCharged(n)
    BY <1>2, ReservingDelivered, ReservedNotCharged
  <2>2. EscrowItem[n].state = "held"
    BY <1>1, <1>2, <2>1 DEF ItemShape, ItemState
  <2>3. QED
    BY <2>1, <2>2 DEF E!Held
<1>3. ASSUME NEW n \in E!Held PROVE n \in Reserving
  <2>1. n \in Nonces /\ EscrowItem[n].state = "held"
    BY <1>3 DEF E!Held
  <2>2. delivery[n] # NoDelivery
    BY <1>1, <2>1 DEF ItemShape
  <2>3. QED
    BY <1>1, <2>1, <2>2 DEF ItemShape, ItemState
<1>4. QED
  BY <1>2, <1>3

\* The operators that Escrow takes from Totals are the same ones.
LEMMA SameCardinality == \A S : E!Cardinality(S) = Cardinality(S)
BY DEF E!Cardinality, Cardinality

LEMMA SameTotal == \A f : E!Total(f) = Total(f)
BY SameCardinality DEF E!Total, E!Units, Total, Units

\* The deliveries of an advertiser that reserve money, and those of them
\* that were reported.
ReservingOf(a) == {n \in Reserving : Owner[delivery[n].campaign] = a}
UnpostedNonces(a) == {imp[k].nonce : k \in UnpostedOf(a)}

LEMMA SetAsideIs ==
  ASSUME TypeOK, NoncesDelivered, ChargeInv, NEW a \in Advertisers
  PROVE  /\ E!SetAside(a) = Total([n \in ReservingOf(a) |-> delivery[n].rate])
         /\ [n \in ReservingOf(a) |-> delivery[n].rate] \in [ReservingOf(a) -> Nat]
         /\ IsFiniteSet(ReservingOf(a))
<1>1. ItemShape /\ E!Held = Reserving
  BY ItemIs, HeldIsReserving
<1>2. \A n \in Reserving : /\ n \in Nonces /\ delivery[n] # NoDelivery /\ delivery[n] \in Delivery
                           /\ EscrowItem[n].adv = Owner[delivery[n].campaign]
                           /\ EscrowItem[n].price = delivery[n].rate
  <2>1. TAKE n \in Reserving
  <2>2. n \in Nonces /\ delivery[n] # NoDelivery /\ delivery[n] \in Delivery
    BY ReservingDelivered
  <2>3. EscrowItem[n] = [state |-> ItemState(n), adv |-> Owner[delivery[n].campaign],
                         price |-> delivery[n].rate]
    BY <1>1, <2>2 DEF ItemShape
  <2>4. QED
    BY <2>2, <2>3
<1>3. {m \in E!Held : EscrowItem[m].adv = a} = ReservingOf(a)
  BY <1>1, <1>2 DEF ReservingOf
<1>4. [n \in {m \in E!Held : EscrowItem[m].adv = a} |-> EscrowItem[n].price]
        = [n \in ReservingOf(a) |-> delivery[n].rate]
  BY <1>2, <1>3 DEF ReservingOf
<1>5. ReservingOf(a) \in SUBSET Nonces
  BY <1>2 DEF ReservingOf
<1>6. IsFiniteSet(ReservingOf(a))
  BY <1>5, ConstantTypes, FS_Subset
<1>7. [n \in ReservingOf(a) |-> delivery[n].rate] \in [ReservingOf(a) -> Nat]
  BY <1>2 DEF ReservingOf, Delivery
<1>8. QED
  BY <1>4, <1>6, <1>7, SameTotal DEF E!SetAside

\* An unposted impression carries the terms of its delivery.
LEMMA UnpostedAsDelivered ==
  ASSUME TypeOK, ChargeInv, NEW k \in Unposted
  PROVE  /\ imp[k].nonce \in Nonces /\ delivery[imp[k].nonce] # NoDelivery
         /\ delivery[imp[k].nonce].consumed
         /\ imp[k].campaign = delivery[imp[k].nonce].campaign
         /\ imp[k].rate = delivery[imp[k].nonce].rate
<1>1. k \in Accepted
  BY DEF Unposted, Accepted
<1>2. imp[k].nonce \in Nonces
  BY <1>1, AcceptedImpression
<1>3. QED
  BY <1>1, <1>2 DEF ChargeInv, AcceptedAsDelivered

\* The escrow sets aside at most the exposure: a delivery that can be reported
\* is in the first part, one that was reported is an impression of the second.
LEMMA SetAsideReserved ==
  ASSUME TypeOK, NoncesDelivered, ChargeInv, RatesTyped, NEW a \in Advertisers
  PROVE  E!SetAside(a) \in Nat /\ E!SetAside(a) <= Exposure(a)
<1> DEFINE f == [n \in ReservingOf(a) |-> delivery[n].rate]
           A == LiveOf(a)
           B == UnpostedNonces(a)
           g == [n \in B |-> delivery[n].rate]
<1>1. /\ f \in [ReservingOf(a) -> Nat] /\ IsFiniteSet(ReservingOf(a))
      /\ E!SetAside(a) = Total(f)
  BY SetAsideIs
<1>2. \A k \in UnpostedOf(a) : /\ delivery[imp[k].nonce].consumed
                               /\ imp[k].nonce \in ReservingOf(a)
                               /\ imp[k].rate = delivery[imp[k].nonce].rate
  BY UnpostedAsDelivered DEF UnpostedOf, ReservingOf, Reserving
<1>3. A \in SUBSET ReservingOf(a) /\ B \in SUBSET ReservingOf(a)
  BY <1>2 DEF LiveOf, ReservingOf, Reserving, UnpostedNonces
<1>4. A \cap B = {}
  BY <1>2 DEF LiveOf, Live, UnpostedNonces
<1>5. \A n \in ReservingOf(a) : n \in A \cup B
  <2>1. TAKE n \in ReservingOf(a)
  <2>2. CASE n \in Live
    BY <2>2 DEF ReservingOf, LiveOf
  <2>3. CASE n \notin Live
    <3>1. PICK k \in Unposted : imp[k].nonce = n
      BY <2>3 DEF ReservingOf, Reserving
    <3>2. Owner[imp[k].campaign] = a
      BY <3>1, UnpostedAsDelivered DEF ReservingOf
    <3>3. QED
      BY <3>1, <3>2 DEF UnpostedNonces, UnpostedOf
  <2>4. QED
    BY <2>2, <2>3
<1>6. /\ Total(f) = Total([n \in A |-> f[n]]) + Total([n \in B |-> f[n]])
      /\ Total([n \in A |-> f[n]]) \in Nat /\ Total([n \in B |-> f[n]]) \in Nat
  <2> HIDE DEF f, A, B
  <2>1. QED
    BY <1>1, <1>3, <1>4, <1>5, TotalParts
<1>7. [n \in A |-> f[n]] = LiveRates(a)
  BY <1>3 DEF LiveRates, LiveOf
<1>8. [n \in B |-> f[n]] = g
  BY <1>3
<1>9. Total(g) <= Total(UnpostedRates(a))
  <2>1. IsFiniteSet(B) /\ g \in [B -> Nat]
    BY <1>1, <1>3, FS_Subset
  <2>2. IsFiniteSet(UnpostedOf(a)) /\ UnpostedRates(a) \in [UnpostedOf(a) -> Nat]
    BY DEF RatesTyped
  <2> DEFINE h == [n \in B |-> CHOOSE k \in UnpostedOf(a) : imp[k].nonce = n]
  <2>3. \A n \in B : h[n] \in UnpostedOf(a) /\ imp[h[n]].nonce = n
    BY DEF UnpostedNonces
  <2>4. \A x, y \in B : h[x] = h[y] => x = y
    BY <2>3
  <2>5. \A n \in B : g[n] = UnpostedRates(a)[h[n]]
    <3>1. TAKE n \in B
    <3>2. h[n] \in UnpostedOf(a) /\ imp[h[n]].nonce = n
      BY <2>3
    <3>3. UnpostedRates(a)[h[n]] = imp[h[n]].rate
      BY <3>2 DEF UnpostedRates, UnpostedOf
    <3>4. QED
      BY <1>2, <3>2, <3>3
  <2>6. h \in [B -> UnpostedOf(a)]
    BY <2>3
  <2> HIDE DEF h, g, B
  <2>7. QED
    BY <2>1, <2>2, <2>4, <2>5, <2>6, TotalImage
<1>10. Total(LiveRates(a)) \in Nat /\ Total(UnpostedRates(a)) \in Nat
  BY ExposureTotals
<1>11. Total(f) = Total(LiveRates(a)) + Total(g)
  BY <1>6, <1>7, <1>8
<1>12. Total(g) \in Nat
  BY <1>6, <1>8
<1> HIDE DEF f, g
<1>13. QED
  BY <1>1, <1>9, <1>10, <1>11, <1>12 DEF Exposure

-----------------------------------------------------------------------------
(* What a restart keeps *)

\* A delivery vacuumed and not yet forgotten by the memory has expired.
UnexpiredStored == \A n \in known : n \in stored \/ delivery[n].expiresAt < now
\* What waits for its verification is on disk.
PendingKept     == Pending \subseteq kept
\* A publisher reports under its own ids.
OwnIds          == \A k \in Keys : imp[k] # NoImp => k[2] \in IdsOf[k[1]]
FundsBounded    == funded <= MaxFunds

\* The invariant that a restart needs: it drops nothing that reserves money.
KeepInv == UnexpiredStored /\ PendingKept /\ OwnIds /\ FundsBounded

\* No impression is new, and none waits that did not.
LEMMA OldImpressionsKept ==
  ASSUME PendingKept, OwnIds, kept' = kept,
         \A k \in Keys : \/ imp'[k] = imp[k]
                         \/ imp'[k] = NoImp
                         \/ imp[k] # NoImp /\ imp'[k].state # "pending"
  PROVE  PendingKept' /\ OwnIds'
<1>1. \A k \in Keys : imp'[k] # NoImp => imp[k] # NoImp
  OBVIOUS
<1>2. \A k \in Pending' : k \in Pending
  BY DEF Pending, InState
<1>3. QED
  BY <1>1, <1>2 DEF PendingKept, OwnIds

\* A step that stores nothing new forgets nothing that may be reported.
LEMMA StoredAsBefore ==
  ASSUME TypeOK, NoncesDelivered, ForgottenExpired, UnexpiredStored,
         known' \in {known, stored}, stored' = stored, now' \in {now, now + 1},
         delivery' = delivery \/ \E n \in known : delivery' = [delivery EXCEPT ![n].consumed = TRUE]
  PROVE  UnexpiredStored'
<1>1. \A m \in known \cup stored : /\ delivery'[m].expiresAt = delivery[m].expiresAt
                                   /\ delivery[m].expiresAt \in Nat
  <2>1. \A m \in known \cup stored : m \in Nonces /\ delivery[m] \in Delivery
    BY DEF TypeOK, NoncesDelivered
  <2>2. CASE delivery' = delivery
    BY <2>1, <2>2 DEF Delivery
  <2>3. CASE \E n \in known : delivery' = [delivery EXCEPT ![n].consumed = TRUE]
    BY <2>1, <2>3, ConsumeKeeps DEF Delivery
  <2>4. QED
    BY <2>2, <2>3
<1>2. now \in Nat
  BY DEF TypeOK
<1>3. SUFFICES ASSUME NEW n \in known', n \notin stored' PROVE delivery'[n].expiresAt < now'
  BY DEF UnexpiredStored
<1>4. n \in known /\ n \notin stored
  BY <1>3
<1>5. delivery[n].expiresAt < now
  BY <1>4 DEF UnexpiredStored
<1>6. QED
  BY <1>1, <1>2, <1>4, <1>5

LEMMA ServeKeeps ==
  ASSUME IInv, KeepInv, NEW p \in Publishers, NEW c \in Campaigns, NEW n \in Nonces,
         NEW rate \in Prices, NEW bps \in Shares, ServeAd(p, c, n, rate, bps)
  PROVE  KeepInv'
<1>1. TypeOK /\ NoncesDelivered
  BY DEF IInv
<1>2. imp' = imp /\ kept' = kept /\ funded' = funded /\ now' = now
  BY DEF ServeAd, ledger
<1>3. PendingKept' /\ OwnIds'
  BY <1>2, OldImpressionsKept DEF KeepInv
<1>4. \A m \in known' : m = n \/ m \in known
  BY DEF ServeAd
<1>5. n \in stored' /\ stored \subseteq stored'
  BY DEF ServeAd
<1>6. \A m \in Nonces : m # n => delivery'[m] = delivery[m]
  BY <1>1 DEF ServeAd, TypeOK
<1>7. UnexpiredStored'
  <2>1. SUFFICES ASSUME NEW m \in known', m \notin stored' PROVE delivery'[m].expiresAt < now'
    BY DEF UnexpiredStored
  <2>2. m \in known /\ m # n /\ m \in Nonces /\ m \notin stored
    BY <1>1, <1>4, <1>5, <2>1 DEF TypeOK
  <2>3. QED
    BY <1>2, <1>6, <2>2 DEF KeepInv, UnexpiredStored
<1>8. QED
  BY <1>2, <1>3, <1>7 DEF KeepInv, FundsBounded

LEMMA IngestKeeps == ASSUME IInv, KeepInv, Ingest PROVE KeepInv'
<1>1. TypeOK /\ NoncesDelivered /\ ForgottenExpired
  BY DEF IInv
<1>2. PICK p \in Publishers, n \in Nonces, c \in Campaigns, d \in Durations, id \in ImpIds :
        /\ id \in IdsOf[p]
        /\ \/ IngestAccept(p, id, n, c, d)
           \/ \E w \in BOOLEAN : IngestReject(p, id, n, c, d, w)
           \/ IngestCrash(p, id, n, c, d)
  BY SetsAssumption DEF Ingest
<1>3. <<p, id>> \in Keys
  BY DEF Keys
<1>4. /\ known' \in {known, stored} /\ stored' = stored /\ now' = now /\ funded' = funded
      /\ delivery' = delivery \/ \E m \in known : delivery' = [delivery EXCEPT ![m].consumed = TRUE]
  BY <1>2 DEF IngestAccept, IngestReject, IngestCrash, Recover, Reportable, FirstReport, ledger
<1>5. UnexpiredStored' /\ FundsBounded'
  BY <1>1, <1>4, StoredAsBefore DEF KeepInv, FundsBounded
<1>6. CASE IngestCrash(p, id, n, c, d)
  <2>1. kept' = kept /\ \A k \in Keys : imp'[k] = imp[k] \/ imp'[k] = NoImp
    BY <1>6 DEF IngestCrash, Recover
  <2>2. QED
    BY <1>5, <2>1, OldImpressionsKept DEF KeepInv
<1>7. CASE ~IngestCrash(p, id, n, c, d)
  <2>1. kept' = kept \cup {<<p, id>>} /\ \A k \in Keys : k # <<p, id>> => imp'[k] = imp[k]
    BY <1>1, <1>2, <1>7 DEF IngestAccept, IngestReject, TypeOK
  <2>2. PendingKept'
    BY <2>1 DEF KeepInv, PendingKept, Pending, InState
  <2>3. OwnIds'
    <3>1. SUFFICES ASSUME NEW k \in Keys, imp'[k] # NoImp PROVE k[2] \in IdsOf[k[1]]
      BY DEF OwnIds
    <3>2. CASE k = <<p, id>>
      BY <1>2, <3>2
    <3>3. CASE k # <<p, id>>
      BY <2>1, <3>1, <3>3 DEF KeepInv, OwnIds
    <3>4. QED
      BY <3>2, <3>3
  <2>4. QED
    BY <1>5, <2>2, <2>3 DEF KeepInv
<1>8. QED
  BY <1>6, <1>7

LEMMA VerificationKeeps == ASSUME IInv, KeepInv, RunVerification PROVE KeepInv'
<1>1. TypeOK /\ NoncesDelivered /\ ForgottenExpired
  BY DEF IInv
<1>2. PICK k \in Keys : Verify(k) \/ Reject(k) \/ VerifyCrash(k)
  BY DEF RunVerification
<1>3. /\ known' \in {known, stored} /\ stored' = stored /\ now' = now /\ delivery' = delivery
      /\ funded' = funded /\ kept' = kept
  BY <1>2 DEF Verify, Reject, VerifyCrash, Recover, ledger
<1>4. UnexpiredStored' /\ FundsBounded'
  BY <1>1, <1>3, StoredAsBefore DEF KeepInv, FundsBounded
<1>5. \A j \in Keys : \/ imp'[j] = imp[j]
                      \/ imp'[j] = NoImp
                      \/ imp[j] # NoImp /\ imp'[j].state # "pending"
  <2>1. k \in Pending /\ imp[k] # NoImp
    BY <1>2 DEF Verify, Reject, VerifyCrash, Passes, Pending, InState
  <2>2. CASE Verify(k)
    BY <1>1, <2>1, <2>2, DecidedKept DEF Verify
  <2>3. CASE Reject(k)
    BY <1>1, <2>1, <2>3, DecidedKept DEF Reject
  <2>4. CASE VerifyCrash(k)
    BY <2>4 DEF VerifyCrash, Recover
  <2>5. QED
    BY <1>2, <2>2, <2>3, <2>4
<1>6. QED
  BY <1>3, <1>4, <1>5, OldImpressionsKept DEF KeepInv

LEMMA VacuumKeeps == ASSUME IInv, KeepInv, Vacuum PROVE KeepInv'
<1>1. TypeOK /\ NoncesDelivered
  BY DEF IInv
<1>2. imp' = imp /\ known' = known /\ now' = now /\ delivery' = delivery /\ funded' = funded
  BY DEF Vacuum, ledger
<1>3. PendingKept' /\ OwnIds'
  BY <1>2 DEF Vacuum, KeepInv, PendingKept, OwnIds, Pending, InState
<1>4. UnexpiredStored'
  <2>1. SUFFICES ASSUME NEW n \in known, n \notin stored', n \in stored
                 PROVE  delivery[n].expiresAt < now
    BY <1>2 DEF KeepInv, UnexpiredStored
  <2>2. n \in Nonces /\ delivery[n] \in Delivery /\ now \in Nat /\ GcAfter \in Nat
    BY <1>1, ConstantTypes DEF TypeOK, NoncesDelivered
  <2>3. ~(delivery[n].expiresAt >= now - GcAfter)
    BY <2>1 DEF Vacuum
  <2>4. QED
    BY <2>2, <2>3 DEF Delivery
<1>5. QED
  BY <1>2, <1>3, <1>4 DEF KeepInv, FundsBounded

LEMMA StepKeeps == ASSUME IInv, KeepInv, [Next]_vars PROVE KeepInv'
<1>1. TypeOK /\ NoncesDelivered /\ ForgottenExpired
  BY DEF IInv
<1>2. ASSUME UNCHANGED <<delivery, stored, kept>>, known' \in {known, stored}, now' \in {now, now + 1},
             \A k \in Keys : imp'[k] = imp[k] \/ imp'[k] = NoImp, funded' <= MaxFunds
      PROVE  KeepInv'
  <2>1. UnexpiredStored'
    BY <1>1, <1>2, StoredAsBefore DEF KeepInv
  <2>2. PendingKept' /\ OwnIds'
    BY <1>2, OldImpressionsKept DEF KeepInv
  <2>3. QED
    BY <1>2, <2>1, <2>2 DEF KeepInv, FundsBounded
<1>3. funded <= MaxFunds
  BY DEF KeepInv, FundsBounded
<1>4. CASE Money
  <2>1. UNCHANGED <<store, now>>
    BY <1>4 DEF Money, Deposit, DrawSubmit, DrawSettled, DrawReversed
  <2>2. funded' <= MaxFunds
    BY <1>3, <1>4 DEF Money, Deposit, DrawSubmit, DrawSettled, DrawReversed
  <2>3. QED
    BY <1>2, <2>1, <2>2 DEF store
<1>5. CASE Serve
  BY <1>5, ServeKeeps DEF Serve
<1>6. CASE Admin
  BY <1>2, <1>3, <1>6 DEF Admin, Ban, Unban, store, ledger
<1>7. CASE Restart
  <2>1. UNCHANGED <<delivery, stored, kept, funded, now>> /\ known' = stored
        /\ \A k \in Keys : imp'[k] = imp[k] \/ imp'[k] = NoImp
    BY <1>7 DEF Restart, Recover, ledger
  <2>2. QED
    BY <1>2, <1>3, <2>1
<1>8. CASE Tick
  BY <1>2, <1>3, <1>8 DEF Tick, store, ledger
<1>9. CASE UNCHANGED vars
  BY <1>2, <1>3, <1>9 DEF vars, store, ledger
<1>10. QED
  BY <1>4, <1>5, <1>6, <1>7, <1>8, <1>9, IngestKeeps, VerificationKeeps, VacuumKeeps DEF Next

LEMMA KeepInvariant == Spec => []KeepInv
<1>1. Init => KeepInv
  <2>1. Init => UnexpiredStored /\ OwnIds /\ PendingKept
    BY DEF Init, UnexpiredStored, OwnIds, PendingKept, Pending, InState
  <2>2. Init => FundsBounded
    BY TimesAssumption DEF Init, FundsBounded
  <2>3. QED
    BY <2>1, <2>2 DEF KeepInv
<1>2. IInv /\ KeepInv /\ [Next]_vars => KeepInv'
  BY StepKeeps
<1>3. QED
  BY <1>1, <1>2, Invariant, PTL DEF Spec

-----------------------------------------------------------------------------
(* The steps as the escrow sees them *)

\* A step of the pipeline as the escrow sees it.
EscrowStep == [E!Next]_<<adv, EscrowItem>>

\* The terms of the deliveries do not change.
SameDeliveries ==
  \A n \in Nonces :
    \/ delivery'[n] = delivery[n]
    \/ /\ delivery[n] # NoDelivery /\ delivery'[n] # NoDelivery
       /\ delivery'[n].campaign = delivery[n].campaign
       /\ delivery'[n].rate = delivery[n].rate

\* A step without a charge or a new delivery can only give money back.
LEMMA OnlyReleased ==
  ASSUME TypeOK, NoncesDelivered, ChargeInv, (TypeOK /\ ChargeInv)', SameDeliveries,
         UNCHANGED <<adv, billed>>, Reserving' \subseteq Reserving
  PROVE  EscrowStep
<1> DEFINE gone == Reserving \ Reserving'
<1>1. ItemShape /\ ItemShape' /\ E!Held = Reserving
  BY ItemIs, ItemIsNext, HeldIsReserving
<1>2. \A n \in Nonces : ItemCharged(n)' <=> ItemCharged(n)
  BY DEF ItemCharged, Charged
<1>3. \A n \in Reserving : n \in Nonces /\ delivery[n] # NoDelivery /\ ~ItemCharged(n)
  BY ReservingDelivered, ReservedNotCharged
<1>4. EscrowItem' = [n \in Nonces |->
                       IF n \in gone THEN [EscrowItem[n] EXCEPT !.state = "released"]
                                     ELSE EscrowItem[n]]
  <2>1. SUFFICES ASSUME NEW n \in Nonces
                 PROVE  EscrowItem'[n] = IF n \in gone
                                         THEN [EscrowItem[n] EXCEPT !.state = "released"]
                                         ELSE EscrowItem[n]
    <3>1. DOMAIN EscrowItem' = Nonces /\ EscrowItem' = [n \in Nonces |-> EscrowItem'[n]]
      BY <1>1 DEF ItemShape
    <3>2. QED
      BY <3>1
  <2>2. CASE delivery[n] = NoDelivery
    <3>1. delivery'[n] = NoDelivery /\ n \notin gone
      BY <1>3, <2>2 DEF SameDeliveries
    <3>2. QED
      BY <1>1, <2>2, <3>1 DEF ItemShape
  <2>3. CASE delivery[n] # NoDelivery
    <3>1. /\ delivery'[n] # NoDelivery /\ delivery'[n].campaign = delivery[n].campaign
          /\ delivery'[n].rate = delivery[n].rate
      BY <2>3 DEF SameDeliveries
    <3>2. /\ EscrowItem[n] = [state |-> ItemState(n), adv |-> Owner[delivery[n].campaign],
                              price |-> delivery[n].rate]
          /\ EscrowItem'[n] = [state |-> ItemState(n)', adv |-> Owner[delivery[n].campaign],
                               price |-> delivery[n].rate]
      BY <1>1, <2>3, <3>1 DEF ItemShape
    <3>3. ItemState(n)' = IF n \in gone THEN "released" ELSE ItemState(n)
      BY <1>2, <1>3 DEF ItemState
    <3>4. QED
      BY <3>2, <3>3
  <2>4. QED
    BY <2>2, <2>3
<1>5. gone \in SUBSET Nonces /\ gone \subseteq E!Held
  BY <1>1, <1>3
<1>6. E!Release(gone)
  BY <1>4, <1>5 DEF E!Release
<1>7. QED
  BY <1>5, <1>6 DEF EscrowStep, E!Next

LEMMA ReservingShrinks ==
  ASSUME LiveKept, UnpostedKept, AcceptedKept
  PROVE  Reserving' \subseteq Reserving
<1>1. \A k \in Unposted' : k \in Unposted /\ imp'[k].nonce = imp[k].nonce
  BY DEF UnpostedKept, AcceptedKept, Unposted, Accepted
<1>2. \A n \in Live' : n \in Live
  BY DEF LiveKept
<1>3. QED
  BY <1>1, <1>2 DEF Reserving

\* A step that changes neither the balances, nor the ledger, nor what waits.
LEMMA NothingHappened ==
  ASSUME TypeOK, NoncesDelivered, ForgottenExpired, ChargeInv, (TypeOK /\ ChargeInv)',
         UNCHANGED <<adv, billed>>, known' \in {known, stored}, now' \in {now, now + 1},
         delivery' = delivery \/ \E n \in known : delivery' = [delivery EXCEPT ![n].consumed = TRUE],
         AcceptedKept,
         \A k \in Keys : \/ imp'[k] = imp[k]
                         \/ imp'[k] = NoImp
                         \/ imp'[k].state # "pending"
  PROVE  EscrowStep
<1>1. LiveKept /\ UnpostedKept
  BY NothingRevived, NothingUnposted
<1>2. Reserving' \subseteq Reserving
  BY <1>1, ReservingShrinks
<1>3. SameDeliveries
  <2>1. CASE delivery' = delivery
    BY <2>1 DEF SameDeliveries
  <2>2. ASSUME NEW n \in known, delivery' = [delivery EXCEPT ![n].consumed = TRUE]
        PROVE  SameDeliveries
    <3>1. n \in Nonces /\ delivery[n] # NoDelivery
      BY DEF TypeOK, NoncesDelivered
    <3>2. \A m \in Nonces : m # n => delivery'[m] = delivery[m]
      BY <2>2 DEF TypeOK
    <3>3. /\ delivery'[n] # NoDelivery /\ delivery'[n].campaign = delivery[n].campaign
          /\ delivery'[n].rate = delivery[n].rate
      BY <2>2, ConsumeKeeps
    <3>4. QED
      BY <3>1, <3>2, <3>3 DEF SameDeliveries
  <2>3. QED
    BY <2>1, <2>2
<1>4. QED
  BY <1>2, <1>3, OnlyReleased

\* A report keeps the price reserved, or gives it back if the ledger already
\* has a group under the id it comes with.
LEMMA AcceptReleases ==
  ASSUME TypeOK, NoncesDelivered, ChargeInv, (TypeOK /\ ChargeInv)',
         NEW p \in Publishers, NEW id \in ImpIds, NEW n \in Nonces,
         NEW c \in Campaigns, NEW d \in Durations, IngestAccept(p, id, n, c, d)
  PROVE  EscrowStep
<1>1. n \in Live /\ n \in known /\ delivery[n] # NoDelivery
  BY DEF IngestAccept, Reportable, FirstReport, InTime, Live, NoncesDelivered
<1>2. /\ delivery' = [delivery EXCEPT ![n].consumed = TRUE]
      /\ known' = known /\ now' = now /\ billed' = billed /\ adv' = adv
  BY DEF IngestAccept, ledger
<1>3. \A m \in Nonces : m # n => delivery'[m] = delivery[m]
  BY <1>2 DEF TypeOK
<1>4. /\ delivery'[n] # NoDelivery /\ delivery'[n].campaign = delivery[n].campaign
      /\ delivery'[n].rate = delivery[n].rate
  BY <1>1, <1>2, ConsumeKeeps
<1>5. SameDeliveries
  BY <1>1, <1>3, <1>4 DEF SameDeliveries
<1>6. \A m \in Live' : m \in Live
  <2>1. SUFFICES ASSUME NEW m \in Live', m # n PROVE m \in Live
    BY <1>1
  <2>2. m \in known /\ m \in Nonces
    BY <1>2, <2>1 DEF Live, TypeOK
  <2>3. delivery'[m] = delivery[m]
    BY <1>3, <2>1, <2>2
  <2>4. QED
    BY <1>2, <2>1, <2>2, <2>3 DEF Live, Unexpired
<1>7. \A k \in Unposted' : imp'[k].nonce \in Reserving
  <2>1. TAKE k \in Unposted'
  <2>2. CASE k = <<p, id>>
    <3>1. imp'[<<p, id>>].nonce = n
      BY DEF IngestAccept, TypeOK, Keys
    <3>2. QED
      BY <1>1, <2>2, <3>1 DEF Reserving
  <2>3. CASE k # <<p, id>>
    <3>1. imp'[k] = imp[k] /\ k \in Keys
      BY <2>1, <2>3 DEF IngestAccept, TypeOK, Unposted, Pending, InState
    <3>2. k \in Unposted
      BY <1>2, <2>1, <3>1 DEF Unposted, Pending, InState
    <3>3. QED
      BY <3>1, <3>2 DEF Reserving
  <2>4. QED
    BY <2>2, <2>3
<1>8. Reserving' \subseteq Reserving
  BY <1>6, <1>7 DEF Reserving
<1>9. QED
  BY <1>2, <1>5, <1>8, OnlyReleased

\* Nobody owns or draws more than was ever deposited.
LEMMA AmountsBounded ==
  ASSUME TypeOK, MoneyBalanced, FundsBounded
  PROVE  /\ \A a \in Advertisers : adv[a] \in 0 .. MaxFunds
         /\ \A w \in OpenDraws : draw[w].amount \in 0 .. MaxFunds
<1>1. /\ adv \in [Advertisers -> Nat] /\ platform \in Nat /\ MaxFunds \in Nat /\ funded \in Nat
      /\ IsFiniteSet(Advertisers) /\ IsFiniteSet(OpenDraws)
      /\ DrawnAmounts \in [OpenDraws -> Nat]
      /\ Total(adv) \in Nat /\ Total(pub) \in Nat /\ Total(DrawnAmounts) \in Nat
  BY LedgerTyped, TimesAssumption DEF TypeOK
<1>2. Total(adv) <= MaxFunds /\ Total(DrawnAmounts) <= MaxFunds
  BY <1>1 DEF MoneyBalanced, FundsBounded
<1>3. ASSUME NEW a \in Advertisers PROVE adv[a] \in 0 .. MaxFunds
  <2>1. adv[a] <= Total(adv) /\ adv[a] \in Nat
    BY <1>1, TotalMember
  <2>2. QED
    BY <1>1, <1>2, <2>1
<1>4. ASSUME NEW w \in OpenDraws PROVE draw[w].amount \in 0 .. MaxFunds
  <2>1. DrawnAmounts[w] <= Total(DrawnAmounts) /\ DrawnAmounts[w] \in Nat
    BY <1>1, TotalMember
  <2>2. DrawnAmounts[w] = draw[w].amount
    BY DEF DrawnAmounts
  <2>3. QED
    BY <1>1, <1>2, <2>1, <2>2
<1>5. QED
  BY <1>3, <1>4

\* What may be spent is not set aside.
LEMMA SpendableCovers ==
  ASSUME TypeOK, NoncesDelivered, ChargeInv, RatesTyped,
         NEW a \in Advertisers, NEW x \in Nat, x <= Spendable(a), x > 0
  PROVE  x + E!SetAside(a) <= adv[a] /\ x <= adv[a]
<1>1. /\ Exposure(a) \in Nat /\ Reserved(a) \in Nat /\ Exposure(a) <= Reserved(a)
      /\ E!SetAside(a) \in Nat /\ E!SetAside(a) <= Exposure(a) /\ adv[a] \in Nat
  BY ExposureReserved, SetAsideReserved DEF TypeOK
<1>2. x <= adv[a] - Reserved(a)
  BY <1>1 DEF Spendable
<1>3. QED
  BY <1>1, <1>2

\* The prices do not depend on the money accounts.
LEMMA SameItems == UNCHANGED <<delivery, billed, imp, known, now>> => UNCHANGED EscrowItem
BY DEF EscrowItem, PriceState, Charged, Reserving, Live, Unexpired, Unposted, Pending, InState

\* Deposits and reversals fund the escrow, a withdrawal takes what is free.
LEMMA MoneySteps ==
  ASSUME TypeOK, NoncesDelivered, ChargeInv, RatesTyped, MoneyBalanced, FundsBounded,
         FundsBounded', Money
  PROVE  EscrowStep
<1>1. UNCHANGED EscrowItem
  BY SameItems DEF Money, Deposit, DrawSubmit, DrawSettled, DrawReversed, store
<1>2. ASSUME NEW a \in Advertisers, NEW x \in Amounts, Deposit(a, x) PROVE EscrowStep
  <2>1. x \in Nat /\ funded \in Nat /\ MaxFunds \in Nat
    BY ConstantTypes, TimesAssumption DEF TypeOK
  <2>2. x \in 0 .. MaxFunds
    BY <1>2, <2>1 DEF Deposit
  <2>3. E!Fund(a, x)
    BY <1>1, <1>2 DEF Deposit, E!Fund
  <2>4. QED
    BY <2>2, <2>3 DEF EscrowStep, E!Next
<1>3. ASSUME NEW w \in Draws, NEW a \in Advertisers, NEW x \in Amounts, DrawSubmit(w, a, x)
      PROVE  EscrowStep
  <2>1. x \in Nat /\ x > 0
    BY ConstantTypes
  <2>2. x + E!SetAside(a) <= adv[a] /\ x <= adv[a]
    BY <1>3, <2>1, SpendableCovers DEF DrawSubmit
  <2>3. x \in 0 .. MaxFunds
    BY <2>1, <2>2, AmountsBounded, TimesAssumption
  <2>4. E!Take(a, x)
    BY <1>1, <1>3, <2>2 DEF DrawSubmit, E!Take
  <2>5. QED
    BY <2>3, <2>4 DEF EscrowStep, E!Next
<1>4. ASSUME NEW w \in Draws, DrawReversed(w) PROVE EscrowStep
  <2>1. w \in OpenDraws /\ draw[w].adv \in Advertisers
    BY <1>4 DEF DrawReversed, OpenDraws, TypeOK, Draw
  <2>2. draw[w].amount \in 0 .. MaxFunds
    BY <2>1, AmountsBounded
  <2>3. E!Fund(draw[w].adv, draw[w].amount)
    BY <1>1, <1>4 DEF DrawReversed, E!Fund
  <2>4. QED
    BY <2>1, <2>2, <2>3 DEF EscrowStep, E!Next
<1>5. ASSUME NEW w \in Draws, DrawSettled(w) PROVE EscrowStep
  BY <1>1, <1>5 DEF DrawSettled, EscrowStep
<1>6. QED
  BY <1>2, <1>3, <1>4, <1>5 DEF Money

\* A delivery sets its price aside.
LEMMA ServeHolds ==
  ASSUME TypeOK, NoncesDelivered, ChargeInv, (TypeOK /\ ChargeInv)', RatesTyped,
         MoneyBalanced, FundsBounded,
         NEW p \in Publishers, NEW c \in Campaigns, NEW n \in Nonces,
         NEW rate \in Prices, NEW bps \in Shares, ServeAd(p, c, n, rate, bps)
  PROVE  EscrowStep
<1> DEFINE a == Owner[c]
           new == [pub |-> p, campaign |-> c, rate |-> rate, bps |-> bps,
                   expiresAt |-> now + NonceTtl, consumed |-> FALSE]
<1>1. /\ ItemShape /\ ItemShape' /\ a \in Advertisers
      /\ rate \in Nat /\ Bid[c] \in Nat /\ Bid[c] > 0 /\ rate <= Bid[c]
  BY ItemIs, ItemIsNext, ConstantTypes DEF ServeAd
<1>2. Bid[c] + E!SetAside(a) <= adv[a] /\ Bid[c] <= adv[a]
  BY <1>1, SpendableCovers DEF ServeAd, Eligible
<1>3. rate + E!SetAside(a) <= adv[a] /\ rate \in 0 .. MaxFunds
  <2>1. E!SetAside(a) \in Nat /\ adv[a] \in 0 .. MaxFunds /\ MaxFunds \in Nat
    BY <1>1, SetAsideReserved, AmountsBounded, TimesAssumption
  <2>2. QED
    BY <1>1, <1>2, <2>1
<1>4. /\ delivery[n] = NoDelivery /\ delivery' = [delivery EXCEPT ![n] = new]
      /\ UNCHANGED <<now, adv, billed, imp>>
  BY DEF ServeAd, ledger
<1>5. delivery'[n] = new /\ \A m \in Nonces : m # n => delivery'[m] = delivery[m]
  BY <1>4 DEF TypeOK
<1>6. n \in Live'
  <2>1. now \in Nat /\ NonceTtl \in Nat /\ n \in known'
    BY ConstantTypes DEF TypeOK, ServeAd
  <2>2. QED
    BY <1>4, <1>5, <2>1 DEF Live, Unexpired
<1>7. n \notin Reserving
  BY <1>4, ReservingDelivered
<1>8. ~ItemCharged(n) /\ \A m \in Nonces : ItemCharged(m)' <=> ItemCharged(m)
  BY <1>4 DEF ItemCharged, Charged, ChargeInv, ChargedAsDelivered
<1>9. \A m \in Nonces : m # n => (m \in Live' <=> m \in Live)
  <2>1. TAKE m \in Nonces
  <2>2. HAVE m # n
  <2>3. now \in Nat /\ GcAfter \in Nat
    BY ConstantTypes DEF TypeOK
  <2>4. m \in known' <=> m \in known /\ delivery[m].expiresAt >= now - GcAfter
    BY <2>2 DEF ServeAd
  <2>5. m \in known => delivery[m] \in Delivery
    BY DEF TypeOK, NoncesDelivered
  <2>6. m \in known /\ delivery[m].expiresAt >= now => m \in known'
    BY <2>3, <2>4, <2>5 DEF Delivery
  <2>7. QED
    BY <1>4, <1>5, <2>2, <2>4, <2>6 DEF Live, Unexpired
<1>10. Unposted' = Unposted
  BY <1>4 DEF Unposted, Pending, InState
<1>11. \A m \in Nonces : m # n => (m \in Reserving' <=> m \in Reserving)
  BY <1>4, <1>9, <1>10 DEF Reserving
<1>12. \A m \in Nonces : m # n => EscrowItem'[m] = EscrowItem[m]
  BY <1>1, <1>5, <1>8, <1>11 DEF ItemShape, ItemState
<1>13. EscrowItem'[n] = [state |-> "held", adv |-> a, price |-> rate]
  <2>1. ItemState(n)' = "held"
    BY <1>6, <1>8 DEF ItemState, Reserving
  <2>2. new # NoDelivery
    BY DEF NoDelivery
  <2>3. QED
    BY <1>1, <1>5, <2>1, <2>2 DEF ItemShape
<1>14. EscrowItem' = [EscrowItem EXCEPT ![n] = [state |-> "held", adv |-> a, price |-> rate]]
  <2>1. DOMAIN EscrowItem = Nonces /\ EscrowItem' = [m \in Nonces |-> EscrowItem'[m]]
        /\ EscrowItem = [m \in Nonces |-> EscrowItem[m]]
    BY <1>1 DEF ItemShape
  <2>2. QED
    BY <1>12, <1>13, <2>1
<1>15. EscrowItem[n] = E!NotShown
  BY <1>1, <1>4 DEF ItemShape, E!NotShown
<1>16. E!Hold(n, a, rate)
  BY <1>3, <1>4, <1>14, <1>15 DEF E!Hold
<1>17. QED
  BY <1>1, <1>3, <1>16 DEF EscrowStep, E!Next

\* No two publishers' clients generate the same impression id.
DisjointIds == \A p, q \in Publishers : p # q => IdsOf[p] \cap IdsOf[q] = {}

\* The group of an unposted impression charges the price set aside for it,
\* and no other price becomes free.
LEMMA PostCharges ==
  ASSUME TypeOK, NoncesDelivered, ChargeInv, (TypeOK /\ ChargeInv)', DisjointIds, OwnIds,
         NEW k \in Unposted, PostImpression(k), delivery' = delivery, Live' = Live,
         \A j \in Pending : j # k => imp'[j] = imp[j],
         \A j \in Pending' : j \in Pending /\ imp'[j].nonce = imp[j].nonce
  PROVE  EscrowStep
<1>0. PICK n : n = imp[k].nonce
  OBVIOUS
<1>1. ItemShape /\ ItemShape' /\ E!Held = Reserving
  BY ItemIs, ItemIsNext, HeldIsReserving
<1>2. /\ k \in Pending /\ k \in Keys /\ k[1] \in Publishers /\ k[2] \in ImpIds
      /\ k = <<k[1], k[2]>> /\ billed[k[2]] = NoBill /\ imp[k] # NoImp
  BY DEF Unposted, Pending, InState, Keys
<1>3. /\ n \in Nonces /\ delivery[n] # NoDelivery
      /\ imp[k].campaign = delivery[n].campaign /\ imp[k].rate = delivery[n].rate
  BY <1>0, UnpostedAsDelivered
<1>4. n \in Reserving
  BY <1>0 DEF Reserving
<1>5. /\ adv' = [adv EXCEPT ![Owner[imp[k].campaign]] = @ - imp[k].rate]
      /\ billed'[k[2]] # NoBill /\ billed'[k[2]].nonce = n
      /\ \A id \in ImpIds : id # k[2] => billed'[id] = billed[id]
  <2>1. DOMAIN billed = ImpIds
    BY DEF TypeOK
  <2>2. QED
    BY <1>0, <1>2, <2>1 DEF PostImpression, NoBill
<1>6. ItemCharged(n)'
  BY <1>2, <1>5 DEF ItemCharged, Charged
<1>7. \A m \in Nonces : m # n => (ItemCharged(m)' <=> ItemCharged(m))
  <2>1. TAKE m \in Nonces
  <2>2. HAVE m # n
  <2>3. \A id \in ImpIds : id \in Charged' /\ billed'[id].nonce = m
                             <=> id \in Charged /\ billed[id].nonce = m
    <3>1. TAKE id \in ImpIds
    <3>2. CASE id = k[2]
      BY <1>2, <1>5, <2>2, <3>2 DEF Charged
    <3>3. CASE id # k[2]
      BY <1>5, <3>3 DEF Charged
    <3>4. QED
      BY <3>2, <3>3
  <2>4. QED
    BY <2>3 DEF ItemCharged, Charged
<1>8. \A j \in Unposted : j # k => j[2] # k[2]
  <2>1. SUFFICES ASSUME NEW j \in Unposted, j # k, j[2] = k[2] PROVE FALSE
    OBVIOUS
  <2>2. j \in Keys /\ j[1] \in Publishers /\ j = <<j[1], j[2]>> /\ imp[j] # NoImp
    BY DEF Unposted, Pending, InState, Keys
  <2>3. j[1] # k[1]
    BY <1>2, <2>1, <2>2
  <2>4. j[2] \in IdsOf[j[1]] /\ k[2] \in IdsOf[k[1]]
    BY <1>2, <2>2 DEF OwnIds
  <2>5. QED
    BY <1>2, <2>1, <2>2, <2>3, <2>4 DEF DisjointIds
<1>9. \A m \in Nonces : m # n => (m \in Reserving' <=> m \in Reserving)
  <2>1. TAKE m \in Nonces
  <2>2. HAVE m # n
  <2>3. ASSUME m \in Reserving PROVE m \in Reserving'
    <3>1. CASE m \in Live
      BY <3>1 DEF Reserving
    <3>2. CASE m \notin Live
      <4>1. PICK j \in Unposted : imp[j].nonce = m
        BY <2>3, <3>2 DEF Reserving
      <4>2. j # k /\ j[2] # k[2] /\ j \in Pending /\ j \in Keys /\ j[2] \in ImpIds
        BY <1>0, <1>8, <2>2, <4>1 DEF Unposted, Pending, InState, Keys
      <4>3. imp'[j] = imp[j] /\ billed'[j[2]] = billed[j[2]]
        BY <1>5, <4>2
      <4>4. j \in Unposted'
        BY <4>1, <4>2, <4>3 DEF Unposted, Pending, InState
      <4>5. QED
        BY <4>1, <4>3, <4>4 DEF Reserving
    <3>3. QED
      BY <3>1, <3>2
  <2>4. ASSUME m \in Reserving' PROVE m \in Reserving
    <3>1. CASE m \in Live'
      BY <3>1 DEF Reserving
    <3>2. CASE m \notin Live'
      <4>1. PICK j \in Unposted' : imp'[j].nonce = m
        BY <2>4, <3>2 DEF Reserving
      <4>2. j \in Pending' /\ billed'[j[2]] = NoBill
        BY <4>1 DEF Unposted
      <4>3. j \in Pending /\ imp[j].nonce = m /\ j[2] # k[2] /\ j[2] \in ImpIds
        BY <1>5, <4>1, <4>2 DEF Pending, InState, Keys
      <4>4. j \in Unposted
        BY <1>5, <4>2, <4>3 DEF Unposted
      <4>5. QED
        BY <4>3, <4>4 DEF Reserving
    <3>3. QED
      BY <3>1, <3>2
  <2>5. QED
    BY <2>3, <2>4
<1>10. \A m \in Nonces : m # n => EscrowItem'[m] = EscrowItem[m]
  BY <1>1, <1>7, <1>9 DEF ItemShape, ItemState
<1>11. /\ EscrowItem[n].adv = Owner[imp[k].campaign] /\ EscrowItem[n].price = imp[k].rate
       /\ EscrowItem'[n] = [EscrowItem[n] EXCEPT !.state = "charged"]
  <2>1. EscrowItem[n] = [state |-> ItemState(n), adv |-> Owner[delivery[n].campaign],
                         price |-> delivery[n].rate]
    BY <1>1, <1>3 DEF ItemShape
  <2>2. EscrowItem'[n] = [state |-> "charged", adv |-> Owner[delivery[n].campaign],
                          price |-> delivery[n].rate]
    <3>1. ItemState(n)' = "charged"
      BY <1>6 DEF ItemState
    <3>2. delivery'[n] = delivery[n]
      OBVIOUS
    <3>3. QED
      BY <1>1, <1>3, <3>1, <3>2 DEF ItemShape
  <2>3. QED
    BY <1>3, <2>1, <2>2
<1>12. EscrowItem' = [EscrowItem EXCEPT ![n].state = "charged"]
  <2>1. DOMAIN EscrowItem = Nonces /\ EscrowItem' = [m \in Nonces |-> EscrowItem'[m]]
        /\ EscrowItem = [m \in Nonces |-> EscrowItem[m]]
    BY <1>1 DEF ItemShape
  <2>2. QED
    BY <1>10, <1>11, <2>1
<1>13. E!Charge(n)
  BY <1>1, <1>4, <1>5, <1>11, <1>12 DEF E!Charge
<1>14. QED
  BY <1>3, <1>13 DEF EscrowStep, E!Next

\* A verification charges, or gives back, or repeats what was done before.
LEMMA VerificationSteps ==
  ASSUME IInv, ChargeInv, KeepInv, (TypeOK /\ ChargeInv)', DisjointIds, RunVerification
  PROVE  EscrowStep
<1>1. TypeOK /\ NoncesDelivered /\ ForgottenExpired
  BY DEF IInv
<1>2. PICK k \in Keys : Verify(k) \/ Reject(k) \/ VerifyCrash(k)
  BY DEF RunVerification
<1>3. k \in Pending /\ k \in Accepted /\ delivery' = delivery /\ now' = now /\ known' \in {known, stored}
  BY <1>2 DEF Verify, Reject, VerifyCrash, Passes, Recover, Accepted
<1>4. /\ AcceptedKept
      /\ \A j \in Keys : imp'[j] = imp[j] \/ imp'[j] = NoImp \/ imp'[j].state # "pending"
      /\ \A j \in Pending : j # k => imp'[j] = imp[j]
  <2>1. CASE Verify(k)
    BY <1>1, <1>3, <2>1, DecidedKept DEF Verify, Pending, InState
  <2>2. CASE Reject(k)
    BY <1>1, <1>3, <2>2, DecidedKept DEF Reject, Pending, InState
  <2>3. CASE VerifyCrash(k)
    <3>1. \A j \in Keys : imp'[j] = IF j \in kept THEN imp[j] ELSE NoImp
      BY <2>3 DEF VerifyCrash, Recover
    <3>2. \A j \in Pending : imp'[j] = imp[j]
      BY <3>1 DEF KeepInv, PendingKept, Pending, InState
    <3>3. AcceptedKept
      BY <1>1, <3>1, NothingAccepted
    <3>4. QED
      BY <3>1, <3>2, <3>3
  <2>4. QED
    BY <1>2, <2>1, <2>2, <2>3
<1>5. CASE UNCHANGED <<adv, billed>>
  BY <1>1, <1>3, <1>4, <1>5, NothingHappened
<1>6. CASE ~UNCHANGED <<adv, billed>>
  <2>1. (Verify(k) \/ VerifyCrash(k)) /\ PostImpression(k)
    BY <1>2, <1>6 DEF Reject, Verify, VerifyCrash, ledger
  <2>2. k \in Unposted
    BY <1>3, <1>6, <2>1 DEF PostImpression, Unposted
  <2>3. Live' = Live
    <3>1. CASE known' = known
      BY <1>3, <3>1 DEF Live, Unexpired
    <3>2. CASE known' = stored
      <4>1. \A n \in known : delivery[n].expiresAt >= now => n \in stored
        <5>1. SUFFICES ASSUME NEW n \in known, delivery[n].expiresAt >= now, n \notin stored
                       PROVE  FALSE
          OBVIOUS
        <5>2. delivery[n].expiresAt < now
          BY <5>1 DEF KeepInv, UnexpiredStored
        <5>3. delivery[n].expiresAt \in Nat /\ now \in Nat
          BY <1>1 DEF TypeOK, NoncesDelivered, Delivery
        <5>4. QED
          BY <5>1, <5>2, <5>3
      <4>2. \A n \in stored : delivery[n].expiresAt >= now => n \in known
        <5>1. SUFFICES ASSUME NEW n \in stored, delivery[n].expiresAt >= now, n \notin known
                       PROVE  FALSE
          OBVIOUS
        <5>2. delivery[n].expiresAt < now
          BY <1>1, <5>1 DEF ForgottenExpired
        <5>3. delivery[n].expiresAt \in Nat /\ now \in Nat
          BY <1>1 DEF TypeOK, NoncesDelivered, Delivery
        <5>4. QED
          BY <5>1, <5>2, <5>3
      <4>3. QED
        BY <1>3, <3>2, <4>1, <4>2 DEF Live, Unexpired
    <3>3. QED
      BY <1>3, <3>1, <3>2
  <2>4. \A j \in Pending' : j \in Pending /\ imp'[j].nonce = imp[j].nonce
    <3>1. \A j \in Pending' : j \in Pending
      BY <1>4 DEF Pending, InState
    <3>2. \A j \in Pending' : j \in Accepted'
      BY DEF Accepted
    <3>3. QED
      BY <1>4, <3>1, <3>2 DEF AcceptedKept
  <2>5. QED
    BY <1>1, <1>3, <1>4, <2>1, <2>2, <2>3, <2>4, PostCharges DEF KeepInv
<1>7. QED
  BY <1>5, <1>6

LEMMA IngestSteps ==
  ASSUME IInv, ChargeInv, (TypeOK /\ ChargeInv)', Ingest
  PROVE  EscrowStep
<1>1. TypeOK /\ NoncesDelivered /\ ForgottenExpired
  BY DEF IInv
<1>2. PICK p \in Publishers, n \in Nonces, c \in Campaigns, d \in Durations, id \in ImpIds :
        \/ IngestAccept(p, id, n, c, d)
        \/ \E w \in BOOLEAN : IngestReject(p, id, n, c, d, w)
        \/ IngestCrash(p, id, n, c, d)
  BY SetsAssumption DEF Ingest
<1>3. CASE IngestAccept(p, id, n, c, d)
  BY <1>1, <1>3, AcceptReleases
<1>4. ASSUME NEW w \in BOOLEAN, IngestReject(p, id, n, c, d, w) PROVE EscrowStep
  <2>1. /\ imp'[<<p, id>>].state = "rejected"
        /\ \A k \in Keys : k # <<p, id>> => imp'[k] = imp[k]
    BY <1>1, <1>4 DEF IngestReject, TypeOK, Keys
  <2>2. AcceptedKept
    <3>1. \A k \in Accepted' : k \in Accepted /\ imp'[k] = imp[k]
      BY <2>1 DEF Accepted, Pending, InState
    <3>2. QED
      BY <1>1, <3>1, AcceptedImpression DEF AcceptedKept
  <2>3. UNCHANGED <<adv, billed, known, now, delivery>>
    BY <1>4 DEF IngestReject, ledger
  <2>4. \A k \in Keys : imp'[k] = imp[k] \/ imp'[k] = NoImp \/ imp'[k].state # "pending"
    BY <2>1
  <2>5. QED
    BY <1>1, <2>2, <2>3, <2>4, NothingHappened
<1>5. CASE IngestCrash(p, id, n, c, d)
  <2>1. /\ UNCHANGED <<adv, billed, now>> /\ known' = stored /\ n \in known
        /\ delivery' = [delivery EXCEPT ![n].consumed = TRUE]
        /\ \A k \in Keys : imp'[k] = imp[k] \/ imp'[k] = NoImp
    BY <1>5 DEF IngestCrash, Recover, Reportable, FirstReport, ledger
  <2>2. AcceptedKept
    BY <1>1, <2>1, NothingAccepted
  <2>3. QED
    BY <1>1, <2>1, <2>2, NothingHappened
<1>6. QED
  BY <1>2, <1>3, <1>4, <1>5

LEMMA StepImplements ==
  ASSUME IInv, ChargeInv, KeepInv, MoneyBalanced, IInv', ChargeInv', KeepInv', DisjointIds,
         [Next]_vars
  PROVE  EscrowStep
<1>1. TypeOK /\ NoncesDelivered /\ ForgottenExpired /\ RatesTyped /\ (TypeOK /\ ChargeInv)'
  BY RatesAreTyped DEF IInv
<1>2. FundsBounded /\ FundsBounded'
  BY DEF KeepInv
<1>3. ASSUME UNCHANGED <<adv, billed, delivery>>, known' \in {known, stored},
             now' \in {now, now + 1}, \A k \in Keys : imp'[k] = imp[k] \/ imp'[k] = NoImp
      PROVE  EscrowStep
  <2>1. AcceptedKept
    BY <1>1, <1>3, NothingAccepted
  <2>2. QED
    BY <1>1, <1>3, <2>1, NothingHappened
<1>4. CASE Money
  BY <1>1, <1>2, <1>4, MoneySteps
<1>5. CASE Serve
  BY <1>1, <1>2, <1>5, ServeHolds DEF Serve
<1>6. CASE Ingest
  BY <1>1, <1>6, IngestSteps
<1>7. CASE RunVerification
  BY <1>1, <1>7, VerificationSteps
<1>8. CASE Admin
  BY <1>3, <1>8 DEF Admin, Ban, Unban, store, ledger
<1>9. CASE Vacuum
  BY <1>3, <1>9 DEF Vacuum, ledger
<1>10. CASE Restart
  <2>1. /\ UNCHANGED <<adv, billed, delivery, now>> /\ known' = stored
        /\ \A k \in Keys : imp'[k] = imp[k] \/ imp'[k] = NoImp
    BY <1>10 DEF Restart, Recover, ledger
  <2>2. QED
    BY <1>3, <2>1
<1>11. CASE Tick
  BY <1>3, <1>11 DEF Tick, store, ledger
<1>12. CASE UNCHANGED vars
  BY <1>3, <1>12 DEF vars, store, ledger
<1>13. QED
  BY <1>4, <1>5, <1>6, <1>7, <1>8, <1>9, <1>10, <1>11, <1>12 DEF Next

\* The reservations keep what the escrow promises (Pipeline.spendable,
\* ADR-021): an ad is shown only against money set aside for it, which is then
\* charged, once and at the agreed price, or given back, whatever expires,
\* crashes, is banned, rejected or reported again meanwhile; and only what is
\* not set aside can be withdrawn.  Two publishers that report under one id
\* break this: the ledger has one group for both.
THEOREM ReservationsAreEscrow ==
  ASSUME DisjointIds
  PROVE  Spec => ImplementsEscrow
<1>1. Init => E!Init
  BY DEF Init, E!Init, E!NotShown, EscrowItem
<1>2. /\ IInv /\ ChargeInv /\ KeepInv /\ MoneyBalanced
      /\ IInv' /\ ChargeInv' /\ KeepInv' /\ [Next]_vars
      => [E!Next]_<<adv, EscrowItem>>
  BY StepImplements DEF EscrowStep
<1>3. Spec => []MoneyBalanced
  <2>1. LedgerBalanced => MoneyBalanced
    BY LedgerParts
  <2>2. QED
    BY <2>1, BooksBalance, PTL
<1>4. QED
  BY <1>1, <1>2, <1>3, Invariant, ChargeInvariant, KeepInvariant, PTL
  DEF Spec, ImplementsEscrow, E!Spec

-----------------------------------------------------------------------------
(* What is verified was billed *)

\* A report is accepted under an id that the ledger has no group for: clients
\* draw a random id for each report, and the server refuses a repeated id as
\* long as it remembers it (RetainMs).
FreshReports == \A k \in Pending' : imp[k] = NoImp => billed[k[2]] = NoBill

\* The ledger has a group for this very report.
PostedFor(k) ==
  /\ billed[k[2]] # NoBill
  /\ billed[k[2]].pub = k[1]
  /\ billed[k[2]].nonce = imp[k].nonce

\* The invariant: the group under the id of an impression that waits is its own.
BilledInv ==
  /\ VerifiedIsBilled
  /\ \A k \in Pending : billed[k[2]] # NoBill => PostedFor(k)

\* A step that decides and posts nothing.
LEMMA BilledKept ==
  ASSUME TypeOK, BilledInv, AcceptedKept, billed' = billed,
         \A k \in Accepted' : imp'[k].state = imp[k].state
  PROVE  BilledInv'
<1>1. \A k \in Pending' : k \in Pending /\ imp'[k].nonce = imp[k].nonce
  BY DEF AcceptedKept, Accepted, Pending, InState
<1>2. \A k \in InState("verified")' : k \in InState("verified") /\ imp'[k].nonce = imp[k].nonce
  BY DEF AcceptedKept, Accepted, Pending, InState
<1>3. VerifiedIsBilled'
  BY <1>2 DEF BilledInv, VerifiedIsBilled
<1>4. \A k \in Pending' : billed'[k[2]] # NoBill => PostedFor(k)'
  BY <1>1 DEF BilledInv, PostedFor
<1>5. QED
  BY <1>3, <1>4 DEF BilledInv

\* A report that is accepted waits under an id without a group.
LEMMA AcceptBilled ==
  ASSUME TypeOK, BilledInv, FreshReports,
         NEW p \in Publishers, NEW id \in ImpIds, NEW n \in Nonces,
         NEW c \in Campaigns, NEW d \in Durations, IngestAccept(p, id, n, c, d)
  PROVE  BilledInv'
<1>1. /\ imp[<<p, id>>] = NoImp /\ billed' = billed
      /\ imp'[<<p, id>>].state = "pending"
      /\ \A k \in Keys : k # <<p, id>> => imp'[k] = imp[k]
  BY DEF IngestAccept, ledger, TypeOK, Keys
<1>2. VerifiedIsBilled'
  <2>1. \A k \in InState("verified")' : k \in InState("verified") /\ imp'[k] = imp[k]
    BY <1>1 DEF InState
  <2>2. QED
    BY <1>1, <2>1 DEF BilledInv, VerifiedIsBilled
<1>3. \A k \in Pending' : billed'[k[2]] # NoBill => PostedFor(k)'
  <2>1. TAKE k \in Pending'
  <2>2. CASE k = <<p, id>>
    BY <1>1, <2>2 DEF FreshReports
  <2>3. CASE k # <<p, id>>
    <3>1. k \in Pending /\ imp'[k] = imp[k]
      BY <1>1, <2>3 DEF Pending, InState
    <3>2. QED
      BY <1>1, <3>1 DEF BilledInv, PostedFor
  <2>4. QED
    BY <2>2, <2>3
<1>4. QED
  BY <1>2, <1>3 DEF BilledInv

\* The group that is posted is for the impression that is verified, and under
\* the id of no other.
LEMMA PostBilled ==
  ASSUME TypeOK, ChargeInv, OwnIds, DisjointIds, BilledInv, AcceptedKept,
         NEW k \in Pending, PostImpression(k),
         \A j \in Accepted' : j # k => imp'[j].state = imp[j].state
  PROVE  BilledInv'
<1>1. k \in Keys /\ k[1] \in Publishers /\ k[2] \in ImpIds /\ k = <<k[1], k[2]>> /\ imp[k] # NoImp
  BY DEF Pending, InState, Keys
<1>2. /\ billed'[k[2]] # NoBill /\ billed'[k[2]].pub = k[1]
      /\ billed'[k[2]].nonce = imp[k].nonce
      /\ \A id \in ImpIds : id # k[2] => billed'[id] = billed[id]
  <2>1. CASE billed[k[2]] = NoBill
    BY <1>1, <2>1 DEF PostImpression, TypeOK, NoBill
  <2>2. CASE billed[k[2]] # NoBill
    BY <1>1, <2>2 DEF PostImpression, BilledInv, PostedFor
  <2>3. QED
    BY <2>1, <2>2
<1>3. \A j \in Accepted : j # k => j[2] # k[2] /\ j[2] \in ImpIds
  <2>1. SUFFICES ASSUME NEW j \in Accepted, j # k PROVE j[2] # k[2] /\ j[2] \in ImpIds
    OBVIOUS
  <2>2. j \in Keys /\ j[1] \in Publishers /\ j[2] \in ImpIds /\ j = <<j[1], j[2]>> /\ imp[j] # NoImp
    BY DEF Accepted, Pending, InState, Keys
  <2>3. j[2] \in IdsOf[j[1]] /\ k[2] \in IdsOf[k[1]]
    BY <1>1, <2>2 DEF OwnIds
  <2>4. j[2] = k[2] => j[1] # k[1]
    BY <1>1, <2>1, <2>2
  <2>5. QED
    BY <1>1, <2>2, <2>3, <2>4 DEF DisjointIds
<1>4. ASSUME NEW j \in Accepted', billed'[j[2]] # NoBill \/ imp'[j].state = "verified"
      PROVE  PostedFor(j)'
  <2>1. j \in Accepted /\ imp'[j].nonce = imp[j].nonce
    BY DEF AcceptedKept
  <2>2. CASE j = k
    BY <1>2, <2>1, <2>2 DEF PostedFor
  <2>3. CASE j # k
    <3>1. billed'[j[2]] = billed[j[2]] /\ imp'[j].state = imp[j].state
      BY <1>2, <1>3, <2>1, <2>3
    <3>2. PostedFor(j)
      BY <1>4, <2>1, <3>1 DEF BilledInv, VerifiedIsBilled, PostedFor, Accepted, Pending, InState
    <3>3. QED
      BY <2>1, <3>1, <3>2 DEF PostedFor
  <2>4. QED
    BY <2>2, <2>3
<1>5. VerifiedIsBilled'
  BY <1>4 DEF VerifiedIsBilled, PostedFor, Accepted, InState
<1>6. \A j \in Pending' : billed'[j[2]] # NoBill => PostedFor(j)'
  BY <1>4 DEF Accepted
<1>7. QED
  BY <1>5, <1>6 DEF BilledInv

LEMMA StepBilled ==
  ASSUME IInv, ChargeInv, KeepInv, BilledInv, DisjointIds, [Next]_vars, [FreshReports]_vars
  PROVE  BilledInv'
<1>1. TypeOK /\ NoncesDelivered
  BY DEF IInv
<1>2. ASSUME billed' = billed, \A k \in Keys : imp'[k] = imp[k] \/ imp'[k] = NoImp
      PROVE  BilledInv'
  <2>1. AcceptedKept
    BY <1>1, <1>2, NothingAccepted
  <2>2. \A k \in Accepted' : imp'[k].state = imp[k].state
    BY <1>2 DEF Accepted, Pending, InState
  <2>3. QED
    BY <1>1, <1>2, <2>1, <2>2, BilledKept
<1>3. CASE Ingest
  <2>1. PICK p \in Publishers, n \in Nonces, c \in Campaigns, d \in Durations, id \in ImpIds :
          \/ IngestAccept(p, id, n, c, d)
          \/ \E w \in BOOLEAN : IngestReject(p, id, n, c, d, w)
          \/ IngestCrash(p, id, n, c, d)
    BY <1>3, SetsAssumption DEF Ingest
  <2>2. CASE IngestAccept(p, id, n, c, d)
    <3>1. imp[<<p, id>>] = NoImp /\ imp'[<<p, id>>] # NoImp
      BY <1>1, <2>2 DEF IngestAccept, TypeOK, Keys, NoImp
    <3>2. FreshReports
      BY <3>1 DEF vars, store
    <3>3. QED
      BY <1>1, <2>2, <3>2, AcceptBilled
  <2>3. ASSUME NEW w \in BOOLEAN, IngestReject(p, id, n, c, d, w) PROVE BilledInv'
    <3>1. /\ imp'[<<p, id>>].state = "rejected" /\ billed' = billed
          /\ \A k \in Keys : k # <<p, id>> => imp'[k] = imp[k]
      BY <1>1, <2>3 DEF IngestReject, TypeOK, Keys, ledger
    <3>2. \A k \in Accepted' : k \in Accepted /\ imp'[k] = imp[k]
      BY <3>1 DEF Accepted, Pending, InState
    <3>3. AcceptedKept
      BY <1>1, <3>2, AcceptedImpression DEF AcceptedKept
    <3>4. QED
      BY <1>1, <3>1, <3>2, <3>3, BilledKept
  <2>4. CASE IngestCrash(p, id, n, c, d)
    BY <1>2, <2>4 DEF IngestCrash, Recover, ledger
  <2>5. QED
    BY <2>1, <2>2, <2>3, <2>4
<1>4. CASE RunVerification
  <2>1. PICK k \in Keys : Verify(k) \/ Reject(k) \/ VerifyCrash(k)
    BY <1>4 DEF RunVerification
  <2>2. k \in Pending /\ OwnIds
    BY <2>1 DEF Verify, Reject, VerifyCrash, Passes, KeepInv
  <2>3. CASE Verify(k)
    <3>1. AcceptedKept /\ \A j \in Keys : j # k => imp'[j] = imp[j]
      BY <1>1, <2>2, <2>3, DecidedKept DEF Verify
    <3>2. \A j \in Accepted' : j # k => imp'[j].state = imp[j].state
      BY <3>1 DEF Accepted, Pending, InState
    <3>3. QED
      BY <1>1, <2>2, <2>3, <3>1, <3>2, PostBilled DEF Verify
  <2>4. CASE VerifyCrash(k)
    <3>1. \A j \in Keys : imp'[j] = imp[j] \/ imp'[j] = NoImp
      BY <2>4 DEF VerifyCrash, Recover
    <3>2. \A j \in Accepted' : imp'[j].state = imp[j].state
      BY <3>1 DEF Accepted, Pending, InState
    <3>3. AcceptedKept
      BY <1>1, <3>1, NothingAccepted
    <3>4. QED
      BY <1>1, <2>2, <2>4, <3>2, <3>3, PostBilled DEF VerifyCrash
  <2>5. CASE Reject(k)
    <3>1. /\ AcceptedKept /\ imp'[k].state = "rejected" /\ billed' = billed
          /\ \A j \in Keys : j # k => imp'[j] = imp[j]
      BY <1>1, <2>2, <2>5, DecidedKept DEF Reject, ledger
    <3>2. \A j \in Accepted' : imp'[j].state = imp[j].state
      BY <3>1 DEF Accepted, Pending, InState
    <3>3. QED
      BY <1>1, <3>1, <3>2, BilledKept
  <2>6. QED
    BY <2>1, <2>3, <2>4, <2>5
<1>5. CASE Money
  BY <1>2, <1>5 DEF Money, Deposit, DrawSubmit, DrawSettled, DrawReversed, store
<1>6. CASE Serve
  BY <1>2, <1>6 DEF Serve, ServeAd, ledger
<1>7. CASE Restart
  BY <1>2, <1>7 DEF Restart, Recover, ledger
<1>8. CASE Admin \/ Vacuum \/ Tick \/ UNCHANGED vars
  BY <1>2, <1>8 DEF Admin, Ban, Unban, Vacuum, Tick, vars, ledger, store
<1>9. QED
  BY <1>3, <1>4, <1>5, <1>6, <1>7, <1>8 DEF Next

\* The state of an impression says "verified" only of money that was written
\* for it (pipeline.ts:299), whatever is verified twice, crashes in between or
\* is loaded from the disk, as long as no id stands for two reports.
THEOREM VerifiedMeansBilled ==
  ASSUME DisjointIds
  PROVE  Spec /\ [][FreshReports]_vars => []VerifiedIsBilled
<1>1. Init => BilledInv
  BY DEF Init, BilledInv, VerifiedIsBilled, Pending, InState
<1>2. /\ IInv /\ ChargeInv /\ KeepInv /\ BilledInv /\ [Next]_vars /\ [FreshReports]_vars
      => BilledInv'
  BY StepBilled
<1>3. BilledInv => VerifiedIsBilled
  BY DEF BilledInv
<1>4. QED
  BY <1>1, <1>2, <1>3, Invariant, ChargeInvariant, KeepInvariant, PTL DEF Spec
=============================================================================
