------------------------------ MODULE Billing ------------------------------
(***************************************************************************)
(* The billing pipeline of the server: an ad is delivered at a frozen      *)
(* price, the client reports it as an impression, the impression waits,    *)
(* and is then verified (the ledger is posted) or rejected.                *)
(*                                                                         *)
(* One variable per store of the process: the deliveries and impressions   *)
(* held in memory and the subset of them that is still on disk (SQLite),   *)
(* the ledger (balances and posted impression groups) and the bans.  The   *)
(* process is single threaded, so a handler is one action; a crash can     *)
(* only fall between two SQLite transactions of a handler, and each such   *)
(* place is an action of its own (...Crash).                               *)
(*                                                                         *)
(* Money is in stroops, time in ticks.                                     *)
(***************************************************************************)
EXTENDS Integers, FiniteSets, Totals

CONSTANTS
  Publishers,    \* wallets that show ads
  Advertisers,   \* wallets that pay for them
  Campaigns,     \* approved, active campaigns
  Nonces,        \* delivery nonces (fresh random values)
  ImpIds,        \* impression ids, generated by the clients
  Draws,         \* advertiser withdrawals (payout batch ids)
  Owner,         \* the advertiser of each campaign
  Bid,           \* the bid of each campaign, per impression
  Prices,        \* second prices an auction may end with
  Amounts,       \* amounts advertisers deposit and withdraw
  Shares,        \* shares a campaign may leave the publisher, in basis points
  BlockLimit,    \* impressions bought (blocks * 1000) by each campaign
  DailyBudget,   \* daily spending cap of each campaign
  IdsOf,         \* the impression ids each publisher's client may generate
  NonceTtl,      \* lifetime of a nonce
  PendingMs,     \* how long an impression waits before it is verified
  GcAfter,       \* how long an expired delivery is remembered
  RetainMs,      \* how long a decided impression is kept on disk
  Durations,     \* display times a client may report
  DurationSlack, \* tolerance on the reported display time
  DailyCap,      \* verified impressions per publisher and day
  DayLen,        \* ticks in a day
  MaxClock,      \* bound: the clock stops here
  MaxFunds,      \* bound: total ever deposited
  MaxCrashes     \* bound: crashes and restarts

ASSUME SetsAssumption ==
  /\ \A S \in {Publishers, Advertisers, Nonces, ImpIds, Draws} : IsFiniteSet(S)
  /\ Owner \in [Campaigns -> Advertisers]
  /\ IdsOf \in [Publishers -> SUBSET ImpIds]

ASSUME RatesAssumption ==
  /\ Bid \in [Campaigns -> Nat \ {0}]
  /\ Prices \subseteq Nat /\ Amounts \subseteq Nat \ {0}
  /\ Shares \subseteq 0 .. 10000
  /\ BlockLimit \in [Campaigns -> Nat]
  /\ DailyBudget \in [Campaigns -> Nat]

ASSUME TimesAssumption ==
  /\ {NonceTtl, PendingMs, GcAfter, RetainMs, DurationSlack, DailyCap} \subseteq Nat
  /\ Durations \subseteq Nat
  /\ DayLen \in Nat \ {0}
  /\ {MaxClock, MaxFunds, MaxCrashes} \subseteq Nat

VARIABLES
  now,       \* the server's wall clock
  adv,       \* ledger balance of each advertiser account
  pub,       \* ledger balance of each publisher account
  platform,  \* ledger balance of platform_revenue
  billed,    \* ledger: the impression group posted under each impression id
  draw,      \* advertiser withdrawals and how they ended
  delivery,  \* every delivery ever made, by nonce
  known,     \* nonces in the memory map #deliveries
  stored,    \* nonces in the deliveries table
  imp,       \* the memory map #impressions, keyed by publisher and id
  kept,      \* keys in the impressions table
  bans,      \* banned publishers
  funded,    \* total deposited so far
  crashes    \* crashes so far

ledger == <<adv, pub, platform, billed, draw, funded>>
store  == <<delivery, known, stored, imp, kept>>
vars   == <<now, ledger, store, bans, crashes>>

-----------------------------------------------------------------------------
(* Types *)

NoDelivery == [none |-> "delivery"]
NoImp      == [none |-> "impression"]
NoBill     == [none |-> "bill"]
NoDraw     == [none |-> "draw"]

Keys == Publishers \X ImpIds

Delivery == [pub : Publishers, campaign : Campaigns, rate : Nat, bps : Shares,
             expiresAt : Nat, consumed : BOOLEAN]

\* An impression that was accepted on arrival.
Impression == [nonce : Nonces, campaign : Campaigns, rate : Nat, bps : Shares,
               serverTs : Nat, state : {"pending", "verified", "rejected"}]

\* An impression that was refused on arrival: nothing reads the rest of it.
Refusal == [serverTs : Nat, state : {"rejected"}]

\* A posted impression group.  `bps' and `nonce' are not columns of the ledger:
\* they record how it was split and which delivery it was posted for.
Bill == [pub : Publishers, campaign : Campaigns, rate : Nat, bps : Shares,
         nonce : Nonces]

Draw == [adv : Advertisers, amount : Nat,
         state : {"submitted", "settled", "failed"}]

\* The stores hold what their rows can hold, and no account that
\* Ledger.audit wants non-negative is overdrawn (accounts.ts, NON_NEGATIVE).
TypeOK ==
  /\ now \in Nat
  /\ adv \in [Advertisers -> Nat]
  /\ pub \in [Publishers -> Nat]
  /\ platform \in Nat
  /\ billed \in [ImpIds -> Bill \cup {NoBill}]
  /\ draw \in [Draws -> Draw \cup {NoDraw}]
  /\ delivery \in [Nonces -> Delivery \cup {NoDelivery}]
  /\ known \subseteq Nonces
  /\ stored \subseteq Nonces
  /\ imp \in [Keys -> Impression \cup Refusal \cup {NoImp}]
  /\ kept \subseteq Keys
  /\ bans \subseteq Publishers
  /\ funded \in Nat
  /\ crashes \in Nat

-----------------------------------------------------------------------------
(* What the server computes from its stores *)

DayOf(t) == t \div DayLen

Unexpired(n) == delivery[n].expiresAt >= now

\* Deliveries in memory that can still be reported.
Live == {n \in known : ~delivery[n].consumed /\ Unexpired(n)}

InState(s) == {k \in Keys : imp[k] # NoImp /\ imp[k].state = s}
Pending == InState("pending")

LiveRates(a) ==
  [n \in {m \in Live : Owner[delivery[m].campaign] = a} |-> delivery[n].rate]

PendingRates(a) ==
  [k \in {j \in Pending : Owner[imp[j].campaign] = a} |-> imp[k].rate]

\* The two parts of the reservation (pipeline.ts:136-147).
ReservedOnScreenOnly(a) == Total(LiveRates(a))
Reserved(a) == Total(LiveRates(a)) + Total(PendingRates(a))

Spendable(a) == IF adv[a] > Reserved(a) THEN adv[a] - Reserved(a) ELSE 0

CommittedReportedOnly(c) ==
  Cardinality({id \in ImpIds : billed[id] # NoBill /\ billed[id].campaign = c})
  + Cardinality({k \in Pending : imp[k].campaign = c})

\* Impressions that count against campaign c: billed, pending or on a screen.
Committed(c) ==
  Cardinality({id \in ImpIds : billed[id] # NoBill /\ billed[id].campaign = c})
  + Cardinality({n \in Live : delivery[n].campaign = c})
  + Cardinality({k \in Pending : imp[k].campaign = c})

\* Spending of campaign c dated today.  Deliveries not yet reported do not
\* count here, unlike in Reserved and Committed.
SpentOn(c, day) ==
  LET dated == {k \in Pending \cup InState("verified") :
                  /\ imp[k].campaign = c
                  /\ DayOf(imp[k].serverTs) = day}
  IN  Total([k \in dated |-> imp[k].rate])

CountOn(p, day) ==
  Cardinality({k \in InState("verified") :
                 k[1] = p /\ DayOf(imp[k].serverTs) = day})

\* splitRevenue: the platform's part is what remains.
PublisherShare(rate, bps) == (rate * bps) \div 10000
PlatformComputed(rate, bps) == (rate * (10000 - bps)) \div 10000
PlatformShare(rate, bps) == rate - PublisherShare(rate, bps)

\* AdSelector.select: the filters a campaign passes before the auction.
Eligible(c) ==
  /\ Spendable(Owner[c]) >= Bid[c]
  /\ SpentOn(c, DayOf(now)) + Bid[c] <= DailyBudget[c]
  /\ Committed(c) < BlockLimit[c]

\* The replay check, and what a server that only kept it in memory would do.
AnyReport(n)   == n \in known
FirstReport(n) == n \in known /\ ~delivery[n].consumed

NeverTooLate(n) == TRUE
InTime(n) == Unexpired(n)

\* ImpressionIngest.#validate, for an event of publisher p that reports the
\* delivery n of campaign c on screen for d.
Reportable(p, n, c, d) ==
  /\ FirstReport(n)
  /\ InTime(n)
  /\ delivery[n].pub = p
  /\ delivery[n].campaign = c
  /\ d <= now - (delivery[n].expiresAt - NonceTtl) + DurationSlack

Due(k) == now >= imp[k].serverTs + PendingMs

-----------------------------------------------------------------------------
(* Money in and out of the advertiser account *)

Deposit(a, x) ==
  /\ funded + x <= MaxFunds
  /\ adv' = [adv EXCEPT ![a] = @ + x]
  /\ funded' = funded + x
  /\ UNCHANGED <<now, pub, platform, billed, draw, store, bans, crashes>>

\* WithdrawService.withdraw for an advertiser, from the second reading of the
\* spendable balance to Ledger.payoutSubmit: no await in between.
DrawSubmit(w, a, x) ==
  /\ draw[w] = NoDraw
  /\ x <= Spendable(a)
  /\ adv' = [adv EXCEPT ![a] = @ - x]
  /\ draw' = [draw EXCEPT ![w] = [adv |-> a, amount |-> x, state |-> "submitted"]]
  /\ UNCHANGED <<now, pub, platform, billed, funded, store, bans, crashes>>

DrawSettled(w) ==
  /\ draw[w] # NoDraw /\ draw[w].state = "submitted"
  /\ draw' = [draw EXCEPT ![w].state = "settled"]
  /\ UNCHANGED <<now, adv, pub, platform, billed, funded, store, bans, crashes>>

\* Ledger.reverse: the whole amount returns to the account.
DrawReversed(w) ==
  /\ draw[w] # NoDraw /\ draw[w].state = "submitted"
  /\ adv' = [adv EXCEPT ![draw[w].adv] = @ + draw[w].amount]
  /\ draw' = [draw EXCEPT ![w].state = "failed"]
  /\ UNCHANGED <<now, pub, platform, billed, funded, store, bans, crashes>>

-----------------------------------------------------------------------------
(* From the ad request to the ledger *)

\* POST /v1/ads/next.  The stage tour picks any eligible campaign and the
\* second price any rate up to the bid.  The nonce is fresh.  The share `bps'
\* is the campaign's of the moment: a column of its row, which is 5000 for
\* every campaign yet and no operation changes, but every reader must freeze.
ServeAd(p, c, n, rate, bps) ==
  /\ p \notin bans
  /\ Eligible(c)
  /\ rate <= Bid[c]
  /\ delivery[n] = NoDelivery
  /\ delivery' = [delivery EXCEPT ![n] =
       [pub |-> p, campaign |-> c, rate |-> rate, bps |-> bps,
        expiresAt |-> now + NonceTtl, consumed |-> FALSE]]
  /\ stored' = stored \cup {n}
  /\ known' = {n} \cup {m \in known : delivery[m].expiresAt >= now - GcAfter}
  /\ UNCHANGED <<now, ledger, imp, kept, bans, crashes>>

\* The price an impression carries: the one frozen at delivery (ADR-011), not
\* the campaign's price of the moment.  The share is frozen with it.
PriceOfTheMoment(n) == Bid[delivery[n].campaign]
FrozenPrice(n) == delivery[n].rate

\* POST /v1/impressions, an event that passes: the delivery is consumed and
\* the impression starts its wait.
IngestAccept(p, id, n, c, d) ==
  /\ imp[<<p, id>>] = NoImp
  /\ Reportable(p, n, c, d)
  /\ delivery' = [delivery EXCEPT ![n].consumed = TRUE]
  /\ imp' = [imp EXCEPT ![<<p, id>>] =
       [nonce |-> n, campaign |-> c, rate |-> FrozenPrice(n),
        bps |-> delivery[n].bps, serverTs |-> now, state |-> "pending"]]
  /\ kept' = kept \cup {<<p, id>>}
  /\ UNCHANGED <<now, ledger, known, stored, bans, crashes>>

\* POST /v1/impressions, an event that does not pass (`wellFormed' is FALSE
\* for an old client, an unmeasurable surface, a short display or a skewed
\* clock).  The rejection is recorded under its id as well.
IngestReject(p, id, n, c, d, wellFormed) ==
  /\ imp[<<p, id>>] = NoImp
  /\ ~(wellFormed /\ Reportable(p, n, c, d))
  /\ imp' = [imp EXCEPT ![<<p, id>>] = [serverTs |-> now, state |-> "rejected"]]
  /\ kept' = kept \cup {<<p, id>>}
  /\ UNCHANGED <<now, ledger, delivery, known, stored, bans, crashes>>

\* Ledger.postImpression: one group of three entries per impression id; an id
\* whose keys exist is left as it is.
PostImpression(k) ==
  LET i == imp[k]
  IN IF billed[k[2]] # NoBill
     THEN UNCHANGED <<adv, pub, platform, billed>>
     ELSE /\ adv' = [adv EXCEPT ![Owner[i.campaign]] = @ - i.rate]
          /\ pub' = [pub EXCEPT ![k[1]] = @ + PublisherShare(i.rate, i.bps)]
          /\ platform' = platform + PlatformShare(i.rate, i.bps)
          /\ billed' = [billed EXCEPT ![k[2]] =
               [pub |-> k[1], campaign |-> i.campaign, rate |-> i.rate,
                bps |-> i.bps, nonce |-> i.nonce]]

\* The daily cap of the verifier.
CapExceeded(p, day) == CountOn(p, day) > DailyCap
CapReached(p, day)  == CountOn(p, day) >= DailyCap

\* The conditions under which Verifier.evaluate answers "verified": anomaly
\* rules other than the daily cap may still reject a due impression.
Passes(k) ==
  /\ k \in Pending /\ k[1] \notin bans /\ Due(k)
  /\ ~CapReached(k[1], DayOf(imp[k].serverTs))

\* runVerification, one impression of the round.
Verify(k) ==
  /\ Passes(k)
  /\ PostImpression(k)
  /\ imp' = [imp EXCEPT ![k].state = "verified"]
  /\ UNCHANGED <<now, draw, funded, delivery, known, stored, kept, bans, crashes>>

RejectButSkipBanned(k) ==
  /\ k \in Pending /\ k[1] \notin bans /\ Due(k)
  /\ imp' = [imp EXCEPT ![k].state = "rejected"]
  /\ UNCHANGED <<now, ledger, delivery, known, stored, kept, bans, crashes>>

\* runVerification, an impression of the round that is refused: the
\* publisher is banned, or the wait is over and an anomaly rule applies.
Reject(k) ==
  /\ k \in Pending
  /\ k[1] \in bans \/ Due(k)
  /\ imp' = [imp EXCEPT ![k].state = "rejected"]
  /\ UNCHANGED <<now, ledger, delivery, known, stored, kept, bans, crashes>>

Ban(p) ==
  /\ p \notin bans
  /\ bans' = bans \cup {p}
  /\ UNCHANGED <<now, ledger, store, crashes>>

Unban(p) ==
  /\ p \in bans
  /\ bans' = bans \ {p}
  /\ UNCHANGED <<now, ledger, store, crashes>>

-----------------------------------------------------------------------------
(* Retention, crashes and time *)

\* vacuumExpired, hourly: deletes rows, leaves the memory maps alone.
Vacuum ==
  /\ stored' = {n \in stored : delivery[n].expiresAt >= now - GcAfter}
  /\ kept' = {k \in kept : imp[k].state = "pending" \/ imp[k].serverTs >= now - RetainMs}
  /\ <<stored, kept>>' # <<stored, kept>>
  /\ UNCHANGED <<now, ledger, delivery, known, imp, bans, crashes>>

\* A crash, and the constructor of Pipeline reading the tables back.
Recover ==
  /\ crashes < MaxCrashes
  /\ crashes' = crashes + 1
  /\ known' = stored
  /\ imp' = [k \in Keys |-> IF k \in kept THEN imp[k] ELSE NoImp]

\* Between two handlers; a restart that finds everything it had in memory
\* changes nothing.
Restart ==
  /\ Recover
  /\ <<known, imp>>' # <<known, imp>>
  /\ UNCHANGED <<now, ledger, delivery, stored, kept, bans>>

\* The process dies after `consume' and before `save': the delivery is used
\* up and no impression exists for it.
IngestCrash(p, id, n, c, d) ==
  /\ imp[<<p, id>>] = NoImp
  /\ Reportable(p, n, c, d)
  /\ delivery' = [delivery EXCEPT ![n].consumed = TRUE]
  /\ Recover
  /\ UNCHANGED <<now, ledger, stored, kept, bans>>

VerifyCrashStateFirst(k) ==
  /\ Passes(k)
  /\ crashes < MaxCrashes
  /\ crashes' = crashes + 1
  /\ imp' = [imp EXCEPT ![k].state = "verified"]
  /\ UNCHANGED <<now, ledger, delivery, known, stored, kept, bans>>

\* The process dies after Ledger.postImpression and before the state is
\* saved: the impression is billed and still pending.
VerifyCrash(k) ==
  /\ Passes(k)
  /\ PostImpression(k)
  /\ Recover
  /\ UNCHANGED <<now, draw, funded, delivery, stored, kept, bans>>

Tick ==
  /\ now < MaxClock
  /\ now' = now + 1
  /\ UNCHANGED <<ledger, store, bans, crashes>>

-----------------------------------------------------------------------------
Init ==
  /\ now = 0
  /\ adv = [a \in Advertisers |-> 0]
  /\ pub = [p \in Publishers |-> 0]
  /\ platform = 0
  /\ billed = [id \in ImpIds |-> NoBill]
  /\ draw = [w \in Draws |-> NoDraw]
  /\ delivery = [n \in Nonces |-> NoDelivery]
  /\ known = {} /\ stored = {}
  /\ imp = [k \in Keys |-> NoImp]
  /\ kept = {}
  /\ bans = {}
  /\ funded = 0
  /\ crashes = 0

Money ==
  \/ \E a \in Advertisers, x \in Amounts : Deposit(a, x)
  \/ \E w \in Draws, a \in Advertisers, x \in Amounts : DrawSubmit(w, a, x)
  \/ \E w \in Draws : DrawSettled(w) \/ DrawReversed(w)

Serve ==
  \E p \in Publishers, c \in Campaigns, n \in Nonces :
    \E rate \in Prices, bps \in Shares : ServeAd(p, c, n, rate, bps)

Ingest ==
  \E p \in Publishers, n \in Nonces, c \in Campaigns, d \in Durations :
    \E id \in IdsOf[p] :
      \/ IngestAccept(p, id, n, c, d)
      \/ \E wellFormed \in BOOLEAN : IngestReject(p, id, n, c, d, wellFormed)
      \/ IngestCrash(p, id, n, c, d)

RunVerification == \E k \in Keys : Verify(k) \/ Reject(k) \/ VerifyCrash(k)

Admin == \E p \in Publishers : Ban(p) \/ Unban(p)

Next ==
  \/ Money \/ Serve \/ Ingest \/ RunVerification \/ Admin
  \/ Vacuum \/ Restart \/ Tick

Spec == Init /\ [][Next]_vars

-----------------------------------------------------------------------------
(* Fairness: runVerification and the clock are timers of a server that is  *)
(* started again whenever it ends; an error in a round is not caught and   *)
(* ends the process, which is a crash like any other.                      *)

FairSpec ==
  /\ Spec
  /\ WF_vars(Tick)
  /\ \A k \in Keys : WF_vars(Verify(k) \/ Reject(k))

-----------------------------------------------------------------------------
(* Properties *)

Accepted == Pending \cup InState("verified")
Charged  == {id \in ImpIds : billed[id] # NoBill}

\* Pending impressions whose group is not in the ledger.
Unposted == {k \in Pending : billed[k[2]] = NoBill}

UnpostedRates(a) ==
  [k \in {j \in Unposted : Owner[imp[j].campaign] = a} |-> imp[k].rate]

\* What advertiser a has been promised to pay and has not paid yet.
Exposure(a) == Total(LiveRates(a)) + Total(UnpostedRates(a))

\* ADR-021: whatever deliveries, reports, withdrawals, verifications and
\* crashes interleave, the balance of an advertiser covers everything it has
\* been promised to pay (Pipeline.spendable, WithdrawService.withdraw).
CommittedCovered == \A a \in Advertisers : Exposure(a) <= adv[a]

\* A delivery is charged at most once and counted as at most one impression,
\* even when the client repeats the report under another id, the server
\* restarts in between or the rows that would show the repetition were
\* vacuumed (ImpressionIngest.ingest, vacuumExpired).
DeliveryChargedOnce ==
  /\ \A i, j \in Charged : billed[i].nonce = billed[j].nonce => i = j
  /\ \A k, l \in Accepted : imp[k].nonce = imp[l].nonce => k = l
  /\ \A k \in Accepted, i \in Charged :
       imp[k].nonce = billed[i].nonce => k = <<billed[i].pub, i>>

\* Every charge is for a delivery made to that publisher, at the price, with
\* the share and for the campaign frozen when it was delivered (ADR-011).
ChargedAsDelivered ==
  \A id \in Charged :
    LET b == billed[id]
        d == delivery[b.nonce]
    IN  /\ d # NoDelivery
        /\ d.consumed
        /\ <<b.pub, b.campaign, b.rate, b.bps>> = <<d.pub, d.campaign, d.rate, d.bps>>

\* No money appears or disappears (Ledger.audit): what was deposited is in
\* the accounts, on its way out or paid out, and the balance of a publisher
\* is its rounded share of each of its groups.
LedgerBalanced ==
  /\ funded = Total(adv) + Total(pub) + platform
              + Total([w \in {v \in Draws : draw[v] # NoDraw /\ draw[v].state # "failed"}
                         |-> draw[w].amount])
  /\ \A p \in Publishers :
       pub[p] = Total([id \in {i \in Charged : billed[i].pub = p} |->
                         PublisherShare(billed[id].rate, billed[id].bps)])

\* A campaign is never charged for more impressions than it bought, although
\* the limit is read when an ad is delivered and the charge comes a day later
\* (AdSelector.select, Pipeline.committedImpressions).
BlocksNotOversold ==
  \A c \in Campaigns :
    Cardinality({id \in Charged : billed[id].campaign = c}) <= BlockLimit[c]

\* No publisher has more verified impressions on a day than the daily cap,
\* whatever round they were verified in (Verifier.#anomaly).  Charges are not
\* what is counted: one that VerifyCrash left pending may be rejected, and
\* another takes its place under the cap.
DailyCapHolds ==
  \A p \in Publishers, t \in 0 .. now : CountOn(p, DayOf(t)) <= DailyCap

\* A verified impression is in the ledger, for its publisher: the state never
\* says "verified" of money that was not written (pipeline.ts:299).
VerifiedIsBilled ==
  \A k \in InState("verified") :
    /\ billed[k[2]] # NoBill
    /\ billed[k[2]].pub = k[1]
    /\ billed[k[2]].nonce = imp[k].nonce

\* The billing pipeline as an escrow: the state of a delivery's price.
Reserving == Live \cup {imp[k].nonce : k \in Unposted}

PriceState(n) ==
  CASE \E id \in Charged : billed[id].nonce = n -> "charged"
    [] n \in Reserving                           -> "held"
    [] OTHER                                     -> "released"

EscrowItem ==
  [n \in Nonces |->
     IF delivery[n] = NoDelivery
     THEN [state |-> "new"]
     ELSE [state |-> PriceState(n), adv |-> Owner[delivery[n].campaign],
           price |-> delivery[n].rate]]

E == INSTANCE Escrow WITH Items <- Nonces, Amounts <- 0 .. MaxFunds,
                          money <- adv, item <- EscrowItem

\* The pipeline implements the escrow: no charge without money held for that
\* delivery, none after its release, and no release undone (ADR-021).
ImplementsEscrow == E!Spec

\* Money set aside for a delivery does not stay set aside: the nonce expires,
\* or the report is verified or rejected once its wait is over, also when the
\* publisher is banned meanwhile.
ReservationEnds ==
  \A n \in Nonces :
    (n \in Reserving /\ now + NonceTtl + PendingMs <= MaxClock) ~> n \notin Reserving
=============================================================================
