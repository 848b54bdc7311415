------------------------------ MODULE Auction ------------------------------
(***************************************************************************)
(* Campaigns, sponsor pools and the selector that serves them.             *)
(*                                                                         *)
(* A publisher sees the campaigns of its open pool, or, without one, the   *)
(* general campaigns.  Each publisher has a tour of stage slots; the daemon*)
(* prefetches ads, so a slot whose ad expired unreported goes back to the  *)
(* head of the tour.  The tour is written through to the disk, the memory  *)
(* of what was shown lately is not.  A pool's budget is set aside from the *)
(* sponsor's balance: neither the sponsor's general campaigns nor its      *)
(* withdrawals may touch it.                                               *)
(*                                                                         *)
(* Ads are numbered in the order of their delivery.  The horizon is below  *)
(* the 90 days after which decided impressions are deleted.                *)
(***************************************************************************)
EXTENDS Stage, Totals

CONSTANTS
  Publishers, Advertisers,
  Ads,           \* general campaigns
  Projects,      \* campaigns that teams may enter into pools
  Pools,
  None,          \* no pool, no project
  AdOwner,       \* the advertiser of each general campaign
  AdBid,         \* its bid
  DailyBudget,   \* its daily spending cap
  BlockLimit,    \* the impressions it bought (blocks * IMPRESSIONS_PER_BLOCK)
  Sponsor,       \* the advertiser behind each pool
  PoolBid,       \* the bid of all projects of a pool
  MemberCap,     \* impressions a member of a pool may get in a day
  Budgets,       \* budgets a sponsor may set
  Amounts,       \* amounts advertisers deposit and withdraw
  Funds,         \* at the start: the balances,
  Running,       \* ... the active general campaigns,
  Opened,        \* ... the budgets of the open pools, 0 for the others,
  Joined,        \* ... the pool of each publisher
  Entered,       \* ... and the entry of each project
  NonceTtl,      \* lifetime of a delivered ad
  GcAfter,       \* how long an expired delivery is remembered
  DayLen,        \* ticks in a day
  MaxClock,      \* bound: the clock stops here
  MaxAds,        \* bound: ads ever delivered
  MaxEdits,      \* bound: changes of campaigns, pools, members and balances
  MaxRequests,   \* bound: project requests of a team under way
  MaxRestarts    \* bound: restarts of the server

ASSUME MarketAssumption ==
  /\ IsFiniteSet(Ads) /\ IsFiniteSet(Projects) /\ IsFiniteSet(Pools)
  /\ Ads \cap Projects = {} /\ None \notin Pools
  /\ None \notin [pool : Pools, team : Publishers]
  /\ AdOwner \in [Ads -> Advertisers] /\ Sponsor \in [Pools -> Advertisers]
  /\ AdBid \in [Ads -> Nat] /\ PoolBid \in [Pools -> Nat] /\ MemberCap \in [Pools -> Nat]
  /\ \A c \in Ads : AdBid[c] >= ReservePrice
  /\ \A k \in Pools : PoolBid[k] >= ReservePrice
  /\ Budgets \subseteq Nat /\ Amounts \subseteq Nat

ASSUME StartAssumption ==
  /\ Running \subseteq Ads
  /\ Opened \in [Pools -> Nat]
  /\ Joined \in [Publishers -> Pools \cup {None}]
  /\ Entered \in [Projects -> [pool : Pools, team : Publishers] \cup {None}]
  /\ Funds \in [Advertisers -> Nat]

ASSUME TimesAssumption ==
  /\ {NonceTtl, GcAfter, MaxClock, MaxAds, MaxEdits, MaxRequests, MaxRestarts} \subseteq Nat
  /\ DayLen \in Nat \ {0}

VARIABLES
  status,   \* of each campaign: "none" until it is created
  entry,    \* of each project: its pool and its team
  pool,     \* of each pool: "none", "open" or "closed"
  budget,   \* of each pool
  member,   \* the pool each publisher joined last
  asked,    \* project requests that passed the checks and await their body
  tour,     \* the slots each publisher has left, on disk and in memory
  recent,   \* the campaigns each publisher saw, the latest last
  ads,      \* every ad ever delivered
  held,     \* the deliveries in memory
  returned, \* the deliveries whose slot was given back, in memory
  built,    \* history: the slots ever built for a publisher and a campaign
  balance,  \* the ledger balance of each advertiser
  clock, edits, restarts

market == <<status, entry, pool, budget, member>>
stage == <<tour, recent, built>>
deliveries == <<ads, held, returned>>
vars == <<market, asked, stage, deliveries, balance, clock, edits, restarts>>

Campaigns == Ads \cup Projects
Entry == [pool : Pools, team : Publishers]

Ad == [pub : Publishers, camp : Campaigns, rate : Nat, expires : Nat, at : Nat,
       state : {"unreported", "pending", "verified", "rejected"}]

(***************************************************************************)
(* What the stores say of a campaign                                       *)
(***************************************************************************)
PoolOfCampaign(c) == IF c \in Projects THEN entry[c].pool ELSE None
Owner(c) == IF c \in Ads THEN AdOwner[c] ELSE Sponsor[entry[c].pool]
Bid(c) == IF c \in Ads THEN AdBid[c] ELSE PoolBid[entry[c].pool]
ProjectsOf(k) == {c \in Projects : entry[c] # None /\ entry[c].pool = k}
MyProjects(p, k) == {c \in ProjectsOf(k) : entry[c].team = p}
PoolOf(p) == IF member[p] # None /\ pool[member[p]] = "open" THEN member[p] ELSE None

(***************************************************************************)
(* Money and counts the server derives from its deliveries and impressions *)
(***************************************************************************)
Live(n) == n \in held /\ ads[n].state = "unreported" /\ ads[n].expires >= clock
Waiting(n) == ads[n].state = "pending"
Billed(n) == ads[n].state = "verified"
DayOf(t) == t \div DayLen

RateSum(S) == Total([n \in S |-> ads[n].rate])
Of(S) == {n \in DOMAIN ads : ads[n].camp \in S}

LessDelivered(a) ==
  Max({0, balance[a] - RateSum({n \in DOMAIN ads : Owner(ads[n].camp) = a /\ Live(n)})})
Spendable(a) ==
  Max({0, balance[a] -
    RateSum({n \in DOMAIN ads : Owner(ads[n].camp) = a /\ (Live(n) \/ Waiting(n))})})

BilledSpend(S) == RateSum({n \in Of(S) : Billed(n)})
SpentOn(S) == RateSum({n \in Of(S) : Live(n) \/ Waiting(n) \/ Billed(n)})

SpentToday(c) ==
  RateSum({n \in Of({c}) : (Waiting(n) \/ Billed(n)) /\ DayOf(ads[n].at) = DayOf(clock)})

Committed(c) == Cardinality({n \in Of({c}) : Live(n) \/ Waiting(n) \/ Billed(n)})

ReportedToday(p, S) ==
  Cardinality({n \in Of(S) : /\ ads[n].pub = p /\ (Waiting(n) \/ Billed(n))
                             /\ DayOf(ads[n].at) >= DayOf(clock)})
ServedToday(p, S) ==
  ReportedToday(p, S) + Cardinality({n \in Of(S) : ads[n].pub = p /\ Live(n)})

PoolReserve(a) ==
  LET open == {k \in Pools : Sponsor[k] = a /\ pool[k] = "open"}
  IN  Total([k \in open |-> Max({0, budget[k] - SpentOn(ProjectsOf(k))})])

Withdrawable(a) == Max({0, Spendable(a) - PoolReserve(a)})
WholeBalance(c) == Spendable(Owner(c))
SpendableFor(c) == IF c \in Projects THEN Spendable(Owner(c)) ELSE Withdrawable(Owner(c))

(***************************************************************************)
(* The selector                                                            *)
(***************************************************************************)
PoolAllows(p, k, rate) ==
  /\ ServedToday(p, ProjectsOf(k)) < MemberCap[k]
  /\ SpentOn(ProjectsOf(k)) + rate <= budget[k]

NotEmpty(c) == SpendableFor(c) > 0
Affordable(c) == SpendableFor(c) >= RateOf(Bid(c))

WithinLimits(c) ==
  c \in Ads => /\ SpentToday(c) + RateOf(Bid(c)) <= DailyBudget[c]
               /\ Committed(c) < BlockLimit[c]

Eligible(p) ==
  {c \in Campaigns :
     /\ status[c] = "active"
     /\ PoolOfCampaign(c) = PoolOf(p)
     /\ c \in Projects => entry[c].team # p /\ PoolAllows(p, PoolOf(p), RateOf(Bid(c)))
     /\ RateOf(Bid(c)) > 0
     /\ Affordable(c)
     /\ WithinLimits(c)}

Bids(E) == [c \in E |-> Bid(c)]
Owners(E) == [c \in E |-> Owner(c)]

ClearingPrice(c, E) == IF c \in Projects THEN Bid(c) ELSE Clearing(c, E, Bids(E), Owners(E))

Lapsed(n) == ads[n].state = "unreported" /\ ads[n].expires < clock
Restored(p) == {n \in held \ returned : ads[n].pub = p /\ Lapsed(n)}

(***************************************************************************)
(* Start: a server over a database that earlier calls filled               *)
(***************************************************************************)
Init ==
  /\ entry = Entered
  /\ status = [c \in Campaigns |->
       IF c \in Running \/ (c \in Projects /\ Entered[c] # None) THEN "active" ELSE "none"]
  /\ budget = Opened
  /\ pool = [k \in Pools |-> IF Opened[k] = 0 THEN "none" ELSE "open"]
  /\ member = Joined
  /\ asked = [pk \in Publishers \X Pools |-> 0]
  /\ tour = [p \in Publishers |-> <<>>]
  /\ recent = [p \in Publishers |-> <<>>]
  /\ built = [p \in Publishers |-> [c \in Campaigns |-> 0]]
  /\ ads = <<>> /\ held = {} /\ returned = {}
  /\ balance = Funds
  /\ clock = 0 /\ edits = 0 /\ restarts = 0

(***************************************************************************)
(* Advertisers, sponsors and teams                                         *)
(***************************************************************************)
Edit ==
  /\ edits < MaxEdits
  /\ edits' = edits + 1
  /\ UNCHANGED <<stage, deliveries, clock, restarts>>

CreateCampaign(c) ==
  /\ Edit
  /\ status[c] = "none"
  /\ status' = [status EXCEPT ![c] = "paused"]
  /\ UNCHANGED <<entry, pool, budget, member, asked, balance>>

\* A sponsor may stop a project of its pool like a campaign of its own.
SetStatus(c, s) ==
  /\ Edit
  /\ status[c] \notin {"none", s}
  /\ s = "active" => Spendable(Owner(c)) > 0
  /\ status' = [status EXCEPT ![c] = s]
  /\ UNCHANGED <<entry, pool, budget, member, asked, balance>>

CreatePool(k, b) ==
  /\ Edit
  /\ pool[k] = "none"
  /\ b * Block >= PoolBid[k]
  /\ pool' = [pool EXCEPT ![k] = "open"]
  /\ budget' = [budget EXCEPT ![k] = b]
  /\ UNCHANGED <<status, entry, member, asked, balance>>

SetBudget(k, b) ==
  /\ Edit
  /\ pool[k] = "open" /\ budget[k] # b
  /\ budget' = [budget EXCEPT ![k] = b]
  /\ UNCHANGED <<status, entry, pool, member, asked, balance>>

ClosePool(k) ==
  /\ Edit
  /\ pool[k] = "open"
  /\ pool' = [pool EXCEPT ![k] = "closed"]
  /\ UNCHANGED <<status, entry, budget, member, asked, balance>>

Join(p, k) ==
  /\ Edit
  /\ pool[k] = "open" /\ member[p] # k
  /\ member' = [member EXCEPT ![p] = k]
  /\ UNCHANGED <<status, entry, pool, budget, asked, balance>>

Leave(p) ==
  /\ Edit
  /\ member[p] # None
  /\ member' = [member EXCEPT ![p] = None]
  /\ UNCHANGED <<status, entry, pool, budget, asked, balance>>

\* The request to enter a project: its checks run before the body is read,
\* the project is created after, whatever happened to the pool meanwhile.
AskProject(p) ==
  LET k == PoolOf(p) IN
  /\ Edit
  /\ k # None
  /\ MyProjects(p, k) = {}
  /\ asked[<<p, k>>] < MaxRequests
  /\ asked' = [asked EXCEPT ![<<p, k>>] = @ + 1]
  /\ UNCHANGED <<market, balance>>

CreateProject(p, k) ==
  LET c == CHOOSE x \in Projects : entry[x] = None IN
  /\ asked[<<p, k>>] > 0
  /\ \E x \in Projects : entry[x] = None
  /\ asked' = [asked EXCEPT ![<<p, k>>] = @ - 1]
  /\ entry' = [entry EXCEPT ![c] = [pool |-> k, team |-> p]]
  /\ status' = [status EXCEPT ![c] = "active"]
  /\ UNCHANGED <<pool, budget, member, stage, deliveries, balance, clock, edits, restarts>>

Deposit(a, amount) ==
  /\ Edit
  /\ balance' = [balance EXCEPT ![a] = @ + amount]
  /\ UNCHANGED <<market, asked>>

Withdraw(a, amount) ==
  /\ Edit
  /\ amount <= Withdrawable(a)
  /\ balance' = [balance EXCEPT ![a] = @ - amount]
  /\ UNCHANGED <<market, asked>>

(***************************************************************************)
(* Publishers                                                              *)
(***************************************************************************)
Remember(p, c) ==
  recent' = [recent EXCEPT ![p] = Append(Only(@, Campaigns \ {c}), c)]

\* The deliveries that stay in memory: one serve forgets those of everybody
\* that expired long ago.
Kept(H) == {n \in H : n > Len(ads) \/ ads[n].expires >= clock - GcAfter}

GiveBack(p) ==
  LET lapsed == InOrder(Restored(p))
  IN  [i \in DOMAIN lapsed |-> ads[lapsed[i]].camp] \o tour[p]

ServeAd(p) ==
  LET E == Eligible(p)
      back == GiveBack(p)
      n == Len(ads) + 1
  IN
  /\ n <= MaxAds /\ E # {}
  /\ \E next \in NextTours(back, E, Bids(E), recent[p]) :
       LET c == Head(next) IN
       /\ ads' = Append(ads, [pub |-> p, camp |-> c, at |-> clock, state |-> "unreported",
                              rate |-> RateOf(ClearingPrice(c, E)), expires |-> clock + NonceTtl])
       /\ tour' = [tour EXCEPT ![p] = Tail(next)]
       /\ built' = IF Continues(back, E) THEN built
                   ELSE [built EXCEPT ![p] = [d \in Campaigns |-> @[d] + Occurrences(next, d)]]
       /\ Remember(p, c)
  /\ held' = Kept(held \cup {n})
  /\ returned' = (returned \cup Restored(p)) \cap held'
  /\ UNCHANGED <<market, asked, balance, clock, edits, restarts>>

\* Nothing to show: the slots of expired ads are given back all the same.
ServeNothing(p) ==
  /\ Eligible(p) = {} /\ Restored(p) # {}
  /\ tour' = [tour EXCEPT ![p] = GiveBack(p)]
  /\ returned' = returned \cup Restored(p)
  /\ UNCHANGED <<market, asked, recent, built, ads, held, balance, clock, edits, restarts>>

Decide(n, from, to) ==
  /\ ads[n].state = from
  /\ ads' = [ads EXCEPT ![n].state = to, ![n].at = IF from = "unreported" THEN clock ELSE @]
  /\ UNCHANGED <<market, asked, stage, held, returned, clock, edits, restarts>>

Report(n) == Live(n) /\ Decide(n, "unreported", "pending") /\ UNCHANGED balance

Verify(n) ==
  /\ Decide(n, "pending", "verified")
  /\ balance' = [balance EXCEPT ![Owner(ads[n].camp)] = @ - ads[n].rate]

Reject(n) == Decide(n, "pending", "rejected") /\ UNCHANGED balance

(***************************************************************************)
(* Time and restarts                                                       *)
(***************************************************************************)
Tick ==
  /\ clock < MaxClock
  /\ clock' = clock + 1
  /\ UNCHANGED <<market, asked, stage, deliveries, balance, edits, restarts>>

\* Deliveries and tours come back from the disk; an expired delivery counts
\* as given back; requests under way and the recent shows are gone.
NothingExpired == {}
Expired == {n \in held : ads[n].expires < clock}

Restart ==
  /\ restarts < MaxRestarts
  /\ restarts' = restarts + 1
  /\ returned' = Expired
  /\ recent' = [p \in Publishers |-> <<>>]
  /\ asked' = [pk \in Publishers \X Pools |-> 0]
  /\ UNCHANGED <<market, tour, built, ads, held, balance, clock, edits>>

Manage ==
  \/ \E c \in Ads : CreateCampaign(c)
  \/ \E c \in Campaigns, s \in {"active", "paused"} : SetStatus(c, s)
  \/ \E a \in Advertisers, amount \in Amounts : Deposit(a, amount) \/ Withdraw(a, amount)

Host ==
  \/ \E k \in Pools, b \in Budgets : CreatePool(k, b) \/ SetBudget(k, b)
  \/ \E k \in Pools : ClosePool(k)
  \/ \E p \in Publishers, k \in Pools : Join(p, k) \/ CreateProject(p, k)
  \/ \E p \in Publishers : Leave(p) \/ AskProject(p)

Show ==
  \/ \E p \in Publishers : ServeAd(p) \/ ServeNothing(p)
  \/ \E n \in DOMAIN ads : Report(n) \/ Verify(n) \/ Reject(n)

Next == Manage \/ Host \/ Show \/ Tick \/ Restart

Spec == Init /\ [][Next]_vars

(***************************************************************************)
(* Properties                                                              *)
(***************************************************************************)
TypeOK ==
  /\ status \in [Campaigns -> {"none", "paused", "active"}]
  /\ entry \in [Projects -> Entry \cup {None}]
  /\ pool \in [Pools -> {"none", "open", "closed"}] /\ budget \in [Pools -> Nat]
  /\ member \in [Publishers -> Pools \cup {None}]
  /\ asked \in [Publishers \X Pools -> 0 .. MaxRequests]
  /\ tour \in [Publishers -> Seq(Campaigns)] /\ recent \in [Publishers -> Seq(Campaigns)]
  /\ ads \in Seq(Ad)
  /\ returned \subseteq held /\ held \subseteq DOMAIN ads
  /\ balance \in [Advertisers -> Nat]

\* A publisher's tour and the ads it may still show, or has shown, never use
\* more slots of a campaign than tours were built with: a slot that comes
\* back for an expired ad comes back once, through restarts too.
NoSlotTwice ==
  \A p \in Publishers, c \in Campaigns :
    Occurrences(tour[p], c) + Cardinality({n \in Of({c}) : ads[n].pub = p /\ ~Lapsed(n)}) <= built[p][c]

\* For whoever is eligible: an advertiser's own campaigns never raise its
\* price, a campaign never pays more than it bid, and of two advertisers the
\* one that bid more never pays less.
FairPrices ==
  \A p \in Publishers :
    LET E == Eligible(p) IN
    \A c \in E :
      LET own == {d \in E \ {c} : Owner(d) = Owner(c)} IN
      /\ ClearingPrice(c, E) = ClearingPrice(c, E \ own)
      /\ ClearingPrice(c, E) <= Bid(c)
      /\ \A d \in E : Bid(c) > Bid(d) => ClearingPrice(c, E) >= ClearingPrice(d, E)

\* A campaign that cannot pay silences nobody: whatever campaign comes next,
\* its advertiser can pay the price (select's last check never fails).
NeverSilent ==
  \A p \in Publishers :
    LET E == Eligible(p) IN
    \A c \in E : SpendableFor(c) >= RateOf(ClearingPrice(c, E))

\* A member of a pool earns at most the cap of its impressions in a day,
\* however late it reports and however often it leaves and joins again.
MemberCapKept ==
  \A p \in Publishers, k \in Pools : \A d \in 0 .. DayOf(clock) :
    Cardinality({n \in Of(ProjectsOf(k)) :
      /\ ads[n].pub = p /\ (Waiting(n) \/ Billed(n))
      /\ DayOf(ads[n].at) = d}) <= MemberCap[k]

\* What a sponsor's open pools lack grows only when the sponsor opens a pool
\* or changes a budget: its campaigns, its withdrawals and the timing of
\* reports never take money set aside for a pool.
Shortfall(a) == Max({0, PoolReserve(a) - Spendable(a)})
SameTerms(a) == \A k \in Pools : Sponsor[k] = a => <<pool[k], budget[k]>>' = <<pool[k], budget[k]>>
PoolMoneyKept ==
  [][\A a \in Advertisers : SameTerms(a) =>
       \/ PoolReserve(a)' <= Spendable(a)'
       \/ Shortfall(a)' <= Shortfall(a)]_vars

\* A pool spends beyond its budget only because the sponsor lowered it.
Excess(k) == Max({0, SpentOn(ProjectsOf(k)) - budget[k]})
PoolBudgetKept ==
  [][\A k \in Pools : \/ budget'[k] < budget[k]
                      \/ SpentOn(ProjectsOf(k))' <= budget'[k]
                      \/ Excess(k)' <= Excess(k)]_vars
=============================================================================
