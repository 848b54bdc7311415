------------------------------- MODULE AdCache -------------------------------
(***************************************************************************)
(* The ads the daemon has fetched and not shown yet (ServerSync).          *)
(*                                                                         *)
(* An ad is one delivery of the server, known by its nonce: taking it from *)
(* the cache uses it up.  A prefetch asks for one ad at a time until the   *)
(* cache is full; each request is an await, and whoever takes an ad from a *)
(* cache that is nearly empty starts another prefetch without looking for  *)
(* one that is already under way.                                          *)
(***************************************************************************)
EXTENDS Naturals, Sequences

CONSTANTS
  Deliveries,    \* bound: ads the server delivers
  NoAd,          \* no ad
  PrefetchCount, \* a prefetch goes on while the cache holds fewer
  LowMark,       \* taking an ad starts a prefetch when fewer are left
  MaxFetches     \* bound: requests for an ad on their way to the server

\* Ads are numbered in the order of their delivery.
Ads == 1 .. Deliveries

ASSUME CacheAssumption ==
  /\ {Deliveries, PrefetchCount, LowMark, MaxFetches} \subseteq Nat
  /\ NoAd \notin Ads

VARIABLES
  ads,       \* the cache, oldest first
  fetches,   \* requests for an ad the server has not seen yet
  replies,   \* ads on their way to the daemon
  delivered, \* how many ads the server has delivered
  expired    \* how many of them have expired: all live equally long

cacheVars == <<ads, fetches, replies, delivered, expired>>

CacheTypeOK ==
  /\ ads \in Seq(Ads)
  /\ fetches \in 0 .. MaxFetches
  /\ replies \subseteq Ads
  /\ delivered \in 0 .. Deliveries
  /\ expired \in 0 .. delivered

CacheInit ==
  /\ ads = <<>> /\ fetches = 0 /\ replies = {}
  /\ delivered = 0 /\ expired = 0

-----------------------------------------------------------------------------
FreshFrom == {i \in 1 .. Len(ads) : ads[i] > expired}

\* The cache without the expired ads at its head.
Fresh ==
  IF FreshFrom = {} THEN <<>>
  ELSE LET i == CHOOSE j \in FreshFrom : \A k \in FreshFrom : j <= k
       IN  SubSeq(ads, i, Len(ads))

\* nextAd: the ad that is taken and what stays in the cache.
TakenAd == IF Fresh = <<>> THEN NoAd ELSE Head(Fresh)
RestAds == IF Fresh = <<>> THEN <<>> ELSE Tail(Fresh)

\* A prefetch starts while `cached' is left, whether or not one is under way.
Refill(cached, mark) ==
  fetches' = IF Len(cached) < mark /\ fetches < MaxFetches THEN fetches + 1 ELSE fetches

\* For the spinner: the ad is looked at and stays.
PeekAd ==
  /\ ads' = Fresh
  /\ Refill(Fresh, LowMark)

NextAd ==
  /\ ads' = RestAds
  /\ Refill(RestAds, LowMark)

-----------------------------------------------------------------------------
\* The timer of 30 seconds, and the start of the daemon.
Prefetch ==
  /\ Len(ads) < PrefetchCount /\ fetches < MaxFetches
  /\ fetches' = fetches + 1
  /\ UNCHANGED <<ads, replies, delivered, expired>>

\* The server delivers an ad: POST /v1/ads/next.
Deliver ==
  /\ fetches > 0 /\ delivered < Deliveries
  /\ fetches' = fetches - 1
  /\ delivered' = delivered + 1
  /\ replies' = replies \cup {delivered + 1}
  /\ UNCHANGED <<ads, expired>>

\* No ad to show, an error or a timeout: the prefetch ends.
FetchFails ==
  /\ fetches > 0
  /\ fetches' = fetches - 1
  /\ UNCHANGED <<ads, replies, delivered, expired>>

ReplyLost(n) ==
  /\ n \in replies
  /\ replies' = replies \ {n}
  /\ UNCHANGED <<ads, fetches, delivered, expired>>

\* The ad is put into the cache and the same prefetch asks for another.
ReplyArrives(n) ==
  /\ n \in replies
  /\ replies' = replies \ {n}
  /\ ads' = Append(ads, n)
  /\ Refill(ads', PrefetchCount)
  /\ UNCHANGED <<delivered, expired>>

\* The time to live of the oldest ad is over.
Expire ==
  /\ expired < delivered
  /\ expired' = expired + 1
  /\ UNCHANGED <<ads, fetches, replies, delivered>>

\* The daemon ends: its cache and its requests are gone.
CacheLost ==
  /\ ads' = <<>> /\ fetches' = 0 /\ replies' = {}
  /\ UNCHANGED <<delivered, expired>>
=============================================================================
