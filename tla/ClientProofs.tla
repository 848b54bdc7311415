---------------------------- MODULE ClientProofs ----------------------------
(***************************************************************************)
(* Proofs about the daemon, for every number of sessions, every deadline   *)
(* and every size of the queue: first its turn machine alone, then the     *)
(* whole client with its cache, its file and its requests.                 *)
(***************************************************************************)
EXTENDS Client, SequenceTheorems, FiniteSetTheorems, WellFoundedInduction, TLAPS

\* The invariant of the turn machine.  That only ticks measure a show rests
\* on the show being that of the session that holds the mutex.
TurnsInv == TypeOK /\ MutexHeld /\ OnlyTicksMeasure

-----------------------------------------------------------------------------
(* The cache of ads *)

LEMMA CacheConstants ==
  /\ Deliveries \in Nat /\ PrefetchCount \in Nat /\ LowMark \in Nat /\ MaxFetches \in Nat
  /\ NoAd \notin Ads /\ Ads = 1 .. Deliveries
BY CacheAssumption DEF Ads

LEMMA NatLess ==
  \E R : IsWellFoundedOn(R, Nat) /\ \A x, y \in Nat : y < x => <<y, x>> \in R
<1>1. \A x, y \in Nat : y < x => <<y, x>> \in OpToRel(<, Nat)
  BY DEF OpToRel
<1>2. QED
  BY <1>1, NatLessThanWellFounded

\* A set of numbers has a least element.
LEMMA Least ==
  ASSUME NEW T \in SUBSET Nat, T # {}
  PROVE  \E m \in T : \A k \in T : m <= k
<1>1. PICK R : IsWellFoundedOn(R, Nat) /\ \A x, y \in Nat : y < x => <<y, x>> \in R
  BY NatLess
<1>2. PICK m \in T : \A k \in T : <<k, m>> \notin R
  BY <1>1, WFMin
<1>3. ASSUME NEW k \in T PROVE m <= k
  <2>1. k \in Nat /\ m \in Nat
    OBVIOUS
  <2>2. ~(k < m)
    BY <1>1, <1>2, <2>1
  <2>3. QED
    BY <2>1, <2>2
<1>4. QED
  BY <1>3

LEMMA FreshTyped ==
  ASSUME ads \in Seq(Ads)
  PROVE  /\ Fresh \in Seq(Ads)
         /\ TakenAd \in Ads \cup {NoAd}
         /\ RestAds \in Seq(Ads)
<1>1. Fresh \in Seq(Ads)
  <2>1. CASE FreshFrom = {}
    BY <2>1 DEF Fresh
  <2>2. CASE FreshFrom # {}
    <3>1. FreshFrom \in SUBSET (1 .. Len(ads)) /\ Len(ads) \in Nat /\ FreshFrom \in SUBSET Nat
      BY DEF FreshFrom
    <3>2. \E j \in FreshFrom : \A k \in FreshFrom : j <= k
      BY <2>2, <3>1, Least
    <3>3. PICK i \in FreshFrom : Fresh = SubSeq(ads, i, Len(ads))
      BY <2>2, <3>2 DEF Fresh
    <3>4. \A j \in i .. Len(ads) : ads[j] \in Ads
      BY <3>1, <3>3
    <3>5. QED
      BY <3>1, <3>3, <3>4, SubSeqProperties
  <2>3. QED
    BY <2>1, <2>2
<1>2. CASE Fresh = <<>>
  BY <1>1, <1>2 DEF TakenAd, RestAds
<1>3. CASE Fresh # <<>>
  BY <1>1, <1>3, HeadTailProperties DEF TakenAd, RestAds
<1>4. QED
  BY <1>1, <1>2, <1>3

LEMMA RefillTyped ==
  ASSUME fetches \in 0 .. MaxFetches, NEW s, NEW mark, Refill(s, mark)
  PROVE  fetches' \in 0 .. MaxFetches
BY CacheConstants DEF Refill

LEMMA CacheTypedBy ==
  ASSUME CacheTypeOK, NextAd \/ PeekAd \/ UNCHANGED <<ads, fetches>>,
         UNCHANGED <<replies, delivered, expired>>
  PROVE  CacheTypeOK'
<1>1. ads' \in Seq(Ads)
  BY FreshTyped DEF CacheTypeOK, NextAd, PeekAd
<1>2. fetches' \in 0 .. MaxFetches
  BY RefillTyped DEF CacheTypeOK, NextAd, PeekAd
<1>3. QED
  BY <1>1, <1>2 DEF CacheTypeOK

LEMMA CacheStepTyped ==
  ASSUME CacheTypeOK, Cache \/ CacheLost
  PROVE  CacheTypeOK'
<1>1. CASE CacheLost
  BY <1>1, CacheConstants DEF CacheLost, CacheTypeOK
<1>2. CASE Prefetch
  BY <1>2, CacheConstants DEF CacheTypeOK, Prefetch
<1>8. CASE FetchFails
  BY <1>8, CacheConstants DEF CacheTypeOK, FetchFails
<1>7. CASE Expire
  BY <1>7, CacheConstants DEF CacheTypeOK, Expire
<1>3. CASE Deliver
  BY <1>3, CacheConstants DEF CacheTypeOK, Deliver
<1>4. ASSUME NEW n \in Ads, ReplyLost(n) PROVE CacheTypeOK'
  BY <1>4 DEF CacheTypeOK, ReplyLost
<1>5. ASSUME NEW n \in Ads, ReplyArrives(n) PROVE CacheTypeOK'
  <2>1. ads' \in Seq(Ads)
    BY <1>5 DEF CacheTypeOK, ReplyArrives
  <2>2. fetches' \in 0 .. MaxFetches
    BY <1>5, RefillTyped DEF CacheTypeOK, ReplyArrives
  <2>3. QED
    BY <1>5, <2>1, <2>2 DEF CacheTypeOK, ReplyArrives
<1>6. QED
  BY <1>1, <1>2, <1>3, <1>4, <1>5, <1>7, <1>8 DEF Cache
-----------------------------------------------------------------------------
(* The turns and the show *)

LEMMA TurnConstants ==
  /\ NoSession \notin Sessions /\ Headless \subseteq Sessions
  /\ StaleMutex \in Nat /\ IdleGrace \in Nat /\ MaxQuiet \in Nat /\ MaxAge \in Nat
BY TurnsAssumption

LEMMA TurnTypes ==
  /\ Idle \in Turn /\ Idle.phase = "idle"
  /\ [Idle EXCEPT !.phase = "showing"] \in Turn
  /\ [Idle EXCEPT !.phase = "showing"].phase = "showing"
  /\ \A sh \in Show : sh # NoShow
  /\ \A a \in Ads, s \in Sessions : [ad |-> a, session |-> s, age |-> 0, seen |-> 0] \in Show
BY TurnConstants DEF Idle, Turn, Show, NoShow

\* What #expireCooldowns leaves: a turn is over or as it was.
LEMMA LastingTyped ==
  ASSUME TurnsTypeOK
  PROVE  /\ Lasting \in [Sessions -> Turn]
         /\ \A s \in Sessions : Lasting[s].phase # "idle" => InTurn(s)
         /\ \A s \in Sessions : InTurn(s) /\ ~Over(s) => Lasting[s].phase # "idle"
BY TurnTypes DEF TurnsTypeOK, Lasting, InTurn

\* The holder after #expireCooldowns is in a turn, if there is a turn, and
\* the show that was kept is its own.
LEMMA HolderInTurn ==
  ASSUME TurnsTypeOK, MutexHeld, NEW h \in Holders
  PROVE  /\ h \in Sessions \cup {NoSession}
         /\ h = NoSession <=> \A s \in Sessions : Lasting[s].phase = "idle"
         /\ h # NoSession => Lasting[h].phase # "idle"
         /\ Kept # NoShow => Kept = show /\ Kept \in Show /\ Kept.session = h
<1>1. CASE Expires
  BY <1>1, TurnConstants DEF Holders, Heirs, Kept
<1>2. CASE ~Expires
  <2>1. h = active /\ Kept = show
    BY <1>2 DEF Holders, Kept
  <2>2. CASE active = NoSession
    BY <2>1, <2>2, LastingTyped, TurnConstants DEF MutexHeld, TurnsTypeOK
  <2>3. CASE active # NoSession
    <3>1. active \in Sessions /\ InTurn(active) /\ ~Over(active)
      BY <1>2, <2>3 DEF MutexHeld, TurnsTypeOK, Expires
    <3>2. QED
      BY <2>1, <2>3, <3>1, LastingTyped DEF MutexHeld, TurnsTypeOK
  <2>4. QED
    BY <2>2, <2>3
<1>3. QED
  BY <1>1, <1>2

LEMMA StartShowTyped ==
  ASSUME CacheTypeOK, NEW s \in Sessions, StartShow(s)
  PROVE  /\ show' \in Show \cup {NoShow}
         /\ show' # NoShow => show'.session = s /\ show'.seen = 0
<1>1. TakenAd \in Ads \cup {NoAd}
  BY FreshTyped DEF CacheTypeOK
<1>2. CASE TakenAd = NoAd
  BY <1>2 DEF StartShow
<1>3. CASE TakenAd # NoAd
  <2>1. show' = [ad |-> TakenAd, session |-> s, age |-> 0, seen |-> 0]
    BY <1>3 DEF StartShow
  <2>2. QED
    BY <1>1, <1>3, <2>1, TurnTypes
<1>4. QED
  BY <1>2, <1>3

\* A step that leaves the mutex to a session in a turn, or to nobody when
\* there is none.
LEMMA MutexHeldBy ==
  ASSUME TurnsTypeOK', NEW h, active' = h,
         h = NoSession <=> \A s \in Sessions : session'[s].phase = "idle",
         h # NoSession => session'[h].phase # "idle",
         show' # NoShow => show'.session = h
  PROVE  MutexHeld'
BY DEF MutexHeld, InTurn

LEMMA TurnStarts ==
  ASSUME TypeOK, MutexHeld, OnlyTicksMeasure, NEW s \in Sessions, NEW out, OnTurnStart(s, out)
  PROVE  TypeOK' /\ MutexHeld' /\ OnlyTicksMeasure'
<1>1. CacheTypeOK /\ TurnsTypeOK
  BY DEF TypeOK
<1>2. CacheTypeOK'
  BY <1>1, CacheTypedBy DEF OnTurnStart, StartShow
<1>3. /\ session' \in [Sessions -> Turn] /\ session'[s].phase = "showing"
      /\ \A t \in Sessions : t # s => session'[t] = session[t]
  BY <1>1, TurnTypes DEF OnTurnStart, TurnsTypeOK
<1>4. CASE active \in {NoSession, s}
  <2>1. /\ active' = s /\ visible' = visible
        /\ IF show = NoShow THEN StartShow(s) ELSE show' = show
    BY <1>4 DEF OnTurnStart
  <2>2. CASE show = NoShow
    <3>1. show' \in Show \cup {NoShow}
          /\ (show' # NoShow => show'.session = s /\ show'.seen = 0)
      BY <1>1, <2>1, <2>2, StartShowTyped
    <3>2. TurnsTypeOK'
      BY <1>1, <1>3, <2>1, <3>1 DEF TurnsTypeOK
    <3>3. MutexHeld'
      BY <1>3, <2>1, <3>1, <3>2, TurnConstants, MutexHeldBy
    <3>4. QED
      BY <1>2, <3>1, <3>2, <3>3 DEF TypeOK, OnlyTicksMeasure
  <2>3. CASE show # NoShow
    <3>1. show' = show /\ active = s
      BY <1>1, <1>4, <2>1, <2>3, TurnConstants DEF MutexHeld, TurnsTypeOK, Show
    <3>2. TurnsTypeOK'
      BY <1>1, <1>3, <2>1, <3>1 DEF TurnsTypeOK
    <3>3. show'.session = s
      BY <2>3, <3>1 DEF MutexHeld
    <3>4. MutexHeld'
      BY <1>3, <2>1, <3>2, <3>3, TurnConstants, MutexHeldBy
    <3>5. QED
      BY <1>2, <3>1, <3>2, <3>4 DEF TypeOK, OnlyTicksMeasure
  <2>4. QED
    BY <2>2, <2>3
<1>5. CASE active \notin {NoSession, s}
  <2>1. active' = active /\ visible' = visible /\ show' = show
    BY <1>5 DEF OnTurnStart
  <2>2. TurnsTypeOK'
    BY <1>1, <1>3, <2>1 DEF TurnsTypeOK
  <2>3. active \in Sessions /\ session'[active].phase # "idle"
        /\ (show # NoShow => show.session = active)
    BY <1>1, <1>3, <1>5 DEF MutexHeld, InTurn, TurnsTypeOK
  <2>4. MutexHeld'
    BY <1>5, <2>1, <2>2, <2>3, MutexHeldBy
  <2>5. QED
    BY <1>2, <2>1, <2>2, <2>4 DEF TypeOK, OnlyTicksMeasure
<1>6. QED
  BY <1>4, <1>5

LEMMA QuietReset ==
  ASSUME NEW t \in Turn
  PROVE  /\ [t EXCEPT !.quiet = 0] \in Turn /\ [t EXCEPT !.quiet = 0].phase = t.phase
         /\ [t EXCEPT !.phase = "cooldown", !.grace = IdleGrace, !.quiet = 0] \in Turn
         /\ [t EXCEPT !.phase = "cooldown", !.grace = IdleGrace, !.quiet = 0].phase = "cooldown"
<1>1. 0 \in 0 .. MaxQuiet /\ IdleGrace \in 0 .. IdleGrace
  BY TurnConstants
<1>2. [t EXCEPT !.quiet = 0] \in Turn /\ [t EXCEPT !.quiet = 0].phase = t.phase
  BY <1>1 DEF Turn
<1>3. [t EXCEPT !.phase = "cooldown", !.grace = IdleGrace, !.quiet = 0] \in Turn
      /\ [t EXCEPT !.phase = "cooldown", !.grace = IdleGrace, !.quiet = 0].phase = "cooldown"
  BY <1>1 DEF Turn
<1>4. QED
  BY <1>2, <1>3

LEMMA TurnGoesOn ==
  ASSUME TypeOK, MutexHeld, OnlyTicksMeasure, NEW s \in Sessions, NEW out,
         OnActivity(s, out) \/ OnTurnEnd(s, out)
  PROVE  TypeOK' /\ MutexHeld' /\ OnlyTicksMeasure'
<1>1. CacheTypeOK /\ TurnsTypeOK
  BY DEF TypeOK
<1>2. CacheTypeOK'
  BY <1>1, CacheTypedBy DEF OnActivity, OnTurnEnd, cacheVars, CacheTypeOK
<1>3. UNCHANGED <<active, show, visible>>
  BY DEF OnActivity, OnTurnEnd
<1>4. session' \in [Sessions -> Turn]
      /\ \A t \in Sessions : session'[t].phase # "idle" <=> session[t].phase # "idle"
  <2>1. CASE OnActivity(s, out)
    <3>1. session' = [session EXCEPT ![s] = [session[s] EXCEPT !.quiet = 0]]
          /\ session[s] \in Turn
      BY <1>1, <2>1 DEF OnActivity, TurnsTypeOK
    <3>2. [session[s] EXCEPT !.quiet = 0] \in Turn
          /\ [session[s] EXCEPT !.quiet = 0].phase = session[s].phase
      BY <3>1, QuietReset
    <3>3. QED
      BY <1>1, <3>1, <3>2 DEF TurnsTypeOK
  <2>2. CASE OnTurnEnd(s, out) /\ session[s].phase = "showing"
    <3> DEFINE t == [session[s] EXCEPT !.phase = "cooldown", !.grace = IdleGrace, !.quiet = 0]
    <3>1. session' = [session EXCEPT ![s] = t] /\ session[s] \in Turn
      BY <1>1, <2>2 DEF OnTurnEnd, TurnsTypeOK
    <3>2. t \in Turn /\ t.phase = "cooldown"
      BY <3>1, QuietReset
    <3> HIDE DEF t
    <3>3. QED
      BY <1>1, <2>2, <3>1, <3>2 DEF TurnsTypeOK
  <2>3. CASE OnTurnEnd(s, out) /\ session[s].phase # "showing"
    BY <1>1, <2>3 DEF OnTurnEnd, TurnsTypeOK
  <2>4. QED
    BY <2>1, <2>2, <2>3
<1>5. TurnsTypeOK'
  BY <1>1, <1>3, <1>4 DEF TurnsTypeOK
<1>6. MutexHeld'
  BY <1>1, <1>3, <1>4 DEF MutexHeld, InTurn, TurnsTypeOK
<1>7. QED
  BY <1>2, <1>3, <1>5, <1>6 DEF TypeOK, OnlyTicksMeasure

LEMMA SessionEnds ==
  ASSUME TypeOK, MutexHeld, OnlyTicksMeasure, NEW s \in Sessions, NEW out,
         OnSessionEnd(s, out)
  PROVE  TypeOK' /\ MutexHeld' /\ OnlyTicksMeasure'
<1>1. CacheTypeOK /\ TurnsTypeOK
  BY DEF TypeOK
<1>2. CacheTypeOK' /\ visible' = visible
  BY <1>1 DEF OnSessionEnd, cacheVars, CacheTypeOK
<1>3. /\ session' \in [Sessions -> Turn] /\ session'[s].phase = "idle"
      /\ \A t \in Sessions : t # s => session'[t] = session[t]
  BY <1>1, TurnTypes DEF OnSessionEnd, TurnsTypeOK
<1>4. CASE active = s
  <2>1. show' = NoShow /\ active' \in Heirs(session')
    BY <1>4 DEF OnSessionEnd
  <2>2. /\ active' \in Sessions \cup {NoSession}
        /\ active' = NoSession <=> \A t \in Sessions : session'[t].phase = "idle"
        /\ active' # NoSession => session'[active'].phase # "idle"
    BY <2>1, TurnConstants DEF Heirs
  <2>3. TurnsTypeOK'
    BY <1>1, <1>2, <1>3, <2>1, <2>2 DEF TurnsTypeOK
  <2>4. MutexHeld'
    BY <2>1, <2>2, <2>3, MutexHeldBy
  <2>5. QED
    BY <1>2, <2>1, <2>3, <2>4 DEF TypeOK, OnlyTicksMeasure
<1>5. CASE active # s
  <2>1. active' = active /\ show' = show
    BY <1>5 DEF OnSessionEnd
  <2>2. TurnsTypeOK'
    BY <1>1, <1>2, <1>3, <2>1 DEF TurnsTypeOK
  <2>3. /\ active = NoSession <=> \A t \in Sessions : session'[t].phase = "idle"
        /\ active # NoSession => session'[active].phase # "idle"
    BY <1>1, <1>3, <1>5 DEF MutexHeld, InTurn, TurnsTypeOK
  <2>4. MutexHeld'
    BY <2>1, <2>2, <2>3, MutexHeldBy DEF MutexHeld
  <2>5. QED
    BY <1>2, <2>1, <2>2, <2>4 DEF TypeOK, OnlyTicksMeasure
<1>6. QED
  BY <1>4, <1>5

\* A session has ticked: its turn goes on.
LEMMA TickedTurn ==
  ASSUME TurnsTypeOK, NEW s \in Sessions, Lasting[s].phase # "idle",
         session' = [Lasting EXCEPT ![s].tick = 0]
  PROVE  /\ session' \in [Sessions -> Turn]
         /\ \A t \in Sessions : session'[t].phase = Lasting[t].phase
<1>1. Lasting \in [Sessions -> Turn] /\ Lasting[s] \in Turn
  BY LastingTyped
<1>2. [Lasting[s] EXCEPT !.tick = 0] \in Turn
      /\ [Lasting[s] EXCEPT !.tick = 0].phase = Lasting[s].phase
  BY <1>1, TurnConstants DEF Turn
<1>3. session' = [Lasting EXCEPT ![s] = [Lasting[s] EXCEPT !.tick = 0]]
  OBVIOUS
<1>4. QED
  BY <1>1, <1>2, <1>3

\* A tick of a session with a status line.  The show it measures is its own.
LEMMA Ticks ==
  ASSUME TypeOK, MutexHeld, OnlyTicksMeasure, NEW s \in Ticking, NEW out, OnTick(s, out)
  PROVE  TypeOK' /\ MutexHeld' /\ OnlyTicksMeasure'
<1>1. CacheTypeOK /\ TurnsTypeOK /\ s \in Sessions /\ s \notin Headless
  BY DEF TypeOK, Ticking
<1>2. Lasting \in [Sessions -> Turn]
  BY <1>1, LastingTyped
<1>3. Kept # NoShow => Kept = show
  BY DEF Kept
<1>4. Kept \in Show \cup {NoShow}
  BY <1>1 DEF Kept, TurnsTypeOK
<1>5. CASE TickHidden(s, out) \/ TickIdle(s, out)
  <2>1. PICK h \in Holders : active' = h
    BY <1>5 DEF TickHidden, TickIdle
  <2>2. /\ session' = Lasting /\ show' \in {NoShow, Kept} /\ visible' = visible
        /\ UNCHANGED cacheVars
    BY <1>5 DEF TickHidden, TickIdle
  <2>3. CacheTypeOK'
    BY <1>1, <2>2 DEF cacheVars, CacheTypeOK
  <2>4. /\ h \in Sessions \cup {NoSession}
        /\ h = NoSession <=> \A t \in Sessions : Lasting[t].phase = "idle"
        /\ h # NoSession => Lasting[h].phase # "idle"
        /\ Kept # NoShow => Kept = show /\ Kept \in Show /\ Kept.session = h
    BY <1>1, HolderInTurn
  <2>5. TurnsTypeOK'
    BY <1>1, <1>2, <1>4, <2>1, <2>2, <2>4 DEF TurnsTypeOK
  <2>6. MutexHeld'
    BY <2>1, <2>2, <2>4, <2>5, MutexHeldBy
  <2>7. OnlyTicksMeasure'
    BY <1>3, <2>2 DEF OnlyTicksMeasure
  <2>8. QED
    BY <2>3, <2>5, <2>6, <2>7 DEF TypeOK
<1>6. CASE TickCounting(s, out)
  <2>1. /\ Lasting[s].phase # "idle" /\ s \in Holders /\ active' = s /\ visible' = visible
        /\ session' = [Lasting EXCEPT ![s].tick = 0]
        /\ Measure(s) /\ UNCHANGED <<replies, delivered, expired>>
    BY <1>6 DEF TickCounting
  <2>2. /\ session' \in [Sessions -> Turn]
        /\ \A t \in Sessions : session'[t].phase = Lasting[t].phase
    BY <1>1, <2>1, TickedTurn
  <2>3. CASE StartShow(s)
    <3>1. show' \in Show \cup {NoShow}
          /\ (show' # NoShow => show'.session = s /\ show'.seen = 0)
      BY <1>1, <2>3, StartShowTyped
    <3>2. CacheTypeOK'
      BY <1>1, <2>1, <2>3, CacheTypedBy DEF StartShow
    <3>3. TurnsTypeOK'
      BY <1>1, <2>1, <2>2, <3>1 DEF TurnsTypeOK
    <3>4. MutexHeld'
      BY <1>1, <2>1, <2>2, <3>1, <3>3, TurnConstants, MutexHeldBy
    <3>5. QED
      BY <3>1, <3>2, <3>3, <3>4 DEF TypeOK, OnlyTicksMeasure
  <2>4. CASE ~StartShow(s)
    <3>1. /\ Kept # NoShow /\ show' = [Kept EXCEPT !.seen = Kept.age]
          /\ UNCHANGED <<ads, fetches>>
      BY <2>1, <2>4 DEF Measure
    <3>2. Kept \in Show /\ Kept.session = s
      BY <1>1, <2>1, <3>1, HolderInTurn
    <3>3. show' \in Show /\ show'.session = s
      BY <3>1, <3>2 DEF Show
    <3>4. CacheTypeOK'
      BY <1>1, <2>1, <3>1 DEF CacheTypeOK
    <3>5. TurnsTypeOK'
      BY <1>1, <2>1, <2>2, <3>3 DEF TurnsTypeOK
    <3>6. MutexHeld'
      BY <1>1, <2>1, <2>2, <3>3, <3>5, TurnConstants, MutexHeldBy
    <3>7. QED
      BY <1>1, <3>3, <3>4, <3>5, <3>6 DEF TypeOK, OnlyTicksMeasure
  <2>5. QED
    BY <2>3, <2>4
<1>7. ASSUME NEW h \in Holders, TickSilent(s, h, out)
      PROVE  TypeOK' /\ MutexHeld' /\ OnlyTicksMeasure'
  <2>1. /\ Lasting[s].phase # "idle" /\ active' = h /\ visible' = visible
        /\ session' = [Lasting EXCEPT ![s].tick = 0] /\ show' = Kept
        /\ NextAd \/ UNCHANGED <<ads, fetches>>
        /\ UNCHANGED <<replies, delivered, expired>>
    BY <1>7 DEF TickSilent
  <2>2. /\ session' \in [Sessions -> Turn]
        /\ \A t \in Sessions : session'[t].phase = Lasting[t].phase
    BY <1>1, <2>1, TickedTurn
  <2>3. /\ h \in Sessions \cup {NoSession}
        /\ h = NoSession <=> \A t \in Sessions : Lasting[t].phase = "idle"
        /\ h # NoSession => Lasting[h].phase # "idle"
        /\ Kept # NoShow => Kept = show /\ Kept \in Show /\ Kept.session = h
    BY <1>1, HolderInTurn
  <2>4. CacheTypeOK'
    BY <1>1, <2>1, CacheTypedBy
  <2>5. TurnsTypeOK'
    BY <1>1, <1>4, <2>1, <2>2, <2>3 DEF TurnsTypeOK
  <2>6. /\ h = NoSession <=> \A t \in Sessions : session'[t].phase = "idle"
        /\ h # NoSession => session'[h].phase # "idle"
    BY <2>2, <2>3
  <2>7. MutexHeld'
    BY <2>1, <2>3, <2>5, <2>6, MutexHeldBy
  <2>8. OnlyTicksMeasure'
    BY <1>3, <2>1 DEF OnlyTicksMeasure
  <2>9. QED
    BY <2>4, <2>5, <2>7, <2>8 DEF TypeOK
<1>8. ASSUME NEW h \in Holders, TickTakesOver(s, h, out)
      PROVE  TypeOK' /\ MutexHeld' /\ OnlyTicksMeasure'
  <2>1. /\ Lasting[s].phase # "idle" /\ active' = s /\ visible' = visible /\ h # s
        /\ session' = [Lasting EXCEPT ![s].tick = 0, ![h] = Idle]
        /\ StartShow(s) /\ UNCHANGED <<replies, delivered, expired>>
    BY <1>8 DEF TickTakesOver
  <2>2. session' \in [Sessions -> Turn] /\ session'[s].phase # "idle"
    <3>1. [Lasting[s] EXCEPT !.tick = 0] \in Turn
          /\ [Lasting[s] EXCEPT !.tick = 0].phase = Lasting[s].phase
      <4>1. Lasting[s] \in Turn
        BY <1>1, <1>2
      <4>2. QED
        BY <4>1, TurnConstants DEF Turn
    <3>2. session' = [t \in Sessions |-> IF t = h THEN Idle
                                         ELSE IF t = s THEN [Lasting[s] EXCEPT !.tick = 0]
                                         ELSE Lasting[t]]
      BY <1>1, <1>2, <2>1
    <3>3. QED
      BY <1>1, <1>2, <2>1, <3>1, <3>2, TurnTypes
  <2>3. show' \in Show \cup {NoShow}
        /\ (show' # NoShow => show'.session = s /\ show'.seen = 0)
    BY <1>1, <2>1, StartShowTyped
  <2>4. CacheTypeOK'
    BY <1>1, <2>1, CacheTypedBy DEF StartShow
  <2>5. TurnsTypeOK'
    BY <1>1, <2>1, <2>2, <2>3 DEF TurnsTypeOK
  <2>6. MutexHeld'
    BY <1>1, <2>1, <2>2, <2>3, <2>5, TurnConstants, MutexHeldBy
  <2>7. QED
    BY <2>3, <2>4, <2>5, <2>6 DEF TypeOK, OnlyTicksMeasure
<1>9. QED
  BY <1>5, <1>6, <1>7, <1>8 DEF OnTick

\* Time changes ages only.
LEMMA TimePasses ==
  ASSUME TypeOK, MutexHeld, OnlyTicksMeasure, Pass
  PROVE  TypeOK' /\ MutexHeld' /\ OnlyTicksMeasure'
<1>1. CacheTypeOK /\ TurnsTypeOK
  BY DEF TypeOK
<1>2. CacheTypeOK' /\ UNCHANGED <<active, visible>>
  BY <1>1 DEF Pass, cacheVars, CacheTypeOK
<1>3. ASSUME NEW s \in Sessions
      PROVE  session'[s] \in Turn /\ session'[s].phase = session[s].phase
  <2>1. session[s] \in Turn
    BY <1>1 DEF TurnsTypeOK
  <2>2. CASE session[s].phase = "showing"
    <3>1. session'[s] = [session[s] EXCEPT !.tick = UpTo(session[s].tick, StaleMutex + 1),
                                           !.quiet = UpTo(session[s].quiet, MaxQuiet)]
      BY <2>2 DEF Pass
    <3>2. UpTo(session[s].tick, StaleMutex + 1) \in 0 .. StaleMutex + 1
          /\ UpTo(session[s].quiet, MaxQuiet) \in 0 .. MaxQuiet
      BY <2>1, TurnConstants DEF Turn, UpTo
    <3>3. QED
      BY <2>1, <3>1, <3>2 DEF Turn
  <2>3. CASE session[s].phase = "cooldown"
    <3>1. session'[s] = [session[s] EXCEPT !.tick = UpTo(session[s].tick, StaleMutex + 1),
                            !.grace = IF session[s].grace = 0 THEN 0 ELSE session[s].grace - 1]
      BY <2>3 DEF Pass
    <3>2. UpTo(session[s].tick, StaleMutex + 1) \in 0 .. StaleMutex + 1
          /\ (IF session[s].grace = 0 THEN 0 ELSE session[s].grace - 1) \in 0 .. IdleGrace
      BY <2>1, TurnConstants DEF Turn, UpTo
    <3>3. QED
      BY <2>1, <3>1, <3>2 DEF Turn
  <2>4. CASE session[s].phase \notin {"showing", "cooldown"}
    <3>1. session'[s] = session[s]
      BY <2>4 DEF Pass
    <3>2. QED
      BY <2>1, <3>1
  <2>5. QED
    BY <2>2, <2>3, <2>4
<1>4. session' \in [Sessions -> Turn]
  <2>1. session' = [s \in Sessions |-> session'[s]]
    BY DEF Pass
  <2>2. QED
    BY <1>3, <2>1
<1>5. /\ show' \in Show \cup {NoShow}
      /\ show' # NoShow => show # NoShow /\ show'.session = show.session
                           /\ show'.seen = show.seen
  <2>1. CASE show = NoShow
    BY <2>1 DEF Pass
  <2>2. CASE show # NoShow
    <3>1. show \in Show /\ show' = [show EXCEPT !.age = UpTo(show.age, MaxAge)]
      BY <1>1, <2>2 DEF Pass, TurnsTypeOK
    <3>2. UpTo(show.age, MaxAge) \in 0 .. MaxAge
      BY <3>1, TurnConstants DEF UpTo, Show
    <3>3. QED
      BY <2>2, <3>1, <3>2 DEF Show
  <2>3. QED
    BY <2>1, <2>2
<1>6. TurnsTypeOK'
  BY <1>1, <1>2, <1>4, <1>5 DEF TurnsTypeOK
<1>7. MutexHeld'
  BY <1>1, <1>2, <1>3, <1>5 DEF MutexHeld, InTurn, TurnsTypeOK
<1>8. QED
  BY <1>2, <1>5, <1>6, <1>7 DEF TypeOK, OnlyTicksMeasure

LEMMA MachineStops ==
  ASSUME TypeOK, Restart
  PROVE  TypeOK' /\ MutexHeld' /\ OnlyTicksMeasure'
<1>1. CacheTypeOK'
  BY CacheStepTyped DEF TypeOK, Restart
<1>2. /\ session' = [s \in Sessions |-> Idle] /\ active' = NoSession
      /\ show' = NoShow /\ visible' = visible
  BY DEF Restart, TurnsLost
<1>3. TurnsTypeOK'
  BY <1>2, TurnTypes DEF TypeOK, TurnsTypeOK
<1>4. MutexHeld'
  BY <1>2, <1>3, TurnTypes, MutexHeldBy
<1>5. QED
  BY <1>1, <1>2, <1>3, <1>4 DEF TypeOK, OnlyTicksMeasure

\* Steps that do not touch the turns.
LEMMA TurnsUntouched ==
  ASSUME TypeOK, MutexHeld, OnlyTicksMeasure, CacheTypeOK',
         UNCHANGED <<session, active, show>>, visible' \in BOOLEAN
  PROVE  TypeOK' /\ MutexHeld' /\ OnlyTicksMeasure'
BY DEF TypeOK, TurnsTypeOK, MutexHeld, InTurn, OnlyTicksMeasure

LEMMA TurnsStep == TurnsInv /\ [TurnsNext]_machineVars => TurnsInv'
<1>1. SUFFICES ASSUME TypeOK, MutexHeld, OnlyTicksMeasure, [TurnsNext]_machineVars
               PROVE  TypeOK' /\ MutexHeld' /\ OnlyTicksMeasure'
  BY DEF TurnsInv
<1>2. ASSUME NEW s \in Sessions, Hook(s) PROVE TypeOK' /\ MutexHeld' /\ OnlyTicksMeasure'
  BY <1>1, <1>2, TurnStarts, TurnGoesOn, SessionEnds DEF Hook, OnHook
<1>3. ASSUME NEW s \in Ticking, Tick(s) PROVE TypeOK' /\ MutexHeld' /\ OnlyTicksMeasure'
  BY <1>1, <1>3, Ticks DEF Tick
<1>4. CASE Toggle \/ UNCHANGED machineVars
  <2>1. UNCHANGED <<session, active, show, cacheVars>> /\ visible' \in BOOLEAN
    BY <1>1, <1>4 DEF Toggle, machineVars, turnVars, TypeOK, TurnsTypeOK
  <2>2. CacheTypeOK'
    BY <1>1, <2>1 DEF cacheVars, TypeOK, CacheTypeOK
  <2>3. QED
    BY <1>1, <2>1, <2>2, TurnsUntouched
<1>5. CASE Cache
  <2>1. CacheTypeOK' /\ UNCHANGED <<session, active, show>> /\ visible' \in BOOLEAN
    BY <1>1, <1>5, CacheStepTyped DEF Cache, turnVars, TypeOK, TurnsTypeOK
  <2>2. QED
    BY <1>1, <2>1, TurnsUntouched
<1>6. QED
  BY <1>1, <1>2, <1>3, <1>4, <1>5, TimePasses, MachineStops DEF TurnsNext

LEMMA TurnsStart == MachineInit => TurnsInv
<1>1. SUFFICES ASSUME CacheInit, TurnsInit PROVE TurnsInv
  BY DEF MachineInit
<1>2. CacheTypeOK
  BY <1>1, CacheConstants DEF CacheInit, CacheTypeOK
<1>3. TurnsTypeOK /\ MutexHeld /\ OnlyTicksMeasure
  BY <1>1, TurnTypes DEF TurnsInit, TurnsTypeOK, MutexHeld, InTurn, OnlyTicksMeasure
<1>4. QED
  BY <1>2, <1>3 DEF TurnsInv, TypeOK

LEMMA TurnsInvariant == TurnsSpec => []TurnsInv
BY TurnsStart, TurnsStep, PTL DEF TurnsSpec

\* The turn machine and its cache keep their types, whatever hooks and ticks
\* come in whatever order (TurnMachine, ServerSync).
THEOREM TurnsTypeCorrect == TurnsSpec => []TypeOK
<1>1. TurnsInv => TypeOK
  BY DEF TurnsInv
<1>2. QED
  BY <1>1, TurnsInvariant, PTL

\* The mutex is held exactly while a session is in a turn, by one that is, and
\* the show being measured is its own (turns.ts, #activeSession).
THEOREM MutexAlwaysHeld == TurnsSpec => []MutexHeld
<1>1. TurnsInv => MutexHeld
  BY DEF TurnsInv
<1>2. QED
  BY <1>1, TurnsInvariant, PTL

\* A session without a status line never lengthens a show: only its own ticks
\* could, and it has none (turns.ts:285-295).
THEOREM HooksNeverMeasure == TurnsSpec => []OnlyTicksMeasure
<1>1. TurnsInv => OnlyTicksMeasure
  BY DEF TurnsInv
<1>2. QED
  BY <1>1, TurnsInvariant, PTL

-----------------------------------------------------------------------------
(* Where an ad is *)

Shown == {n \in Ads : show # NoShow /\ show.ad = n}

\* The ads that have not been shown to the end: in an answer of the server, in
\* the cache or on the screen.
Ahead == replies \cup Range(ads) \cup Shown

\* Each is in one of these places, once.
AheadApart ==
  /\ IsInjective(ads)
  /\ replies \cap Range(ads) = {} /\ Shown \cap (replies \cup Range(ads)) = {}
  /\ \A n \in Ahead : n <= delivered

\* What a handler may do with them: it shows an ad from the cache, goes on with
\* the one it shows or ends it, and only an ad that ended is in `out'.
Moves(out) ==
  /\ IsInjective(ads') /\ Range(ads') \subseteq Range(ads)
  /\ UNCHANGED <<replies, delivered>>
  /\ \/ show' = NoShow
     \/ show # NoShow /\ show' # NoShow /\ show'.ad = show.ad /\ out = <<>>
     \/ show' # NoShow /\ show'.ad \in Range(ads) \ Range(ads')
  /\ out # <<>> => show # NoShow /\ \E imp \in Impression : out = <<imp>> /\ imp.ad = show.ad

LEMMA SuffixTyped ==
  ASSUME NEW q \in Seq(Ads), NEW i \in 1 .. Len(q), IsInjective(q)
  PROVE  /\ SubSeq(q, i, Len(q)) \in Seq(Ads)
         /\ IsInjective(SubSeq(q, i, Len(q)))
         /\ Range(SubSeq(q, i, Len(q))) \subseteq Range(q)
<1>1. Len(q) \in Nat /\ \A j \in i .. Len(q) : q[j] \in Ads
  OBVIOUS
<1>2. PICK r : r = SubSeq(q, i, Len(q))
  OBVIOUS
<1>3. /\ r \in Seq(Ads) /\ Len(r) = Len(q) - i + 1
      /\ \A j \in 1 .. Len(q) - i + 1 : r[j] = q[j + i - 1]
  BY <1>1, <1>2, SubSeqProperties
<1>4. DOMAIN r = 1 .. Len(q) - i + 1 /\ DOMAIN q = 1 .. Len(q)
  BY <1>3
<1>5. ASSUME NEW j \in DOMAIN r
      PROVE  j \in Int /\ j + i - 1 \in DOMAIN q /\ r[j] = q[j + i - 1]
  <2>1. j \in 1 .. Len(q) - i + 1 /\ i \in 1 .. Len(q) /\ Len(q) \in Nat
    BY <1>1, <1>4
  <2>2. j + i - 1 \in 1 .. Len(q)
    BY <2>1
  <2>3. QED
    BY <1>3, <1>4, <2>1, <2>2
<1>6. IsInjective(r)
  <2>1. ASSUME NEW a \in DOMAIN r, NEW b \in DOMAIN r, r[a] = r[b] PROVE a = b
    <3>1. a + i - 1 = b + i - 1
      BY <1>5, <2>1 DEF IsInjective
    <3>2. QED
      BY <1>5, <3>1
  <2>2. QED
    BY <2>1 DEF IsInjective
<1>7. Range(r) \subseteq Range(q)
  BY <1>5 DEF Range
<1>8. QED
  BY <1>2, <1>3, <1>6, <1>7

LEMMA FreshApart ==
  ASSUME ads \in Seq(Ads), IsInjective(ads)
  PROVE  Fresh \in Seq(Ads) /\ IsInjective(Fresh) /\ Range(Fresh) \subseteq Range(ads)
<1>1. CASE FreshFrom = {}
  BY <1>1 DEF Fresh, IsInjective, Range
<1>2. CASE FreshFrom # {}
  <2>1. FreshFrom \in SUBSET (1 .. Len(ads)) /\ FreshFrom \in SUBSET Nat
    BY DEF FreshFrom
  <2>2. PICK i \in FreshFrom : Fresh = SubSeq(ads, i, Len(ads))
    BY <1>2, <2>1, Least DEF Fresh
  <2>3. QED
    BY <2>1, <2>2, SuffixTyped
<1>3. QED
  BY <1>1, <1>2

LEMMA RestApart ==
  ASSUME ads \in Seq(Ads), IsInjective(ads)
  PROVE  /\ IsInjective(RestAds) /\ Range(RestAds) \subseteq Range(ads)
         /\ TakenAd # NoAd => TakenAd \in Range(ads) \ Range(RestAds)
<1>1. CASE Fresh = <<>>
  BY <1>1 DEF RestAds, TakenAd, IsInjective, Range
<1>2. CASE Fresh # <<>>
  <2>1. PICK f \in Seq(Ads) : f = Fresh
    BY FreshApart
  <2>2. f # <<>> /\ IsInjective(f) /\ Range(f) \subseteq Range(ads)
    BY <1>2, <2>1, FreshApart
  <2>3. RestAds = Tail(f) /\ TakenAd = f[1]
    BY <1>2, <2>1 DEF RestAds, TakenAd
  <2>4. Tail(f) \in Seq(Ads) /\ Len(Tail(f)) = Len(f) - 1
        /\ \A i \in 1 .. Len(Tail(f)) : Tail(f)[i] = f[i + 1]
    BY <2>2, HeadTailProperties
  <2>5. DOMAIN f = 1 .. Len(f) /\ Len(f) \in Nat \ {0} /\ DOMAIN Tail(f) = 1 .. Len(f) - 1
    BY <2>2, <2>4, EmptySeq
  <2>6. \A i \in DOMAIN Tail(f) : i \in Int /\ i + 1 \in DOMAIN f /\ i + 1 # 1
                                   /\ Tail(f)[i] = f[i + 1]
    BY <2>4, <2>5
  <2>7. IsInjective(Tail(f))
    <3>1. ASSUME NEW a \in DOMAIN Tail(f), NEW b \in DOMAIN Tail(f), Tail(f)[a] = Tail(f)[b]
          PROVE  a = b
      <4>1. a + 1 = b + 1
        BY <2>2, <2>6, <3>1 DEF IsInjective
      <4>2. QED
        BY <2>6, <4>1
    <3>2. QED
      BY <3>1 DEF IsInjective
  <2>8. Range(Tail(f)) \subseteq Range(f)
    BY <2>6 DEF Range
  <2>9. f[1] \in Range(f) /\ f[1] \notin Range(Tail(f))
    <3>1. 1 \in DOMAIN f
      BY <2>5
    <3>2. ASSUME NEW i \in DOMAIN Tail(f), f[1] = Tail(f)[i] PROVE FALSE
      BY <2>2, <2>6, <3>1, <3>2 DEF IsInjective
    <3>3. QED
      BY <3>1, <3>2 DEF Range
  <2>10. QED
    BY <2>2, <2>3, <2>7, <2>8, <2>9
<1>3. QED
  BY <1>1, <1>2

\* The cache after a handler.
LEMMA CacheMoves ==
  ASSUME CacheTypeOK, AheadApart, NextAd \/ PeekAd \/ UNCHANGED ads
  PROVE  IsInjective(ads') /\ Range(ads') \subseteq Range(ads)
BY FreshApart, RestApart DEF CacheTypeOK, AheadApart, NextAd, PeekAd

LEMMA ShowStarts ==
  ASSUME CacheTypeOK, AheadApart, NEW s \in Sessions, StartShow(s)
  PROVE  show' # NoShow => show'.ad \in Range(ads) \ Range(ads')
<1>1. ads' = RestAds /\ (show' # NoShow => TakenAd # NoAd /\ show'.ad = TakenAd)
  BY DEF StartShow, NextAd
<1>2. QED
  BY <1>1, RestApart DEF CacheTypeOK, AheadApart

LEMMA ClosingTyped ==
  ASSUME NEW sh \in Show, NEW d
  PROVE  /\ sh # NoShow /\ Closed(sh, d) # <<>> /\ Closing(sh) # <<>>
         /\ \E imp \in Impression : Closed(sh, d) = <<imp>> /\ imp.ad = sh.ad
         /\ \E imp \in Impression : Closing(sh) = <<imp>> /\ imp.ad = sh.ad
<1>1. sh # NoShow /\ sh.ad \in Ads
  BY TurnTypes DEF Show
<1>2. ASSUME NEW e
      PROVE  [ad |-> sh.ad, length |-> Length(e)] \in Impression
  BY <1>1 DEF Length, Impression
<1>3. /\ Closed(sh, d) = <<[ad |-> sh.ad, length |-> Length(d)]>>
      /\ Closing(sh) = <<[ad |-> sh.ad, length |-> Length(sh.seen)]>>
  BY <1>1 DEF Closed, Closing
<1>4. QED
  BY <1>1, <1>2, <1>3

\* What ends with a show is an impression of its ad.
LEMMA OutTyped ==
  ASSUME TurnsTypeOK, NEW out,
         out \in {<<>>, Closing(show), Ended, Rotated} \/ out = Closing(Kept)
  PROVE  out # <<>> => show # NoShow /\ \E imp \in Impression : out = <<imp>> /\ imp.ad = show.ad
<1>1. CASE show = NoShow
  BY <1>1 DEF Kept, Ended, Rotated, Closing
<1>2. CASE show # NoShow
  <2>1. show \in Show
    BY <1>2 DEF TurnsTypeOK
  <2>2. Kept \in {NoShow, show} /\ Ended \in {<<>>, Closing(show)}
        /\ Rotated \in {<<>>, Closed(show, show.age)} /\ Closing(NoShow) = <<>>
    BY DEF Kept, Ended, Rotated, Closing
  <2>3. QED
    BY <1>2, <2>1, <2>2, ClosingTyped
<1>3. QED
  BY <1>1, <1>2

LEMMA HookMoves ==
  ASSUME TypeOK, AheadApart, NEW s \in Sessions, NEW out, OnHook(s, out)
  PROVE  Moves(out)
<1>1. CacheTypeOK /\ TurnsTypeOK
  BY DEF TypeOK
<1>2. CASE OnTurnStart(s, out)
  <2>1. out = <<>> /\ UNCHANGED <<replies, delivered>>
        /\ (StartShow(s) \/ UNCHANGED <<show, ads>>)
    BY <1>2 DEF OnTurnStart
  <2>2. IsInjective(ads') /\ Range(ads') \subseteq Range(ads)
    BY <1>1, <2>1, CacheMoves DEF StartShow
  <2>3. QED
    BY <1>1, <2>1, <2>2, ShowStarts DEF Moves
<1>3. CASE OnActivity(s, out) \/ OnTurnEnd(s, out)
  <2>1. out = <<>> /\ UNCHANGED <<replies, delivered, show>> /\ (PeekAd \/ UNCHANGED ads)
    BY <1>3 DEF OnActivity, OnTurnEnd, cacheVars
  <2>2. IsInjective(ads') /\ Range(ads') \subseteq Range(ads)
    BY <1>1, <2>1, CacheMoves
  <2>3. QED
    BY <2>1, <2>2 DEF Moves
<1>4. CASE OnSessionEnd(s, out)
  <2>1. UNCHANGED <<replies, delivered, ads>>
    BY <1>4 DEF OnSessionEnd, cacheVars
  <2>2. (out = Closing(show) /\ show' = NoShow) \/ (out = <<>> /\ show' = show)
    BY <1>4 DEF OnSessionEnd
  <2>3. QED
    BY <1>1, <2>1, <2>2, CacheMoves, OutTyped DEF Moves
<1>5. QED
  BY <1>2, <1>3, <1>4 DEF OnHook

LEMMA TickMoves ==
  ASSUME TypeOK, AheadApart, NEW s \in Sessions, NEW out, OnTick(s, out)
  PROVE  Moves(out)
<1>1. CacheTypeOK /\ TurnsTypeOK
  BY DEF TypeOK
<1>2. Kept \in {NoShow, show} /\ (Kept = show /\ Kept # NoShow => Ended = <<>>)
      /\ (Expires => Kept = NoShow)
  BY DEF Kept, Ended
<1>3. CASE TickHidden(s, out) \/ TickIdle(s, out)
  <2>1. UNCHANGED <<replies, delivered, ads>>
    BY <1>3 DEF TickHidden, TickIdle, cacheVars
  <2>2. (out = Closing(show) /\ show' = NoShow) \/ (out = Ended /\ show' = Kept)
    BY <1>3 DEF TickHidden, TickIdle
  <2>3. out # <<>> => show # NoShow /\ \E imp \in Impression : out = <<imp>> /\ imp.ad = show.ad
    BY <1>1, <2>2, OutTyped
  <2>4. QED
    BY <1>1, <1>2, <2>1, <2>2, <2>3, CacheMoves DEF Moves
<1>4. CASE TickCounting(s, out)
  <2>1. /\ UNCHANGED <<replies, delivered>> /\ Measure(s)
        /\ out = IF Expires THEN Ended ELSE Rotated
    BY <1>4 DEF TickCounting
  <2>2. out # <<>> => show # NoShow /\ \E imp \in Impression : out = <<imp>> /\ imp.ad = show.ad
    BY <1>1, <2>1, OutTyped
  <2>3. CASE StartShow(s)
    <3>1. IsInjective(ads') /\ Range(ads') \subseteq Range(ads)
      BY <1>1, <2>3, CacheMoves DEF StartShow
    <3>2. QED
      BY <1>1, <2>1, <2>2, <2>3, <3>1, ShowStarts DEF Moves
  <2>4. CASE ~StartShow(s)
    <3>1. /\ Kept # NoShow /\ ~(Kept.age >= RotateMs) /\ ads' = ads
          /\ show' = [Kept EXCEPT !.seen = Kept.age]
      BY <2>1, <2>4 DEF Measure
    <3>2. show = Kept /\ show \in Show /\ out = <<>>
      BY <1>1, <1>2, <2>1, <3>1 DEF TurnsTypeOK, Rotated
    <3>3. show' # NoShow /\ show'.ad = show.ad
      BY <3>1, <3>2 DEF Show, NoShow
    <3>4. QED
      BY <1>1, <2>1, <2>2, <3>1, <3>2, <3>3, CacheMoves DEF Moves
  <2>5. QED
    BY <2>3, <2>4
<1>5. ASSUME NEW h \in Holders, TickSilent(s, h, out) PROVE Moves(out)
  <2>1. /\ UNCHANGED <<replies, delivered>> /\ out = Ended /\ show' = Kept
        /\ (NextAd \/ UNCHANGED ads)
    BY <1>5 DEF TickSilent
  <2>2. out # <<>> => show # NoShow /\ \E imp \in Impression : out = <<imp>> /\ imp.ad = show.ad
    BY <1>1, <2>1, OutTyped
  <2>3. IsInjective(ads') /\ Range(ads') \subseteq Range(ads)
    BY <1>1, <2>1, CacheMoves
  <2>4. QED
    BY <1>2, <2>1, <2>2, <2>3 DEF Moves
<1>6. ASSUME NEW h \in Holders, TickTakesOver(s, h, out) PROVE Moves(out)
  <2>1. /\ UNCHANGED <<replies, delivered>> /\ StartShow(s)
        /\ out = IF Expires THEN Ended ELSE Closing(Kept)
    BY <1>6 DEF TickTakesOver
  <2>2. out # <<>> => show # NoShow /\ \E imp \in Impression : out = <<imp>> /\ imp.ad = show.ad
    BY <1>1, <2>1, OutTyped
  <2>3. IsInjective(ads') /\ Range(ads') \subseteq Range(ads)
    BY <1>1, <2>1, CacheMoves DEF StartShow
  <2>4. QED
    BY <1>1, <2>1, <2>2, <2>3, ShowStarts DEF Moves
<1>7. QED
  BY <1>3, <1>4, <1>5, <1>6 DEF OnTick

-----------------------------------------------------------------------------
(* The file *)

LEMMA OutboxConstants ==
  /\ CompactAfter \in Nat \ {0} /\ MaxEntries \in Nat \ {0} /\ BatchMax \in Nat \ {0}
  /\ MaxMisreads \in Nat
BY OutboxAssumption

\* A finite set of numbers has a greatest element.
LEMMA Greatest ==
  ASSUME NEW S \in SUBSET Nat, IsFiniteSet(S), S # {}
  PROVE  \E m \in S : \A k \in S : k <= m
<1> DEFINE Open(U) == U # {} /\ \A m \in U : \E k \in U : ~(k <= m)
<1> DEFINE Sizes == {Cardinality(U) : U \in {V \in SUBSET S : Open(V)}}
<1>1. SUFFICES ASSUME Open(S) PROVE FALSE
  OBVIOUS
<1>2. \A U \in SUBSET S : IsFiniteSet(U) /\ Cardinality(U) \in Nat
  BY FS_Subset, FS_CardinalityType
<1>3. Sizes \in SUBSET Nat /\ Sizes # {}
  BY <1>1, <1>2
<1>4. PICK c \in Sizes : \A d \in Sizes : c <= d
  <2> HIDE DEF Sizes
  <2>1. QED
    BY <1>3, Least
<1>5. PICK U \in SUBSET S : Open(U) /\ Cardinality(U) = c
  OBVIOUS
<1>6. PICK x \in U : x \in Nat
  BY <1>5
<1>7. Cardinality(U \ {x}) = Cardinality(U) - 1
  BY <1>2, <1>5, <1>6, FS_RemoveElement
<1>8. ~Open(U \ {x})
  <2>1. SUFFICES ASSUME Open(U \ {x}) PROVE FALSE
    OBVIOUS
  <2>2. U \ {x} \in SUBSET S
    OBVIOUS
  <2>3. Cardinality(U \ {x}) \in Sizes
    BY <2>1, <2>2
  <2>4. c <= Cardinality(U \ {x}) /\ c \in Nat
    BY <1>3, <1>4, <2>3
  <2>5. QED
    BY <1>5, <1>7, <2>4
<1>9. CASE U \ {x} = {}
  <2>1. U = {x}
    BY <1>6, <1>9
  <2>2. QED
    BY <1>5, <1>6, <2>1
<1>10. CASE U \ {x} # {}
  <2>1. PICK m \in U \ {x} : \A k \in U \ {x} : k <= m
    BY <1>8, <1>10
  <2>2. m \in U /\ m \in Nat
    BY <2>1
  <2>3. CASE x <= m
    <3>1. \A k \in U : k <= m
      BY <2>1, <2>3
    <3>2. QED
      BY <1>5, <2>2, <3>1
  <2>4. CASE ~(x <= m)
    <3>1. \A k \in U : k <= x
      <4>1. ASSUME NEW k \in U PROVE k <= x
        <5>1. k \in Nat /\ (k = x \/ k <= m)
          BY <2>1
        <5>2. QED
          BY <1>6, <2>2, <2>4, <5>1
      <4>2. QED
        BY <4>1
    <3>2. QED
      BY <1>5, <1>6, <3>1
  <2>5. QED
    BY <2>3, <2>4
<1>11. QED
  BY <1>9, <1>10

LEMMA MaxTyped ==
  ASSUME NEW S \in SUBSET Nat, IsFiniteSet(S), S # {}
  PROVE  Max(S) \in Nat
<1>1. PICK m \in S : \A k \in S : k <= m
  BY Greatest
<1>2. ASSUME NEW k \in S PROVE m >= k
  <2>1. k \in Nat /\ m \in Nat /\ k <= m
    BY <1>1
  <2>2. QED
    BY <2>1
<1>3. \E x \in S : \A y \in S : x >= y
  BY <1>2
<1>4. Max(S) \in S
  BY <1>3 DEF Max
<1>5. QED
  BY <1>4

LEMMA NumberTyped ==
  ASSUME file \in SUBSET Line, IsFiniteSet(file)
  PROVE  NextNumber \in Nat
<1>1. PICK T : T = {l.at : l \in file}
  OBVIOUS
<1>2. IsFiniteSet(T)
  <2>1. PICK f : f = [l \in file |-> l.at]
    OBVIOUS
  <2>2. f \in Surjection(file, T)
    BY <1>1, <2>1 DEF Surjection
  <2>3. QED
    BY <2>2, FS_Surjection
<1>3. T \in SUBSET Nat
  BY <1>1 DEF Line
<1>4. {0} \cup T \in SUBSET Nat /\ {0} \cup T # {} /\ {0} \cup T = T \cup {0}
  BY <1>3
<1>5. IsFiniteSet({0} \cup T)
  BY <1>2, <1>4, FS_AddElement
<1>6. Max({0} \cup T) \in Nat
  BY <1>4, <1>5, MaxTyped
<1>7. NextNumber = Max({0} \cup T) + 1
  BY <1>1 DEF NextNumber
<1>8. QED
  BY <1>6, <1>7

OnFile == AdsOf(Contents(file))

\* Every ad is in the file once.
FileInv == IsFiniteSet(file) /\ \A l, m \in file : l.imp.ad = m.imp.ad => l = m

\* What becomes of the file when the impression is written.
Writes(imp) ==
  \/ UNCHANGED <<file, marked, misreads>>
  \/ file' = WithLine(imp) /\ UNCHANGED <<marked, misreads>>
  \/ Compact(WithLine(imp)) /\ marked' \in {marked, {}}

LEMMA LineAdded ==
  ASSUME file \in SUBSET Line, FileInv, NEW imp \in Impression, imp.ad \notin OnFile
  PROVE  /\ WithLine(imp) \in SUBSET Line /\ IsFiniteSet(WithLine(imp))
         /\ \A l, m \in WithLine(imp) : l.imp.ad = m.imp.ad => l = m
         /\ \A l \in WithLine(imp) : l \in file \/ l.imp = imp
<1>1. CASE torn
  BY <1>1 DEF WithLine, FileInv
<1>2. CASE ~torn
  <2>1. PICK new \in Line : new = [at |-> NextNumber, imp |-> imp]
    BY NumberTyped DEF Line, FileInv
  <2>2. new.imp = imp /\ WithLine(imp) = file \cup {new}
    BY <1>2, <2>1 DEF WithLine
  <2>3. IsFiniteSet(WithLine(imp))
    BY <2>2, FS_AddElement DEF FileInv
  <2>4. \A l \in file : l.imp.ad # imp.ad
    BY DEF OnFile, AdsOf, Contents
  <2>5. QED
    BY <2>2, <2>3, <2>4 DEF FileInv
<1>3. QED
  BY <1>1, <1>2

\* Rewriting keeps some of the lines, and which ones is known if both files
\* are read.
LEMMA CompactedPart ==
  ASSUME NEW lines, Compact(lines)
  PROVE  /\ file' \subseteq lines
         /\ \/ misreads' = misreads /\ file' = Newest(Unmarked(lines, marked))
            \/ misreads' = misreads + 1 /\ misreads < MaxMisreads
<1>1. PICK read \in {lines, {}}, seen \in {marked, {}} :
         /\ file' = Newest(Unmarked(read, seen))
         /\ IF read = lines /\ seen = marked THEN UNCHANGED misreads ELSE Misled
  BY DEF Compact
<1>2. file' \subseteq read
  BY <1>1 DEF Newest, Unmarked
<1>3. file' \subseteq lines
  BY <1>2
<1>4. QED
  BY <1>1, <1>3 DEF Misled

\* A write misleads the client at most once.
LEMMA MisreadCounted ==
  ASSUME NEW imp, Writes(imp)
  PROVE  misreads' = misreads \/ (misreads' = misreads + 1 /\ misreads < MaxMisreads)
BY CompactedPart DEF Writes

\* An ad waits in the file for a verdict.
LEMMA ListedIs ==
  \A n \in Ads : Listed(n) <=> \E l \in file : l.imp.ad = n /\ n \notin marked
BY DEF Listed, AdsOf, Contents, Pending, Unmarked

\* The ads that wait.
Waiting == {n \in Ads : Listed(n)}

LEMMA WaitingOnFile == Waiting \subseteq OnFile
BY ListedIs DEF Waiting, OnFile, AdsOf, Contents

LEMMA FileWritten ==
  ASSUME file \in SUBSET Line, FileInv, NEW imp \in Impression, imp.ad \notin OnFile, Writes(imp)
  PROVE  /\ file' \in SUBSET Line /\ marked' \subseteq marked /\ FileInv'
         /\ OnFile' \subseteq OnFile \cup {imp.ad}
         /\ \A n \in Ads : Listed(n)' => \/ Listed(n) \/ n = imp.ad
                                         \/ misreads' = misreads + 1 /\ n \in marked
<1>1. marked' \subseteq marked
  BY DEF Writes
<1>2. file' \subseteq WithLine(imp)
  BY CompactedPart DEF Writes, WithLine
<1>3. file' \in SUBSET Line /\ FileInv'
  <2>1. IsFiniteSet(file') /\ file' \in SUBSET Line
    BY <1>2, LineAdded, FS_Subset
  <2>2. QED
    BY <1>2, <2>1, LineAdded DEF FileInv
<1>4. OnFile' \subseteq OnFile \cup {imp.ad}
  BY <1>2, LineAdded DEF OnFile, AdsOf, Contents
<1>5. ASSUME NEW n \in Ads, Listed(n)', ~(misreads' = misreads + 1 /\ n \in marked)
      PROVE  Listed(n) \/ n = imp.ad
  <2>1. PICK l \in file' : l.imp.ad = n /\ n \notin marked'
    BY <1>5 DEF Listed, AdsOf, Contents, Pending, Unmarked
  <2>2. n \notin marked
    <3>1. CASE marked' = marked
      BY <2>1, <3>1
    <3>2. CASE Compact(WithLine(imp)) /\ misreads' # misreads + 1
      BY <2>1, <3>2, CompactedPart DEF Newest, Unmarked
    <3>3. QED
      BY <1>5, <3>1, <3>2 DEF Writes
  <2>3. l \in file \/ l.imp = imp
    BY <1>2, <2>1, LineAdded
  <2>4. QED
    BY <2>1, <2>2, <2>3, ListedIs
<1>6. QED
  BY <1>1, <1>3, <1>4, <1>5

-----------------------------------------------------------------------------
(* The invariant of the client *)

Decided == {n \in Ads : verdict[n] # "none"}
Posted  == {n \in Ads : Travelling(n)}

\* The ads that have been shown to the end and written down.
Past == OnFile \cup Posted \cup Decided

PastInv == \A n \in Past : n <= delivered /\ n \notin Ahead

\* Only what the server has decided is marked.
MarkInv == marked \subseteq Decided /\ UNION answers \subseteq Decided

ClientInv ==
  /\ TurnsInv /\ OutboxTypeOK /\ crashes \in 0 .. MaxCrashes
  /\ AheadApart /\ FileInv /\ PastInv /\ MarkInv

LEMMA MovesApart ==
  ASSUME TypeOK, TypeOK', AheadApart, NEW out, Moves(out)
  PROVE  /\ AheadApart' /\ Ahead' \subseteq Ahead /\ delivered' = delivered
         /\ out # <<>> => \E imp \in Impression : out = <<imp>> /\ imp.ad \in Shown \ Ahead'
<1>1. /\ IsInjective(ads') /\ Range(ads') \subseteq Range(ads)
      /\ replies' = replies /\ delivered' = delivered
  BY DEF Moves
<1>2. /\ replies \cap Range(ads) = {} /\ Shown \cap (replies \cup Range(ads)) = {}
      /\ \A n \in Ahead : n <= delivered
  BY DEF AheadApart
<1>3. show # NoShow => show.ad \in Shown
  BY DEF TypeOK, TurnsTypeOK, Shown, Show
<1>4. Shown' \subseteq Shown \cup (Range(ads) \ Range(ads'))
      /\ (out # <<>> => Shown' \cap Shown = {})
  <2>1. CASE show' = NoShow
    BY <2>1 DEF Shown
  <2>2. CASE show # NoShow /\ show' # NoShow /\ show'.ad = show.ad /\ out = <<>>
    BY <2>2 DEF Shown
  <2>3. CASE show' # NoShow /\ show'.ad \in Range(ads) \ Range(ads')
    <3>1. Shown' \subseteq {show'.ad}
      BY DEF Shown
    <3>2. QED
      BY <1>2, <2>3, <3>1
  <2>4. QED
    BY <2>1, <2>2, <2>3 DEF Moves
<1>5. Ahead' \subseteq Ahead
  BY <1>1, <1>4 DEF Ahead
<1>6. AheadApart'
  BY <1>1, <1>2, <1>4, <1>5 DEF AheadApart
<1>7. ASSUME out # <<>>
      PROVE  \E imp \in Impression : out = <<imp>> /\ imp.ad \in Shown \ Ahead'
  <2>1. PICK imp \in Impression : out = <<imp>> /\ imp.ad = show.ad /\ show # NoShow
    BY <1>7 DEF Moves
  <2>2. imp.ad \in Shown
    BY <1>3, <2>1
  <2>3. imp.ad \notin Ahead'
    BY <1>1, <1>2, <1>4, <1>7, <2>2 DEF Ahead
  <2>4. QED
    BY <2>1, <2>2, <2>3
<1>8. QED
  BY <1>1, <1>5, <1>6, <1>7


LEMMA FetchApart ==
  ASSUME TypeOK, AheadApart, Cache
  PROVE  /\ AheadApart' /\ delivered \in Nat /\ delivered' \in Nat /\ delivered <= delivered'
         /\ \A n \in Ahead' : n \in Ahead \/ n > delivered
<1>1. delivered \in Nat /\ Shown' = Shown /\ ads \in Seq(Ads)
  BY CacheConstants DEF TypeOK, CacheTypeOK, Cache, turnVars, Shown
<1>2. CASE Prefetch \/ FetchFails \/ Expire
  <2>1. UNCHANGED <<ads, replies, delivered>>
    BY <1>2 DEF Prefetch, FetchFails, Expire
  <2>2. Ahead' = Ahead
    BY <1>1, <2>1 DEF Ahead
  <2>3. QED
    BY <1>1, <2>1, <2>2 DEF AheadApart
<1>3. CASE Deliver
  <2>1. ads' = ads /\ delivered' = delivered + 1 /\ replies' = replies \cup {delivered + 1}
    BY <1>3 DEF Deliver
  <2>2. Ahead' = Ahead \cup {delivered + 1}
    BY <1>1, <2>1 DEF Ahead
  <2>3. Ahead \subseteq Ads /\ \A n \in Ahead : n <= delivered /\ n \in Nat
    <3>1. Range(ads) \subseteq Ads
      <4>1. \A q \in Seq(Ads) : \A i \in DOMAIN q : q[i] \in Ads
        OBVIOUS
      <4>2. QED
        BY <1>1, <4>1 DEF Range
    <3>2. Ahead \subseteq Ads
      BY <3>1 DEF Ahead, TypeOK, CacheTypeOK, Shown
    <3>3. \A n \in Ads : n \in Nat
      BY CacheConstants
    <3>4. QED
      BY <3>2, <3>3 DEF AheadApart
  <2>4. delivered + 1 \notin Ahead /\ \A n \in Ahead' : n <= delivered'
    BY <1>1, <2>1, <2>2, <2>3
  <2>5. delivered + 1 \notin Range(ads) /\ delivered + 1 \notin Shown
    BY <2>4 DEF Ahead
  <2>6. AheadApart'
    BY <1>1, <2>1, <2>4, <2>5 DEF AheadApart
  <2>7. QED
    BY <1>1, <2>1, <2>2, <2>6
<1>4. ASSUME NEW n \in Ads, ReplyLost(n)
      PROVE  AheadApart' /\ delivered' = delivered /\ Ahead' \subseteq Ahead
  BY <1>1, <1>4 DEF ReplyLost, AheadApart, Ahead
<1>5. ASSUME NEW n \in Ads, ReplyArrives(n)
      PROVE  AheadApart' /\ delivered' = delivered /\ Ahead' \subseteq Ahead
  <2>1. n \in replies /\ replies' = replies \ {n} /\ ads' = Append(ads, n)
        /\ delivered' = delivered
    BY <1>5 DEF ReplyArrives
  <2>2. n \notin Range(ads) /\ n \notin Shown
    BY <2>1 DEF AheadApart
  <2>3. PICK q \in Seq(Ads) : q = ads
    BY <1>1
  <2>4. /\ Len(q) \in Nat /\ DOMAIN q = 1 .. Len(q)
        /\ DOMAIN Append(q, n) = 1 .. Len(q) + 1
        /\ \A i \in 1 .. Len(q) : Append(q, n)[i] = q[i]
        /\ Append(q, n)[Len(q) + 1] = n
    BY AppendProperties
  <2>5. \A i \in 1 .. Len(q) + 1 : i \in 1 .. Len(q) \/ i = Len(q) + 1
    BY <2>4
  <2>6. Range(ads') = Range(ads) \cup {n}
    BY <2>1, <2>3, <2>4, <2>5 DEF Range
  <2>7. IsInjective(ads')
    <3>1. ASSUME NEW i \in DOMAIN Append(q, n), NEW j \in DOMAIN Append(q, n),
                 Append(q, n)[i] = Append(q, n)[j]
          PROVE  i = j
      <4>1. \A k \in 1 .. Len(q) : q[k] # n
        BY <2>2, <2>3, <2>4 DEF Range
      <4>2. \A k, m \in 1 .. Len(q) : q[k] = q[m] => k = m
        BY <2>3, <2>4 DEF AheadApart, IsInjective
      <4>3. QED
        BY <2>4, <2>5, <3>1, <4>1, <4>2
    <3>2. QED
      BY <2>1, <2>3, <3>1 DEF IsInjective
  <2>8. QED
    BY <1>1, <2>1, <2>2, <2>6, <2>7 DEF AheadApart, Ahead
<1>6. QED
  BY <1>1, <1>2, <1>3, <1>4, <1>5 DEF Cache

LEMMA TimeApart ==
  ASSUME TypeOK, AheadApart, Toggle \/ Pass
  PROVE  AheadApart' /\ Ahead' = Ahead /\ Shown' = Shown /\ delivered' = delivered
<1>1. UNCHANGED <<ads, replies, delivered>>
  BY DEF Toggle, Pass, cacheVars
<1>2. Shown' = Shown
  <2>1. CASE Toggle \/ show = NoShow
    BY <2>1 DEF Toggle, Pass, Shown
  <2>2. CASE Pass /\ show # NoShow
    <3>1. show \in Show /\ show' = [show EXCEPT !.age = UpTo(show.age, MaxAge)]
      BY <2>2 DEF Pass, TypeOK, TurnsTypeOK
    <3>2. show' # NoShow /\ show'.ad = show.ad
      BY <3>1 DEF Show, NoShow
    <3>3. QED
      BY <2>2, <3>2 DEF Shown
  <2>3. QED
    BY <2>1, <2>2
<1>3. QED
  BY <1>1, <1>2 DEF AheadApart, Ahead

LEMMA RestartApart ==
  ASSUME Restart
  PROVE  AheadApart' /\ Ahead' = {} /\ delivered' = delivered
<1>1. ads' = <<>> /\ replies' = {} /\ show' = NoShow /\ delivered' = delivered
  BY DEF Restart, TurnsLost, CacheLost
<1>2. Range(ads') = {} /\ IsInjective(ads') /\ Shown' = {}
  BY <1>1 DEF Range, IsInjective, Shown
<1>3. QED
  BY <1>1, <1>2 DEF AheadApart, Ahead

-----------------------------------------------------------------------------
(* Every step of the client keeps the invariant *)

\* To the machine a step of the client is a step of its own, or none.
LEMMA MachineStep == [Next]_vars => [TurnsNext]_machineVars
<1>1. SUFFICES ASSUME [Next]_vars PROVE TurnsNext \/ UNCHANGED machineVars
  OBVIOUS
<1>2. ASSUME NEW s \in Sessions, Handle(s) PROVE TurnsNext
  BY <1>2 DEF Handle, Hook, Tick, TurnsNext
<1>3. CASE Fetch \/ Time \/ Crash
  BY <1>3 DEF Fetch, Time, Crash, TurnsNext
<1>4. CASE Sync
  <2>1. UNCHANGED <<turnVars, cacheVars>>
    BY <1>4 DEF Sync, Flush, FlushMisread, Send, Ingest, PostFails, PostTimesOut, AnswerLost, Answered
  <2>2. QED
    BY <2>1 DEF machineVars
<1>5. CASE UNCHANGED vars
  BY <1>5 DEF vars, machineVars
<1>6. QED
  BY <1>1, <1>2, <1>3, <1>4, <1>5 DEF Next

\* What a step may do to the ads for PastInv to last.
LEMMA PastKept ==
  ASSUME AheadApart, PastInv, delivered \in Nat, delivered' \in Nat, delivered <= delivered',
         \A n \in Ahead' : n \in Ahead \/ n > delivered,
         Past' \subseteq Past \cup (Shown \ Ahead'), Past \subseteq Ads
  PROVE  PastInv'
<1>1. SUFFICES ASSUME NEW n \in Past' PROVE n <= delivered' /\ n \notin Ahead'
  BY DEF PastInv
<1>2. n \in Ads /\ n \in Nat
  BY CacheConstants DEF Shown
<1>3. CASE n \in Past
  BY <1>2, <1>3 DEF PastInv
<1>4. CASE n \in Shown \ Ahead'
  <2>1. n <= delivered
    BY <1>4 DEF AheadApart, Ahead
  <2>2. QED
    BY <1>2, <1>4, <2>1
<1>5. QED
  BY <1>3, <1>4

LEMMA PastTyped ==
  ASSUME file \in SUBSET Line
  PROVE  Past \subseteq Ads /\ OnFile \subseteq Ads
BY DEF Past, OnFile, AdsOf, Contents, Posted, Decided, Line, Impression

\* What is written is an impression that has just ended.
LEMMA WrittenKeeps ==
  ASSUME OutboxTypeOK, AheadApart, FileInv, PastInv, MarkInv, delivered \in Nat,
         NEW imp \in Impression, imp.ad \in Shown \ Ahead', Ahead' \subseteq Ahead,
         Writes(imp), delivered' = delivered,
         Posted' \subseteq Posted, Decided' = Decided, answers' \subseteq answers
  PROVE  /\ file' \in SUBSET Line /\ marked' \subseteq Ads
         /\ FileInv' /\ PastInv' /\ MarkInv'
<1>1. file \in SUBSET Line /\ marked \subseteq Ads
  BY DEF OutboxTypeOK
<1>2. imp.ad \in Ahead
  BY DEF Ahead
<1>3. imp.ad \notin OnFile
  BY <1>2 DEF PastInv, Past
<1>4. /\ file' \in SUBSET Line /\ marked' \subseteq marked /\ FileInv'
      /\ OnFile' \subseteq OnFile \cup {imp.ad}
  BY <1>1, <1>3, FileWritten
<1>5. Past' \subseteq Past \cup (Shown \ Ahead')
  BY <1>4 DEF Past
<1>6. PastInv'
  BY <1>1, <1>5, PastTyped, PastKept
<1>7. MarkInv'
  BY <1>4 DEF MarkInv
<1>8. QED
  BY <1>1, <1>4, <1>6, <1>7

\* Nothing is written.
LEMMA NothingWritten ==
  ASSUME OutboxTypeOK, AheadApart, FileInv, PastInv, MarkInv, UNCHANGED <<file, marked>>,
         delivered \in Nat, delivered' \in Nat, delivered <= delivered',
         \A n \in Ahead' : n \in Ahead \/ n > delivered,
         Posted' \subseteq Posted \cup OnFile \cup Decided, Decided \subseteq Decided',
         Decided' \subseteq Decided \cup Posted,
         UNION answers' \subseteq Decided'
  PROVE  /\ file' \in SUBSET Line /\ marked' \subseteq Ads
         /\ FileInv' /\ PastInv' /\ MarkInv'
<1>1. file \in SUBSET Line /\ marked \subseteq Ads /\ OnFile' = OnFile
  BY DEF OutboxTypeOK, OnFile
<1>2. Past' \subseteq Past
  BY <1>1 DEF Past
<1>3. PastInv'
  BY <1>1, <1>2, PastTyped, PastKept
<1>4. QED
  BY <1>1, <1>3 DEF FileInv, MarkInv

LEMMA PostedIs == \A n \in Ads : n \in Posted <=> \E p \in posts : n \in AdsOf(p.batch)
BY DEF Posted, Travelling

LEMMA AdsTyped ==
  ASSUME NEW b \in SUBSET Impression
  PROVE  AdsOf(b) \subseteq Ads
BY DEF AdsOf, Impression

LEMMA NobodyWaitsTyped ==
  ASSUME posts \subseteq [batch : SUBSET Impression, awaited : BOOLEAN]
  PROVE  /\ NobodyWaits \subseteq [batch : SUBSET Impression, awaited : BOOLEAN]
         /\ \A q \in NobodyWaits : \E p \in posts : q.batch = p.batch
<1>1. ASSUME NEW p \in posts
      PROVE  [p EXCEPT !.awaited = FALSE] \in [batch : SUBSET Impression, awaited : BOOLEAN]
             /\ [p EXCEPT !.awaited = FALSE].batch = p.batch
  OBVIOUS
<1>2. QED
  BY <1>1 DEF NobodyWaits

\* A request and its answer.
LEMMA SyncTyped ==
  ASSUME OutboxTypeOK, Sync
  PROVE  /\ posts' \subseteq [batch : SUBSET Impression, awaited : BOOLEAN]
         /\ answers' \subseteq SUBSET Ads
         /\ verdict' \in [Ads -> {"none", "accepted", "rejected"}]
         /\ Posted' \subseteq Posted \cup Waiting \cup marked
         /\ Decided \subseteq Decided'
         /\ Decided' \subseteq Decided \cup Posted
         /\ UNION answers' \subseteq (UNION answers) \cup Decided'
         /\ \/ UNCHANGED <<file, marked>>
            \/ file' = file /\ verdict' = verdict /\ misreads' = misreads
               /\ \E a \in answers : \E part \in SUBSET a : marked' = marked \cup part
         /\ UNCHANGED <<torn, appends>>
         /\ \/ misreads' = misreads
            \/ misreads' = misreads + 1 /\ misreads < MaxMisreads /\ verdict' = verdict
<1> DEFINE Post == [batch : SUBSET Impression, awaited : BOOLEAN]
<1>1. posts \subseteq Post /\ answers \subseteq SUBSET Ads
      /\ verdict \in [Ads -> {"none", "accepted", "rejected"}]
      /\ file \in SUBSET Line
  BY DEF OutboxTypeOK
<1>2. ASSUME Flush \/ FlushMisread
      PROVE  /\ posts' \subseteq Post /\ Posted' \subseteq Posted \cup Waiting \cup marked
             /\ UNCHANGED <<file, marked, torn, appends, answers, verdict>>
             /\ \/ misreads' = misreads
                \/ misreads' = misreads + 1 /\ misreads < MaxMisreads
  <2>1. PICK lines \in SUBSET file :
          Send(lines) /\ (UNCHANGED misreads \/ Misled)
    BY <1>2 DEF Flush, FlushMisread, Pending, Unmarked
  <2>2. PICK b : b = Contents(Oldest(lines))
    OBVIOUS
  <2>3. posts' = posts \cup {[batch |-> b, awaited |-> TRUE]}
        /\ UNCHANGED <<file, marked, torn, appends, answers, verdict>>
    BY <2>1, <2>2 DEF Send
  <2>4. b \subseteq Contents(file) /\ Contents(file) \subseteq Impression
    BY <1>1, <2>2 DEF Contents, Oldest, Line
  <2>5. posts' \subseteq Post
    <3>1. b \in SUBSET Impression
      BY <2>4
    <3>2. [batch |-> b, awaited |-> TRUE] \in Post
      BY <3>1
    <3>3. QED
      BY <1>1, <2>3, <3>2
  <2>6. \A q \in posts' : q \in posts \/ q.batch = b
    BY <2>3
  <2>7. \A n \in Ads : n \in AdsOf(b) => n \in Waiting \cup marked
    <3>1. SUFFICES ASSUME NEW n \in Ads, n \in AdsOf(b), n \notin marked PROVE n \in Waiting
      OBVIOUS
    <3>2. \E l \in file : l.imp.ad = n
      BY <2>4, <3>1 DEF AdsOf, Contents
    <3>3. QED
      BY <3>1, <3>2, ListedIs DEF Waiting
  <2>8. Posted' \subseteq Posted \cup Waiting \cup marked
    BY <2>6, <2>7 DEF Posted, Travelling
  <2>9. QED
    BY <2>1, <2>3, <2>5, <2>8 DEF Misled
<1>3. ASSUME NEW p \in posts, Ingest(p)
      PROVE  /\ posts' \subseteq Post /\ answers' \subseteq SUBSET Ads
             /\ verdict' \in [Ads -> {"none", "accepted", "rejected"}]
             /\ Posted' \subseteq Posted
             /\ Decided \subseteq Decided'
             /\ Decided' \subseteq Decided \cup Posted
             /\ UNION answers' \subseteq (UNION answers) \cup Decided'
             /\ UNCHANGED <<file, marked, torn, appends, misreads>>
  <2>1. /\ posts' = posts \ {p} /\ verdict' = Judgement(p.batch)
        /\ answers' \subseteq answers \cup {AdsOf(p.batch)}
        /\ UNCHANGED <<file, marked, torn, appends, misreads>>
    BY <1>3 DEF Ingest, diskVars
  <2>2. p.batch \in SUBSET Impression /\ AdsOf(p.batch) \subseteq Ads
    BY <1>1, AdsTyped
  <2>3. \A imp : Judged(imp) \in {"accepted", "rejected"}
    BY DEF Judged
  <2>4. /\ verdict' \in [Ads -> {"none", "accepted", "rejected"}]
        /\ \A n \in Ads : verdict[n] # "none" => verdict'[n] # "none"
        /\ \A n \in AdsOf(p.batch) : verdict'[n] # "none"
        /\ \A n \in Ads : verdict'[n] # "none" => verdict[n] # "none" \/ n \in AdsOf(p.batch)
    <3>1. ASSUME NEW n \in Ads
          PROVE  verdict'[n] \in {"accepted", "rejected"}
                 \/ (verdict'[n] = verdict[n] /\ ~(verdict[n] = "none" /\ n \in AdsOf(p.batch)))
      BY <2>1, <2>3 DEF Judgement
    <3>2. ASSUME NEW n \in Ads, verdict'[n] # "none", n \notin AdsOf(p.batch)
          PROVE  verdict[n] # "none"
      BY <2>1, <3>2 DEF Judgement
    <3>3. verdict' = [n \in Ads |-> verdict'[n]]
      BY <2>1 DEF Judgement
    <3>4. \A n \in Ads : verdict'[n] \in {"none", "accepted", "rejected"}
      BY <1>1, <3>1
    <3>5. verdict' \in [Ads -> {"none", "accepted", "rejected"}]
      BY <3>3, <3>4
    <3>6. QED
      BY <2>2, <3>1, <3>2, <3>5
  <2>5. Posted' \subseteq Posted /\ AdsOf(p.batch) \subseteq Posted
    BY <2>1, <2>2 DEF Posted, Travelling
  <2>6. Decided \subseteq Decided' /\ Decided' \subseteq Decided \cup Posted
        /\ AdsOf(p.batch) \subseteq Decided'
    BY <2>2, <2>4, <2>5 DEF Decided
  <2>7. answers' \subseteq SUBSET Ads /\ UNION answers' \subseteq (UNION answers) \cup Decided'
    <3>1. PICK c : c = AdsOf(p.batch)
      OBVIOUS
    <3>2. answers' \subseteq answers \cup {c} /\ c \subseteq Ads /\ c \subseteq Decided'
      BY <2>1, <2>2, <2>6, <3>1
    <3>3. \A d \in answers' : d \in answers \/ d = c
      BY <3>2
    <3>4. answers' \subseteq SUBSET Ads
      BY <1>1, <3>2, <3>3
    <3>5. ASSUME NEW x \in UNION answers', x \notin UNION answers PROVE x \in Decided'
      <4>1. PICK d \in answers' : x \in d
        OBVIOUS
      <4>2. d = c
        BY <3>3, <3>5, <4>1
      <4>3. QED
        BY <3>2, <4>1, <4>2
    <3>6. UNION answers' \subseteq (UNION answers) \cup Decided'
      BY <3>5
    <3>7. QED
      BY <3>4, <3>6
  <2>8. QED
    BY <1>1, <2>1, <2>4, <2>5, <2>6, <2>7
<1>4. ASSUME NEW p \in posts, PostFails(p) \/ PostTimesOut(p)
      PROVE  /\ posts' \subseteq Post /\ Posted' \subseteq Posted
             /\ UNCHANGED <<answers, verdict, file, marked, torn, appends, misreads>>
  <2>1. UNCHANGED <<answers, verdict, file, marked, torn, appends, misreads>>
    BY <1>4 DEF PostFails, PostTimesOut, diskVars
  <2>2. PICK q : q = [p EXCEPT !.awaited = FALSE]
    OBVIOUS
  <2>3. q \in Post /\ q.batch = p.batch /\ posts' \subseteq posts \cup {q}
    <3>1. p \in Post
      BY <1>1
    <3>2. q \in Post /\ q.batch = p.batch
      BY <2>2, <3>1
    <3>3. posts' \subseteq posts \cup {q}
      BY <1>4, <2>2 DEF PostFails, PostTimesOut
    <3>4. QED
      BY <3>2, <3>3
  <2>4. \A r \in posts' : \E o \in posts : r.batch = o.batch
    BY <2>3
  <2>5. Posted' \subseteq Posted
    BY <2>4 DEF Posted, Travelling
  <2>6. QED
    BY <1>1, <2>1, <2>3, <2>5
<1>5. ASSUME NEW a \in answers, AnswerLost(a) \/ Answered(a)
      PROVE  /\ UNCHANGED <<posts, verdict, file, torn, appends, misreads>>
             /\ answers' \subseteq answers
             /\ \E part \in SUBSET a : marked' = marked \cup part
  BY <1>5 DEF AnswerLost, Answered
<1>6. UNCHANGED posts => Posted' = Posted
  BY DEF Posted, Travelling
<1>7. UNCHANGED verdict => Decided' = Decided
  BY DEF Decided
<1>8. QED
  <2>1. CASE Flush \/ FlushMisread
    BY <1>1, <1>2, <1>7, <2>1
  <2>2. CASE \E p \in posts : Ingest(p)
    BY <1>3, <2>2
  <2>3. CASE \E p \in posts : PostFails(p) \/ PostTimesOut(p)
    BY <1>1, <1>4, <1>7, <2>3
  <2>4. CASE \E a \in answers : AnswerLost(a) \/ Answered(a)
    BY <1>1, <1>5, <1>6, <1>7, <2>4
  <2>5. QED
    BY <2>1, <2>2, <2>3, <2>4 DEF Sync

\* What a step of a handler, or of a crash, does to the file.
LEMMA WrittenIs ==
  ASSUME NEW imp, Written(imp)
  PROVE  /\ Writes(imp) /\ torn' \in BOOLEAN
         /\ appends \in 0 .. CompactAfter - 1 => appends' \in 0 .. CompactAfter - 1
<1>1. Writes(imp) /\ torn' = FALSE
  BY DEF Written, Writes
<1>2. appends \in 0 .. CompactAfter - 1 => appends' \in 0 .. CompactAfter - 1
  BY OutboxConstants DEF Written
<1>3. QED
  BY <1>1, <1>2

LEMMA HandleKeeps ==
  ASSUME ClientInv, TurnsInv', NEW s \in Sessions, Handle(s)
  PROVE  ClientInv'
<1>1. /\ TypeOK /\ TypeOK' /\ OutboxTypeOK /\ AheadApart /\ FileInv /\ PastInv /\ MarkInv
      /\ delivered \in Nat /\ crashes \in 0 .. MaxCrashes
  BY CacheConstants DEF ClientInv, TurnsInv, TypeOK, CacheTypeOK
<1>2. PICK out \in Outs : (OnHook(s, out) \/ OnTick(s, out)) /\ Add(out) /\ crashes' = crashes
  BY DEF Handle
<1>3. Moves(out)
  BY <1>1, <1>2, HookMoves, TickMoves
<1>4. /\ AheadApart' /\ Ahead' \subseteq Ahead /\ delivered' = delivered
      /\ out # <<>> => \E imp \in Impression : out = <<imp>> /\ imp.ad \in Shown \ Ahead'
  BY <1>1, <1>3, MovesApart
<1>5. UNCHANGED <<posts, answers, verdict>>
  BY <1>2 DEF Add, netVars
<1>6. Posted' = Posted /\ Decided' = Decided
  BY <1>5 DEF Posted, Travelling, Decided
<1>7. /\ file' \in SUBSET Line /\ marked' \subseteq Ads /\ FileInv' /\ PastInv' /\ MarkInv'
      /\ torn' \in BOOLEAN /\ appends' \in 0 .. CompactAfter - 1
      /\ misreads' \in 0 .. MaxMisreads
  <2>1. CASE UNCHANGED <<file, marked, appends, misreads>> /\ torn' \in BOOLEAN
    <3>1. UNCHANGED <<file, marked, appends, misreads>>
      BY <2>1
    <3>2. UNION answers' \subseteq Decided'
      BY <1>1, <1>5, <1>6 DEF MarkInv
    <3>3. delivered <= delivered' /\ delivered' \in Nat
      BY <1>1, <1>4
    <3>4. /\ file' \in SUBSET Line /\ marked' \subseteq Ads
          /\ FileInv' /\ PastInv' /\ MarkInv'
      BY <1>1, <1>4, <1>6, <3>1, <3>2, <3>3, NothingWritten
    <3>5. QED
      BY <1>1, <2>1, <3>1, <3>4 DEF OutboxTypeOK
  <2>2. CASE out # <<>> /\ Written(out[1])
    <3>1. out # <<>> /\ Written(out[1])
      BY <2>2
    <3>2. PICK imp \in Impression : out = <<imp>> /\ imp.ad \in Shown \ Ahead'
      BY <1>4, <3>1
    <3>3. Written(imp)
      BY <3>1, <3>2
    <3>4. Writes(imp) /\ torn' \in BOOLEAN /\ appends' \in 0 .. CompactAfter - 1
      BY <1>1, <3>3, WrittenIs DEF OutboxTypeOK
    <3>5. misreads' \in 0 .. MaxMisreads
      BY <1>1, <3>4, MisreadCounted, OutboxConstants DEF OutboxTypeOK
    <3>6. QED
      BY <1>1, <1>4, <1>5, <1>6, <3>2, <3>4, <3>5, WrittenKeeps
  <2>3. QED
    BY <1>1, <1>2, <2>1, <2>2 DEF Add, diskVars, OutboxTypeOK
<1>8. OutboxTypeOK'
  BY <1>1, <1>5, <1>7 DEF OutboxTypeOK
<1>9. QED
  BY <1>1, <1>2, <1>4, <1>7, <1>8 DEF ClientInv

\* Steps that leave the queue and its transmission alone.
LEMMA QueueLeftAlone ==
  ASSUME ClientInv, TurnsInv', AheadApart', UNCHANGED <<outboxVars, crashes>>,
         delivered \in Nat, delivered' \in Nat, delivered <= delivered',
         \A n \in Ahead' : n \in Ahead \/ n > delivered
  PROVE  ClientInv'
<1>1. UNCHANGED <<file, torn, marked, appends, misreads, posts, answers, verdict, crashes>>
  BY DEF outboxVars
<1>2. OutboxTypeOK /\ AheadApart /\ FileInv /\ PastInv /\ MarkInv /\ crashes \in 0 .. MaxCrashes
  BY DEF ClientInv
<1>3. Posted' = Posted /\ Decided' = Decided
  BY <1>1 DEF Posted, Travelling, Decided
<1>4. UNION answers' \subseteq Decided'
  BY <1>1, <1>2, <1>3 DEF MarkInv
<1>5. FileInv' /\ PastInv' /\ MarkInv'
  BY <1>1, <1>2, <1>3, <1>4, NothingWritten
<1>6. OutboxTypeOK'
  BY <1>1, <1>2 DEF OutboxTypeOK
<1>7. QED
  BY <1>1, <1>2, <1>5, <1>6 DEF ClientInv

LEMMA SyncKeeps ==
  ASSUME ClientInv, TurnsInv', Sync
  PROVE  ClientInv'
<1>1. /\ OutboxTypeOK /\ AheadApart /\ FileInv /\ PastInv /\ MarkInv
      /\ crashes \in 0 .. MaxCrashes /\ delivered \in Nat
  BY CacheConstants DEF ClientInv, TurnsInv, TypeOK, CacheTypeOK
<1>2. UNCHANGED <<ads, fetches, replies, delivered, expired, session, active, show, visible>>
      /\ crashes' = crashes
  BY DEF Sync, Flush, FlushMisread, Send, Ingest, PostFails, PostTimesOut, AnswerLost, Answered, turnVars, cacheVars
<1>3. AheadApart' /\ Ahead' = Ahead
  BY <1>1, <1>2 DEF AheadApart, Ahead, Shown
<1>4. /\ posts' \subseteq [batch : SUBSET Impression, awaited : BOOLEAN]
      /\ answers' \subseteq SUBSET Ads
      /\ verdict' \in [Ads -> {"none", "accepted", "rejected"}]
      /\ Posted' \subseteq Posted \cup OnFile \cup Decided
      /\ Decided \subseteq Decided' /\ Decided' \subseteq Decided \cup Posted
      /\ UNION answers' \subseteq (UNION answers) \cup Decided'
      /\ UNCHANGED <<torn, appends>>
      /\ misreads' \in 0 .. MaxMisreads
  <2>1. misreads \in 0 .. MaxMisreads /\ marked \subseteq Decided
    BY <1>1 DEF OutboxTypeOK, MarkInv
  <2>2. misreads' \in 0 .. MaxMisreads
    BY <1>1, <2>1, SyncTyped, OutboxConstants
  <2>3. QED
    BY <1>1, <2>1, <2>2, SyncTyped, WaitingOnFile
<1>5. UNION answers' \subseteq Decided' /\ delivered <= delivered' /\ delivered' \in Nat
  <2>1. UNION answers \subseteq Decided
    BY <1>1 DEF MarkInv
  <2>2. UNION answers' \subseteq Decided'
    BY <1>4, <2>1
  <2>3. delivered' = delivered
    BY <1>2
  <2>4. QED
    BY <1>1, <2>2, <2>3
<1>6. /\ file' \in SUBSET Line /\ marked' \subseteq Ads /\ FileInv' /\ PastInv' /\ MarkInv'
  <2>1. CASE UNCHANGED <<file, marked>>
    BY <1>1, <1>3, <1>4, <1>5, <2>1, NothingWritten
  <2>2. CASE ~UNCHANGED <<file, marked>>
    <3>1. PICK a \in UNION {SUBSET b : b \in answers} : marked' = marked \cup a /\ file' = file
      BY <1>1, <2>2, SyncTyped
    <3>2. a \subseteq Decided /\ a \subseteq Ads
      BY <1>1 DEF MarkInv, OutboxTypeOK
    <3>3. OnFile' = OnFile
      BY <3>1 DEF OnFile
    <3>4. Past' \subseteq Past
      BY <1>4, <3>3 DEF Past
    <3>5. file \in SUBSET Line
      BY <1>1 DEF OutboxTypeOK
    <3>6. PastInv'
      BY <1>1, <1>3, <1>5, <3>4, <3>5, PastTyped, PastKept
    <3>7. MarkInv'
      BY <1>1, <1>4, <1>5, <3>1, <3>2 DEF MarkInv
    <3>8. QED
      BY <1>1, <3>1, <3>2, <3>6, <3>7 DEF OutboxTypeOK, FileInv
  <2>3. QED
    BY <2>1, <2>2
<1>7. OutboxTypeOK'
  BY <1>1, <1>4, <1>6 DEF OutboxTypeOK
<1>8. QED
  BY <1>1, <1>2, <1>3, <1>6, <1>7 DEF ClientInv

LEMMA CrashKeeps ==
  ASSUME ClientInv, TurnsInv', Crash
  PROVE  ClientInv'
<1>1. /\ OutboxTypeOK /\ AheadApart /\ FileInv /\ PastInv /\ MarkInv
      /\ crashes \in 0 .. MaxCrashes /\ delivered \in Nat /\ TurnsTypeOK
  BY CacheConstants DEF ClientInv, TurnsInv, TypeOK, CacheTypeOK
<1>2. /\ crashes' = crashes + 1 /\ crashes < MaxCrashes /\ Restart
      /\ OutboxLost \/ (show # NoShow /\ TornAppend)
         \/ (show # NoShow /\ TornCompaction(Closing(show)[1]))
  BY DEF Crash
<1>3. AheadApart' /\ Ahead' = {} /\ delivered' = delivered
  BY <1>2, RestartApart
<1>4. /\ appends' = 0 /\ posts' = NobodyWaits /\ answers' = {} /\ verdict' = verdict
      /\ torn' \in BOOLEAN
  BY <1>1, <1>2 DEF OutboxLost, TornAppend, TornCompaction, OutboxTypeOK
<1>5. posts' \subseteq [batch : SUBSET Impression, awaited : BOOLEAN]
      /\ \A q \in posts' : \E p \in posts : q.batch = p.batch
  BY <1>1, <1>4, NobodyWaitsTyped DEF OutboxTypeOK
<1>6. Posted' \subseteq Posted /\ Decided' = Decided
  BY <1>4, <1>5 DEF Posted, Travelling, Decided
<1>7. UNION answers' \subseteq Decided' /\ answers' \subseteq answers
      /\ delivered <= delivered' /\ delivered' \in Nat
  BY <1>1, <1>3, <1>4
<1>8. /\ file' \in SUBSET Line /\ marked' \subseteq Ads /\ FileInv' /\ PastInv' /\ MarkInv'
      /\ misreads' \in 0 .. MaxMisreads
  <2>1. CASE OutboxLost \/ TornAppend
    <3>1. UNCHANGED <<file, marked, misreads>> /\ misreads \in 0 .. MaxMisreads
      BY <1>1, <2>1 DEF OutboxLost, TornAppend, OutboxTypeOK
    <3>2. QED
      BY <1>1, <1>3, <1>6, <1>7, <3>1, NothingWritten
  <2>2. CASE ~(OutboxLost \/ TornAppend)
    <3>1. show # NoShow /\ show \in Show /\ TornCompaction(Closing(show)[1])
      BY <1>1, <1>2, <2>2 DEF TurnsTypeOK
    <3>2. PICK imp \in Impression : Closing(show) = <<imp>> /\ imp.ad = show.ad
      BY <3>1, ClosingTyped
    <3>3. imp.ad \in Shown \ Ahead'
      BY <1>3, <3>1, <3>2 DEF Shown, Impression
    <3>4. TornCompaction(imp)
      BY <3>1, <3>2
    <3>5. Writes(imp)
      BY <3>4 DEF TornCompaction, Writes
    <3>6. Ahead' \subseteq Ahead
      BY <1>3
    <3>7. misreads' \in 0 .. MaxMisreads
      BY <1>1, <3>5, MisreadCounted, OutboxConstants DEF OutboxTypeOK
    <3>8. QED
      BY <1>1, <1>3, <1>6, <1>7, <3>3, <3>5, <3>6, <3>7, WrittenKeeps
  <2>3. QED
    BY <2>1, <2>2
<1>9. appends' \in 0 .. CompactAfter - 1 /\ crashes' \in 0 .. MaxCrashes
  BY <1>1, <1>2, <1>4, OutboxConstants, CrashAssumption
<1>10. OutboxTypeOK'
  BY <1>1, <1>4, <1>5, <1>7, <1>8, <1>9 DEF OutboxTypeOK
<1>11. QED
  BY <1>3, <1>8, <1>9, <1>10 DEF ClientInv

LEMMA ClientStep == ClientInv /\ [Next]_vars => ClientInv'
<1>1. SUFFICES ASSUME ClientInv, [Next]_vars PROVE ClientInv'
  OBVIOUS
<1>2. TurnsInv'
  BY <1>1, MachineStep, TurnsStep DEF ClientInv
<1>3. TypeOK /\ AheadApart /\ delivered \in Nat
  BY <1>1, CacheConstants DEF ClientInv, TurnsInv, TypeOK, CacheTypeOK
<1>4. ASSUME NEW s \in Sessions, Handle(s) PROVE ClientInv'
  BY <1>1, <1>2, <1>4, HandleKeeps
<1>5. CASE Fetch
  <2>1. Cache /\ UNCHANGED <<outboxVars, crashes>>
    BY <1>5 DEF Fetch
  <2>2. QED
    BY <1>1, <1>2, <1>3, <2>1, FetchApart, QueueLeftAlone
<1>6. CASE Sync
  BY <1>1, <1>2, <1>6, SyncKeeps
<1>7. CASE Time
  <2>1. (Toggle \/ Pass) /\ UNCHANGED <<outboxVars, crashes>>
    BY <1>7 DEF Time
  <2>2. AheadApart' /\ Ahead' = Ahead /\ delivered' = delivered
    BY <1>3, <2>1, TimeApart
  <2>3. delivered' \in Nat /\ delivered <= delivered'
    BY <1>3, <2>2
  <2>4. QED
    BY <1>1, <1>2, <1>3, <2>1, <2>2, <2>3, QueueLeftAlone
<1>8. CASE Crash
  BY <1>1, <1>2, <1>8, CrashKeeps
<1>9. CASE UNCHANGED vars
  <2>1. UNCHANGED <<outboxVars, crashes, ads, replies, show, delivered>>
    BY <1>9 DEF vars, cacheVars, turnVars
  <2>2. AheadApart' /\ Ahead' = Ahead
    BY <1>3, <2>1 DEF AheadApart, Ahead, Shown
  <2>3. delivered' \in Nat /\ delivered <= delivered'
    BY <1>3, <2>1
  <2>4. QED
    BY <1>1, <1>2, <1>3, <2>1, <2>2, <2>3, QueueLeftAlone
<1>10. QED
  BY <1>1, <1>4, <1>5, <1>6, <1>7, <1>8, <1>9 DEF Next

LEMMA ClientStart == Init => ClientInv
<1>1. SUFFICES ASSUME Init PROVE ClientInv
  OBVIOUS
<1>2. TurnsInv
  BY <1>1, TurnsStart DEF Init, MachineInit
<1>3. OutboxTypeOK /\ crashes \in 0 .. MaxCrashes
  <2>1. /\ OutboxInit /\ crashes = 0 /\ 0 \in 0 .. CompactAfter - 1
        /\ 0 \in 0 .. MaxMisreads /\ 0 \in 0 .. MaxCrashes
    BY <1>1, OutboxConstants, CrashAssumption DEF Init
  <2>2. verdict \in [Ads -> {"none", "accepted", "rejected"}]
    BY <2>1 DEF OutboxInit
  <2>3. QED
    BY <2>1, <2>2 DEF OutboxInit, OutboxTypeOK
<1>4. /\ ads = <<>> /\ replies = {} /\ show = NoShow /\ file = {} /\ marked = {}
      /\ posts = {} /\ answers = {} /\ verdict = [n \in Ads |-> "none"]
  BY <1>1 DEF Init, CacheInit, TurnsInit, OutboxInit
<1>5. Range(ads) = {} /\ IsInjective(ads) /\ Shown = {} /\ Ahead = {}
  BY <1>4 DEF Range, IsInjective, Shown, Ahead
<1>6. Past = {}
  BY <1>4 DEF Past, OnFile, AdsOf, Contents, Posted, Travelling, Decided
<1>7. AheadApart /\ FileInv /\ PastInv /\ MarkInv
  BY <1>4, <1>5, <1>6, FS_EmptySet DEF AheadApart, FileInv, PastInv, MarkInv
<1>8. QED
  BY <1>2, <1>3, <1>7 DEF ClientInv

LEMMA ClientInvariant == Spec => []ClientInv
BY ClientStart, ClientStep, PTL DEF Spec

\* The daemon, its cache, its turns, its queue and its requests keep their
\* types, through crashes and half lines.
THEOREM ClientTypeCorrect == Spec => []ClientTypeOK
<1>1. ClientInv => ClientTypeOK
  BY DEF ClientInv, TurnsInv, ClientTypeOK
<1>2. QED
  BY <1>1, ClientInvariant, PTL

LEMMA AtMostOne ==
  ASSUME NEW S, \A x, y \in S : x = y
  PROVE  Cardinality(S) \in {0, 1} /\ (Cardinality(S) = 1 => S # {})
<1>1. CASE S = {}
  BY <1>1, FS_EmptySet
<1>2. CASE S # {}
  <2>1. PICK x \in S : TRUE
    BY <1>2
  <2>2. S = {x}
    BY <2>1
  <2>3. QED
    BY <2>2, FS_Singleton
<1>3. QED
  BY <1>1, <1>2

LEMMA OncePlaced == ClientInv => OneShowPerDelivery
<1>1. SUFFICES ASSUME ClientInv, NEW n \in Ads PROVE Occurrences(n) <= 1
  BY DEF OneShowPerDelivery
<1>2. AheadApart /\ FileInv /\ PastInv
  BY <1>1 DEF ClientInv
<1>3. PICK C : C = {i \in DOMAIN ads : ads[i] = n}
  OBVIOUS
<1>4. PICK F : F = {l \in file : l.imp.ad = n}
  OBVIOUS
<1>5. Cardinality(C) \in {0, 1} /\ (Cardinality(C) = 1 => n \in Range(ads))
  <2>1. \A x, y \in C : x = y
    BY <1>2, <1>3 DEF AheadApart, IsInjective
  <2>2. C # {} => n \in Range(ads)
    BY <1>3 DEF Range
  <2>3. QED
    BY <2>1, <2>2, AtMostOne
<1>6. Cardinality(F) \in {0, 1} /\ (Cardinality(F) = 1 => n \in OnFile)
  <2>1. \A x, y \in F : x = y
    BY <1>2, <1>4 DEF FileInv
  <2>2. F # {} => n \in OnFile
    BY <1>4 DEF OnFile, AdsOf, Contents
  <2>3. QED
    BY <2>1, <2>2, AtMostOne
<1>7. n \in OnFile => n \notin replies /\ n \notin Range(ads) /\ n \notin Shown
  BY <1>2 DEF PastInv, Past, Ahead
<1>8. /\ n \in replies => n \notin Range(ads)
      /\ n \in Shown => n \notin replies /\ n \notin Range(ads)
  BY <1>2 DEF AheadApart
<1>9. (show # NoShow /\ show.ad = n) <=> n \in Shown
  BY DEF Shown
<1>10. Occurrences(n) = Cardinality(C) + (IF n \in Shown THEN 1 ELSE 0)
                          + Cardinality(F) + (IF n \in replies THEN 1 ELSE 0)
  BY <1>3, <1>4, <1>9 DEF Occurrences
<1>11. QED
  BY <1>5, <1>6, <1>7, <1>8, <1>10

\* Every delivery is in one place: the answer of the server, the cache, the
\* show or the queue, and is never shown a second time.
THEOREM ShownOnce == Spec => []OneShowPerDelivery
BY OncePlaced, ClientInvariant, PTL

-----------------------------------------------------------------------------
(* The promise of Journey *)

Served == replies \cup Range(ads)

\* Where an ad is on its journey, by the places it is in.
StageIs ==
  \A n \in Ads :
    /\ n \in Decided /\ n \in Waiting => Stage(n) = "judged"
    /\ n \in Decided /\ n \notin Waiting => Stage(n) = "decided"
    /\ n \notin Decided /\ n \in Waiting => Stage(n) = "queued"
    /\ n \in Posted /\ n \notin Decided \cup Waiting => Stage(n) = "dropped"
    /\ n \notin Decided \cup Waiting \cup Posted /\ n > delivered => Stage(n) = "new"
    /\ n \in Shown /\ n \notin Decided \cup Waiting \cup Posted => Stage(n) = "showing"
    /\ n \in Served /\ n \notin Decided \cup Waiting \cup Posted => Stage(n) = "served"
    /\ n \notin Decided \cup Waiting \cup Posted \cup Ahead /\ n <= delivered => Stage(n) = "wasted"

LEMMA StageKnown == ClientInv => StageIs
<1>1. SUFFICES ASSUME ClientInv, NEW n \in Ads
               PROVE  /\ n \in Decided /\ n \in Waiting => Stage(n) = "judged"
                      /\ n \in Decided /\ n \notin Waiting => Stage(n) = "decided"
                      /\ n \notin Decided /\ n \in Waiting => Stage(n) = "queued"
                      /\ n \in Posted /\ n \notin Decided \cup Waiting => Stage(n) = "dropped"
                      /\ n \notin Decided \cup Waiting \cup Posted /\ n > delivered
                           => Stage(n) = "new"
                      /\ n \in Shown /\ n \notin Decided \cup Waiting \cup Posted
                           => Stage(n) = "showing"
                      /\ n \in Served /\ n \notin Decided \cup Waiting \cup Posted
                           => Stage(n) = "served"
                      /\ n \notin Decided \cup Waiting \cup Posted \cup Ahead /\ n <= delivered
                           => Stage(n) = "wasted"
  BY DEF StageIs
<1>2. AheadApart /\ PastInv /\ delivered \in Nat /\ n \in Nat
  BY <1>1, CacheConstants DEF ClientInv, TurnsInv, TypeOK, CacheTypeOK
<1>3. /\ n \in Decided <=> verdict[n] # "none"
      /\ n \in Waiting <=> Listed(n)
      /\ n \in Posted <=> Travelling(n)
      /\ n \in Shown <=> show # NoShow /\ show.ad = n
      /\ n \in Served <=> n \in replies \cup Range(ads)
  BY DEF Decided, Waiting, Posted, Shown, Served
<1>4. /\ n \in Waiting \/ n \in Posted \/ n \in Decided => ~(n > delivered) /\ n \notin Ahead
      /\ n \in Ahead => ~(n > delivered)
      /\ n \in Shown => n \notin Served
      /\ n \in Ahead <=> n \in Shown \/ n \in Served
  <2>1. n \in Waiting \/ n \in Posted \/ n \in Decided => n <= delivered /\ n \notin Ahead
    BY <1>2, WaitingOnFile DEF PastInv, Past
  <2>2. n \in Ahead => n <= delivered
    BY <1>2 DEF AheadApart
  <2>3. n <= delivered => ~(n > delivered)
    BY <1>2
  <2>4. QED
    BY <1>2, <2>1, <2>2, <2>3 DEF AheadApart, Ahead, Served
<1>5. n <= delivered => ~(n > delivered)
  BY <1>2
<1>6. /\ n \in Decided /\ n \in Waiting => Stage(n) = "judged"
      /\ n \in Decided /\ n \notin Waiting => Stage(n) = "decided"
  BY <1>3, <1>4 DEF Stage
<1>7. n \notin Decided /\ n \in Waiting => Stage(n) = "queued"
  BY <1>3, <1>4 DEF Stage
<1>8. CASE n \notin Decided \cup Waiting
  <2>1. /\ verdict[n] = "none" /\ ~Listed(n)
        /\ n \in Posted => ~(n > delivered) /\ n \notin Shown /\ n \notin Served
        /\ n \in Posted <=> Travelling(n)
    BY <1>3, <1>4, <1>8
  <2>2. n \in Posted => Stage(n) = "dropped"
    BY <1>3, <2>1 DEF Stage
  <2>3. n \notin Posted /\ n > delivered => Stage(n) = "new"
    BY <1>3, <1>4, <2>1 DEF Stage
  <2>4. n \notin Posted /\ n \in Shown => Stage(n) = "showing"
    BY <1>3, <1>4, <2>1 DEF Stage
  <2>5. n \notin Posted /\ n \in Served => Stage(n) = "served"
    <3>1. SUFFICES ASSUME n \notin Posted, n \in Served PROVE Stage(n) = "served"
      OBVIOUS
    <3>2. /\ ~Travelling(n) /\ ~(n > delivered) /\ ~(show # NoShow /\ show.ad = n)
          /\ n \in replies \cup Range(ads)
      BY <1>3, <1>4, <3>1
    <3>3. QED
      BY <2>1, <3>2 DEF Stage
  <2>6. n \notin Posted \cup Ahead /\ n <= delivered => Stage(n) = "wasted"
    <3>1. SUFFICES ASSUME n \notin Posted \cup Ahead, n <= delivered PROVE Stage(n) = "wasted"
      OBVIOUS
    <3>2. /\ ~Travelling(n) /\ ~(n > delivered) /\ ~(show # NoShow /\ show.ad = n)
          /\ n \notin replies \cup Range(ads)
      BY <1>3, <1>4, <1>5, <3>1
    <3>3. QED
      BY <2>1, <3>2 DEF Stage
  <2>7. QED
    BY <1>8, <2>2, <2>3, <2>4, <2>5, <2>6
<1>9. QED
  BY <1>6, <1>7, <1>8

LEMMA StageKnownNext == ClientInv' => StageIs'
BY StageKnown, PTL

\* A read that failed misled the client.
Misleads == misreads' = misreads + 1

\* What a step does to the queue if nothing was misread.
Orderly ==
  /\ misreads' = misreads
  /\ Waiting' \subseteq Waiting \cup (Shown \ Ahead')
  /\ Decided' = Decided \/ Waiting' = Waiting
  /\ \/ Waiting \ Waiting' \subseteq Decided
     \/ Cardinality(Waiting) >= MaxEntries /\ Shown \ Ahead' # {}

\* And if something was.
Disorderly ==
  /\ Misleads
  /\ Waiting' \subseteq Waiting \cup (Shown \ Ahead') \cup Decided
  /\ Decided' = Decided

\* What a step does to the places, whatever the step.
Travels ==
  /\ delivered' \in Nat /\ delivered <= delivered'
  /\ \A n \in Ads : n > delivered /\ n <= delivered' => n \in replies'
  /\ \A n \in Served' : n \in Served \/ n > delivered
  /\ Shown' \subseteq Shown \cup Served
  /\ Posted' \subseteq Posted \cup Waiting \cup Decided
  /\ Decided \subseteq Decided' /\ Decided' \subseteq Decided \cup Posted
  /\ Orderly \/ Disorderly

LEMMA StageFollows ==
  ASSUME ClientInv, ClientInv', Travels, NEW n \in Ads
  PROVE  \/ Stage(n)' = Stage(n) \/ Stage(n)' \in Promise!Follows[Stage(n)]
         \/ Disorderly /\ Stage(n) = "decided" /\ Stage(n)' = "judged"
<1>1. StageIs /\ StageIs'
  BY StageKnown, StageKnownNext
<1>2. AheadApart /\ PastInv /\ AheadApart' /\ PastInv' /\ delivered \in Nat /\ n \in Nat
      /\ delivered' \in Nat
  BY CacheConstants DEF ClientInv, TurnsInv, TypeOK, CacheTypeOK
<1>3. /\ n \in Past => n <= delivered /\ n \notin Ahead
      /\ n \in Ahead => n <= delivered
      /\ n \in Past <=> n \in OnFile \/ n \in Posted \/ n \in Decided
      /\ n \in Waiting => n \in OnFile
      /\ n \in Ahead <=> n \in Served \/ n \in Shown
      /\ n \in Shown => n \notin Served
  BY <1>2, WaitingOnFile DEF PastInv, AheadApart, Past, Ahead, Served
<1>4. /\ n \in Ahead' <=> n \in Served' \/ n \in Shown'
      /\ n \in replies' => n \in Served'
      /\ n \in Ahead' => n <= delivered'
  BY <1>2 DEF Ahead, Served, AheadApart
<1>5. /\ n > delivered <=> ~(n <= delivered)
      /\ n > delivered' <=> ~(n <= delivered')
      /\ n <= delivered => n <= delivered'
  BY <1>2 DEF Travels
<1>6. /\ n > delivered /\ n <= delivered' => n \in replies'
      /\ n \in Served' => n \in Served \/ n > delivered
      /\ n \in Shown' => n \in Shown \/ n \in Served
      /\ n \in Waiting' => \/ n \in Waiting \/ (n \in Shown /\ n \notin Ahead')
                           \/ Disorderly /\ n \in Decided
      /\ n \in Posted' => n \in Posted \/ n \in Waiting \/ n \in Decided
      /\ n \in Decided => n \in Decided'
      /\ n \in Decided' => n \in Decided \/ n \in Posted
      /\ n \in Decided' /\ n \in Waiting => n \in Decided \/ n \in Waiting'
  BY DEF Travels, Orderly, Disorderly
<1>7. CASE n \in Decided
  <2>1. n \in Waiting' => n \in Waiting \/ Disorderly
    BY <1>3, <1>6, <1>7
  <2>2. /\ Stage(n) = IF n \in Waiting THEN "judged" ELSE "decided"
        /\ Stage(n)' = IF n \in Waiting' THEN "judged" ELSE "decided"
    BY <1>1, <1>6, <1>7 DEF StageIs
  <2>3. QED
    BY <2>1, <2>2 DEF Promise!Follows
<1>8. CASE n \notin Decided /\ n \in Waiting
  <2>1. n \notin Ahead' /\ n <= delivered'
    BY <1>3, <1>4, <1>5, <1>6, <1>8
  <2>2. Stage(n) = "queued"
    BY <1>1, <1>8 DEF StageIs
  <2>3. Stage(n)' \in {"judged", "queued", "dropped", "wasted"}
    BY <1>1, <1>6, <1>8, <2>1 DEF StageIs
  <2>4. QED
    BY <2>2, <2>3 DEF Promise!Follows
<1>9. CASE n \notin Decided /\ n \notin Waiting /\ n \in Posted
  <2>1. n \notin Ahead' /\ n <= delivered' /\ n \notin Waiting'
    BY <1>3, <1>4, <1>5, <1>6, <1>9
  <2>2. Stage(n) = "dropped"
    BY <1>1, <1>9 DEF StageIs
  <2>3. Stage(n)' \in {"decided", "dropped", "wasted"}
    BY <1>1, <2>1 DEF StageIs
  <2>4. QED
    BY <2>2, <2>3 DEF Promise!Follows
<1>10. CASE n \notin Decided /\ n \notin Waiting /\ n \notin Posted
  <2>1. n \notin Decided' /\ n \notin Posted'
    BY <1>6, <1>10
  <2>2. CASE n > delivered
    <3>1. n \notin Ahead /\ n \notin Waiting'
      BY <1>3, <1>5, <1>6, <1>10, <2>2
    <3>2. Stage(n) = "new"
      BY <1>1, <1>10, <2>2 DEF StageIs
    <3>3. Stage(n)' \in {"new", "served"}
      BY <1>1, <1>4, <1>5, <1>6, <2>1, <2>2, <3>1 DEF StageIs
    <3>4. QED
      BY <3>2, <3>3 DEF Promise!Follows
  <2>3. CASE n \in Shown
    <3>1. n \notin Served' /\ n <= delivered'
      BY <1>3, <1>5, <1>6, <2>3
    <3>2. Stage(n) = "showing"
      BY <1>1, <1>10, <2>3 DEF StageIs
    <3>3. Stage(n)' \in {"showing", "queued", "wasted"}
      BY <1>1, <1>4, <2>1, <3>1 DEF StageIs
    <3>4. QED
      BY <3>2, <3>3 DEF Promise!Follows
  <2>4. CASE n \in Served
    <3>1. n \notin Waiting' /\ n <= delivered'
      BY <1>3, <1>5, <1>6, <1>10, <2>4
    <3>2. Stage(n) = "served"
      BY <1>1, <1>10, <2>4 DEF StageIs
    <3>3. Stage(n)' \in {"served", "showing", "wasted"}
      BY <1>1, <1>4, <2>1, <3>1 DEF StageIs
    <3>4. QED
      BY <3>2, <3>3 DEF Promise!Follows
  <2>5. CASE n \notin Ahead /\ n <= delivered
    <3>1. n \notin Waiting' /\ n <= delivered' /\ n \notin Ahead'
      BY <1>3, <1>4, <1>5, <1>6, <1>10, <2>5
    <3>2. Stage(n) = "wasted"
      BY <1>1, <1>10, <2>5 DEF StageIs
    <3>3. Stage(n)' = "wasted"
      BY <1>1, <2>1, <3>1 DEF StageIs
    <3>4. QED
      BY <3>2, <3>3
  <2>6. QED
    BY <1>3, <1>5, <2>2, <2>3, <2>4, <2>5
<1>11. QED
  BY <1>7, <1>8, <1>9, <1>10

LEMMA WaitingFinite ==
  IsFiniteSet(Waiting) /\ Cardinality(Waiting) \in Nat
<1>1. IsFiniteSet(Ads)
  BY CacheConstants, FS_Interval
<1>2. Waiting \in SUBSET Ads
  BY DEF Waiting
<1>3. QED
  BY <1>1, <1>2, FS_Subset, FS_CardinalityType

\* Rewriting gives up an ad only when as many wait as the queue holds.
LEMMA RoomMade ==
  ASSUME file \in SUBSET Line, FileInv, NEW imp \in Impression, imp.ad \notin OnFile,
         Writes(imp), misreads' = misreads, misreads \in Nat, Waiting \ Waiting' # {}
  PROVE  Cardinality(Waiting) >= MaxEntries
<1>1. PICK n \in Ads : n \in Waiting /\ n \notin Waiting'
  BY DEF Waiting
<1>2. PICK l \in file : l.imp.ad = n /\ n \notin marked
  BY <1>1, ListedIs DEF Waiting
<1>3. l \notin file'
  <2>1. SUFFICES ASSUME l \in file' PROVE FALSE
    OBVIOUS
  <2>2. n \notin marked'
    BY <1>2 DEF Writes
  <2>3. Listed(n)'
    BY <1>2, <2>1, <2>2 DEF Listed, AdsOf, Contents, Pending, Unmarked
  <2>4. QED
    BY <1>1, <2>3 DEF Waiting
<1>4. l \in WithLine(imp) /\ file' = Newest(Unmarked(WithLine(imp), marked))
  <2>1. l \in WithLine(imp) /\ Compact(WithLine(imp))
    BY <1>2, <1>3 DEF Writes, WithLine
  <2>2. misreads' # misreads + 1
    OBVIOUS
  <2>3. QED
    BY <2>1, <2>2, CompactedPart
<1>5. PICK U : U = Unmarked(WithLine(imp), marked)
  OBVIOUS
<1>6. l \in U /\ U \subseteq WithLine(imp) /\ IsFiniteSet(U) /\ l \notin Newest(U)
  <2>1. l \in U /\ U \subseteq WithLine(imp)
    BY <1>2, <1>4, <1>5 DEF Unmarked
  <2>2. IsFiniteSet(U)
    BY <2>1, LineAdded, FS_Subset
  <2>3. QED
    BY <1>3, <1>4, <1>5, <2>1, <2>2
<1>7. PICK N : N = {m \in U : m.at > l.at}
  OBVIOUS
<1>8. ~(Cardinality(N) < MaxEntries) /\ N \subseteq U /\ l \notin N
  <2>1. l.at \in Nat
    BY <1>2 DEF Line
  <2>2. QED
    BY <1>6, <1>7, <2>1 DEF Newest
<1>9. PICK new : WithLine(imp) \subseteq file \cup {new}
  BY DEF WithLine
<1>10. PICK M : M = (N \cap file) \cup {l}
  OBVIOUS
<1>11. IsFiniteSet(N) /\ IsFiniteSet(N \cap file) /\ Cardinality(N) \in Nat
       /\ Cardinality(N \cap file) \in Nat
  BY <1>6, <1>8, FS_Subset, FS_Intersection, FS_CardinalityType
<1>12. IsFiniteSet(M) /\ Cardinality(M) = Cardinality(N \cap file) + 1
  BY <1>8, <1>10, <1>11, FS_AddElement
<1>13. Cardinality(N) <= Cardinality(N \cap file) + 1
  <2>1. N \subseteq (N \cap file) \cup {new}
    BY <1>6, <1>8, <1>9
  <2>2. IsFiniteSet((N \cap file) \cup {new})
        /\ Cardinality((N \cap file) \cup {new}) <= Cardinality(N \cap file) + 1
    <3>1. PICK A : A = N \cap file
      OBVIOUS
    <3>2. IsFiniteSet(A) /\ Cardinality(A) \in Nat
      BY <1>11, <3>1
    <3>3. /\ IsFiniteSet(A \cup {new})
          /\ Cardinality(A \cup {new}) = IF new \in A THEN Cardinality(A) ELSE Cardinality(A) + 1
      BY <3>2, FS_AddElement
    <3>4. QED
      BY <3>1, <3>2, <3>3
  <2>3. Cardinality(N) <= Cardinality((N \cap file) \cup {new})
    BY <2>1, <2>2, FS_Subset
  <2>4. Cardinality((N \cap file) \cup {new}) \in Nat
    BY <2>2, FS_CardinalityType
  <2>5. QED
    BY <1>11, <2>2, <2>3, <2>4
<1>14. M \subseteq file /\ \A m \in M : m.imp.ad \notin marked
  BY <1>2, <1>5, <1>8, <1>10 DEF Unmarked
<1>15. PICK f : f = [m \in M |-> m.imp.ad]
  OBVIOUS
<1>16. f \in Injection(M, Waiting)
  <2>1. \A m \in M : m.imp.ad \in Waiting
    <3>1. \A m \in file : m.imp.ad \in Ads
      BY DEF Line, Impression
    <3>2. QED
      BY <1>14, <3>1, ListedIs DEF Waiting
  <2>2. \A a, b \in M : f[a] = f[b] => a = b
    BY <1>14, <1>15 DEF FileInv
  <2>3. f \in [M -> Waiting]
    BY <1>15, <2>1
  <2>4. QED
    BY <1>15, <2>2, <2>3 DEF Injection, IsInjective
<1>17. Cardinality(M) <= Cardinality(Waiting)
  BY <1>16, WaitingFinite, FS_Injection
<1>18. QED
  BY <1>8, <1>11, <1>12, <1>13, <1>17, WaitingFinite, OutboxConstants

\* Steps that leave the queue and its transmission alone.
LEMMA TravelsAlone ==
  ASSUME ClientInv, UNCHANGED outboxVars,
         delivered' \in Nat, delivered <= delivered',
         \A n \in Ads : n > delivered /\ n <= delivered' => n \in replies',
         \A n \in Served' : n \in Served \/ n > delivered,
         Shown' \subseteq Shown \cup Served
  PROVE  Travels
<1>1. UNCHANGED <<file, marked, misreads, posts, verdict>>
  BY DEF outboxVars
<1>2. Waiting' = Waiting /\ Posted' = Posted /\ Decided' = Decided
  <2>1. \A n \in Ads : Listed(n)' <=> Listed(n)
    BY <1>1 DEF Listed, Pending, Unmarked
  <2>2. QED
    BY <1>1, <2>1 DEF Waiting, Posted, Travelling, Decided
<1>3. QED
  BY <1>1, <1>2 DEF Travels, Orderly

\* What is written, and what is not.
LEMMA TravelsWritten ==
  ASSUME ClientInv, delivered' = delivered, delivered \in Nat,
         Served' \subseteq Served, Shown' \subseteq Shown \cup Served,
         Posted' \subseteq Posted, Decided' = Decided,
         \/ UNCHANGED <<file, marked, misreads>>
         \/ \E imp \in Impression : imp.ad \in Shown \ Ahead' /\ Writes(imp)
  PROVE  Travels
<1>1. file \in SUBSET Line /\ FileInv /\ PastInv /\ marked \subseteq Decided
      /\ misreads \in Nat
  BY OutboxConstants DEF ClientInv, OutboxTypeOK, MarkInv
<1>2. Orderly \/ Disorderly
  <2>1. CASE UNCHANGED <<file, marked, misreads>>
    <3>1. \A n \in Ads : Listed(n)' <=> Listed(n)
      BY <2>1 DEF Listed, Pending, Unmarked
    <3>2. Waiting' = Waiting
      BY <3>1 DEF Waiting
    <3>3. QED
      BY <2>1, <3>2 DEF Orderly
  <2>2. ASSUME NEW imp \in Impression, imp.ad \in Shown \ Ahead', Writes(imp)
        PROVE  Orderly \/ Disorderly
    <3>1. imp.ad \notin OnFile
      BY <1>1, <2>2 DEF PastInv, Past, Ahead
    <3>2. \A n \in Ads : Listed(n)' => Listed(n) \/ n = imp.ad \/ (Misleads /\ n \in marked)
      BY <1>1, <2>2, <3>1, FileWritten DEF Misleads
    <3>3. CASE Misleads
      BY <1>1, <2>2, <3>2, <3>3 DEF Waiting, Disorderly
    <3>4. CASE ~Misleads
      <4>1. misreads' = misreads
        BY <2>2, <3>4, MisreadCounted DEF Misleads
      <4>2. Waiting' \subseteq Waiting \cup (Shown \ Ahead')
        BY <2>2, <3>2, <3>4 DEF Waiting
      <4>3. Waiting \ Waiting' # {} => Cardinality(Waiting) >= MaxEntries
        BY <1>1, <2>2, <3>1, <4>1, RoomMade
      <4>4. QED
        BY <2>2, <4>1, <4>2, <4>3 DEF Orderly
    <3>5. QED
      BY <3>3, <3>4
  <2>3. QED
    BY <2>1, <2>2
<1>3. /\ delivered' \in Nat /\ delivered <= delivered'
      /\ \A n \in Ads : ~(n > delivered /\ n <= delivered')
  <2>1. \A n \in Ads : n \in Nat
    BY CacheConstants
  <2>2. QED
    BY <2>1
<1>4. QED
  BY <1>2, <1>3 DEF Travels

LEMMA HandleTravels ==
  ASSUME ClientInv, ClientInv', NEW s \in Sessions, Handle(s)
  PROVE  Travels
<1>1. TypeOK /\ TypeOK' /\ AheadApart /\ delivered \in Nat
  BY CacheConstants DEF ClientInv, TurnsInv, TypeOK, CacheTypeOK
<1>2. PICK out \in Outs : (OnHook(s, out) \/ OnTick(s, out)) /\ Add(out)
  BY DEF Handle
<1>3. Moves(out)
  BY <1>1, <1>2, HookMoves, TickMoves
<1>4. /\ Ahead' \subseteq Ahead /\ delivered' = delivered
      /\ out # <<>> => \E imp \in Impression : out = <<imp>> /\ imp.ad \in Shown \ Ahead'
  BY <1>1, <1>3, MovesApart
<1>5. Posted' = Posted /\ Decided' = Decided
  BY <1>2 DEF Add, netVars, Posted, Travelling, Decided
<1>6. Served' \subseteq Served
  BY <1>3 DEF Moves, Served
<1>7. Shown' \subseteq Shown \cup Served
  BY <1>4 DEF Ahead, Served
<1>8. \/ UNCHANGED <<file, marked, misreads>>
      \/ \E imp \in Impression : imp.ad \in Shown \ Ahead' /\ Writes(imp)
  <2>1. CASE UNCHANGED <<file, marked, misreads>>
    BY <2>1
  <2>2. CASE ~UNCHANGED <<file, marked, misreads>>
    <3>1. out # <<>> /\ Written(out[1])
      BY <1>2, <2>2 DEF Add, diskVars
    <3>2. PICK imp \in Impression : out = <<imp>> /\ imp.ad \in Shown \ Ahead'
      BY <1>4, <3>1
    <3>3. Written(imp)
      BY <3>1, <3>2
    <3>4. QED
      BY <3>2, <3>3, WrittenIs
  <2>3. QED
    BY <2>1, <2>2
<1>9. QED
  BY <1>1, <1>4, <1>5, <1>6, <1>7, <1>8, TravelsWritten

LEMMA FetchTravels ==
  ASSUME ClientInv, Fetch
  PROVE  Travels
<1>1. TypeOK /\ AheadApart /\ delivered \in Nat
  BY CacheConstants DEF ClientInv, TurnsInv, TypeOK, CacheTypeOK
<1>2. Cache /\ UNCHANGED outboxVars /\ Shown' = Shown
  BY DEF Fetch, Cache, turnVars, Shown
<1>3. /\ delivered' \in Nat /\ delivered <= delivered'
      /\ \A n \in Ahead' : n \in Ahead \/ n > delivered
      /\ AheadApart'
  BY <1>1, <1>2, FetchApart
<1>4. \A n \in Served' : n \in Served \/ n > delivered
  BY <1>2, <1>3 DEF AheadApart, Ahead, Served
<1>5. \A n \in Ads : n > delivered /\ n <= delivered' => n \in replies'
  <2>1. delivered' = delivered \/ (delivered' = delivered + 1 /\ delivered + 1 \in replies')
    BY <1>2 DEF Cache, Prefetch, Deliver, FetchFails, Expire, ReplyLost, ReplyArrives
  <2>2. \A n \in Ads : n \in Nat
    BY CacheConstants
  <2>3. QED
    BY <1>1, <2>1, <2>2
<1>6. QED
  BY <1>2, <1>3, <1>4, <1>5, TravelsAlone

LEMMA SyncTravels ==
  ASSUME ClientInv, Sync
  PROVE  Travels
<1>1. OutboxTypeOK /\ MarkInv /\ delivered \in Nat
  BY CacheConstants DEF ClientInv, TurnsInv, TypeOK, CacheTypeOK
<1>2. UNCHANGED <<ads, replies, delivered, show>>
  BY DEF Sync, Flush, FlushMisread, Send, Ingest, PostFails, PostTimesOut, AnswerLost, Answered, turnVars, cacheVars
<1>3. Served' = Served /\ Shown' = Shown
  BY <1>2 DEF Served, Shown
<1>4. /\ Posted' \subseteq Posted \cup Waiting \cup Decided
      /\ Decided \subseteq Decided' /\ Decided' \subseteq Decided \cup Posted
      /\ \/ UNCHANGED <<file, marked>>
         \/ file' = file /\ verdict' = verdict /\ misreads' = misreads
            /\ \E a \in answers : \E part \in SUBSET a : marked' = marked \cup part
      /\ misreads' = misreads \/ (Misleads /\ verdict' = verdict)
  BY <1>1, SyncTyped DEF MarkInv, Misleads
<1>5. /\ delivered' \in Nat /\ delivered <= delivered'
      /\ \A n \in Ads : ~(n > delivered /\ n <= delivered')
  <2>1. \A n \in Ads : n \in Nat
    BY CacheConstants
  <2>2. QED
    BY <1>1, <1>2, <2>1
<1>6. CASE UNCHANGED <<file, marked>>
  <2>1. \A n \in Ads : Listed(n)' <=> Listed(n)
    BY <1>6 DEF Listed, Pending, Unmarked
  <2>2. Waiting' = Waiting
    BY <2>1 DEF Waiting
  <2>3. Orderly \/ Disorderly
    BY <1>4, <2>2 DEF Orderly, Disorderly, Decided
  <2>4. QED
    BY <1>3, <1>4, <1>5, <2>3 DEF Travels
<1>7. CASE ~UNCHANGED <<file, marked>>
  <2>1. PICK a \in UNION {SUBSET b : b \in answers} :
          marked' = marked \cup a /\ file' = file /\ verdict' = verdict /\ misreads' = misreads
    BY <1>4, <1>7
  <2>2. a \subseteq Decided /\ Decided' = Decided
    BY <1>1, <2>1 DEF MarkInv, Decided
  <2>3. \A n \in Ads : /\ Listed(n)' => Listed(n)
                       /\ Listed(n) /\ ~Listed(n)' => n \in a
    BY <2>1 DEF Listed, AdsOf, Contents, Pending, Unmarked
  <2>4. Waiting' \subseteq Waiting /\ Waiting \ Waiting' \subseteq Decided
    BY <2>2, <2>3 DEF Waiting
  <2>5. Orderly
    BY <2>1, <2>2, <2>4 DEF Orderly
  <2>6. QED
    BY <1>3, <1>4, <1>5, <2>5 DEF Travels
<1>8. QED
  BY <1>6, <1>7

LEMMA CrashTravels ==
  ASSUME ClientInv, Crash
  PROVE  Travels
<1>1. /\ OutboxTypeOK /\ TurnsTypeOK /\ delivered \in Nat
  BY CacheConstants DEF ClientInv, TurnsInv, TypeOK, CacheTypeOK
<1>2. /\ Restart
      /\ OutboxLost \/ (show # NoShow /\ TornAppend)
         \/ (show # NoShow /\ TornCompaction(Closing(show)[1]))
  BY DEF Crash
<1>3. Ahead' = {} /\ delivered' = delivered
  BY <1>2, RestartApart
<1>4. Served' \subseteq Served /\ Shown' \subseteq Shown \cup Served
  BY <1>3 DEF Ahead, Served
<1>5. posts' = NobodyWaits /\ verdict' = verdict
  BY <1>2 DEF OutboxLost, TornAppend, TornCompaction
<1>6. Posted' \subseteq Posted /\ Decided' = Decided
  <2>1. \A q \in posts' : \E p \in posts : q.batch = p.batch
    BY <1>1, <1>5, NobodyWaitsTyped DEF OutboxTypeOK
  <2>2. QED
    BY <1>5, <2>1 DEF Posted, Travelling, Decided
<1>7. \/ UNCHANGED <<file, marked, misreads>>
      \/ \E imp \in Impression : imp.ad \in Shown \ Ahead' /\ Writes(imp)
  <2>1. CASE OutboxLost \/ TornAppend
    BY <2>1 DEF OutboxLost, TornAppend
  <2>2. CASE ~(OutboxLost \/ TornAppend)
    <3>1. show # NoShow /\ show \in Show /\ TornCompaction(Closing(show)[1])
      BY <1>1, <1>2, <2>2 DEF TurnsTypeOK
    <3>2. PICK imp \in Impression : Closing(show) = <<imp>> /\ imp.ad = show.ad
      BY <3>1, ClosingTyped
    <3>3. imp.ad \in Shown \ Ahead'
      BY <1>3, <3>1, <3>2 DEF Shown, Impression
    <3>4. TornCompaction(imp)
      BY <3>1, <3>2
    <3>5. Writes(imp)
      BY <3>4 DEF TornCompaction, Writes
    <3>6. QED
      BY <3>3, <3>5
  <2>3. QED
    BY <2>1, <2>2
<1>8. QED
  BY <1>1, <1>3, <1>4, <1>6, <1>7, TravelsWritten

LEMMA ClientTravels == ClientInv /\ ClientInv' /\ [Next]_vars => Travels
<1>1. SUFFICES ASSUME ClientInv, ClientInv', [Next]_vars PROVE Travels
  OBVIOUS
<1>2. TypeOK /\ AheadApart /\ delivered \in Nat
  BY <1>1, CacheConstants DEF ClientInv, TurnsInv, TypeOK, CacheTypeOK
<1>3. CASE Time \/ UNCHANGED vars
  <2>1. UNCHANGED outboxVars /\ UNCHANGED <<ads, replies, delivered>> /\ Shown' = Shown
    <3>1. CASE Time
      <4>1. (Toggle \/ Pass) /\ UNCHANGED outboxVars
        BY <3>1 DEF Time
      <4>2. QED
        BY <1>2, <4>1, TimeApart DEF Toggle, Pass, cacheVars
    <3>2. CASE UNCHANGED vars
      BY <3>2 DEF vars, cacheVars, turnVars, Shown
    <3>3. QED
      BY <1>3, <3>1, <3>2
  <2>2. Served' = Served
    BY <2>1 DEF Served
  <2>3. delivered' \in Nat /\ delivered <= delivered'
        /\ \A n \in Ads : ~(n > delivered /\ n <= delivered')
    <3>1. \A n \in Ads : n \in Nat
      BY CacheConstants
    <3>2. QED
      BY <1>2, <2>1, <3>1
  <2>4. QED
    BY <1>1, <2>1, <2>2, <2>3, TravelsAlone
<1>4. QED
  BY <1>1, <1>3, HandleTravels, FetchTravels, SyncTravels, CrashTravels DEF Next

LEMMA PromiseCardinality == \A S : Promise!Cardinality(S) = Cardinality(S)
BY DEF Promise!Cardinality, Cardinality

LEMMA StageTyped ==
  ASSUME ClientInv, NEW n \in Ads
  PROVE  /\ Stage(n) \in Promise!Stages
         /\ Stage(n) \in {"queued", "judged"} <=> n \in Waiting
         /\ n \in Shown => Stage(n) = "showing"
         /\ n \notin Shown => Stage(n) # "showing"
<1>1. StageIs
  BY StageKnown
<1>2. AheadApart /\ PastInv /\ delivered \in Nat /\ n \in Nat
  BY CacheConstants DEF ClientInv, TurnsInv, TypeOK, CacheTypeOK
<1>3. /\ n \in Shown => n \notin Decided \cup Waiting \cup Posted
      /\ n > delivered <=> ~(n <= delivered)
      /\ n \in Ahead <=> n \in Served \/ n \in Shown
  BY <1>2, WaitingOnFile DEF PastInv, Past, Ahead, Served
<1>4. CASE n \in Decided \cup Waiting
  <2>1. Stage(n) \in {"judged", "decided", "queued"}
        /\ (Stage(n) \in {"queued", "judged"} <=> n \in Waiting)
    BY <1>1, <1>4 DEF StageIs
  <2>2. QED
    BY <1>3, <1>4, <2>1 DEF Promise!Stages
<1>5. CASE n \notin Decided \cup Waiting
  <2>1. CASE n \in Shown
    BY <1>1, <1>3, <1>5, <2>1 DEF StageIs, Promise!Stages
  <2>2. CASE n \notin Shown
    <3>1. Stage(n) \in {"dropped", "new", "served", "wasted"}
      BY <1>1, <1>3, <1>5, <2>2 DEF StageIs
    <3>2. QED
      BY <1>5, <2>2, <3>1 DEF Promise!Stages
  <2>3. QED
    BY <2>1, <2>2
<1>6. QED
  BY <1>4, <1>5

\* The same of a state that is reached.
StagesTyped ==
  \A n \in Ads : /\ Stage(n) \in Promise!Stages
                 /\ Stage(n) \in {"queued", "judged"} <=> n \in Waiting
                 /\ n \in Shown => Stage(n) = "showing"
                 /\ n \notin Shown => Stage(n) # "showing"

LEMMA StagesNow == ClientInv => StagesTyped
BY StageTyped DEF StagesTyped

LEMMA StagesNext == ClientInv' => StagesTyped'
BY StagesNow, PTL

LEMMA JourneyStep ==
  ASSUME ClientInv, ClientInv', Travels
  PROVE  Promise!Next
<1>1. StagesTyped /\ StagesTyped'
  BY StagesNow, StagesNext
<1>2. PICK st : st = [n \in Ads |-> Stage(n)]
  OBVIOUS
<1>3. PICK nx : nx = [n \in Ads |-> Stage(n)']
  OBVIOUS
<1>4. nx = [n \in Ads |-> Stage(n)]'
  BY <1>3
<1>5. \A n \in Ads : st[n] = Stage(n) /\ nx[n] = Stage(n)'
  BY <1>2, <1>3
<1>6. nx \in [Ads -> Promise!Stages]
  BY <1>1, <1>3 DEF StagesTyped
<1>7. \A n \in Ads : \/ nx[n] = st[n] \/ nx[n] \in Promise!Follows[st[n]]
                     \/ Disorderly /\ st[n] = "decided" /\ nx[n] = "judged"
  BY <1>5, StageFollows
<1>8. Promise!At({"queued", "judged"}) = Waiting
  <2>1. Promise!At({"queued", "judged"}) = {n \in Ads : Stage(n) \in {"queued", "judged"}}
    BY DEF Promise!At
  <2>2. QED
    BY <1>1, <2>1 DEF StagesTyped, Waiting
<1>9. Promise!Left({"queued", "judged"}) = Waiting \ Waiting'
  <2>1. \A n \in Ads : Stage(n)' \in {"queued", "judged"} <=> n \in Waiting'
    BY <1>1 DEF StagesTyped
  <2>2. Promise!Left({"queued", "judged"})
          = {n \in Waiting : Stage(n)' \notin {"queued", "judged"}}
    BY <1>8 DEF Promise!Left, Waiting
  <2>3. QED
    BY <2>1, <2>2 DEF Waiting
<1>10. Shown \ Ahead' # {} => Promise!Left({"showing"}) # {}
  <2>1. SUFFICES ASSUME NEW n \in Ads, n \in Shown, n \notin Ahead'
                 PROVE  Promise!Left({"showing"}) # {}
    BY DEF Shown
  <2>2. n \notin Shown'
    BY <2>1 DEF Ahead
  <2>3. Stage(n) = "showing" /\ Stage(n)' # "showing"
    BY <1>1, <2>1, <2>2 DEF StagesTyped
  <2>4. n \in Promise!At({"showing"})
    BY <2>3 DEF Promise!At
  <2>5. n \in Promise!Left({"showing"})
    BY <2>3, <2>4 DEF Promise!Left
  <2>6. QED
    BY <2>5
<1>11. Orderly => \/ \A n \in Waiting \ Waiting' : Stage(n)' = "decided"
                  \/ Promise!MakesRoom
  <2>1. CASE Waiting \ Waiting' \subseteq Decided
    <3>1. ASSUME NEW n \in Waiting \ Waiting' PROVE Stage(n)' = "decided"
      <4>1. n \in Ads /\ n \in Decided' /\ n \notin Waiting'
        BY <2>1 DEF Travels, Waiting
      <4>2. StageIs'
        BY StageKnownNext
      <4>3. QED
        BY <4>1, <4>2 DEF StageIs
    <3>2. QED
      BY <3>1
  <2>2. CASE Cardinality(Waiting) >= MaxEntries /\ Shown \ Ahead' # {}
    BY <1>8, <1>10, <2>2, PromiseCardinality DEF Promise!MakesRoom
  <2>3. QED
    BY <2>1, <2>2 DEF Orderly
<1>12. QED
  <2>1. [n \in Ads |-> Stage(n)]' \in [Ads -> Promise!Stages]
    BY <1>4, <1>6
  <2>2. CASE Orderly
    <3>1. ~Disorderly
      BY <2>2, OutboxConstants DEF ClientInv, OutboxTypeOK, Orderly, Disorderly, Misleads
    <3>2. ASSUME NEW n \in Ads PROVE Promise!Goes(n)
      BY <1>2, <1>4, <1>7, <3>1 DEF Promise!Goes
    <3>3. Promise!Left({"queued", "judged"}) # {} =>
            \/ \A n \in Promise!Left({"queued", "judged"}) :
                 [m \in Ads |-> Stage(m)]'[n] = "decided"
            \/ Promise!MakesRoom
      <4>1. \A n \in Waiting \ Waiting' : [m \in Ads |-> Stage(m)]'[n] = Stage(n)'
        BY <1>4, <1>5 DEF Waiting
      <4>2. QED
        BY <1>9, <1>11, <2>2, <4>1
    <3>4. Promise!Step
      BY <2>1, <2>2, <3>2, <3>3 DEF Promise!Step, Orderly
    <3>5. QED
      BY <3>4 DEF Promise!Next
  <2>3. CASE Disorderly
    <3>1. ASSUME NEW n \in Ads
          PROVE  \/ Promise!Goes(n)
                 \/ /\ [m \in Ads |-> Stage(m)][n] = "decided"
                    /\ [m \in Ads |-> Stage(m)]'[n] = "judged"
      BY <1>2, <1>4, <1>7 DEF Promise!Goes
    <3>2. Promise!Fault
      BY <2>1, <2>3, <3>1 DEF Promise!Fault, Disorderly, Misleads
    <3>3. QED
      BY <3>2 DEF Promise!Next
  <2>4. QED
    BY <2>2, <2>3 DEF Travels

\* The client keeps the promise of Journey: what has been written waits for a
\* verdict, through crashes, half lines, rewriting and repeated transmission,
\* and is given up only to make room for another, or by a read of the file or
\* of the marks that failed, which is the fault of Journey (queue.ts, sync.ts).
THEOREM ClientKeepsPromise == Spec => ImplementsJourney
<1>1. Init => Promise!Init
  <2>1. SUFFICES ASSUME Init PROVE Promise!Init
    OBVIOUS
  <2>2. StageIs
    BY <2>1, ClientStart, StageKnown
  <2>3. /\ Decided = {} /\ Posted = {} /\ delivered = 0
        /\ \A n \in Ads : ~Listed(n)
    BY <2>1 DEF Init, OutboxInit, CacheInit, Decided, Posted, Travelling, Listed, AdsOf,
                Contents, Pending, Unmarked
  <2>4. \A n \in Ads : n > delivered
    BY <2>3, CacheConstants
  <2>5. \A n \in Ads : Stage(n) = "new"
    BY <2>2, <2>3, <2>4 DEF StageIs, Waiting
  <2>6. misreads = 0
    BY <2>1 DEF Init, OutboxInit
  <2>7. QED
    BY <2>5, <2>6 DEF Promise!Init
<1>2. ClientInv /\ ClientInv' /\ [Next]_vars
        => [Promise!Next]_<<[n \in Ads |-> Stage(n)], misreads>>
  BY ClientTravels, JourneyStep
<1>3. QED
  BY <1>1, <1>2, ClientInvariant, PTL DEF Spec, ImplementsJourney, Promise!Spec
=============================================================================
