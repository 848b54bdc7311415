-------------------------------- MODULE Turns --------------------------------
(***************************************************************************)
(* The turn machine of the daemon (TurnMachine): which session's ad is     *)
(* being measured, and for how long it has been on the screen.             *)
(*                                                                         *)
(* Hooks of the coding assistant open and close turns; the status line     *)
(* ticks.  Both come from short-lived processes: any of them may be late,  *)
(* in another order or missing.  Times are kept as ages, which stop where  *)
(* no comparison of the code can tell them apart any more.                 *)
(*                                                                         *)
(* `out' is what a handler adds to #completed, which is drained at once:   *)
(* nothing or the one impression that ended.                               *)
(***************************************************************************)
EXTENDS AdCache

CONSTANTS
  Sessions,      \* sessions of the coding assistant
  Headless,      \* those without a status line: they send hooks and never tick
  NoSession,     \* nobody holds the mutex
  MinImpression, \* shorter impressions do not count
  MaxDuration,   \* longer ones are not accepted by the schema of the server
  RotateMs,      \* the ad changes after this time
  IdleGrace,     \* how long a finished turn goes on showing
  StaleMutex,    \* a holder that has not ticked for longer is dead
  MaxQuiet,      \* a turn without a hook for this long is over
  MaxAge         \* bound: the age of a show stops here

ASSUME TurnsAssumption ==
  /\ NoSession \notin Sessions /\ Headless \subseteq Sessions
  /\ {MinImpression, MaxDuration, RotateMs, IdleGrace, StaleMutex, MaxQuiet, MaxAge} \subseteq Nat

VARIABLES
  session,   \* the turn of each session
  active,    \* the session whose show counts (the mutex)
  show,      \* the show that is being measured
  visible    \* not paused, logged in, and enabled by the remote configuration

turnVars == <<session, active, show, visible>>

NoShow == [none |-> "show"]

\* A session that is not known is like one that is idle.
Idle == [phase |-> "idle", grace |-> 0, tick |-> 0, quiet |-> 0]

Turn == [phase : {"idle", "showing", "cooldown"},
         grace : 0 .. IdleGrace,       \* what is left of the cooldown
         tick  : 0 .. StaleMutex + 1,  \* age of the last tick
         quiet : 0 .. MaxQuiet]        \* age of the last hook

Show == [ad : Ads, session : Sessions, age : 0 .. MaxAge, seen : 0 .. MaxAge]

Impression == [ad : Ads, length : {"short", "full", "overlong"}]

Outs == {<<>>} \cup {<<imp>> : imp \in Impression}

TurnsTypeOK ==
  /\ session \in [Sessions -> Turn]
  /\ active \in Sessions \cup {NoSession}
  /\ show \in Show \cup {NoShow}
  /\ visible \in BOOLEAN

TurnsInit ==
  /\ session = [s \in Sessions |-> Idle]
  /\ active = NoSession
  /\ show = NoShow
  /\ visible = TRUE

-----------------------------------------------------------------------------
InTurn(s) == session[s].phase # "idle"

Length(d) == CASE d > MaxDuration   -> "overlong"
               [] d < MinImpression -> "short"
               [] OTHER             -> "full"

\* #closeShow: the show `sh', last seen at the age d.
Closed(sh, d) == IF sh = NoShow THEN <<>> ELSE <<[ad |-> sh.ad, length |-> Length(d)]>>

Closing(sh) == IF sh = NoShow THEN <<>> ELSE Closed(sh, sh.seen)

\* As it would be if an empty cache were not looked out for.
StartShowAlways(s) ==
  /\ NextAd
  /\ show' = [ad |-> TakenAd, session |-> s, age |-> 0, seen |-> 0]

\* #startShow for session s.
StartShow(s) ==
  /\ NextAd
  /\ show' = IF TakenAd = NoAd THEN NoShow
             ELSE [ad |-> TakenAd, session |-> s, age |-> 0, seen |-> 0]

\* #nextMutexHolder: a session in a turn; the order of the map is left open.
Heirs(turns) ==
  LET open == {s \in Sessions : turns[s].phase # "idle"}
  IN  IF open = {} THEN {NoSession} ELSE open

-----------------------------------------------------------------------------
(* Hooks *)

\* As it would be if the hook moved the end of the show.
StartMeasures(s, out) ==
  /\ out = <<>>
  /\ session' = [session EXCEPT ![s] = [Idle EXCEPT !.phase = "showing"]]
  /\ IF active \in {NoSession, s}
     THEN /\ active' = s
          /\ IF show = NoShow THEN StartShow(s)
             ELSE show' = [show EXCEPT !.seen = show.age] /\ UNCHANGED <<ads, fetches>>
     ELSE UNCHANGED <<active, show, ads, fetches>>
  /\ UNCHANGED <<visible, replies, delivered, expired>>

\* UserPromptSubmit.
OnTurnStart(s, out) ==
  /\ out = <<>>
  /\ session' = [session EXCEPT ![s] = [Idle EXCEPT !.phase = "showing"]]
  /\ IF active \in {NoSession, s}
     THEN /\ active' = s
          /\ IF show = NoShow THEN StartShow(s) ELSE UNCHANGED <<show, ads, fetches>>
     ELSE UNCHANGED <<active, show, ads, fetches>>
  /\ UNCHANGED <<visible, replies, delivered, expired>>

\* PreToolUse and PostToolUse: a sign of life of an open turn.
OnActivity(s, out) ==
  /\ out = <<>>
  /\ session[s].phase = "showing"
  /\ session' = [session EXCEPT ![s].quiet = 0]
  /\ UNCHANGED <<active, show, visible, cacheVars>>

\* Stop.  Whatever the turn, the spinner then looks at the next ad.
OnTurnEnd(s, out) ==
  /\ out = <<>>
  /\ session' = IF session[s].phase = "showing"
                THEN [session EXCEPT ![s].phase = "cooldown", ![s].grace = IdleGrace,
                                     ![s].quiet = 0]
                ELSE session
  /\ PeekAd
  /\ UNCHANGED <<active, show, visible, replies, delivered, expired>>

\* As it would be if the mutex stayed with the session that ended.
EndKeepsMutex(s, out) ==
  /\ session' = [session EXCEPT ![s] = Idle]
  /\ IF active = s
     THEN out = Closing(show) /\ show' = NoShow
     ELSE out = <<>> /\ UNCHANGED show
  /\ UNCHANGED <<active, visible, cacheVars>>

\* SessionEnd.
OnSessionEnd(s, out) ==
  /\ session' = [session EXCEPT ![s] = Idle]
  /\ IF active = s
     THEN out = Closing(show) /\ show' = NoShow /\ active' \in Heirs(session')
     ELSE out = <<>> /\ UNCHANGED <<active, show>>
  /\ UNCHANGED <<visible, cacheVars>>

-----------------------------------------------------------------------------
(* The tick of the status line: onTick, from #expireCooldowns on *)

Over(s) == \/ session[s].phase = "cooldown" /\ session[s].grace = 0
           \/ session[s].phase = "showing" /\ session[s].quiet >= MaxQuiet

\* #expireCooldowns: the turns that are left ...
Lasting == [s \in Sessions |-> IF Over(s) THEN Idle ELSE session[s]]

Expires == active # NoSession /\ Over(active)

\* ... the session that then holds the mutex, and the show.
Holders == IF Expires THEN Heirs(Lasting) ELSE {active}
Kept    == IF Expires THEN NoShow ELSE show
Ended   == IF Expires THEN Closing(show) ELSE <<>>

\* Nothing is shown at all: paused, logged out or switched off.
TickHidden(s, out) ==
  /\ ~visible
  /\ out = Closing(show)
  /\ show' = NoShow
  /\ session' = Lasting
  /\ active' \in Holders
  /\ UNCHANGED <<visible, cacheVars>>

\* No turn in this session.
TickIdle(s, out) ==
  /\ visible /\ Lasting[s].phase = "idle"
  /\ out = Ended
  /\ show' = Kept
  /\ session' = Lasting
  /\ active' \in Holders
  /\ UNCHANGED <<visible, cacheVars>>

\* The holder of the mutex has not ticked for too long.
NeverDead(h) == FALSE
Dead(h) == Lasting[h].tick > StaleMutex

\* Another session, h, counts: its ad is repeated here, or the next one is
\* taken from the cache and shown without being counted.
TickSilent(s, h, out) ==
  /\ visible /\ Lasting[s].phase # "idle"
  /\ h # s /\ (h # NoSession => ~Dead(h))
  /\ out = Ended
  /\ session' = [Lasting EXCEPT ![s].tick = 0]
  /\ active' = h
  /\ show' = Kept
  /\ IF Kept = NoShow THEN NextAd ELSE UNCHANGED <<ads, fetches>>
  /\ UNCHANGED <<visible, replies, delivered, expired>>

\* This session counts.  A show that is long enough gives way to the next.
Measure(s) ==
  IF Kept = NoShow THEN StartShow(s)
  ELSE IF Kept.age >= RotateMs THEN StartShow(s)
  ELSE /\ show' = [Kept EXCEPT !.seen = Kept.age]
       /\ UNCHANGED <<ads, fetches>>

Rotated == IF Kept # NoShow /\ Kept.age >= RotateMs THEN Closed(Kept, Kept.age) ELSE <<>>

TickCounting(s, out) ==
  /\ visible /\ Lasting[s].phase # "idle"
  /\ s \in Holders
  /\ out = IF Expires THEN Ended ELSE Rotated
  /\ session' = [Lasting EXCEPT ![s].tick = 0]
  /\ active' = s
  /\ Measure(s)
  /\ UNCHANGED <<visible, replies, delivered, expired>>

\* This session takes the mutex from a dead holder h, which is forgotten.
TickTakesOver(s, h, out) ==
  /\ visible /\ Lasting[s].phase # "idle"
  /\ h \notin {s, NoSession} /\ Dead(h)
  /\ out = IF Expires THEN Ended ELSE Closing(Kept)
  /\ session' = [Lasting EXCEPT ![s].tick = 0, ![h] = Idle]
  /\ active' = s
  /\ StartShow(s)
  /\ UNCHANGED <<visible, replies, delivered, expired>>

OnTick(s, out) ==
  \/ TickHidden(s, out)
  \/ TickIdle(s, out)
  \/ TickCounting(s, out)
  \/ \E h \in Holders : TickSilent(s, h, out) \/ TickTakesOver(s, h, out)

-----------------------------------------------------------------------------
\* `dwell pause', a login, or a new remote configuration.
Toggle ==
  /\ visible' = ~visible
  /\ UNCHANGED <<session, active, show, cacheVars>>

UpTo(x, bound) == IF x < bound THEN x + 1 ELSE bound

Pass ==
  /\ session' = [s \in Sessions |->
       CASE session[s].phase = "showing" ->
              [session[s] EXCEPT !.tick = UpTo(@, StaleMutex + 1), !.quiet = UpTo(@, MaxQuiet)]
         [] session[s].phase = "cooldown" ->
              [session[s] EXCEPT !.tick = UpTo(@, StaleMutex + 1),
                                 !.grace = IF @ = 0 THEN 0 ELSE @ - 1]
         [] OTHER -> session[s]]
  /\ show' = IF show = NoShow THEN NoShow ELSE [show EXCEPT !.age = UpTo(@, MaxAge)]
  /\ UNCHANGED <<active, visible, cacheVars>>

\* The daemon ends: the turns are forgotten until the next hook.
TurnsLost ==
  /\ session' = [s \in Sessions |-> Idle]
  /\ active' = NoSession
  /\ show' = NoShow

-----------------------------------------------------------------------------
(* The machine with its cache alone, whatever becomes of `out' *)

OnHook(s, out) ==
  OnTurnStart(s, out) \/ OnActivity(s, out) \/ OnTurnEnd(s, out) \/ OnSessionEnd(s, out)

Cache ==
  /\ Prefetch \/ Deliver \/ FetchFails \/ Expire \/ \E n \in Ads : ReplyLost(n) \/ ReplyArrives(n)
  /\ UNCHANGED turnVars

Restart == TurnsLost /\ CacheLost /\ UNCHANGED visible

Ticking == Sessions \ Headless

Hook(s) == \E out \in Outs : OnHook(s, out)
Tick(s) == \E out \in Outs : OnTick(s, out)

TurnsNext ==
  \/ \E s \in Sessions : Hook(s)
  \/ \E s \in Ticking : Tick(s)
  \/ Toggle \/ Pass \/ Cache \/ Restart

machineVars == <<cacheVars, turnVars>>

MachineInit == CacheInit /\ TurnsInit

TurnsSpec == MachineInit /\ [][TurnsNext]_machineVars

\* Time goes on, and so does a session that has a status line.
TicksFair     == \A s \in Ticking : WF_machineVars(Tick(s))
FairTurnsSpec == TurnsSpec /\ WF_machineVars(Pass) /\ TicksFair

-----------------------------------------------------------------------------
(* Properties *)

TypeOK == CacheTypeOK /\ TurnsTypeOK

\* The mutex (turns.ts: #activeSession) is held exactly while a session is in
\* a turn, by one that is, and the show being measured is its own: whatever
\* the order in which sessions start, cool down, end, die or are abandoned.
MutexHeld ==
  /\ active = NoSession <=> \A s \in Sessions : ~InTurn(s)
  /\ active # NoSession => InTurn(active)
  /\ show # NoShow => show.session = active

\* Only the status line proves that an ad is on the screen (turns.ts:285-295):
\* hooks alone, of whatever kind and number, never lengthen a show.
OnlyTicksMeasure ==
  show # NoShow /\ show.session \in Headless => show.seen = 0

HeadlessStarts == \E s \in Headless : \E out \in Outs : OnTurnStart(s, out)

\* A holder that never ticks does not keep the mutex for good while a session
\* with a status line is in a turn (turns.ts, STALE_MUTEX_MS), unless it goes
\* on starting turns.
MutexFreed ==
  \/ []<><<HeadlessStarts>>_machineVars
  \/ []<>~(visible /\ active \in Headless /\ \E s \in Ticking : InTurn(s))
=============================================================================
