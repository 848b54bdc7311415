-------------------------------- MODULE Client --------------------------------
(***************************************************************************)
(* The daemon of one machine: the turn machine, the cache of ads and the   *)
(* queue of impressions, driven by hooks, ticks, timers and the network,   *)
(* and ended at any moment.                                                *)
(*                                                                         *)
(* The handlers run one at a time; each writes what it completed before    *)
(* the next one runs.  A process that ends is started again: what happens  *)
(* in between reaches nobody.                                              *)
(***************************************************************************)
EXTENDS Outbox, Functions

CONSTANT MaxCrashes \* bound: how often the process ends

ASSUME CrashAssumption == MaxCrashes \in Nat

VARIABLE crashes

vars == <<cacheVars, turnVars, outboxVars, crashes>>

ClientTypeOK == TypeOK /\ OutboxTypeOK /\ crashes \in 0 .. MaxCrashes

Init == CacheInit /\ TurnsInit /\ OutboxInit /\ crashes = 0

-----------------------------------------------------------------------------
\* What handle() does with a request: the turn machine, then drain.
Handle(s) ==
  \E out \in Outs :
    /\ OnHook(s, out) \/ (s \in Ticking /\ OnTick(s, out))
    /\ Add(out)
    /\ UNCHANGED crashes

Fetch == Cache /\ UNCHANGED <<outboxVars, crashes>>

Sync ==
  /\ \/ Flush \/ FlushMisread
     \/ \E p \in posts : Ingest(p) \/ PostFails(p) \/ PostTimesOut(p)
     \/ \E a \in answers : AnswerLost(a) \/ Answered(a)
  /\ UNCHANGED crashes

Time == (Toggle \/ Pass) /\ UNCHANGED <<outboxVars, crashes>>

\* The process ends, killed, crashed or after stop(), and is started again.
\* stop() itself is a SessionEnd of the holder and a flush before it.
Crash ==
  /\ crashes < MaxCrashes
  /\ crashes' = crashes + 1
  /\ Restart
  /\ \/ OutboxLost
     \/ show # NoShow /\ TornAppend
     \/ show # NoShow /\ TornCompaction(Closing(show)[1])

Next ==
  \/ \E s \in Sessions : Handle(s)
  \/ Fetch \/ Sync \/ Time \/ Crash

Spec == Init /\ [][Next]_vars

-----------------------------------------------------------------------------
(* Fairness: the timer of the flush goes on, a request ends one way or     *)
(* another, and the server answers and the answer is marked if it is asked *)
(* again and again.                                                        *)

FlushFair   ==
  /\ WF_vars(Flush /\ UNCHANGED crashes)
  /\ WF_vars(\E p \in posts : (Ingest(p) \/ PostFails(p)) /\ UNCHANGED crashes)
AnswersFair ==
  /\ SF_vars(\E p \in posts : p.awaited /\ Ingest(p) /\ UNCHANGED crashes)
  /\ SF_vars(\E a \in answers : Answered(a) /\ UNCHANGED crashes)

FairSpec == Spec /\ FlushFair /\ AnswersFair

-----------------------------------------------------------------------------
(* Properties *)

Occurrences(n) ==
  Cardinality({i \in DOMAIN ads : ads[i] = n})
    + (IF show # NoShow /\ show.ad = n THEN 1 ELSE 0)
    + Cardinality({l \in file : l.imp.ad = n})
    + (IF n \in replies THEN 1 ELSE 0)

\* A delivery carries one nonce, good for one impression: it is in one place,
\* the answer of the server, the cache, the show or the queue, and never shown
\* a second time (turns.ts and sync.ts share the cache with the spinner).
OneShowPerDelivery == \A n \in Ads : Occurrences(n) <= 1

Listed(n)     == n \in AdsOf(Contents(Pending))
Travelling(n) == \E p \in posts : n \in AdsOf(p.batch)

Stage(n) ==
  CASE verdict[n] # "none" /\ Listed(n) -> "judged"
    [] verdict[n] # "none" /\ ~Listed(n) -> "decided"
    [] verdict[n] = "none" /\ n > delivered -> "new"
    [] verdict[n] = "none" /\ Listed(n) -> "queued"
    [] verdict[n] = "none" /\ ~Listed(n) /\ Travelling(n) -> "dropped"
    [] show # NoShow /\ show.ad = n -> "showing"
    [] n \in replies \cup Range(ads) -> "served"
    [] OTHER -> "wasted"

\* The client keeps the promise of Journey through crashes, half lines,
\* rewriting of the file and repeated transmission; a fault of Journey is
\* a read of the file or of the marks that failed, and nothing else is one.
Promise == INSTANCE Journey WITH
  Capacity <- MaxEntries, stage <- [n \in Ads |-> Stage(n)], faults <- misreads

ImplementsJourney == Promise!Spec

\* An impression that has been written leaves the queue ("when the server comes
\* back the queue drains", sync.ts:11).
QueueDrains == \A n \in Ads : Listed(n) ~> ~Listed(n)

\* A request of the oldest lines would be refused as a whole.
Blocked == ~WellFormed(Contents(Oldest(Pending)))

\* It does as long as the oldest lines are not refused (ServerSync.#flush).
DrainsUnlessRefused == \A n \in Ads : Listed(n) ~> (~Listed(n) \/ Blocked)
=============================================================================
