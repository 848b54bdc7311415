-------------------------------- MODULE Outbox --------------------------------
(***************************************************************************)
(* The impressions of the daemon on their way to the server: the queue on  *)
(* disk (ImpressionQueue) and its transmission (ServerSync, #flush).       *)
(*                                                                         *)
(* Lines are appended to one file and the identities of decided ones to a  *)
(* second; from time to time the first is rewritten without them and the   *)
(* second deleted.  A power cut or a full disk leaves half a line, to      *)
(* which the next line is glued; a file that cannot be read passes for an  *)
(* empty one.  An impression is known here by its ad, of which it is the   *)
(* only one (Client!OneShowPerDelivery).                                   *)
(***************************************************************************)
EXTENDS Turns, FiniteSetsExt

CONSTANTS
  CompactAfter, \* appends of one process before the file is rewritten
  MaxEntries,   \* rewriting keeps this many, the newest
  BatchMax,     \* events in one request
  MaxPosts,     \* bound: requests and answers under way
  MaxMisreads   \* bound: how often a failed read misleads the client

ASSUME OutboxAssumption ==
  /\ {CompactAfter, MaxEntries, BatchMax, MaxPosts} \subseteq Nat \ {0}
  /\ MaxMisreads \in Nat

VARIABLES
  file,    \* the lines that can be read
  torn,    \* the file ends with half a line
  marked,  \* the ads in the file of decided impressions
  appends, \* appends since the process last rewrote the file
  misreads, \* how often a failed read misled the client
  posts,   \* requests under way; awaited: the client has not given up on it
  answers, \* answers under way
  verdict  \* what the server has decided

outboxVars == <<file, torn, marked, appends, misreads, posts, answers, verdict>>
diskVars   == <<file, torn, marked, appends, misreads>>
netVars    == <<posts, answers, verdict>>

\* A line and when it was written: later ones have a larger number.
Line == [at : Nat, imp : Impression]

OutboxTypeOK ==
  /\ file \in SUBSET Line
  /\ torn \in BOOLEAN
  /\ marked \subseteq Ads
  /\ appends \in 0 .. CompactAfter - 1
  /\ misreads \in 0 .. MaxMisreads
  /\ posts \subseteq [batch : SUBSET Impression, awaited : BOOLEAN]
  /\ answers \subseteq SUBSET Ads
  /\ verdict \in [Ads -> {"none", "accepted", "rejected"}]

OutboxInit ==
  /\ file = {} /\ torn = FALSE /\ marked = {} /\ appends = 0 /\ misreads = 0
  /\ posts = {} /\ answers = {}
  /\ verdict = [n \in Ads |-> "none"]

-----------------------------------------------------------------------------
(* The file *)

Unmarked(lines, seen) == {l \in lines : l.imp.ad \notin seen}

Pending == Unmarked(file, marked)

AdsOf(imps) == {imp.ad : imp \in imps}

Contents(lines) == {l.imp : l \in lines}

Newest(lines) == {l \in lines : Cardinality({m \in lines : m.at > l.at}) < MaxEntries}
Oldest(lines) == {l \in lines : Cardinality({m \in lines : m.at < l.at}) < BatchMax}

NextNumber == Max({0} \cup {l.at : l \in file}) + 1

\* A line is added; glued to half a line it is as lost as that one.
WithLine(imp) == IF torn THEN file ELSE file \cup {[at |-> NextNumber, imp |-> imp]}

\* As it would be if the count of appends never started again.
WrittenWithoutReset(imp) ==
  /\ torn' = FALSE
  /\ appends' = appends + 1
  /\ file' = WithLine(imp) /\ UNCHANGED <<marked, misreads>>

Misled == misreads < MaxMisreads /\ misreads' = misreads + 1

\* compact: the file is replaced by the newest of what waits in it.  Both
\* files are read for it, and one that cannot be read counts as empty.
Compact(lines) ==
  \E read \in {lines, {}}, seen \in {marked, {}} :
    /\ file' = Newest(Unmarked(read, seen))
    /\ IF read = lines /\ seen = marked THEN UNCHANGED misreads ELSE Misled

\* add: a line is appended and the file rewritten when it is time.  Rewriting
\* can fail, before the file is replaced or when the marks are deleted.
Written(imp) ==
  /\ torn' = FALSE
  /\ \/ /\ appends + 1 < CompactAfter
        /\ appends' = appends + 1
        /\ file' = WithLine(imp) /\ UNCHANGED <<marked, misreads>>
     \/ /\ appends + 1 >= CompactAfter
        /\ appends' = 0
        /\ \/ Compact(WithLine(imp)) /\ marked' \in {{}, marked}
           \/ file' = WithLine(imp) /\ UNCHANGED <<marked, misreads>>

\* drain: what a handler completed is written at once; a write that fails is
\* reported and the impression is lost, but for half a line of it.
Add(out) ==
  /\ UNCHANGED netVars
  /\ IF out = <<>> THEN UNCHANGED diskVars
     ELSE \/ Written(out[1])
          \/ torn' \in {torn, TRUE} /\ UNCHANGED <<file, marked, appends, misreads>>

-----------------------------------------------------------------------------
(* The transmission *)

\* #flush: the oldest of `lines' are sent.
Send(lines) ==
  /\ lines # {} /\ Cardinality(posts) < MaxPosts
  /\ posts' = posts \cup {[batch |-> Contents(Oldest(lines)), awaited |-> TRUE]}
  /\ UNCHANGED <<file, torn, marked, appends, answers, verdict, turnVars, cacheVars>>

\* The lines that are not marked, or all of them if the marks are not read.
Flush        == Send(Pending) /\ UNCHANGED misreads
FlushMisread == Send(file) /\ Pending # file /\ Misled

\* The schema of the server accepts every event of the batch, or none.
WellFormed(batch) == \A imp \in batch : imp.length # "overlong"

\* What the server makes of an impression it sees for the first time.
Judged(imp) == IF imp.length = "full" /\ imp.ad > expired THEN "accepted" ELSE "rejected"

Judgement(batch) ==
  [n \in Ads |->
     IF verdict[n] = "none" /\ n \in AdsOf(batch)
     THEN Judged(CHOOSE imp \in batch : imp.ad = n) ELSE verdict[n]]

\* POST /v1/impressions: every event is answered, a known one as a duplicate.
Ingest(p) ==
  /\ p \in posts /\ WellFormed(p.batch)
  /\ p.awaited => Cardinality(answers) < MaxPosts
  /\ posts' = posts \ {p}
  /\ verdict' = Judgement(p.batch)
  /\ answers' = IF p.awaited THEN answers \cup {AdsOf(p.batch)} ELSE answers
  /\ UNCHANGED <<diskVars, turnVars, cacheVars>>

\* As it would be if a batch that was sent were taken for decided.
FailureMarks(p) ==
  /\ p \in posts
  /\ posts' = posts \ {p}
  /\ marked' = marked \cup AdsOf(p.batch)
  /\ UNCHANGED <<file, torn, appends, misreads, answers, verdict, turnVars, cacheVars>>

\* The request is lost, or refused as a whole.
PostFails(p) ==
  /\ p \in posts
  /\ posts' = posts \ {p}
  /\ UNCHANGED <<diskVars, answers, verdict, turnVars, cacheVars>>

\* Ten seconds are over: the answer will not be read.
PostTimesOut(p) ==
  /\ p \in posts /\ p.awaited
  /\ posts' = (posts \ {p}) \cup {[p EXCEPT !.awaited = FALSE]}
  /\ UNCHANGED <<diskVars, answers, verdict, turnVars, cacheVars>>

\* The answer is lost, or marking what it says fails, perhaps half-way.
AnswerLost(a) ==
  /\ a \in answers
  /\ answers' = answers \ {a}
  /\ \E part \in SUBSET a : marked' = marked \cup part
  /\ UNCHANGED <<file, torn, appends, misreads, posts, verdict, turnVars, cacheVars>>

\* As it would be if nobody marked what has been decided.
AnswerIgnored(a) ==
  /\ a \in answers
  /\ answers' = answers \ {a}
  /\ UNCHANGED <<diskVars, posts, verdict, turnVars, cacheVars>>

\* markSent: accepted, rejected and duplicate alike.
Answered(a) ==
  /\ a \in answers
  /\ answers' = answers \ {a}
  /\ marked' = marked \cup a
  /\ UNCHANGED <<file, torn, appends, misreads, posts, verdict, turnVars, cacheVars>>

-----------------------------------------------------------------------------
(* The end of the process *)

NobodyWaits == {[p EXCEPT !.awaited = FALSE] : p \in posts}

\* Nothing is being written.
OutboxLost ==
  /\ appends' = 0 /\ posts' = NobodyWaits /\ answers' = {}
  /\ UNCHANGED <<file, torn, marked, misreads, verdict>>

\* In the middle of an append.
TornAppend ==
  /\ torn' = TRUE
  /\ appends' = 0 /\ posts' = NobodyWaits /\ answers' = {}
  /\ UNCHANGED <<file, marked, misreads, verdict>>

\* Between the renaming of the rewritten file and the deletion of the other.
TornCompaction(imp) ==
  /\ appends + 1 >= CompactAfter
  /\ Compact(WithLine(imp)) /\ torn' = FALSE
  /\ appends' = 0 /\ posts' = NobodyWaits /\ answers' = {}
  /\ UNCHANGED <<marked, verdict>>
=============================================================================
