------------------------------- MODULE Login -------------------------------
(***************************************************************************)
(* Logging in with a wallet: challenges, signatures, tokens, wallets.      *)
(*                                                                         *)
(* The server hands out a challenge, the wallet signs it, and the signed   *)
(* challenge buys one token.  A verification waits for the network to name *)
(* the signers of the account, and everything else happens meanwhile:      *)
(* other logins, the collection of expired challenges, logouts.  Tokens    *)
(* and wallets are written through to the disk; challenges and the bucket  *)
(* of the rate limit live in memory.  All clients share one address here,  *)
(* so one bucket stands for the Map of buckets.                            *)
(***************************************************************************)
EXTENDS Integers, Sequences, Bags, FiniteSetsExt

CONSTANTS
  Wallets,       \* accounts that log in: a wallet is its publisher and payee
  Roles,         \* the roles a token may be issued for
  Lifetime,      \* how long a challenge may be signed
  Linger,        \* how long the collector spares an expired challenge
  MaxPerAddress, \* challenges kept for one wallet
  MaxTotal,      \* challenges kept in all
  Capacity,      \* requests of one client that may come at once
  Refill,        \* ticks until one more may come
  MaxClock,      \* bound: the clock stops here
  MaxVerifying,  \* bound: verifications under way at once
  MaxChallenges, \* bound: challenges ever made
  MaxRestarts    \* bound: restarts of the server

ASSUME LoginAssumption ==
  /\ "publisher" \in Roles
  /\ {Lifetime, Linger, MaxTotal, MaxClock, MaxVerifying, MaxChallenges, MaxRestarts} \subseteq Nat
  /\ {MaxPerAddress, Capacity, Refill} \subseteq Nat \ {0}

VARIABLES
  pending,    \* the challenges that may be signed; a wallet's list is by their numbers
  total,      \* how many there are, counted apart
  made,       \* challenges made so far: their numbers stand for the hashes
  verifying,  \* the requests under way: a bag of what they found
  tokens,     \* the tokens in memory, in the order of issue
  savedTokens,\* ... and on disk
  bound,      \* the wallets payouts may go to, in memory
  savedBound, \* ... and on disk
  handed,     \* history: the tokens whose answer was sent
  loggedOut,  \* history: the tokens whose logout was answered
  bucket,     \* what is left of the rate limit, and since when
  clock, restarts

challenges == <<pending, total, made, verifying>>
identities == <<tokens, savedTokens, bound, savedBound>>
loginVars == <<challenges, identities, handed, loggedOut, bucket, clock, restarts>>

Challenge == [wallet : Wallets, id : 1 .. MaxChallenges, expires : Nat]
Check == [role : Roles, challenge : Challenge]
Token == [wallet : Wallets, role : Roles, id : 1 .. MaxChallenges, revoked : BOOLEAN]

Full == [tokens |-> Capacity, at |-> clock]

LoginInit ==
  /\ pending = {} /\ total = 0 /\ made = 0
  /\ verifying = EmptyBag
  /\ tokens = <<>> /\ savedTokens = <<>> /\ bound = {} /\ savedBound = {}
  /\ handed = {} /\ loggedOut = {}
  /\ clock = 0 /\ restarts = 0
  /\ bucket = Full

(***************************************************************************)
(* The rate limit                                                          *)
(***************************************************************************)
Refilled(b) ==
  LET grown == (clock - b.at) \div Refill
      held  == Min({Capacity, b.tokens + grown})
  IN  [tokens |-> held, at |-> IF grown > 0 /\ held = Capacity THEN clock ELSE b.at + grown * Refill]

Admit ==
  /\ Refilled(bucket).tokens >= 1
  /\ bucket' = [Refilled(bucket) EXCEPT !.tokens = @ - 1]

Refuse ==
  /\ Refilled(bucket).tokens < 1 /\ Refilled(bucket) # bucket
  /\ bucket' = Refilled(bucket)
  /\ UNCHANGED <<challenges, identities, handed, loggedOut, clock, restarts>>

(***************************************************************************)
(* Challenges                                                              *)
(***************************************************************************)
\* What the wallet is given to sign, and what is remembered of it.
NewChallenge(w) == [wallet |-> w, id |-> made + 1, expires |-> clock + Lifetime]

Collected == {c \in pending : c.expires >= clock - Linger}
SweptWithoutCount == total
Swept == total - (Cardinality(pending) - Cardinality(Collected))

ListOf(w, S) == {c \in S : c.wallet = w}
Oldest(list) == CHOOSE c \in list : \A d \in list : c.id <= d.id

\* POST /v1/auth/challenge: expired challenges are collected first; the
\* window of a wallet pushes its oldest challenge out.
AskChallenge(w) ==
  LET list == ListOf(w, Collected) \cup {NewChallenge(w)}
      over == Cardinality(list) > MaxPerAddress
  IN
  /\ Admit
  /\ IF Swept >= MaxTotal
     THEN pending' = Collected /\ total' = Swept /\ UNCHANGED made
     ELSE /\ made < MaxChallenges
          /\ pending' = (Collected \cup list) \ (IF over THEN {Oldest(list)} ELSE {})
          /\ total' = IF over THEN Swept ELSE Swept + 1
          /\ made' = made + 1
  /\ UNCHANGED <<verifying, identities, handed, loggedOut, clock, restarts>>

Find(w, id) == {c \in ListOf(w, pending) : c.id = id}

Removed(c) == pending' = pending \ {c} /\ total' = total - 1

\* POST /v1/auth/verify, until it asks the network for the signers.
Verify(w, role, id) ==
  /\ Admit
  /\ BagCardinality(verifying) < MaxVerifying
  /\ \/ Find(w, id) = {} /\ UNCHANGED <<pending, total, verifying>>
     \/ \E c \in Find(w, id) :
          \/ c.expires < clock /\ Removed(c) /\ UNCHANGED verifying
          \/ /\ c.expires >= clock
             /\ verifying' = verifying (+) SetToBag({[role |-> role, challenge |-> c]})
             /\ UNCHANGED <<pending, total>>
  /\ UNCHANGED <<made, identities, handed, loggedOut, clock, restarts>>

Answered(v) == verifying' = verifying (-) SetToBag({v})

\* What the network says of an account: its signers, that there is no such
\* account (the key of the address itself counts then), or nothing.
Signers == {"listed", "no account", "error"}

\* Whether the signatures reach the threshold of the account; that an
\* account cannot be seen is not taken for its absence.
Suffice(signers) == IF signers = "error" THEN {FALSE} ELSE BOOLEAN

\* Nothing is used up: the same challenge may be tried again.
Unverified(v) ==
  /\ \E signers \in Signers : FALSE \in Suffice(signers)
  /\ Answered(v)
  /\ UNCHANGED <<pending, total, made, identities, handed, loggedOut, bucket, clock, restarts>>

(***************************************************************************)
(* Tokens and wallets                                                      *)
(***************************************************************************)
NewToken(v) ==
  [wallet |-> v.challenge.wallet, role |-> v.role, id |-> v.challenge.id, revoked |-> FALSE]

AddToken(v) ==
  /\ tokens' = Append(tokens, NewToken(v))
  /\ savedTokens' = Append(savedTokens, NewToken(v))

BindInMemory(w) == bound' = bound \cup {w} /\ UNCHANGED savedBound

\* A publisher is its wallet: the address never changes, and no payment is
\* held back for a change of address.
Bind(w) == bound' = bound \cup {w} /\ savedBound' = savedBound \cup {w}

PayoutBlocked(w) == w \notin bound

\* The first login as a publisher binds the wallet.
BindOnce(v) ==
  IF v.role = "publisher" /\ v.challenge.wallet \notin bound
  THEN Bind(v.challenge.wallet)
  ELSE UNCHANGED <<bound, savedBound>>

FoundBefore(v) == v \in Check
StillThere(v) == v.challenge \in pending

\* The signers are known and the signatures suffice: the challenge must
\* still be there, and it is used up.
Verified(v) ==
  /\ \E signers \in Signers : TRUE \in Suffice(signers)
  /\ Answered(v)
  /\ \/ /\ StillThere(v)
        /\ Removed(v.challenge)
        /\ AddToken(v) /\ BindOnce(v)
        /\ handed' = handed \cup {Len(tokens) + 1}
     \/ ~StillThere(v) /\ UNCHANGED <<pending, total, identities, handed>>
  /\ UNCHANGED <<made, loggedOut, bucket, clock, restarts>>

Accepted(t) == t \in DOMAIN tokens /\ ~tokens[t].revoked

RevokeInMemory(t) ==
  /\ tokens' = [tokens EXCEPT ![t].revoked = TRUE]
  /\ UNCHANGED savedTokens
Revoke(t) ==
  /\ tokens' = [tokens EXCEPT ![t].revoked = TRUE]
  /\ savedTokens' = [savedTokens EXCEPT ![t].revoked = TRUE]

\* POST /v1/logout
Logout(t) ==
  /\ Accepted(t)
  /\ Revoke(t)
  /\ loggedOut' = loggedOut \cup {t}
  /\ UNCHANGED <<challenges, bound, savedBound, handed, bucket, clock, restarts>>

(***************************************************************************)
(* Time and restarts                                                       *)
(***************************************************************************)
Tick ==
  /\ clock < MaxClock
  /\ clock' = clock + 1
  /\ UNCHANGED <<challenges, identities, handed, loggedOut, bucket, restarts>>

\* The process ends and starts again with what the disk holds: the token was
\* perhaps just added, its wallet not yet bound; or just revoked, nobody told.
Reload(disk) ==
  /\ restarts < MaxRestarts
  /\ restarts' = restarts + 1
  /\ pending' = {} /\ total' = 0
  /\ verifying' = EmptyBag
  /\ tokens' = disk /\ savedTokens' = disk
  /\ bound' = savedBound
  /\ bucket' = Full
  /\ UNCHANGED <<made, savedBound, handed, loggedOut, clock>>

TornLogin(v) == StillThere(v) /\ Reload(Append(savedTokens, NewToken(v)))

TornLogout(t) == Accepted(t) /\ Reload([savedTokens EXCEPT ![t].revoked = TRUE])

Restart ==
  \/ Reload(savedTokens)
  \/ \E v \in BagToSet(verifying) : TornLogin(v)
  \/ \E t \in DOMAIN tokens : TornLogout(t)

LoginNext ==
  \/ Refuse \/ Tick
  \/ \E w \in Wallets : AskChallenge(w)
  \/ \E w \in Wallets, role \in Roles, id \in 1 .. made : Verify(w, role, id)
  \/ \E v \in BagToSet(verifying) : Unverified(v) \/ Verified(v)
  \/ \E t \in DOMAIN tokens : Logout(t)
=============================================================================
