------------------------------ MODULE Identity ------------------------------
(***************************************************************************)
(* Logins together with the watcher that credits payments to advertisers.  *)
(*                                                                         *)
(* An advertiser pays from its wallet to the address of the server.  The   *)
(* watcher asks the network for the payments after its cursor and credits  *)
(* the senders that have ever logged in; the others are not credited and   *)
(* never looked at again.  The cursor and the ledger are on disk and are   *)
(* written apart: the process may end between any two writes.              *)
(***************************************************************************)
EXTENDS Login

CONSTANTS
  Senders,    \* accounts that pay: wallets and strangers
  None,       \* no poll
  PageSize,   \* payments the network returns at once
  MaxPayments,\* bound: payments ever made
  MaxLost     \* bound: credits whose write fails

ASSUME DepositAssumption ==
  PageSize \in Nat \ {0} /\ MaxPayments \in Nat /\ MaxLost \in Nat

VARIABLES
  chain,    \* the payments to the server's account, in their order
  cursor,   \* the last payment looked at, on disk
  polling,  \* the cursor a poll under way asked with, or None
  credited, \* of each payment: how often the ledger has it
  lost      \* history: the payments whose credit could not be written

depositVars == <<chain, cursor, polling, credited, lost>>
vars == <<loginVars, depositVars>>

Payment == [from : Senders, known : BOOLEAN]

DepositInit ==
  /\ chain = <<>> /\ cursor = 0 /\ polling = None /\ lost = {}
  /\ credited = [p \in 1 .. MaxPayments |-> 0]

Init == LoginInit /\ DepositInit

\* Whoever logged in once, in whatever role, and even if logged out since.
IsKnownAdvertiser(a) == \E t \in DOMAIN tokens : tokens[t].wallet = a

\* The network includes a payment.  One that failed or is not in our asset is
\* passed over like one of a stranger, and stands for it here.
Pay(a) ==
  /\ Len(chain) < MaxPayments
  /\ chain' = Append(chain, [from |-> a, known |-> IsKnownAdvertiser(a)])
  /\ UNCHANGED <<loginVars, cursor, polling, credited, lost>>

(***************************************************************************)
(* The watcher                                                             *)
(***************************************************************************)
\* A timer starts a poll unless one is under way.
Poll ==
  /\ polling = None
  /\ polling' = [after |-> cursor]
  /\ UNCHANGED <<loginVars, chain, cursor, credited, lost>>

\* The network does not answer, or with an error.
PollFails ==
  /\ polling # None
  /\ polling' = None
  /\ UNCHANGED <<loginVars, chain, cursor, credited, lost>>

PageEnd == Min({Len(chain), polling.after + PageSize})
Creditable(p) == IsKnownAdvertiser(chain[p].from)

\* The ledger knows a payment by its transaction and operation.
Credit(S) == [p \in DOMAIN credited |-> IF p \in S THEN 1 ELSE credited[p]]

\* The payments up to one are gone through; the writes of some fail.
Handled(last, failed) ==
  /\ failed \subseteq {p \in polling.after + 1 .. last : Creditable(p) /\ credited[p] = 0}
  /\ Cardinality(lost \cup failed) <= MaxLost
  /\ credited' = Credit({p \in polling.after + 1 .. last : Creditable(p)} \ failed)
  /\ lost' = lost \cup failed

\* The page is read: every payment of it is handled, then the cursor moves.
Page(failed) ==
  /\ polling # None
  /\ Handled(PageEnd, failed)
  /\ cursor' = IF PageEnd > polling.after THEN PageEnd ELSE cursor
  /\ polling' = None
  /\ UNCHANGED <<loginVars, chain>>

CursorFirst(last) == PageEnd
CursorLast(last) == cursor

\* The process ends in the middle of a page, before the cursor is written.
TornPage(last) ==
  /\ polling # None
  /\ last \in polling.after .. PageEnd
  /\ Handled(last, {})
  /\ cursor' = CursorLast(last)
  /\ polling' = None
  /\ Reload(savedTokens)
  /\ UNCHANGED chain

Crash == Restart /\ polling' = None /\ UNCHANGED <<chain, cursor, credited, lost>>

Watch == Poll \/ PollFails \/ \E failed \in SUBSET (1 .. MaxPayments) : Page(failed)

Next ==
  \/ LoginNext /\ UNCHANGED depositVars
  \/ \E a \in Senders : Pay(a)
  \/ Watch
  \/ Crash
  \/ \E last \in 0 .. MaxPayments : TornPage(last)

Spec == Init /\ [][Next]_vars

\* The timer keeps polling, and a network asked again and again answers.
FairSpec ==
  /\ Spec
  /\ WF_vars(Poll)
  /\ SF_vars(\E failed \in SUBSET (1 .. MaxPayments) : Page(failed))

(***************************************************************************)
(* Properties                                                              *)
(***************************************************************************)
\* Types, and that the counter of the challenges counts them: it is what
\* refuses logins when it reaches MaxTotal.
TypeOK ==
  /\ pending \subseteq Challenge /\ IsFiniteSet(pending) /\ made \in 0 .. MaxChallenges
  /\ \A w \in Wallets : Cardinality(ListOf(w, pending)) <= MaxPerAddress
  /\ total = Cardinality(pending) /\ total <= MaxTotal
  /\ IsABag(verifying) /\ BagToSet(verifying) \subseteq Check
  /\ tokens \in Seq(Token) /\ savedTokens \in Seq(Token)
  /\ bound \subseteq Wallets /\ savedBound \subseteq Wallets
  /\ handed \subseteq DOMAIN tokens /\ loggedOut \subseteq DOMAIN tokens
  /\ bucket \in [tokens : 0 .. Capacity, at : 0 .. clock]
  /\ clock \in 0 .. MaxClock /\ restarts \in 0 .. MaxRestarts
  /\ chain \in Seq(Payment) /\ cursor \in 0 .. Len(chain)
  /\ polling \in [after : 0 .. Len(chain)] \cup {None}
  /\ credited \in [1 .. MaxPayments -> Nat] /\ lost \subseteq DOMAIN chain

\* A signed challenge buys one token, however many requests carry it at once
\* and however the lists change while they wait (wallet-auth.ts: single use).
OneTokenPerChallenge ==
  \A t, u \in DOMAIN tokens : tokens[t].id = tokens[u].id => t = u

\* A token whose logout was answered is never accepted again, after a
\* restart neither.
LogoutIsFinal == \A t \in loggedOut : ~Accepted(t)

\* Whoever got a publisher's token can be paid: its wallet is bound, whatever
\* crash came between the two writes (main.ts issueToken).
LoggedInIsPayable ==
  \A t \in handed : tokens[t].role = "publisher" => ~PayoutBlocked(tokens[t].wallet)

\* A payment in our asset whose sender had logged in before is credited in
\* the end, and once for good, through failed polls and crashes; unless the
\* write itself fails, which the watcher does not repeat (deposits.ts).
Owed(p) == p \in DOMAIN chain /\ chain[p].known /\ p \notin lost
PaymentsCredited ==
  \A p \in 1 .. MaxPayments : Owed(p) ~> [](p \in lost \/ credited[p] = 1)
=============================================================================
