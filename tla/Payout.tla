------------------------------- MODULE Payout -------------------------------
(***************************************************************************)
(* Withdrawals: money leaves an account of the ledger and the hot wallet   *)
(* pays it out on the Stellar network.                                     *)
(*                                                                         *)
(* Withdrawals of every kind and the periodic reconciliation run one after *)
(* the other in a single queue (createSerial).  Every await of a job is a  *)
(* place where the rest of the server, the network and the clock go on: a  *)
(* job is cut into one action per stretch between two awaits.  A crash can *)
(* also fall between two SQLite transactions of a stretch (...Crash).      *)
(*                                                                         *)
(* The network is external: it includes a transaction at most once, with   *)
(* the next sequence number of the hot wallet and not after its maxTime.   *)
(***************************************************************************)
EXTENDS Integers, FiniteSets, Sequences, Totals

CONSTANTS
  Batches,       \* payout batch ids; an on-demand withdrawal has its own
  Payees,        \* the (service, wallet) pairs that may withdraw
  Accounts,      \* ledger accounts
  AccountOf,     \* the account each payee withdraws from
  Advertisers,   \* the accounts that promise money to publishers
  Amounts,       \* amounts of money
  NoBatch,       \* no batch
  TxTimeout,     \* lifetime of a prepared transaction
  ConfirmPolls,  \* questions to the chain after the first (confirmWaitMs)
  Latency,       \* ticks between the chain's answer and the reading of the clock
  MaxClock,      \* bound: the clock stops here
  MaxFunds,      \* bound: total ever credited
  MaxCrashes     \* bound: crashes and restarts

ASSUME PayeesAssumption ==
  /\ AccountOf \in [Payees -> Accounts]
  /\ Advertisers \subseteq Accounts
  /\ NoBatch \notin Batches
  /\ "resume" \notin Batches
  /\ Amounts \subseteq Nat \ {0}
  /\ IsFiniteSet(Batches) /\ IsFiniteSet(Accounts)

ASSUME BoundsAssumption ==
  {TxTimeout, ConfirmPolls, Latency, MaxClock, MaxFunds, MaxCrashes} \subseteq Nat

VARIABLES
  now,       \* the clock, of the server and of the network
  balance,   \* ledger: balance of each account
  reserved,  \* the part of it that is promised to publishers
  funded,    \* total credited, less what advertisers were charged
  order,     \* who asked for which amount under each batch id
  tx,        \* the transaction prepared for each batch
  group,     \* ledger: the entry groups written for each batch
  item,      \* payout_items: the state of each batch
  queue,     \* the hot wallet queue: batch ids and "resume"
  busy,      \* payees with a withdrawal in progress
  job,       \* the job that is running
  sent,      \* batches whose envelope reached the network
  chain,     \* what the network knows of each batch
  seq,       \* sequence number of the hot wallet on the network
  crashes    \* crashes so far

server  == <<queue, busy, job>>
books   == <<balance, reserved, funded, group, item>>
network == <<sent, chain, seq>>
vars    == <<now, books, order, tx, server, network, crashes>>

-----------------------------------------------------------------------------
NoOrder == [none |-> "order"]
NoTx    == [none |-> "tx"]

Order == [payee : Payees, amount : Amounts]
Tx    == [seq : Nat, maxTime : Nat]

\* A job: what it does next, the batch it is about, the questions it may
\* still ask, the batches a reconciliation has left, and what the network
\* last answered, when.
Job == [pc    : {"idle", "prepare", "submit", "send", "ask", "answer"},
        kind  : {"withdraw", "resume"},
        batch : Batches \cup {NoBatch},
        polls : Nat,
        todo  : SUBSET Batches,
        found : {"absent", "success", "failed"},
        asked : Nat]

Idle == [pc |-> "idle", kind |-> "resume", batch |-> NoBatch, polls |-> 0,
         todo |-> {}, found |-> "absent", asked |-> 0]

\* The stores hold what their rows can hold, and no account is overdrawn
\* (Ledger.payoutSubmit, the last line of defence).
TypeOK ==
  /\ now \in Nat
  /\ balance \in [Accounts -> Nat]
  /\ reserved \in [Accounts -> Nat]
  /\ funded \in Int
  /\ order \in [Batches -> Order \cup {NoOrder}]
  /\ tx \in [Batches -> Tx \cup {NoTx}]
  /\ group \in [Batches -> SUBSET {"submit", "settled", "reversal"}]
  /\ item \in [Batches -> {"none", "submitted", "settled", "failed"}]
  /\ queue \in Seq(Batches \cup {"resume"})
  /\ busy \subseteq Payees
  /\ job \in Job
  /\ sent \subseteq Batches
  /\ chain \in [Batches -> {"absent", "success", "failed"}]
  /\ seq \in Nat
  /\ crashes \in Nat

-----------------------------------------------------------------------------
AccountFor(b) == AccountOf[order[b].payee]
AmountOf(b)   == order[b].amount

\* What a payee may withdraw: for an advertiser the balance less what is
\* promised, for a publisher or the platform the balance (nothing reserved).
\* WholeBalance is what it would be without the reservation.
WholeBalance(a) == balance[a]
Spendable(a) == IF balance[a] > reserved[a] THEN balance[a] - reserved[a] ELSE 0

Unresolved == {b \in Batches : item[b] = "submitted"}

-----------------------------------------------------------------------------
(* The rest of the server: Billing describes it in full *)

Credit(a, x) ==
  /\ funded + x <= MaxFunds
  /\ balance' = [balance EXCEPT ![a] = @ + x]
  /\ funded' = funded + x
  /\ UNCHANGED <<now, reserved, group, item, order, tx, server, network, crashes>>

\* An ad is served against the balance.
Reserve(a, x) ==
  /\ x <= Spendable(a)
  /\ reserved' = [reserved EXCEPT ![a] = @ + x]
  /\ UNCHANGED <<now, balance, funded, group, item, order, tx, server, network, crashes>>

\* The impression is verified and charged, or the promise lapses.
Charge(a, x) ==
  /\ x <= reserved[a]
  /\ reserved' = [reserved EXCEPT ![a] = @ - x]
  /\ balance' = [balance EXCEPT ![a] = @ - x]
  /\ funded' = funded - x
  /\ UNCHANGED <<now, group, item, order, tx, server, network, crashes>>

Lapse(a, x) ==
  /\ x <= reserved[a]
  /\ reserved' = [reserved EXCEPT ![a] = @ - x]
  /\ UNCHANGED <<now, balance, funded, group, item, order, tx, server, network, crashes>>

-----------------------------------------------------------------------------
(* The queue *)

\* WithdrawService.withdraw.  The batch id is drawn here rather than after
\* the first check: an id whose withdrawal is refused is not used again.
Withdraw(b, e, x) ==
  /\ order[b] = NoOrder
  /\ e \notin busy
  /\ order' = [order EXCEPT ![b] = [payee |-> e, amount |-> x]]
  /\ busy' = busy \cup {e}
  /\ queue' = Append(queue, b)
  /\ UNCHANGED <<now, books, tx, job, network, crashes>>

\* As it was before the timer: only the start of the process reconciles.
ResumeOnlyAtStart == FALSE /\ UNCHANGED vars

\* The reconciliation timer.  A second reconciliation waiting in the queue
\* would find what the first one left, so one is enough.
ResumeTimer ==
  /\ \A i \in 1 .. Len(queue) : queue[i] # "resume"
  /\ queue' = Append(queue, "resume")
  /\ UNCHANGED <<now, books, order, tx, busy, job, network, crashes>>

\* The end of a withdrawal: `finally' frees the payee.
Finish ==
  /\ job' = Idle
  /\ busy' = busy \ {order[job.batch].payee}

\* The reconciliation goes on with another batch, or ends.
AskAbout(b, rest) ==
  [Idle EXCEPT !.pc = "ask", !.batch = b, !.polls = 1, !.todo = rest]

ResumeWith(todo) ==
  /\ IF todo = {} THEN job' = Idle
                  ELSE \E b \in todo : job' = AskAbout(b, todo \ {b})
  /\ UNCHANGED busy

\* #run up to its first await: the amount is checked against the balance.
StartWithdraw ==
  /\ job.pc = "idle" /\ queue # <<>> /\ Head(queue) # "resume"
  /\ queue' = Tail(queue)
  /\ LET b == Head(queue)
     IN  IF AmountOf(b) > Spendable(AccountFor(b))
         THEN /\ busy' = busy \ {order[b].payee}
              /\ UNCHANGED job
         ELSE /\ job' = [Idle EXCEPT !.pc = "prepare", !.kind = "withdraw", !.batch = b]
              /\ UNCHANGED busy
  /\ UNCHANGED <<now, books, order, tx, network, crashes>>

\* resumeUnresolved reads payout_items once, at its start.
StartResume ==
  /\ job.pc = "idle" /\ queue # <<>> /\ Head(queue) = "resume"
  /\ queue' = Tail(queue)
  /\ ResumeWith(Unresolved)
  /\ UNCHANGED <<now, books, order, tx, network, crashes>>

-----------------------------------------------------------------------------
(* One withdrawal *)

\* The destination is valid and the envelope is built on the sequence number
\* the network has now.  No prepared transaction outlives the bounded clock.
Prepare ==
  /\ job.pc = "prepare"
  /\ now + TxTimeout < MaxClock
  /\ tx' = [tx EXCEPT ![job.batch] = [seq |-> seq + 1, maxTime |-> now + TxTimeout]]
  /\ job' = [job EXCEPT !.pc = "submit"]
  /\ UNCHANGED <<now, books, order, queue, busy, network, crashes>>

\* The destination does not accept the payment, or `prepare' throws.
PrepareFails ==
  /\ job.pc = "prepare"
  /\ Finish
  /\ UNCHANGED <<now, books, order, tx, queue, network, crashes>>

\* Ledger.payoutSubmit, with its own check of the balance.
PayoutSubmit(b) ==
  /\ balance[AccountFor(b)] >= AmountOf(b)
  /\ balance' = [balance EXCEPT ![AccountFor(b)] = @ - AmountOf(b)]
  /\ group' = [group EXCEPT ![b] = @ \cup {"submit"}]

\* As it would be without the second reading of `spendable'.
SubmitOnOldReading ==
  /\ job.pc = "submit"
  /\ PayoutSubmit(job.batch)
  /\ item' = [item EXCEPT ![job.batch] = "submitted"]
  /\ job' = [job EXCEPT !.pc = "send"]
  /\ UNCHANGED <<now, reserved, funded, order, tx, queue, busy, network, crashes>>

\* The balance is read again: it may have changed during the two awaits.
Submit ==
  /\ job.pc = "submit"
  /\ AmountOf(job.batch) <= Spendable(AccountFor(job.batch))
  /\ PayoutSubmit(job.batch)
  /\ item' = [item EXCEPT ![job.batch] = "submitted"]
  /\ job' = [job EXCEPT !.pc = "send"]
  /\ UNCHANGED <<now, reserved, funded, order, tx, queue, busy, network, crashes>>

SubmitRefused ==
  /\ job.pc = "submit"
  /\ AmountOf(job.batch) > Spendable(AccountFor(job.batch))
  /\ Finish
  /\ UNCHANGED <<now, books, order, tx, queue, network, crashes>>

\* `send' never decides anything: whether the envelope arrived or not, and
\* whatever error came back, the chain is asked next.
Send ==
  /\ job.pc = "send"
  /\ sent' \in {sent, sent \cup {job.batch}}
  /\ job' = [job EXCEPT !.pc = "ask", !.polls = ConfirmPolls + 1]
  /\ UNCHANGED <<now, books, order, tx, queue, busy, chain, seq, crashes>>

-----------------------------------------------------------------------------
(* Reconciliation: both jobs ask the network and write down the answer *)

\* reconcile, the answer of the network.
Ask(b) ==
  /\ job.pc = "ask" /\ job.batch = b
  /\ job' = [job EXCEPT !.pc = "answer", !.polls = @ - 1,
                        !.found = chain[b], !.asked = now]
  /\ UNCHANGED <<now, books, order, tx, queue, busy, network, crashes>>

\* What follows an undecided question: another one, or the end of the job.
GoOn(left) ==
  IF job.kind = "resume" THEN ResumeWith(job.todo)
  ELSE IF left = 0       THEN Finish
  ELSE /\ job' = [job EXCEPT !.pc = "ask", !.polls = left]
       /\ UNCHANGED busy

\* As it would be without `finally' around the withdrawal...
ThrowKeepsBusy ==
  /\ job.pc = "ask"
  /\ IF job.kind = "withdraw" /\ job.polls = ConfirmPolls + 1
     THEN job' = Idle /\ UNCHANGED busy
     ELSE GoOn(job.polls - 1)
  /\ UNCHANGED <<now, books, order, tx, queue, network, crashes>>

\* ... and if an unreachable network counted as a failed payment.
ThrowIsFailure ==
  /\ job.pc = "ask"
  /\ balance' = [balance EXCEPT ![AccountFor(job.batch)] = @ + AmountOf(job.batch)]
  /\ group' = [group EXCEPT ![job.batch] = @ \cup {"reversal"}]
  /\ item' = [item EXCEPT ![job.batch] = "failed"]
  /\ GoOn(0)
  /\ UNCHANGED <<now, reserved, funded, order, tx, queue, network, crashes>>

\* The network cannot be reached.  The first question of a withdrawal is not
\* in a `try': its error ends the withdrawal.
AskThrows ==
  /\ job.pc = "ask"
  /\ IF job.kind = "withdraw" /\ job.polls = ConfirmPolls + 1
     THEN Finish
     ELSE GoOn(job.polls - 1)
  /\ UNCHANGED <<now, books, order, tx, queue, network, crashes>>

\* As it would be if a transaction not found counted as failed.
UnknownIsFailure ==
  IF job.found = "absent" THEN "expired" ELSE job.found

\* reconcile, the verdict: the clock is read after the answer came.
Verdict ==
  IF job.found # "absent" THEN job.found
  ELSE IF now > tx[job.batch].maxTime THEN "expired" ELSE "pending"

PostSettled(b) == group' = [group EXCEPT ![b] = @ \cup {"settled"}]

\* As it would be without the search for an earlier reversal.
ReverseAgain(b) ==
  /\ balance' = [balance EXCEPT ![AccountFor(b)] = @ + AmountOf(b)]
  /\ group' = [group EXCEPT ![b] = @ \cup {"reversal"}]

\* Ledger.reverse: the groups of the batch are negated, once.
Reverse(b) ==
  IF "reversal" \in group[b]
  THEN UNCHANGED <<balance, group>>
  ELSE /\ balance' = [balance EXCEPT ![AccountFor(b)] = @ + AmountOf(b)]
       /\ group' = [group EXCEPT ![b] = @ \cup {"reversal"}]

\* PayoutStore.#transition: a settled item stays as it is.
Mark(b, s) == item' = [item EXCEPT ![b] = IF @ = "settled" THEN @ ELSE s]

Pending ==
  /\ job.pc = "answer" /\ Verdict = "pending"
  /\ GoOn(job.polls)
  /\ UNCHANGED <<now, books, order, tx, queue, network, crashes>>

\* What follows a decided question.
Decided == GoOn(0)

Settle ==
  /\ job.pc = "answer" /\ Verdict = "success"
  /\ PostSettled(job.batch)
  /\ Mark(job.batch, "settled")
  /\ Decided
  /\ UNCHANGED <<now, balance, reserved, funded, order, tx, queue, network, crashes>>

Refund ==
  /\ job.pc = "answer" /\ Verdict \in {"failed", "expired"}
  /\ Reverse(job.batch)
  /\ Mark(job.batch, "failed")
  /\ Decided
  /\ UNCHANGED <<now, reserved, funded, order, tx, queue, network, crashes>>

-----------------------------------------------------------------------------
(* Crashes: the queue is lost, and a new process starts by reconciling *)

Reboot ==
  /\ crashes < MaxCrashes
  /\ crashes' = crashes + 1
  /\ queue' = <<"resume">>
  /\ busy' = {}
  /\ job' = Idle

Crash ==
  /\ Reboot
  /\ UNCHANGED <<now, books, order, tx, network>>

\* After Ledger.payoutSubmit, before PayoutStore.recordSubmit.
SubmitCrash ==
  /\ job.pc = "submit"
  /\ AmountOf(job.batch) <= Spendable(AccountFor(job.batch))
  /\ PayoutSubmit(job.batch)
  /\ Reboot
  /\ UNCHANGED <<now, reserved, funded, item, order, tx, network>>

\* As it would be if the item were marked before the ledger is written.
SettleCrashItemFirst ==
  /\ job.pc = "answer" /\ Verdict = "success"
  /\ Mark(job.batch, "settled")
  /\ Reboot
  /\ UNCHANGED <<now, balance, reserved, funded, group, order, tx, network>>

\* After the ledger is written, before the item is marked.
SettleCrash ==
  /\ job.pc = "answer" /\ Verdict = "success"
  /\ PostSettled(job.batch)
  /\ Reboot
  /\ UNCHANGED <<now, balance, reserved, funded, item, order, tx, network>>

RefundCrash ==
  /\ job.pc = "answer" /\ Verdict \in {"failed", "expired"}
  /\ Reverse(job.batch)
  /\ Reboot
  /\ UNCHANGED <<now, reserved, funded, item, order, tx, network>>

-----------------------------------------------------------------------------
(* The network and the clock *)

Include(b, result) ==
  /\ b \in sent /\ chain[b] = "absent"
  /\ tx[b].seq = seq + 1
  /\ now <= tx[b].maxTime
  /\ chain' = [chain EXCEPT ![b] = result]
  /\ seq' = seq + 1
  /\ UNCHANGED <<now, books, order, tx, server, sent, crashes>>

Tick ==
  /\ now < MaxClock
  /\ job.pc = "answer" => now < job.asked + Latency
  /\ now' = now + 1
  /\ UNCHANGED <<books, order, tx, server, network, crashes>>

-----------------------------------------------------------------------------
Init ==
  /\ now = 0
  /\ balance = [a \in Accounts |-> 0]
  /\ reserved = [a \in Accounts |-> 0]
  /\ funded = 0
  /\ order = [b \in Batches |-> NoOrder]
  /\ tx = [b \in Batches |-> NoTx]
  /\ group = [b \in Batches |-> {}]
  /\ item = [b \in Batches |-> "none"]
  /\ queue = <<"resume">>
  /\ busy = {}
  /\ job = Idle
  /\ sent = {}
  /\ chain = [b \in Batches |-> "absent"]
  /\ seq = 0
  /\ crashes = 0

Environment ==
  \E x \in Amounts :
    \/ \E a \in Accounts : Credit(a, x)
    \/ \E a \in Advertisers : Reserve(a, x) \/ Charge(a, x) \/ Lapse(a, x)

Requests == \E b \in Batches, e \in Payees, x \in Amounts : Withdraw(b, e, x)

\* A step of the running job.
Step ==
  \/ StartWithdraw \/ StartResume
  \/ Prepare \/ PrepareFails \/ Submit \/ SubmitRefused \/ Send
  \/ AskThrows \/ Pending \/ Settle \/ Refund
  \/ \E b \in Batches : Ask(b)

Crashes == Crash \/ SubmitCrash \/ SettleCrash \/ RefundCrash

Network ==
  \E b \in Batches, result \in {"success", "failed"} : Include(b, result)

Next == Environment \/ Requests \/ ResumeTimer \/ Step \/ Crashes \/ Network \/ Tick

Spec == Init /\ [][Next]_vars

-----------------------------------------------------------------------------
(* Fairness: the event loop runs, the timer fires, the clock advances      *)
(* (strongly: it stops only for the Latency of a verdict), and a network   *)
(* that is asked about a batch again and again answers in the end.         *)

FairSpec ==
  /\ Spec
  /\ WF_vars(Step) /\ WF_vars(ResumeTimer) /\ SF_vars(Tick)
  /\ \A b \in Batches : SF_vars(Ask(b))

-----------------------------------------------------------------------------
(* Properties *)

InFlight == {b \in Batches : "submit" \in group[b]
                             /\ group[b] \cap {"settled", "reversal"} = {}}

\* The network has paid a batch that the ledger gives back, or gave back.
Both(b) == "reversal" \in group[b] /\ chain[b] = "success"

\* A payment the network has made is never given back to its payee as well,
\* however questions, inclusions, deadlines and crashes interleave
\* (WithdrawService.#run, PayoutRunner.resumeUnresolved).
NotPaidAndRefunded == \A b \in Batches : ~Both(b)

\* The gap of reconcile: the network was asked before the deadline and did
\* not know the payment, and the clock is read after the deadline
\* (stellar-rail.ts:240-245).
InTheGap(b) ==
  /\ job.pc = "answer" /\ job.batch = b /\ job.found = "absent"
  /\ job.asked <= tx[b].maxTime /\ tx[b].maxTime < now

\* However late an answer is read, a batch gets paid and given back in one way
\* only, the gap of reconcile: nothing given back is paid later, and nothing
\* the network told or was asked about after the deadline is given back paid.
BothOnlyInTheGap ==
  [][\A b \in Batches : Both(b)' /\ ~Both(b) => InTheGap(b)]_vars

\* A withdrawal never takes money that is promised to publishers, although
\* two awaits lie between the first check and the write (withdraw.ts:183-191).
PromiseKept == \A a \in Accounts : reserved[a] <= balance[a]

\* The ledger says "settled" only of a payment the network has made, and what
\* was credited is in an account, in flight or settled (Ledger.solvency); what
\* is in an account again although it is settled is counted twice, no more.
Settled == {b \in Batches : "settled" \in group[b]}
Doubled == {b \in Settled : "reversal" \in group[b]}

MoneyAccountedFor ==
  /\ \A b \in Settled : chain[b] = "success"
  /\ funded + Total([b \in Doubled |-> AmountOf(b)]) =
       Total(balance) + Total([b \in InFlight |-> AmountOf(b)])
                      + Total([b \in Settled |-> AmountOf(b)])

\* The item of a batch agrees with the ledger groups once it is decided, and
\* only envelopes that were recorded leave the server (withdraw.ts:192-198).
RecordedBeforeSent ==
  /\ \A b \in sent : item[b] # "none" /\ "submit" \in group[b]
  /\ \A b \in Batches :
       /\ item[b] = "settled" => "settled" \in group[b]
       /\ item[b] = "failed" => "reversal" \in group[b]

\* Money in flight has a record that resumeUnresolved can find ("at worst the
\* money hangs `on the way'; that is a recoverable error", runner.ts:15-16).
InFlightRecoverable == InFlight \subseteq Unresolved

\* Every recorded batch is decided in the end, through crashes and through
\* errors of the network, because the reconciliation is repeated.
EveryBatchDecided ==
  \A b \in Batches : item[b] = "submitted" ~> item[b] \in {"settled", "failed"}

\* A payee that waits for an answer gets one, and can withdraw again.
PayeeFreed == \A e \in Payees : e \in busy ~> e \notin busy

\* What a payee is promised: see Transfer, which knows no state "both".
EndOf(refunded, paid) ==
  IF refunded THEN IF paid THEN "both" ELSE "refunded"
              ELSE IF paid THEN "paid" ELSE "open"

TransferState ==
  [b \in Batches |->
     IF "submit" \notin group[b] THEN [state |-> "new"]
     ELSE [state   |-> EndOf("reversal" \in group[b], chain[b] = "success"),
           account |-> AccountFor(b),
           amount  |-> AmountOf(b)]]

T == INSTANCE Transfer WITH Transfers <- Batches, transfer <- TransferState

\* The one step Transfer does not allow: what was paid is given back too.
GivesBackPaid(b) ==
  /\ InTheGap(b) /\ TransferState[b].state = "paid"
  /\ TransferState' = [TransferState EXCEPT ![b].state = "both"]
  /\ balance' = [balance EXCEPT ![TransferState[b].account] = @ + TransferState[b].amount]
  /\ UNCHANGED reserved

\* The withdrawals implement the abstract transfers, but for a refund in the
\* gap of reconcile.
ImplementsTransfer ==
  T!Init /\ [][T!Next \/ \E b \in Batches : GivesBackPaid(b)]_<<balance, reserved, TransferState>>
=============================================================================
