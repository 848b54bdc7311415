---------------------------- MODULE PayoutProofs ----------------------------
(***************************************************************************)
(* Proofs about Payout, for every set of batches, payees and accounts and  *)
(* every value of the times, of the latency of the network too: the stores *)
(* keep their types, a payment is made and refunded only in the gap of     *)
(* reconcile, promised money is never withdrawn, the withdrawals implement *)
(* the abstract transfers, the items agree with the ledger, and no other   *)
(* money is lost or made.                                                  *)
(***************************************************************************)
EXTENDS Payout, TotalsProofs

\* A batch is ordered before it is queued, prepared before it is posted,
\* posted before it is recorded, recorded before it is sent, and sent before
\* the network knows it.
StagesInOrder ==
  \A b \in Batches :
    /\ tx[b] # NoTx => order[b] # NoOrder
    /\ group[b] # {} => tx[b] # NoTx /\ "submit" \in group[b]
    /\ item[b] # "none" => group[b] # {}
    /\ b \in sent => item[b] # "none"
    /\ chain[b] # "absent" => b \in sent

\* A waiting batch is ordered and not prepared, and waits once.
QueueInv ==
  /\ \A i \in 1 .. Len(queue) :
       queue[i] # "resume" => order[queue[i]] # NoOrder /\ tx[queue[i]] = NoTx
  /\ \A i, j \in 1 .. Len(queue) :
       queue[i] = queue[j] /\ queue[i] # "resume" => i = j

\* How far the batch of the running job has come.
JobInv ==
  /\ \A b \in job.todo : item[b] # "none"
  /\ job.pc # "idle" => job.batch \in Batches /\ order[job.batch] # NoOrder
  /\ job.pc = "prepare" =>
       /\ tx[job.batch] = NoTx
       /\ \A i \in 1 .. Len(queue) : queue[i] # job.batch
  /\ job.pc = "submit" => tx[job.batch] # NoTx /\ group[job.batch] = {}
  /\ job.pc \in {"send", "ask", "answer"} => item[job.batch] # "none"
  /\ job.pc = "ask" => job.polls >= 1

\* An answer that was found stays true...
FoundInv ==
  job.pc = "answer" /\ job.found # "absent" => chain[job.batch] = job.found

\* ... and "not found" stays true from the deadline on, if it was told then.
AskedInv ==
  job.pc = "answer" =>
    /\ job.asked <= now
    /\ job.found = "absent" =>
         chain[job.batch] = "absent" \/ job.asked <= tx[job.batch].maxTime

\* A batch is refunded only when the network can no longer begin to pay it.
RefundInv ==
  \A b \in Batches :
    "reversal" \in group[b] =>
      chain[b] = "failed" \/ now > tx[b].maxTime

SettleInv == \A b \in Batches : "settled" \in group[b] => chain[b] = "success"

\* The invariant: the stages, and what the answers of the network are worth.
BaseInv == TypeOK /\ StagesInOrder /\ QueueInv /\ JobInv /\ PromiseKept
IInv    == BaseInv /\ FoundInv /\ AskedInv /\ RefundInv

-----------------------------------------------------------------------------
(* Facts about jobs *)

LEMMA IdleIsJob == Idle \in Job
BY DEF Idle, Job

LEMMA AskAboutIsJob ==
  ASSUME NEW b \in Batches, NEW rest \in SUBSET Batches
  PROVE  /\ AskAbout(b, rest) \in Job
         /\ AskAbout(b, rest).pc = "ask"
         /\ AskAbout(b, rest).batch = b
         /\ AskAbout(b, rest).polls = 1
         /\ AskAbout(b, rest).todo = rest
BY DEF AskAbout, Idle, Job

\* The amount and the account of an ordered batch.
LEMMA OrderedBatch ==
  ASSUME TypeOK, NEW b \in Batches, order[b] # NoOrder
  PROVE  /\ order[b].payee \in Payees
         /\ AccountFor(b) \in Accounts
         /\ AmountOf(b) \in Nat /\ AmountOf(b) \in Amounts
BY PayeesAssumption DEF TypeOK, Order, AccountFor, AmountOf

\* What a job does after a question: it ends, or asks one that was asked
\* before or is left to ask.
LEMMA ResumeWithJob ==
  ASSUME TypeOK, NEW todo \in SUBSET Batches, ResumeWith(todo)
  PROVE  /\ job' \in Job
         /\ busy' = busy
         /\ \/ job' = Idle
            \/ /\ job'.pc = "ask" /\ job'.polls = 1
               /\ job'.batch \in todo /\ job'.todo \subseteq todo
<1>1. CASE todo = {}
  BY <1>1, IdleIsJob DEF ResumeWith
<1>2. CASE todo # {}
  <2>1. PICK b \in todo : job' = AskAbout(b, todo \ {b})
    BY <1>2 DEF ResumeWith
  <2>2. todo \ {b} \in SUBSET Batches /\ b \in Batches
    OBVIOUS
  <2>3. QED
    BY <2>1, <2>2, AskAboutIsJob DEF ResumeWith
<1>3. QED
  BY <1>1, <1>2

LEMMA GoOnJob ==
  ASSUME TypeOK, JobInv, job.pc \in {"ask", "answer"}, NEW left \in Nat, GoOn(left)
  PROVE  /\ job' \in Job
         /\ busy' \subseteq Payees
         /\ \/ job' = Idle
            \/ /\ job'.pc = "ask" /\ job'.polls >= 1
               /\ job'.batch \in job.todo \cup {job.batch}
               /\ job'.todo \subseteq job.todo
<1>1. CASE job.kind = "resume"
  <2>1. job.todo \in SUBSET Batches /\ ResumeWith(job.todo)
    BY <1>1 DEF GoOn, TypeOK, Job
  <2>2. QED
    BY <2>1, ResumeWithJob DEF TypeOK
<1>2. CASE job.kind # "resume" /\ left = 0
  BY <1>2, IdleIsJob DEF GoOn, Finish, TypeOK
<1>3. CASE job.kind # "resume" /\ left # 0
  <2>1. job' = [job EXCEPT !.pc = "ask", !.polls = left] /\ busy' = busy
    BY <1>3 DEF GoOn
  <2>2. job \in Job /\ busy \subseteq Payees
    BY DEF TypeOK
  <2>3. job' \in Job
    BY <2>1, <2>2 DEF Job
  <2>4. /\ job'.pc = "ask" /\ job'.polls = left
        /\ job'.batch = job.batch /\ job'.todo = job.todo
    BY <2>1, <2>2 DEF Job
  <2>5. left >= 1
    BY <1>3
  <2>6. QED
    BY <2>1, <2>2, <2>3, <2>4, <2>5
<1>4. QED
  BY <1>1, <1>2, <1>3

-----------------------------------------------------------------------------
(* The queue *)

LEMMA QueueAppended ==
  ASSUME TypeOK, NEW e \in Batches \cup {"resume"}, queue' = Append(queue, e)
  PROVE  /\ queue' \in Seq(Batches \cup {"resume"})
         /\ Len(queue') = Len(queue) + 1
         /\ \A i \in 1 .. Len(queue) : queue'[i] = queue[i]
         /\ queue'[Len(queue) + 1] = e
BY DEF TypeOK

LEMMA QueueTaken ==
  ASSUME TypeOK, queue # <<>>, queue' = Tail(queue)
  PROVE  /\ queue' \in Seq(Batches \cup {"resume"})
         /\ Len(queue') = Len(queue) - 1
         /\ \A i \in 1 .. Len(queue') : queue'[i] = queue[i + 1]
         /\ Head(queue) = queue[1] /\ 1 \in 1 .. Len(queue)
         /\ queue[1] \in Batches \cup {"resume"}
BY DEF TypeOK

-----------------------------------------------------------------------------
(* The stages *)

LEMMA BaseInvInit == Init => BaseInv
<1>1. SUFFICES ASSUME Init PROVE BaseInv
  OBVIOUS
<1>2. TypeOK
  <2>1. queue \in Seq(Batches \cup {"resume"})
    BY <1>1 DEF Init
  <2>2. QED
    BY <1>1, <2>1, IdleIsJob DEF Init, TypeOK
<1>3. QED
  BY <1>1, <1>2 DEF Init, BaseInv, StagesInOrder, QueueInv, JobInv, PromiseKept, Idle

\* Credit, Reserve, Charge and Lapse touch balances only.
LEMMA BaseInvEnvironment == BaseInv /\ Environment => BaseInv'
<1>1. SUFFICES ASSUME BaseInv, Environment PROVE BaseInv'
  OBVIOUS
<1>2. PICK x \in Amounts :
        \/ \E a \in Accounts : Credit(a, x)
        \/ \E a \in Advertisers : Reserve(a, x) \/ Charge(a, x) \/ Lapse(a, x)
  BY <1>1 DEF Environment
<1>3. x \in Nat
  BY PayeesAssumption
<1>4. Advertisers \subseteq Accounts
  BY PayeesAssumption
<1>5. UNCHANGED <<now, group, item, order, tx, server, network, crashes>>
  BY <1>2 DEF Credit, Reserve, Charge, Lapse
<1>6. balance' \in [Accounts -> Nat] /\ reserved' \in [Accounts -> Nat]
      /\ funded' \in Int /\ PromiseKept'
  <2>1. CASE \E a \in Accounts : Credit(a, x)
    BY <2>1, <1>1, <1>3 DEF Credit, BaseInv, TypeOK, PromiseKept
  <2>2. CASE \E a \in Advertisers : Reserve(a, x)
    BY <2>2, <1>1, <1>3, <1>4 DEF Reserve, Spendable, BaseInv, TypeOK, PromiseKept
  <2>3. CASE \E a \in Advertisers : Charge(a, x)
    BY <2>3, <1>1, <1>3, <1>4 DEF Charge, BaseInv, TypeOK, PromiseKept
  <2>4. CASE \E a \in Advertisers : Lapse(a, x)
    BY <2>4, <1>1, <1>3, <1>4 DEF Lapse, BaseInv, TypeOK, PromiseKept
  <2>5. QED
    BY <1>2, <2>1, <2>2, <2>3, <2>4
<1>7. TypeOK'
  BY <1>1, <1>5, <1>6 DEF BaseInv, TypeOK, server, network
<1>8. StagesInOrder' /\ QueueInv' /\ JobInv'
  BY <1>1, <1>5 DEF BaseInv, StagesInOrder, QueueInv, JobInv, server, network
<1>9. QED
  BY <1>6, <1>7, <1>8 DEF BaseInv

\* Requests and the timer only add to the queue.
LEMMA BaseInvWithdraw ==
  ASSUME BaseInv, NEW b \in Batches, NEW e \in Payees, NEW x \in Amounts,
         Withdraw(b, e, x)
  PROVE  BaseInv'
<1>1. /\ order[b] = NoOrder
      /\ order' = [order EXCEPT ![b] = [payee |-> e, amount |-> x]]
      /\ busy' = busy \cup {e}
      /\ queue' = Append(queue, b)
      /\ UNCHANGED <<now, balance, reserved, funded, group, item, tx, job,
                     sent, chain, seq, crashes>>
  BY DEF Withdraw, books, network
<1>2. TypeOK /\ StagesInOrder /\ QueueInv /\ JobInv /\ PromiseKept
  BY DEF BaseInv
<1>3. x \in Nat
  BY PayeesAssumption
<1>4. /\ queue' \in Seq(Batches \cup {"resume"})
      /\ Len(queue') = Len(queue) + 1
      /\ \A i \in 1 .. Len(queue) : queue'[i] = queue[i]
      /\ queue'[Len(queue) + 1] = b
  BY <1>1, <1>2, QueueAppended
<1>5. [payee |-> e, amount |-> x] \in Order /\ [payee |-> e, amount |-> x] # NoOrder
  BY <1>3 DEF Order, NoOrder
<1>6. TypeOK'
  BY <1>1, <1>2, <1>4, <1>5 DEF TypeOK
<1>7. \A c \in Batches : order[c] # NoOrder => order'[c] # NoOrder
  BY <1>1, <1>2, <1>5 DEF TypeOK
<1>8. StagesInOrder'
  BY <1>1, <1>2, <1>7 DEF StagesInOrder
<1>9. order'[b] # NoOrder /\ tx[b] = NoTx
  BY <1>1, <1>2, <1>5 DEF StagesInOrder, TypeOK
<1>10. \A i \in 1 .. Len(queue) : queue[i] # b
  BY <1>1, <1>2, PayeesAssumption DEF QueueInv
<1>11. QueueInv'
  <2>1. Len(queue) \in Nat
    BY <1>2 DEF TypeOK
  <2>2. \A i \in 1 .. Len(queue') : i \in 1 .. Len(queue) \/ i = Len(queue) + 1
    BY <2>1, <1>4
  <2>3. \A i \in 1 .. Len(queue) : queue[i] # "resume" => queue[i] \in Batches
    BY <1>2 DEF TypeOK
  <2>4. ASSUME NEW i \in 1 .. Len(queue'), queue'[i] # "resume"
        PROVE  order'[queue'[i]] # NoOrder /\ tx'[queue'[i]] = NoTx
    BY <2>2, <2>3, <2>4, <1>1, <1>2, <1>4, <1>7, <1>9 DEF QueueInv
  <2>5. ASSUME NEW i \in 1 .. Len(queue'), NEW j \in 1 .. Len(queue'),
               queue'[i] = queue'[j], queue'[i] # "resume"
        PROVE  i = j
    BY <2>2, <2>5, <1>2, <1>4, <1>10 DEF QueueInv
  <2>6. QED
    BY <2>4, <2>5 DEF QueueInv
<1>12. JobInv'
  <2>1. job.pc = "prepare" => job.batch # b
    BY <1>1, <1>2 DEF JobInv
  <2>2. job.pc = "prepare" => \A i \in 1 .. Len(queue') : queue'[i] # job.batch
    <3>1. Len(queue) \in Nat
      BY <1>2 DEF TypeOK
    <3>2. \A i \in 1 .. Len(queue') : i \in 1 .. Len(queue) \/ i = Len(queue) + 1
      BY <3>1, <1>4
    <3>3. QED
      BY <2>1, <3>2, <1>2, <1>4 DEF JobInv
  <2>3. QED
    BY <2>2, <1>1, <1>2, <1>7 DEF JobInv
<1>13. PromiseKept'
  BY <1>1, <1>2 DEF PromiseKept
<1>14. QED
  BY <1>6, <1>8, <1>11, <1>12, <1>13 DEF BaseInv

LEMMA BaseInvResumeTimer == BaseInv /\ ResumeTimer => BaseInv'
<1>1. SUFFICES ASSUME BaseInv, ResumeTimer PROVE BaseInv'
  OBVIOUS
<1>2. /\ queue' = Append(queue, "resume")
      /\ UNCHANGED <<now, balance, reserved, funded, group, item, order, tx, busy,
                     job, sent, chain, seq, crashes>>
  BY <1>1 DEF ResumeTimer, books, network
<1>3. TypeOK /\ StagesInOrder /\ QueueInv /\ JobInv /\ PromiseKept
  BY <1>1 DEF BaseInv
<1>4. /\ queue' \in Seq(Batches \cup {"resume"})
      /\ Len(queue') = Len(queue) + 1
      /\ \A i \in 1 .. Len(queue) : queue'[i] = queue[i]
      /\ queue'[Len(queue) + 1] = "resume"
  BY <1>2, <1>3, QueueAppended
<1>5. Len(queue) \in Nat
  BY <1>3 DEF TypeOK
<1>6. \A i \in 1 .. Len(queue') : i \in 1 .. Len(queue) \/ queue'[i] = "resume"
  BY <1>4, <1>5
<1>7. TypeOK'
  BY <1>2, <1>3, <1>4 DEF TypeOK
<1>8. StagesInOrder' /\ PromiseKept'
  BY <1>2, <1>3 DEF StagesInOrder, PromiseKept
<1>9. QueueInv'
  BY <1>2, <1>3, <1>4, <1>6 DEF QueueInv
<1>10. JobInv'
  <2>1. job.pc = "prepare" => job.batch \in Batches
    BY <1>3 DEF JobInv
  <2>2. QED
    BY <2>1, <1>2, <1>3, <1>4, <1>6, PayeesAssumption DEF JobInv
<1>11. QED
  BY <1>7, <1>8, <1>9, <1>10 DEF BaseInv

-----------------------------------------------------------------------------
(* The steps of a job *)

LEMMA FinishJob ==
  ASSUME TypeOK, Finish
  PROVE  job' \in Job /\ busy' \subseteq Payees /\ JobInv'
<1>1. job' = Idle /\ busy' \subseteq Payees
  BY DEF Finish, TypeOK
<1>2. QED
  BY <1>1, IdleIsJob DEF JobInv, Idle

LEMMA RebootJob ==
  ASSUME Reboot, crashes \in Nat
  PROVE  /\ job' \in Job /\ busy' \subseteq Payees /\ crashes' \in Nat
         /\ queue' \in Seq(Batches \cup {"resume"})
         /\ QueueInv' /\ JobInv'
<1>1. job' = Idle /\ busy' = {} /\ queue' = <<"resume">> /\ crashes' = crashes + 1
  BY DEF Reboot
<1>2. QED
  BY <1>1, IdleIsJob DEF JobInv, QueueInv, Idle

LEMMA RecordedBatch ==
  ASSUME StagesInOrder, NEW b \in Batches, item[b] # "none"
  PROVE  group[b] # {} /\ tx[b] # NoTx /\ order[b] # NoOrder
BY DEF StagesInOrder

LEMMA GoOnKeepsJobInv ==
  ASSUME BaseInv, job.pc \in {"ask", "answer"}, NEW left \in Nat, GoOn(left),
         order' = order,
         \A b \in Batches : item[b] # "none" => item'[b] # "none"
  PROVE  job' \in Job /\ busy' \subseteq Payees /\ JobInv'
<1>1. TypeOK /\ JobInv /\ StagesInOrder
  BY DEF BaseInv
<1>2. /\ job' \in Job /\ busy' \subseteq Payees
      /\ \/ job' = Idle
         \/ /\ job'.pc = "ask" /\ job'.polls >= 1
            /\ job'.batch \in job.todo \cup {job.batch}
            /\ job'.todo \subseteq job.todo
  BY <1>1, GoOnJob
<1>3. job.todo \subseteq Batches /\ job.batch \in Batches
  BY <1>1 DEF TypeOK, Job, JobInv
<1>4. \A b \in job.todo \cup {job.batch} : item[b] # "none" /\ order[b] # NoOrder
  BY <1>1, <1>3, RecordedBatch DEF JobInv
<1>5. CASE job' = Idle
  BY <1>2, <1>5 DEF JobInv, Idle
<1>6. CASE job' # Idle
  BY <1>2, <1>3, <1>4, <1>6 DEF JobInv
<1>7. QED
  BY <1>2, <1>5, <1>6

LEMMA BaseInvStartWithdraw == BaseInv /\ StartWithdraw => BaseInv'
<1>1. SUFFICES ASSUME BaseInv, StartWithdraw PROVE BaseInv'
  OBVIOUS
<1> DEFINE b == Head(queue)
<1>2. /\ job.pc = "idle" /\ queue # <<>> /\ b # "resume"
      /\ queue' = Tail(queue)
      /\ UNCHANGED <<now, balance, reserved, funded, group, item, order, tx,
                     sent, chain, seq, crashes>>
  BY <1>1 DEF StartWithdraw, books, network
<1>3. TypeOK /\ StagesInOrder /\ QueueInv /\ JobInv /\ PromiseKept
  BY <1>1 DEF BaseInv
<1>4. /\ queue' \in Seq(Batches \cup {"resume"})
      /\ Len(queue') = Len(queue) - 1
      /\ \A i \in 1 .. Len(queue') : queue'[i] = queue[i + 1]
      /\ b = queue[1] /\ 1 \in 1 .. Len(queue)
      /\ b \in Batches
  BY <1>2, <1>3, QueueTaken
<1>5. Len(queue) \in Nat
  BY <1>3 DEF TypeOK
<1>6. QueueInv' /\ (\A i \in 1 .. Len(queue') : queue'[i] # b)
  BY <1>2, <1>3, <1>4, <1>5 DEF QueueInv
<1>7. order[b] # NoOrder /\ tx[b] = NoTx
  BY <1>2, <1>3, <1>4 DEF QueueInv
<1>8. job' \in Job /\ busy' \subseteq Payees /\ JobInv'
  <2>1. CASE AmountOf(b) > Spendable(AccountFor(b))
    <3>1. job' = job /\ busy' \subseteq Payees
      BY <1>1, <1>3, <2>1 DEF StartWithdraw, TypeOK
    <3>2. QED
      BY <3>1, <1>2, <1>3 DEF JobInv, TypeOK
  <2>2. CASE ~(AmountOf(b) > Spendable(AccountFor(b)))
    <3>1. job' = [Idle EXCEPT !.pc = "prepare", !.kind = "withdraw", !.batch = b]
          /\ busy' = busy
      BY <1>1, <2>2 DEF StartWithdraw
    <3>2. job' \in Job /\ job'.pc = "prepare" /\ job'.batch = b /\ job'.todo = {}
      BY <3>1, <1>4 DEF Idle, Job
    <3>3. QED
      BY <3>1, <3>2, <1>2, <1>3, <1>4, <1>6, <1>7 DEF JobInv, TypeOK
  <2>3. QED
    BY <2>1, <2>2
<1>9. TypeOK'
  BY <1>2, <1>3, <1>4, <1>8 DEF TypeOK
<1>10. StagesInOrder' /\ PromiseKept'
  BY <1>2, <1>3 DEF StagesInOrder, PromiseKept
<1>11. QED
  BY <1>6, <1>8, <1>9, <1>10 DEF BaseInv

LEMMA BaseInvStartResume == BaseInv /\ StartResume => BaseInv'
<1>1. SUFFICES ASSUME BaseInv, StartResume PROVE BaseInv'
  OBVIOUS
<1>2. /\ job.pc = "idle" /\ queue # <<>>
      /\ queue' = Tail(queue)
      /\ ResumeWith(Unresolved)
      /\ UNCHANGED <<now, balance, reserved, funded, group, item, order, tx,
                     sent, chain, seq, crashes>>
  BY <1>1 DEF StartResume, books, network
<1>3. TypeOK /\ StagesInOrder /\ QueueInv /\ JobInv /\ PromiseKept
  BY <1>1 DEF BaseInv
<1>4. /\ queue' \in Seq(Batches \cup {"resume"})
      /\ Len(queue') = Len(queue) - 1
      /\ \A i \in 1 .. Len(queue') : queue'[i] = queue[i + 1]
  BY <1>2, <1>3, QueueTaken
<1>5. Len(queue) \in Nat
  BY <1>3 DEF TypeOK
<1>6. QueueInv'
  BY <1>2, <1>3, <1>4, <1>5 DEF QueueInv
<1>7. Unresolved \in SUBSET Batches /\ \A b \in Unresolved : item[b] # "none"
  BY DEF Unresolved
<1>8. /\ job' \in Job /\ busy' = busy
      /\ \/ job' = Idle
         \/ /\ job'.pc = "ask" /\ job'.polls = 1
            /\ job'.batch \in Unresolved /\ job'.todo \subseteq Unresolved
  BY <1>2, <1>3, <1>7, ResumeWithJob
<1>9. \A b \in Unresolved : b \in Batches /\ order[b] # NoOrder
  BY <1>3, <1>7, RecordedBatch
<1>10. JobInv'
  <2>1. CASE job' = Idle
    BY <2>1 DEF JobInv, Idle
  <2>2. CASE job' # Idle
    BY <2>2, <1>2, <1>7, <1>8, <1>9 DEF JobInv
  <2>3. QED
    BY <2>1, <2>2
<1>11. TypeOK'
  BY <1>2, <1>3, <1>4, <1>8 DEF TypeOK
<1>12. StagesInOrder' /\ PromiseKept'
  BY <1>2, <1>3 DEF StagesInOrder, PromiseKept
<1>13. QED
  BY <1>6, <1>10, <1>11, <1>12 DEF BaseInv

LEMMA BaseInvPrepare == BaseInv /\ Prepare => BaseInv'
<1>1. SUFFICES ASSUME BaseInv, Prepare PROVE BaseInv'
  OBVIOUS
<1> DEFINE b == job.batch
<1>2. /\ job.pc = "prepare"
      /\ tx' = [tx EXCEPT ![b] = [seq |-> seq + 1, maxTime |-> now + TxTimeout]]
      /\ job' = [job EXCEPT !.pc = "submit"]
      /\ UNCHANGED <<now, balance, reserved, funded, group, item, order, queue, busy,
                     sent, chain, seq, crashes>>
  BY <1>1 DEF Prepare, books, network
<1>3. TypeOK /\ StagesInOrder /\ QueueInv /\ JobInv /\ PromiseKept
  BY <1>1 DEF BaseInv
<1>4. /\ b \in Batches /\ tx[b] = NoTx /\ order[b] # NoOrder
      /\ \A i \in 1 .. Len(queue) : queue[i] # b
  BY <1>2, <1>3 DEF JobInv
<1>5. [seq |-> seq + 1, maxTime |-> now + TxTimeout] \in Tx
      /\ [seq |-> seq + 1, maxTime |-> now + TxTimeout] # NoTx
  <2>1. TxTimeout \in Nat
    BY BoundsAssumption
  <2>2. seq + 1 \in Nat /\ now + TxTimeout \in Nat
    BY <1>3, <2>1 DEF TypeOK
  <2>3. [seq |-> seq + 1, maxTime |-> now + TxTimeout] \in Tx
    BY <2>2 DEF Tx
  <2>4. [seq |-> seq + 1, maxTime |-> now + TxTimeout] # NoTx
    BY DEF NoTx
  <2>5. QED
    BY <2>3, <2>4
<1>6. tx' \in [Batches -> Tx \cup {NoTx}] /\ tx'[b] # NoTx
      /\ \A c \in Batches : c # b => tx'[c] = tx[c]
  BY <1>2, <1>3, <1>4, <1>5 DEF TypeOK
<1>7. /\ job' \in Job /\ job'.pc = "submit"
      /\ job'.batch = b /\ job'.todo = job.todo
  BY <1>2, <1>3 DEF TypeOK, Job
<1>8. TypeOK'
  BY <1>2, <1>3, <1>6, <1>7 DEF TypeOK
<1>9. StagesInOrder'
  BY <1>2, <1>3, <1>4, <1>6 DEF StagesInOrder
<1>10. QueueInv'
  <2>1. \A i \in 1 .. Len(queue) : queue[i] # "resume" => queue[i] \in Batches
    BY <1>3 DEF TypeOK
  <2>2. QED
    BY <2>1, <1>2, <1>3, <1>4, <1>6 DEF QueueInv
<1>11. group[b] = {}
  BY <1>3, <1>4 DEF StagesInOrder
<1>12. JobInv'
  BY <1>2, <1>3, <1>4, <1>6, <1>7, <1>11 DEF JobInv
<1>13. PromiseKept'
  BY <1>2, <1>3 DEF PromiseKept
<1>14. QED
  BY <1>8, <1>9, <1>10, <1>12, <1>13 DEF BaseInv

\* PayoutSubmit takes spendable money out of the account of the batch.
LEMMA PayoutSubmitEffect ==
  ASSUME BaseInv, NEW b \in Batches, order[b] # NoOrder,
         AmountOf(b) <= Spendable(AccountFor(b)), PayoutSubmit(b)
  PROVE  /\ balance' \in [Accounts -> Nat]
         /\ \A a \in Accounts : reserved[a] <= balance'[a]
         /\ group' \in [Batches -> SUBSET {"submit", "settled", "reversal"}]
         /\ group'[b] = group[b] \cup {"submit"}
         /\ \A c \in Batches : c # b => group'[c] = group[c]
<1>1. TypeOK /\ PromiseKept
  BY DEF BaseInv
<1> DEFINE a == AccountFor(b)
<1> DEFINE x == AmountOf(b)
<1>2. a \in Accounts /\ x \in Nat /\ balance[a] \in Nat /\ reserved[a] \in Nat
  BY <1>1, OrderedBatch DEF TypeOK
<1>3. x \in Amounts /\ x # 0
  BY <1>1, OrderedBatch, PayeesAssumption
<1>4. balance[a] >= x /\ reserved[a] <= balance[a] - x
  BY <1>2, <1>3 DEF Spendable
<1>5. balance' = [balance EXCEPT ![a] = @ - x]
      /\ group' = [group EXCEPT ![b] = @ \cup {"submit"}]
  BY DEF PayoutSubmit
<1> HIDE DEF a, x
<1>6. balance' \in [Accounts -> Nat]
  BY <1>1, <1>2, <1>4, <1>5 DEF TypeOK
<1>7. \A c \in Accounts : reserved[c] <= balance'[c]
  BY <1>1, <1>2, <1>4, <1>5 DEF TypeOK, PromiseKept
<1>8. QED
  BY <1>1, <1>5, <1>6, <1>7 DEF TypeOK

LEMMA BaseInvSubmit == BaseInv /\ Submit => BaseInv'
<1>1. SUFFICES ASSUME BaseInv, Submit PROVE BaseInv'
  OBVIOUS
<1> DEFINE b == job.batch
<1>2. /\ job.pc = "submit"
      /\ AmountOf(b) <= Spendable(AccountFor(b))
      /\ PayoutSubmit(b)
      /\ item' = [item EXCEPT ![b] = "submitted"]
      /\ job' = [job EXCEPT !.pc = "send"]
      /\ UNCHANGED <<now, reserved, funded, order, tx, queue, busy,
                     sent, chain, seq, crashes>>
  BY <1>1 DEF Submit, network
<1>3. TypeOK /\ StagesInOrder /\ QueueInv /\ JobInv /\ PromiseKept
  BY <1>1 DEF BaseInv
<1>4. b \in Batches /\ order[b] # NoOrder /\ tx[b] # NoTx /\ group[b] = {}
  BY <1>2, <1>3 DEF JobInv
<1>5. /\ balance' \in [Accounts -> Nat]
      /\ \A a \in Accounts : reserved[a] <= balance'[a]
      /\ group' \in [Batches -> SUBSET {"submit", "settled", "reversal"}]
      /\ group'[b] = group[b] \cup {"submit"}
      /\ \A c \in Batches : c # b => group'[c] = group[c]
  BY <1>1, <1>2, <1>4, PayoutSubmitEffect
<1>6. /\ job' \in Job /\ job'.pc = "send"
      /\ job'.batch = b /\ job'.todo = job.todo
  BY <1>2, <1>3 DEF TypeOK, Job
<1>7. /\ item' \in [Batches -> {"none", "submitted", "settled", "failed"}]
      /\ item'[b] = "submitted"
      /\ \A c \in Batches : c # b => item'[c] = item[c]
  BY <1>2, <1>3, <1>4 DEF TypeOK
<1>8. TypeOK'
  BY <1>2, <1>3, <1>5, <1>6, <1>7 DEF TypeOK
<1>9. StagesInOrder'
  BY <1>2, <1>3, <1>4, <1>5, <1>7 DEF StagesInOrder
<1>10. QueueInv'
  BY <1>2, <1>3 DEF QueueInv
<1>11. JobInv'
  <2>1. job.todo \subseteq Batches
    BY <1>3 DEF TypeOK, Job
  <2>2. QED
    BY <2>1, <1>2, <1>3, <1>4, <1>6, <1>7 DEF JobInv
<1>12. PromiseKept'
  BY <1>2, <1>5 DEF PromiseKept
<1>13. QED
  BY <1>8, <1>9, <1>10, <1>11, <1>12 DEF BaseInv

LEMMA BaseInvSubmitCrash == BaseInv /\ SubmitCrash => BaseInv'
<1>1. SUFFICES ASSUME BaseInv, SubmitCrash PROVE BaseInv'
  OBVIOUS
<1> DEFINE b == job.batch
<1>2. /\ job.pc = "submit"
      /\ AmountOf(b) <= Spendable(AccountFor(b))
      /\ PayoutSubmit(b)
      /\ Reboot
      /\ UNCHANGED <<now, reserved, funded, item, order, tx, sent, chain, seq>>
  BY <1>1 DEF SubmitCrash, network
<1>3. TypeOK /\ StagesInOrder /\ QueueInv /\ JobInv /\ PromiseKept
  BY <1>1 DEF BaseInv
<1>4. b \in Batches /\ order[b] # NoOrder /\ tx[b] # NoTx /\ group[b] = {}
  BY <1>2, <1>3 DEF JobInv
<1>5. /\ balance' \in [Accounts -> Nat]
      /\ \A a \in Accounts : reserved[a] <= balance'[a]
      /\ group' \in [Batches -> SUBSET {"submit", "settled", "reversal"}]
      /\ group'[b] = group[b] \cup {"submit"}
      /\ \A c \in Batches : c # b => group'[c] = group[c]
  BY <1>1, <1>2, <1>4, PayoutSubmitEffect
<1>6. /\ job' \in Job /\ busy' \subseteq Payees /\ crashes' \in Nat
      /\ queue' \in Seq(Batches \cup {"resume"})
      /\ QueueInv' /\ JobInv'
  BY <1>2, <1>3, RebootJob DEF TypeOK
<1>7. TypeOK'
  BY <1>2, <1>3, <1>5, <1>6 DEF TypeOK
<1>8. StagesInOrder'
  BY <1>2, <1>3, <1>4, <1>5 DEF StagesInOrder
<1>9. PromiseKept'
  BY <1>2, <1>5 DEF PromiseKept
<1>10. QED
  BY <1>6, <1>7, <1>8, <1>9 DEF BaseInv

\* A withdrawal that ends without having written anything.
LEMMA BaseInvRefused == BaseInv /\ (PrepareFails \/ SubmitRefused) => BaseInv'
<1>1. SUFFICES ASSUME BaseInv, PrepareFails \/ SubmitRefused PROVE BaseInv'
  OBVIOUS
<1>2. /\ Finish
      /\ UNCHANGED <<now, balance, reserved, funded, group, item, order, tx, queue,
                     sent, chain, seq, crashes>>
  BY <1>1 DEF PrepareFails, SubmitRefused, books, network
<1>3. TypeOK /\ StagesInOrder /\ QueueInv /\ PromiseKept
  BY <1>1 DEF BaseInv
<1>4. job' \in Job /\ busy' \subseteq Payees /\ JobInv'
  BY <1>2, <1>3, FinishJob
<1>5. TypeOK'
  BY <1>2, <1>3, <1>4 DEF TypeOK
<1>6. StagesInOrder' /\ QueueInv' /\ PromiseKept'
  BY <1>2, <1>3 DEF StagesInOrder, QueueInv, PromiseKept
<1>7. QED
  BY <1>4, <1>5, <1>6 DEF BaseInv

LEMMA BaseInvSend == BaseInv /\ Send => BaseInv'
<1>1. SUFFICES ASSUME BaseInv, Send PROVE BaseInv'
  OBVIOUS
<1> DEFINE b == job.batch
<1>2. /\ job.pc = "send"
      /\ sent' \in {sent, sent \cup {b}}
      /\ job' = [job EXCEPT !.pc = "ask", !.polls = ConfirmPolls + 1]
      /\ UNCHANGED <<now, balance, reserved, funded, group, item, order, tx, queue,
                     busy, chain, seq, crashes>>
  BY <1>1 DEF Send, books
<1>3. TypeOK /\ StagesInOrder /\ QueueInv /\ JobInv /\ PromiseKept
  BY <1>1 DEF BaseInv
<1>4. b \in Batches /\ order[b] # NoOrder /\ item[b] # "none"
  BY <1>2, <1>3 DEF JobInv
<1>5. ConfirmPolls \in Nat
  BY BoundsAssumption
<1>6. /\ job' \in Job /\ job'.pc = "ask" /\ job'.polls = ConfirmPolls + 1
      /\ job'.batch = b /\ job'.todo = job.todo
  <2>1. job \in Job /\ ConfirmPolls + 1 \in Nat
    BY <1>3, <1>5 DEF TypeOK
  <2>2. job' \in Job
    BY <1>2, <2>1 DEF Job
  <2>3. QED
    BY <1>2, <2>1, <2>2 DEF Job
<1>7. TypeOK'
  BY <1>2, <1>3, <1>4, <1>6 DEF TypeOK
<1>8. StagesInOrder'
  BY <1>2, <1>3, <1>4 DEF StagesInOrder
<1>9. JobInv'
  BY <1>2, <1>3, <1>4, <1>5, <1>6 DEF JobInv
<1>10. QueueInv' /\ PromiseKept'
  BY <1>2, <1>3 DEF QueueInv, PromiseKept
<1>11. QED
  BY <1>7, <1>8, <1>9, <1>10 DEF BaseInv

LEMMA BaseInvAsk == ASSUME BaseInv, NEW b \in Batches, Ask(b) PROVE BaseInv'
<1>1. /\ job.pc = "ask" /\ job.batch = b
      /\ job' = [job EXCEPT !.pc = "answer", !.polls = @ - 1,
                            !.found = chain[b], !.asked = now]
      /\ UNCHANGED <<now, balance, reserved, funded, group, item, order, tx, queue,
                     busy, sent, chain, seq, crashes>>
  BY DEF Ask, books, network
<1>2. TypeOK /\ StagesInOrder /\ QueueInv /\ JobInv /\ PromiseKept
  BY DEF BaseInv
<1>3. order[b] # NoOrder /\ item[b] # "none" /\ job.polls >= 1
  BY <1>1, <1>2 DEF JobInv
<1>4. job.polls - 1 \in Nat /\ chain[b] \in {"absent", "success", "failed"} /\ now \in Nat
  BY <1>2, <1>3 DEF TypeOK, Job
<1>5. /\ job' \in Job /\ job'.pc = "answer"
      /\ job'.batch = b /\ job'.todo = job.todo
  BY <1>1, <1>2, <1>4 DEF TypeOK, Job
<1>6. TypeOK'
  BY <1>1, <1>2, <1>5 DEF TypeOK
<1>7. JobInv'
  BY <1>1, <1>2, <1>3, <1>5 DEF JobInv
<1>8. StagesInOrder' /\ QueueInv' /\ PromiseKept'
  BY <1>1, <1>2 DEF StagesInOrder, QueueInv, PromiseKept
<1>9. QED
  BY <1>6, <1>7, <1>8 DEF BaseInv

\* An undecided question writes nothing.
LEMMA BaseInvUndecided == BaseInv /\ (AskThrows \/ Pending) => BaseInv'
<1>1. SUFFICES ASSUME BaseInv, AskThrows \/ Pending PROVE BaseInv'
  OBVIOUS
<1>2. UNCHANGED <<now, balance, reserved, funded, group, item, order, tx, queue,
                  sent, chain, seq, crashes>>
  BY <1>1 DEF AskThrows, Pending, books, network
<1>3. TypeOK /\ StagesInOrder /\ QueueInv /\ JobInv /\ PromiseKept
  BY <1>1 DEF BaseInv
<1>4. job' \in Job /\ busy' \subseteq Payees /\ JobInv'
  <2>1. CASE Pending
    <3>1. job.pc = "answer" /\ GoOn(job.polls) /\ job.polls \in Nat
      BY <2>1, <1>3 DEF Pending, TypeOK, Job
    <3>2. QED
      BY <3>1, <1>1, <1>2, GoOnKeepsJobInv
  <2>2. CASE AskThrows /\ job.kind = "withdraw" /\ job.polls = ConfirmPolls + 1
    <3>1. Finish
      BY <2>2 DEF AskThrows
    <3>2. QED
      BY <3>1, <1>3, FinishJob
  <2>3. CASE AskThrows /\ ~(job.kind = "withdraw" /\ job.polls = ConfirmPolls + 1)
    <3>1. job.pc = "ask" /\ GoOn(job.polls - 1)
      BY <2>3 DEF AskThrows
    <3>2. job.polls - 1 \in Nat
      BY <3>1, <1>3 DEF TypeOK, Job, JobInv
    <3>3. QED
      BY <3>1, <3>2, <1>1, <1>2, GoOnKeepsJobInv
  <2>4. QED
    BY <1>1, <2>1, <2>2, <2>3
<1>5. TypeOK'
  BY <1>2, <1>3, <1>4 DEF TypeOK
<1>6. StagesInOrder' /\ QueueInv' /\ PromiseKept'
  BY <1>2, <1>3 DEF StagesInOrder, QueueInv, PromiseKept
<1>7. QED
  BY <1>4, <1>5, <1>6 DEF BaseInv

\* What the ledger and the items look like after a decided question.
DecidedBooks ==
  /\ balance' \in [Accounts -> Nat]
  /\ \A a \in Accounts : balance[a] <= balance'[a]
  /\ group' \in [Batches -> SUBSET {"submit", "settled", "reversal"}]
  /\ \A c \in Batches : group[c] \subseteq group'[c] /\ (group[c] = {} => group'[c] = {})
  /\ item' \in [Batches -> {"none", "submitted", "settled", "failed"}]
  /\ \A c \in Batches : item[c] = "none" <=> item'[c] = "none"

LEMMA MarkEffect ==
  ASSUME TypeOK, NEW b \in Batches, item[b] # "none", NEW s \in {"settled", "failed"},
         Mark(b, s)
  PROVE  /\ item' \in [Batches -> {"none", "submitted", "settled", "failed"}]
         /\ \A c \in Batches : item[c] = "none" <=> item'[c] = "none"
BY DEF Mark, TypeOK

LEMMA PostSettledEffect ==
  ASSUME TypeOK, NEW b \in Batches, group[b] # {}, PostSettled(b)
  PROVE  /\ group' \in [Batches -> SUBSET {"submit", "settled", "reversal"}]
         /\ \A c \in Batches : group[c] \subseteq group'[c]
                               /\ (group[c] = {} => group'[c] = {})
BY DEF PostSettled, TypeOK

LEMMA ReverseEffect ==
  ASSUME TypeOK, NEW b \in Batches, order[b] # NoOrder, group[b] # {}, Reverse(b)
  PROVE  /\ balance' \in [Accounts -> Nat]
         /\ \A a \in Accounts : balance[a] <= balance'[a]
         /\ group' \in [Batches -> SUBSET {"submit", "settled", "reversal"}]
         /\ \A c \in Batches : group[c] \subseteq group'[c]
                               /\ (group[c] = {} => group'[c] = {})
<1> DEFINE a == AccountFor(b)
<1> DEFINE x == AmountOf(b)
<1>1. a \in Accounts /\ x \in Nat
  BY OrderedBatch
<1>2. CASE "reversal" \in group[b]
  BY <1>2 DEF Reverse, TypeOK
<1>3. CASE "reversal" \notin group[b]
  <2>1. /\ balance' = [balance EXCEPT ![a] = @ + x]
        /\ group' = [group EXCEPT ![b] = @ \cup {"reversal"}]
    BY <1>3 DEF Reverse
  <2> HIDE DEF a, x
  <2>2. balance' \in [Accounts -> Nat]
    BY <1>1, <2>1 DEF TypeOK
  <2>3. \A c \in Accounts : balance[c] <= balance'[c]
    BY <1>1, <2>1 DEF TypeOK
  <2>4. QED
    BY <2>1, <2>2, <2>3 DEF TypeOK
<1>4. QED
  BY <1>2, <1>3

LEMMA DecidedKeepsTheRest ==
  ASSUME BaseInv, DecidedBooks,
         UNCHANGED <<now, reserved, funded, order, tx, sent, chain, seq>>
  PROVE  StagesInOrder' /\ PromiseKept'
<1>1. TypeOK /\ StagesInOrder /\ PromiseKept
  BY DEF BaseInv
<1>2. StagesInOrder'
  BY <1>1 DEF StagesInOrder, DecidedBooks
<1>3. \A a \in Accounts : reserved[a] <= balance'[a]
  BY <1>1 DEF PromiseKept, DecidedBooks, TypeOK
<1>4. QED
  BY <1>2, <1>3 DEF PromiseKept

\* Settle, Refund and their crashes.
LEMMA BaseInvDecided ==
  BaseInv /\ (Settle \/ Refund \/ SettleCrash \/ RefundCrash) => BaseInv'
<1>1. SUFFICES ASSUME BaseInv, Settle \/ Refund \/ SettleCrash \/ RefundCrash
               PROVE  BaseInv'
  OBVIOUS
<1> DEFINE b == job.batch
<1>2. job.pc = "answer"
      /\ UNCHANGED <<now, reserved, funded, order, tx, sent, chain, seq>>
  BY <1>1 DEF Settle, Refund, SettleCrash, RefundCrash, network
<1>3. TypeOK /\ StagesInOrder /\ QueueInv /\ JobInv /\ PromiseKept
  BY <1>1 DEF BaseInv
<1>4. b \in Batches /\ item[b] # "none" /\ order[b] # NoOrder /\ group[b] # {}
  BY <1>2, <1>3, RecordedBatch DEF JobInv
<1>5. DecidedBooks
  <2>1. CASE Settle
    <3>1. PostSettled(b) /\ Mark(b, "settled") /\ balance' = balance
      BY <2>1 DEF Settle
    <3>2. /\ balance' \in [Accounts -> Nat]
          /\ \A a \in Accounts : balance[a] <= balance'[a]
      BY <3>1, <1>3 DEF TypeOK
    <3>3. QED
      BY <3>1, <3>2, <1>3, <1>4, MarkEffect, PostSettledEffect DEF DecidedBooks
  <2>2. CASE Refund
    BY <2>2, <1>3, <1>4, MarkEffect, ReverseEffect DEF Refund, DecidedBooks
  <2>3. CASE SettleCrash
    <3>1. PostSettled(b) /\ balance' = balance /\ item' = item
      BY <2>3 DEF SettleCrash
    <3>2. /\ balance' \in [Accounts -> Nat]
          /\ \A a \in Accounts : balance[a] <= balance'[a]
          /\ item' \in [Batches -> {"none", "submitted", "settled", "failed"}]
      BY <3>1, <1>3 DEF TypeOK
    <3>3. QED
      BY <3>1, <3>2, <1>3, <1>4, PostSettledEffect DEF DecidedBooks
  <2>4. CASE RefundCrash
    BY <2>4, <1>3, <1>4, ReverseEffect DEF RefundCrash, DecidedBooks, TypeOK
  <2>5. QED
    BY <1>1, <2>1, <2>2, <2>3, <2>4
<1>6. StagesInOrder' /\ PromiseKept'
  BY <1>1, <1>2, <1>5, DecidedKeepsTheRest
<1>7. /\ job' \in Job /\ busy' \subseteq Payees /\ JobInv'
      /\ queue' \in Seq(Batches \cup {"resume"}) /\ QueueInv'
      /\ crashes' \in Nat
  <2>1. CASE Settle \/ Refund
    <3>1. GoOn(0) /\ queue' = queue /\ crashes' = crashes
      BY <2>1 DEF Settle, Refund, Decided
    <3>2. job' \in Job /\ busy' \subseteq Payees /\ JobInv'
      BY <3>1, <1>1, <1>2, <1>5, GoOnKeepsJobInv DEF DecidedBooks
    <3>3. QED
      BY <3>1, <3>2, <1>2, <1>3 DEF TypeOK, QueueInv
  <2>2. CASE SettleCrash \/ RefundCrash
    BY <2>2, <1>3, RebootJob DEF SettleCrash, RefundCrash, TypeOK
  <2>3. QED
    BY <1>1, <2>1, <2>2
<1>8. TypeOK'
  BY <1>2, <1>3, <1>5, <1>7 DEF TypeOK, DecidedBooks
<1>9. QED
  BY <1>6, <1>7, <1>8 DEF BaseInv

LEMMA BaseInvCrash == BaseInv /\ Crash => BaseInv'
<1>1. SUFFICES ASSUME BaseInv, Crash PROVE BaseInv'
  OBVIOUS
<1>2. /\ Reboot
      /\ UNCHANGED <<now, balance, reserved, funded, group, item, order, tx,
                     sent, chain, seq>>
  BY <1>1 DEF Crash, books, network
<1>3. TypeOK /\ StagesInOrder /\ PromiseKept
  BY <1>1 DEF BaseInv
<1>4. /\ job' \in Job /\ busy' \subseteq Payees /\ crashes' \in Nat
      /\ queue' \in Seq(Batches \cup {"resume"})
      /\ QueueInv' /\ JobInv'
  BY <1>2, <1>3, RebootJob DEF TypeOK
<1>5. TypeOK' /\ StagesInOrder' /\ PromiseKept'
  BY <1>2, <1>3, <1>4 DEF TypeOK, StagesInOrder, PromiseKept
<1>6. QED
  BY <1>4, <1>5 DEF BaseInv

LEMMA BaseInvInclude ==
  ASSUME BaseInv, NEW b \in Batches, NEW result \in {"success", "failed"},
         Include(b, result)
  PROVE  BaseInv'
<1>1. /\ b \in sent
      /\ chain' = [chain EXCEPT ![b] = result] /\ seq' = seq + 1
      /\ UNCHANGED <<now, balance, reserved, funded, group, item, order, tx, queue,
                     busy, job, sent, crashes>>
  BY DEF Include, books, server
<1>2. TypeOK /\ StagesInOrder /\ QueueInv /\ JobInv /\ PromiseKept
  BY DEF BaseInv
<1>3. TypeOK'
  BY <1>1, <1>2 DEF TypeOK
<1>4. StagesInOrder'
  BY <1>1, <1>2 DEF StagesInOrder, TypeOK
<1>5. QueueInv' /\ JobInv' /\ PromiseKept'
  BY <1>1, <1>2 DEF QueueInv, JobInv, PromiseKept
<1>6. QED
  BY <1>3, <1>4, <1>5 DEF BaseInv

\* Time passes, or nothing happens.
LEMMA BaseInvTick == BaseInv /\ (Tick \/ UNCHANGED vars) => BaseInv'
<1>1. SUFFICES ASSUME BaseInv, Tick \/ UNCHANGED vars PROVE BaseInv'
  OBVIOUS
<1>2. /\ now' \in {now, now + 1}
      /\ UNCHANGED <<balance, reserved, funded, group, item, order, tx, queue,
                     busy, job, sent, chain, seq, crashes>>
  BY <1>1 DEF Tick, vars, books, server, network
<1>3. QED
  BY <1>1, <1>2 DEF BaseInv, TypeOK, StagesInOrder, QueueInv, JobInv, PromiseKept

LEMMA BaseInvNext == BaseInv /\ [Next]_vars => BaseInv'
<1>1. SUFFICES ASSUME BaseInv, [Next]_vars PROVE BaseInv'
  OBVIOUS
<1>2. CASE Environment
  BY <1>1, <1>2, BaseInvEnvironment
<1>3. CASE Requests
  BY <1>1, <1>3, BaseInvWithdraw DEF Requests
<1>4. CASE ResumeTimer
  BY <1>1, <1>4, BaseInvResumeTimer
<1>5. CASE Step
  BY <1>1, <1>5, BaseInvStartWithdraw, BaseInvStartResume, BaseInvPrepare,
     BaseInvRefused, BaseInvSubmit, BaseInvSend, BaseInvUndecided, BaseInvDecided,
     BaseInvAsk
     DEF Step
<1>6. CASE Crashes
  BY <1>1, <1>6, BaseInvCrash, BaseInvSubmitCrash, BaseInvDecided DEF Crashes
<1>7. CASE Network
  BY <1>1, <1>7, BaseInvInclude DEF Network
<1>8. CASE Tick \/ UNCHANGED vars
  BY <1>1, <1>8, BaseInvTick
<1>9. QED
  BY <1>1, <1>2, <1>3, <1>4, <1>5, <1>6, <1>7, <1>8 DEF Next

\* The stores of the withdrawals keep their types and no account is ever
\* overdrawn, whatever is withdrawn, refunded, crashed and restarted.
THEOREM TypeCorrect == Spec => []TypeOK
<1>1. Spec => []BaseInv
  BY BaseInvInit, BaseInvNext, PTL DEF Spec
<1>2. BaseInv => TypeOK
  BY DEF BaseInv
<1>3. QED
  BY <1>1, <1>2, PTL

\* A withdrawal never takes money that is promised to publishers: the second
\* reading of the balance, right before the write, is enough.
THEOREM WithdrawalsKeepPromises == Spec => []PromiseKept
<1>1. Spec => []BaseInv
  BY BaseInvInit, BaseInvNext, PTL DEF Spec
<1>2. BaseInv => PromiseKept
  BY DEF BaseInv
<1>3. QED
  BY <1>1, <1>2, PTL

-----------------------------------------------------------------------------
(* Paid and refunded only in the gap of reconcile *)

LEMMA DecidedBatch ==
  ASSUME BaseInv, job.pc = "answer"
  PROVE  /\ job.batch \in Batches
         /\ group[job.batch] # {} /\ tx[job.batch] # NoTx /\ tx[job.batch] \in Tx
         /\ order[job.batch] # NoOrder
<1>1. TypeOK /\ StagesInOrder /\ JobInv
  BY DEF BaseInv
<1>2. job.batch \in Batches /\ item[job.batch] # "none"
  BY <1>1 DEF JobInv
<1>3. QED
  BY <1>1, <1>2, RecordedBatch DEF TypeOK

\* Only Ask brings an answer.
LEMMA NoAnswerWithoutAsk ==
  ASSUME BaseInv, Step \/ Crashes, \A b \in Batches : ~Ask(b)
  PROVE  job'.pc # "answer"
<1>1. TypeOK /\ JobInv
  BY DEF BaseInv
<1>2. CASE Crashes
  BY <1>2 DEF Crashes, Crash, SubmitCrash, SettleCrash, RefundCrash, Reboot, Idle
<1>3. CASE StartWithdraw
  <2>1. job' = job \/ job'.pc = "prepare"
    BY <1>3 DEF StartWithdraw, Idle
  <2>2. QED
    BY <2>1, <1>3 DEF StartWithdraw
<1>4. CASE StartResume
  <2>1. ResumeWith(Unresolved) /\ Unresolved \in SUBSET Batches
    BY <1>4 DEF StartResume, Unresolved
  <2>2. QED
    BY <2>1, <1>1, ResumeWithJob DEF Idle
<1>5. CASE Prepare \/ Submit \/ Send
  <2>1. job \in Job
    BY <1>1 DEF TypeOK
  <2>2. CASE Prepare
    BY <2>1, <2>2 DEF Prepare, Job
  <2>3. CASE Submit
    BY <2>1, <2>3 DEF Submit, Job
  <2>4. CASE Send
    BY <2>1, <2>4 DEF Send, Job
  <2>5. QED
    BY <1>5, <2>2, <2>3, <2>4
<1>6. CASE PrepareFails \/ SubmitRefused
  BY <1>6 DEF PrepareFails, SubmitRefused, Finish, Idle
<1>7. ASSUME NEW left \in Nat, GoOn(left), job.pc \in {"ask", "answer"}
      PROVE  job'.pc # "answer"
  BY <1>1, <1>7, GoOnJob DEF Idle
<1>8. CASE AskThrows
  <2>1. CASE job.kind = "withdraw" /\ job.polls = ConfirmPolls + 1
    BY <1>8, <2>1 DEF AskThrows, Finish, Idle
  <2>2. CASE ~(job.kind = "withdraw" /\ job.polls = ConfirmPolls + 1)
    <3>1. job.pc = "ask" /\ GoOn(job.polls - 1)
      BY <1>8, <2>2 DEF AskThrows
    <3>2. job.polls - 1 \in Nat
      BY <3>1, <1>1 DEF TypeOK, Job, JobInv
    <3>3. QED
      BY <3>1, <3>2, <1>7
  <2>3. QED
    BY <2>1, <2>2
<1>9. CASE Pending \/ Settle \/ Refund
  <2>1. job.polls \in Nat
    BY <1>1 DEF TypeOK, Job
  <2>2. job.pc = "answer" /\ (GoOn(job.polls) \/ GoOn(0))
    BY <1>9 DEF Pending, Settle, Refund, Decided
  <2>3. QED
    BY <2>1, <2>2, <1>7
<1>10. QED
  BY <1>2, <1>3, <1>4, <1>5, <1>6, <1>8, <1>9 DEF Step

\* The questions and the answers.
LEMMA FoundInvNext == BaseInv /\ FoundInv /\ [Next]_vars => FoundInv'
<1>1. SUFFICES ASSUME BaseInv, FoundInv, [Next]_vars, job'.pc = "answer",
                      job'.found # "absent"
               PROVE  chain'[job'.batch] = job'.found
  BY DEF FoundInv
<1>2. TypeOK
  BY <1>1 DEF BaseInv
<1>3. CASE \E b \in Batches : Ask(b)
  <2>1. PICK b \in Batches : Ask(b)
    BY <1>3
  <2>2. job \in Job /\ chain' = chain /\ job.batch = b
        /\ job' = [job EXCEPT !.pc = "answer", !.polls = @ - 1,
                              !.found = chain[b], !.asked = now]
    BY <2>1, <1>2 DEF Ask, network, TypeOK
  <2>3. job'.batch = b /\ job'.found = chain[b]
    BY <2>2 DEF Job
  <2>4. QED
    BY <2>2, <2>3
<1>4. CASE (Step \/ Crashes) /\ \A b \in Batches : ~Ask(b)
  BY <1>1, <1>4, NoAnswerWithoutAsk
<1>5. CASE Environment \/ Requests \/ ResumeTimer \/ Tick \/ UNCHANGED vars
  <2>1. job' = job /\ chain' = chain
    BY <1>5 DEF Environment, Credit, Reserve, Charge, Lapse, Requests, Withdraw,
                ResumeTimer, Tick, vars, server, network
  <2>2. QED
    BY <1>1, <2>1 DEF FoundInv
<1>6. CASE Network
  <2>1. PICK b \in Batches, r \in {"success", "failed"} : Include(b, r)
    BY <1>6 DEF Network
  <2>2. job' = job /\ chain[b] = "absent" /\ chain' = [chain EXCEPT ![b] = r]
    BY <2>1 DEF Include, server
  <2>3. job.batch \in Batches
    BY <1>1, <2>2, DecidedBatch
  <2>4. chain[job.batch] = job.found /\ job.batch # b
    BY <1>1, <2>2 DEF FoundInv
  <2>5. QED
    BY <2>2, <2>3, <2>4, <1>2 DEF TypeOK
<1>7. QED
  BY <1>1, <1>3, <1>4, <1>5, <1>6 DEF Next

LEMMA AskedInvNext ==
  ASSUME BaseInv, AskedInv, [Next]_vars
  PROVE  AskedInv'
<1>1. SUFFICES ASSUME job'.pc = "answer"
               PROVE  /\ job'.asked <= now'
                      /\ job'.found = "absent" =>
                           \/ chain'[job'.batch] = "absent"
                           \/ job'.asked <= tx'[job'.batch].maxTime
  BY DEF AskedInv
<1>2. TypeOK
  BY DEF BaseInv
<1>3. CASE \E b \in Batches : Ask(b)
  <2>1. PICK b \in Batches : Ask(b)
    BY <1>3
  <2>2. job \in Job /\ chain' = chain /\ now' = now /\ job.batch = b
        /\ job' = [job EXCEPT !.pc = "answer", !.polls = @ - 1,
                              !.found = chain[b], !.asked = now]
    BY <2>1, <1>2 DEF Ask, network, TypeOK
  <2>3. job'.batch = b /\ job'.found = chain[b] /\ job'.asked = now
    BY <2>2 DEF Job
  <2>4. now \in Nat
    BY <1>2 DEF TypeOK
  <2>5. QED
    BY <2>2, <2>3, <2>4
<1>4. CASE (Step \/ Crashes) /\ \A b \in Batches : ~Ask(b)
  BY <1>1, <1>4, NoAnswerWithoutAsk
<1>5. CASE Environment \/ Requests \/ ResumeTimer \/ UNCHANGED vars
  <2>1. UNCHANGED <<job, chain, now, tx>>
    BY <1>5 DEF Environment, Credit, Reserve, Charge, Lapse, Requests, Withdraw,
                ResumeTimer, vars, server, network
  <2>2. QED
    BY <1>1, <2>1 DEF AskedInv
<1>6. CASE Tick
  <2>1. UNCHANGED <<job, chain, tx>> /\ now' = now + 1
    BY <1>6 DEF Tick, server, network
  <2>2. now \in Nat /\ job.asked \in Nat /\ job.asked <= now
    BY <1>1, <1>2, <2>1 DEF AskedInv, TypeOK, Job
  <2>3. QED
    BY <1>1, <2>1, <2>2 DEF AskedInv
<1>7. CASE Network
  \* What is included now was asked about no later than now, in time.
  <2>1. PICK b \in Batches, r \in {"success", "failed"} : Include(b, r)
    BY <1>7 DEF Network
  <2>2. /\ UNCHANGED <<job, now, tx>> /\ now <= tx[b].maxTime
        /\ chain' = [chain EXCEPT ![b] = r]
    BY <2>1 DEF Include, server
  <2>3. job.batch \in Batches /\ tx[job.batch] \in Tx
    BY <1>1, <2>2, DecidedBatch
  <2>4. now \in Nat /\ job.asked \in Nat /\ tx[job.batch].maxTime \in Nat
        /\ chain \in [Batches -> {"absent", "success", "failed"}]
    BY <1>2, <2>3 DEF TypeOK, Job, Tx
  <2>5. CASE job.batch = b
    BY <1>1, <2>2, <2>4, <2>5 DEF AskedInv
  <2>6. CASE job.batch # b
    BY <1>1, <2>2, <2>3, <2>4, <2>6 DEF AskedInv
  <2>7. QED
    BY <2>5, <2>6
<1>8. QED
  BY <1>3, <1>4, <1>5, <1>6, <1>7 DEF Next

\* Which steps write which groups.
LEMMA GroupsWritten ==
  ASSUME BaseInv, [Next]_vars, NEW b \in Batches, group'[b] # group[b]
  PROVE  \/ /\ Submit \/ SubmitCrash
            /\ b = job.batch /\ job.pc = "submit"
            /\ group'[b] = group[b] \cup {"submit"}
         \/ /\ Settle \/ SettleCrash
            /\ b = job.batch /\ job.pc = "answer" /\ Verdict = "success"
            /\ group'[b] = group[b] \cup {"settled"}
         \/ /\ Refund \/ RefundCrash
            /\ b = job.batch /\ job.pc = "answer" /\ Verdict \in {"failed", "expired"}
            /\ "reversal" \notin group[b]
            /\ group'[b] = group[b] \cup {"reversal"}
<1>1. TypeOK
  BY DEF BaseInv
<1>2. CASE Submit \/ SubmitCrash
  <2>1. job.pc = "submit" /\ group' = [group EXCEPT ![job.batch] = @ \cup {"submit"}]
    BY <1>2 DEF Submit, SubmitCrash, PayoutSubmit
  <2>2. QED
    BY <2>1, <1>1, <1>2 DEF TypeOK
<1>3. CASE Settle \/ SettleCrash
  <2>1. /\ job.pc = "answer" /\ Verdict = "success"
        /\ group' = [group EXCEPT ![job.batch] = @ \cup {"settled"}]
    BY <1>3 DEF Settle, SettleCrash, PostSettled
  <2>2. QED
    BY <2>1, <1>1, <1>3 DEF TypeOK
<1>4. CASE Refund \/ RefundCrash
  <2>1. /\ job.pc = "answer" /\ Verdict \in {"failed", "expired"}
        /\ Reverse(job.batch)
    BY <1>4 DEF Refund, RefundCrash
  <2>2. /\ "reversal" \notin group[job.batch]
        /\ group' = [group EXCEPT ![job.batch] = @ \cup {"reversal"}]
    BY <2>1 DEF Reverse
  <2>3. QED
    BY <2>1, <2>2, <1>1, <1>4 DEF TypeOK
<1>5. CASE Environment \/ Requests \/ ResumeTimer \/ Network \/ Tick \/ UNCHANGED vars
  BY <1>5 DEF Environment, Credit, Reserve, Charge, Lapse, Requests, Withdraw,
              ResumeTimer, Network, Include, Tick, vars, books
<1>6. CASE StartWithdraw \/ StartResume \/ Prepare \/ PrepareFails \/ SubmitRefused
           \/ Send \/ AskThrows \/ Pending \/ (\E c \in Batches : Ask(c)) \/ Crash
  BY <1>6 DEF StartWithdraw, StartResume, Prepare, PrepareFails, SubmitRefused,
              Send, AskThrows, Pending, Ask, Crash, books
<1>7. QED
  BY <1>2, <1>3, <1>4, <1>5, <1>6 DEF Next, Step, Crashes

\* A posted batch keeps its envelope, the network decides once and in time,
\* and the clock does not go back.
LEMMA NetworkMonotone ==
  ASSUME BaseInv, [Next]_vars, NEW b \in Batches
  PROVE  /\ group[b] # {} => tx'[b] = tx[b]
         /\ now' >= now
         /\ chain[b] # "absent" => chain'[b] = chain[b]
         /\ chain'[b] # chain[b] => now <= tx[b].maxTime /\ group' = group /\ now' = now
<1>1. TypeOK /\ JobInv /\ StagesInOrder
  BY DEF BaseInv
<1>2. CASE Prepare
  <2>1. UNCHANGED <<now, chain, group>> /\ job.batch \in Batches
        /\ tx' = [tx EXCEPT ![job.batch] = [seq |-> seq + 1, maxTime |-> now + TxTimeout]]
        /\ tx[job.batch] = NoTx
    BY <1>1, <1>2 DEF Prepare, JobInv, books, network
  <2>2. group[job.batch] = {}
    BY <2>1, <1>1 DEF StagesInOrder
  <2>3. QED
    BY <2>1, <2>2, <1>1 DEF TypeOK
<1>3. CASE Tick
  BY <1>1, <1>3 DEF Tick, books, network, TypeOK
<1>4. CASE Network
  <2>1. PICK c \in Batches, r \in {"success", "failed"} : Include(c, r)
    BY <1>4 DEF Network
  <2>2. /\ UNCHANGED <<now, tx, group>> /\ now <= tx[c].maxTime /\ chain[c] = "absent"
        /\ chain' = [chain EXCEPT ![c] = r]
    BY <2>1 DEF Include, books
  <2>3. QED
    BY <2>2, <1>1 DEF TypeOK
<1>5. CASE ~Prepare /\ ~Tick /\ ~Network
  <2>1. UNCHANGED <<now, tx, chain>>
    BY <1>5 DEF Next, Environment, Credit, Reserve, Charge, Lapse, Requests, Withdraw,
         ResumeTimer, Step, StartWithdraw, StartResume, PrepareFails, Submit,
         SubmitRefused, Send, AskThrows, Pending, Settle, Refund, Ask,
         Crashes, Crash, SubmitCrash, SettleCrash, RefundCrash, vars, network
  <2>2. QED
    BY <2>1, <1>1 DEF TypeOK
<1>6. QED
  BY <1>2, <1>3, <1>4, <1>5

LEMMA RefundInvNext ==
  ASSUME BaseInv, FoundInv, RefundInv, [Next]_vars
  PROVE  RefundInv'
<1>1. SUFFICES ASSUME NEW b \in Batches, "reversal" \in group'[b]
               PROVE  chain'[b] = "failed" \/ now' > tx'[b].maxTime
  BY DEF RefundInv
<1>2. TypeOK
  BY DEF BaseInv
<1>3. CASE "reversal" \in group[b]
  <2>1. group[b] # {} /\ tx[b] \in Tx
    BY <1>2, <1>3 DEF BaseInv, StagesInOrder, TypeOK
  <2>2. tx[b].maxTime \in Nat /\ now \in Nat /\ now' \in Nat
    BY <2>1, <1>2, BaseInvNext DEF Tx, TypeOK, BaseInv
  <2>3. chain[b] = "failed" \/ now > tx[b].maxTime
    BY <1>3 DEF RefundInv
  <2>4. QED
    BY <2>1, <2>2, <2>3, NetworkMonotone
<1>4. CASE "reversal" \notin group[b]
  <2>1. /\ b = job.batch /\ job.pc = "answer"
        /\ Verdict \in {"failed", "expired"} /\ group' # group
    BY <1>1, <1>4, GroupsWritten
  <2>2. chain'[b] = chain[b] /\ now' >= now /\ tx'[b] = tx[b]
    BY <2>1, DecidedBatch, NetworkMonotone
  <2>3. tx[b].maxTime \in Nat /\ now \in Nat /\ now' \in Nat
    BY <2>1, <1>2, DecidedBatch, BaseInvNext DEF Tx, TypeOK, BaseInv
  <2>4. job.found \in {"absent", "success", "failed"}
    BY <1>2 DEF TypeOK, Job
  <2>5. CASE job.found # "absent"
    BY <2>1, <2>2, <2>4, <2>5 DEF Verdict, FoundInv
  <2>6. CASE job.found = "absent"
    BY <2>1, <2>2, <2>3, <2>6 DEF Verdict
  <2>7. QED
    BY <2>5, <2>6
<1>5. QED
  BY <1>3, <1>4

\* A batch that is about to be given back although it is paid: the answer was
\* asked for before the deadline, and is judged after it.
LEMMA PaidRefundIsInTheGap ==
  ASSUME BaseInv, FoundInv, AskedInv, job.pc = "answer",
         Verdict \in {"failed", "expired"}, chain[job.batch] = "success"
  PROVE  InTheGap(job.batch)
<1>1. job.found = "absent"
  BY DEF FoundInv, Verdict
<1>2. now > tx[job.batch].maxTime
  BY <1>1 DEF Verdict
<1>3. job.asked <= tx[job.batch].maxTime
  BY <1>1 DEF AskedInv
<1>4. tx[job.batch].maxTime \in Nat /\ now \in Nat
  BY DecidedBatch DEF BaseInv, TypeOK, Tx
<1>5. QED
  BY <1>1, <1>2, <1>3, <1>4 DEF InTheGap

LEMMA GapNext ==
  ASSUME IInv, [Next]_vars, NEW b \in Batches, Both(b)', ~Both(b)
  PROVE  InTheGap(b)
<1>1. BaseInv /\ FoundInv /\ AskedInv /\ RefundInv
  BY DEF IInv
<1>2. "reversal" \in group'[b] /\ chain'[b] = "success"
  BY DEF Both
<1>3. CASE "reversal" \in group[b]
  <2>1. chain'[b] # chain[b] /\ chain[b] # "success"
    BY <1>2, <1>3 DEF Both
  <2>2. now <= tx[b].maxTime /\ chain[b] = "absent"
    BY <1>1, <2>1, NetworkMonotone
  <2>3. tx[b].maxTime \in Nat /\ now \in Nat
    BY <1>1, <1>3 DEF BaseInv, StagesInOrder, TypeOK, Tx
  <2>4. QED
    BY <1>1, <1>3, <2>2, <2>3 DEF RefundInv
<1>4. CASE "reversal" \notin group[b]
  <2>1. /\ b = job.batch /\ job.pc = "answer"
        /\ Verdict \in {"failed", "expired"} /\ group' # group
    BY <1>1, <1>2, <1>4, GroupsWritten
  <2>2. chain'[b] = chain[b]
    BY <1>1, <2>1, NetworkMonotone
  <2>3. QED
    BY <1>1, <1>2, <2>1, <2>2, PaidRefundIsInTheGap
<1>5. QED
  BY <1>3, <1>4

LEMMA SettleInvNext ==
  ASSUME BaseInv, FoundInv, SettleInv, [Next]_vars
  PROVE  SettleInv'
<1>1. SUFFICES ASSUME NEW b \in Batches, "settled" \in group'[b]
               PROVE  chain'[b] = "success"
  BY DEF SettleInv
<1>2. CASE "settled" \in group[b]
  BY <1>2, NetworkMonotone DEF SettleInv
<1>3. CASE "settled" \notin group[b]
  <2>1. b = job.batch /\ job.pc = "answer" /\ Verdict = "success"
    BY <1>1, <1>3, GroupsWritten
  <2>2. job.found = "success"
    BY <2>1 DEF Verdict
  <2>3. chain[b] = "success"
    BY <2>1, <2>2 DEF FoundInv
  <2>4. QED
    BY <2>3, NetworkMonotone
<1>4. QED
  BY <1>2, <1>3

\* The ledger says "settled" only of a payment the network has made.
THEOREM SettledIsPaid == Spec => []SettleInv
<1>1. Init => BaseInv /\ FoundInv /\ SettleInv
  BY BaseInvInit DEF Init, FoundInv, SettleInv, Idle
<1>2. BaseInv /\ FoundInv /\ SettleInv /\ [Next]_vars
        => (BaseInv /\ FoundInv /\ SettleInv)'
  BY BaseInvNext, FoundInvNext, SettleInvNext
<1>3. QED
  BY <1>1, <1>2, PTL DEF Spec

LEMMA IInvInit == Init => IInv
BY BaseInvInit DEF Init, IInv, FoundInv, AskedInv, RefundInv, Idle

LEMMA IInvNext == IInv /\ [Next]_vars => IInv'
BY BaseInvNext, FoundInvNext, AskedInvNext, RefundInvNext DEF IInv

LEMMA IInvAlways == Spec => []IInv
BY IInvInit, IInvNext, PTL DEF Spec

\* However late an answer is read, and however questions, inclusions, deadlines
\* and crashes interleave, a batch gets paid and given back only by a refund
\* whose question was asked before the deadline and judged after it: nothing
\* that was given back is paid later.
THEOREM PaidAndRefundedOnlyInTheGap == Spec => BothOnlyInTheGap
<1>1. IInv /\ [Next]_vars =>
        [\A b \in Batches : Both(b)' /\ ~Both(b) => InTheGap(b)]_vars
  BY GapNext
<1>2. QED
  BY <1>1, IInvAlways, PTL DEF Spec, BothOnlyInTheGap

-----------------------------------------------------------------------------
(* The refinement *)

\* A step that leaves the ledger groups, the network and the orders of the
\* posted batches alone leaves the transfers alone.
LEMMA TransfersFramed ==
  ASSUME BaseInv, group' = group, chain' = chain,
         \A b \in Batches : group[b] # {} => order'[b] = order[b]
  PROVE  TransferState' = TransferState
<1>1. \A b \in Batches : "submit" \in group[b] =>
          AccountFor(b)' = AccountFor(b) /\ AmountOf(b)' = AmountOf(b)
  BY DEF AccountFor, AmountOf
<1>2. QED
  BY <1>1 DEF TransferState

LEMMA EnvironmentImplements ==
  ASSUME BaseInv, Environment
  PROVE  [T!Next]_<<balance, reserved, TransferState>>
<1>1. TypeOK /\ PromiseKept
  BY DEF BaseInv
<1>2. Advertisers \subseteq Accounts /\ \A x \in Amounts : x \in Nat /\ x # 0
  BY PayeesAssumption
<1>3. TransferState' = TransferState
  BY TransfersFramed DEF Environment, Credit, Reserve, Charge, Lapse, network
<1>4. PICK x \in Amounts :
        \/ \E a \in Accounts : Credit(a, x)
        \/ \E a \in Advertisers : Reserve(a, x) \/ Charge(a, x) \/ Lapse(a, x)
  BY DEF Environment
<1>5. CASE \E a \in Accounts : Credit(a, x)
  BY <1>3, <1>5 DEF Credit, T!Next, T!Earn
<1>6. CASE \E a \in Advertisers : Reserve(a, x)
  <2>1. PICK a \in Advertisers : Reserve(a, x)
    BY <1>6
  <2>2. a \in Accounts /\ balance[a] \in Nat /\ reserved[a] \in Nat /\ x \in Nat /\ x # 0
    BY <1>1, <1>2 DEF TypeOK
  <2>3. reserved[a] + x <= balance[a]
    BY <2>1, <2>2 DEF Reserve, Spendable
  <2>4. T!Promise(a, x)
    BY <1>3, <2>1, <2>3 DEF Reserve, T!Promise
  <2>5. QED
    BY <2>2, <2>4 DEF T!Next
<1>7. CASE \E a \in Advertisers : Charge(a, x) \/ Lapse(a, x)
  <2>1. PICK a \in Advertisers : Charge(a, x) \/ Lapse(a, x)
    BY <1>7
  <2>2. a \in Accounts
    BY <1>2
  <2>3. T!Deliver(a, x)
    BY <1>3, <2>1 DEF Charge, Lapse, T!Deliver
  <2>4. QED
    BY <2>2, <2>3 DEF T!Next
<1>8. QED
  BY <1>4, <1>5, <1>6, <1>7

LEMMA SubmitImplements ==
  ASSUME BaseInv, Submit \/ SubmitCrash
  PROVE  [T!Next]_<<balance, reserved, TransferState>>
<1>0. PICK b \in Batches : b = job.batch
  BY DEF BaseInv, JobInv, Submit, SubmitCrash
<1>1. TypeOK /\ JobInv
  BY DEF BaseInv
<1> DEFINE a == AccountFor(b)
<1> DEFINE x == AmountOf(b)
<1>2. /\ job.pc = "submit" /\ x <= Spendable(a) /\ PayoutSubmit(b)
      /\ UNCHANGED <<reserved, order, chain>>
  BY <1>0 DEF Submit, SubmitCrash, network
<1>3. b \in Batches /\ order[b] # NoOrder /\ group[b] = {}
  BY <1>1, <1>0, <1>2 DEF JobInv
<1>4. a \in Accounts /\ x \in Nat /\ x \in Amounts /\ x # 0
  BY <1>1, <1>3, OrderedBatch, PayeesAssumption
<1>5. reserved[a] + x <= balance[a]
  BY <1>1, <1>2, <1>4 DEF TypeOK, Spendable
<1>6. /\ balance' = [balance EXCEPT ![a] = @ - x]
      /\ group' = [group EXCEPT ![b] = @ \cup {"submit"}]
  BY <1>2 DEF PayoutSubmit
<1>7. a' = a /\ x' = x
  BY <1>2 DEF AccountFor, AmountOf
<1>8. chain[b] = "absent"
  BY <1>3 DEF BaseInv, StagesInOrder
<1>9. /\ group'[b] = {"submit"}
      /\ \A c \in Batches : c # b => group'[c] = group[c]
  BY <1>1, <1>3, <1>6 DEF TypeOK
<1>10. TransferState' =
         [TransferState EXCEPT ![b] = [state |-> "open", account |-> a, amount |-> x]]
  <2>1. TransferState'[b] = [state |-> "open", account |-> a, amount |-> x]
    BY <1>2, <1>3, <1>7, <1>8, <1>9 DEF TransferState, EndOf
  <2>2. ASSUME NEW c \in Batches, c # b
        PROVE  TransferState'[c] = TransferState[c]
    <3>1. AccountFor(c)' = AccountFor(c) /\ AmountOf(c)' = AmountOf(c)
          /\ group'[c] = group[c] /\ chain' = chain
      BY <1>2, <1>9, <2>2 DEF AccountFor, AmountOf
    <3>2. QED
      BY <3>1 DEF TransferState
  <2>3. TransferState' = [c \in Batches |-> TransferState'[c]]
        /\ TransferState = [c \in Batches |-> TransferState[c]]
    BY DEF TransferState
  <2> HIDE DEF a, x
  <2>4. QED
    BY <1>3, <2>1, <2>2, <2>3
<1>11. TransferState[b] = T!NotMade
  BY <1>3 DEF TransferState, T!NotMade
<1>12. T!Make(b, a, x)
  BY <1>2, <1>5, <1>6, <1>10, <1>11 DEF T!Make
<1>13. QED
  BY <1>3, <1>4, <1>12 DEF T!Next

\* The steps of the abstract transfers, and the one they do not allow.
MayStep == T!Next \/ \E b \in Batches : GivesBackPaid(b)

\* The end of a transfer: a refund, or the inclusion of its envelope.
LEMMA RefundImplements ==
  ASSUME IInv, Refund \/ RefundCrash
  PROVE  [MayStep]_<<balance, reserved, TransferState>>
<1>0. BaseInv /\ TypeOK /\ StagesInOrder /\ FoundInv /\ AskedInv
  BY DEF IInv, BaseInv
<1>1. /\ job.pc = "answer" /\ Verdict \in {"failed", "expired"} /\ Reverse(job.batch)
      /\ UNCHANGED <<reserved, order, chain>>
  BY DEF Refund, RefundCrash, network
<1>2. PICK b \in Batches : b = job.batch
  BY <1>0, <1>1, DecidedBatch
<1> DEFINE a == AccountFor(b)
<1> DEFINE x == AmountOf(b)
<1>3. "submit" \in group[b]
  BY <1>0, <1>1, <1>2, DecidedBatch DEF StagesInOrder
<1>4. CASE "reversal" \in group[b]
  <2>1. balance' = balance /\ group' = group
    BY <1>1, <1>2, <1>4 DEF Reverse
  <2>2. TransferState' = TransferState
    BY <2>1, <1>0, <1>1, TransfersFramed
  <2>3. QED
    BY <2>1, <2>2, <1>1
<1>5. CASE "reversal" \notin group[b]
  <2>1. /\ balance' = [balance EXCEPT ![a] = @ + x]
        /\ group' = [group EXCEPT ![b] = @ \cup {"reversal"}]
    BY <1>1, <1>2, <1>5 DEF Reverse
  <2>2. /\ group'[b] = group[b] \cup {"reversal"}
        /\ \A c \in Batches : c # b => group'[c] = group[c]
    BY <2>1, <1>0 DEF TypeOK
  <2>3. a' = a /\ x' = x
    BY <1>1 DEF AccountFor, AmountOf
  <2>4. TransferState[b] = [state |-> IF chain[b] = "success" THEN "paid" ELSE "open",
                            account |-> a, amount |-> x]
    BY <1>3, <1>5 DEF TransferState, EndOf
  <2>5. TransferState'[b] = [state |-> IF chain[b] = "success" THEN "both" ELSE "refunded",
                             account |-> a, amount |-> x]
    BY <1>1, <1>3, <2>2, <2>3 DEF TransferState, EndOf
  <2>6. ASSUME NEW c \in Batches, c # b
        PROVE  TransferState'[c] = TransferState[c]
    <3>1. AccountFor(c)' = AccountFor(c) /\ AmountOf(c)' = AmountOf(c)
          /\ group'[c] = group[c] /\ chain' = chain
      BY <1>1, <2>2, <2>6 DEF AccountFor, AmountOf
    <3>2. QED
      BY <3>1 DEF TransferState
  <2>7. TransferState' = [c \in Batches |-> TransferState'[c]]
        /\ TransferState = [c \in Batches |-> TransferState[c]]
    BY DEF TransferState
  <2> HIDE DEF a, x
  <2>8. CASE chain[b] # "success"
    <3>1. TransferState' = [TransferState EXCEPT ![b].state = "refunded"]
      BY <2>4, <2>5, <2>6, <2>7, <2>8
    <3>2. T!GiveBack(b)
      BY <1>1, <2>1, <2>4, <2>8, <3>1 DEF T!GiveBack
    <3>3. QED
      BY <3>2 DEF T!Next, MayStep
  <2>9. CASE chain[b] = "success"
    <3>1. InTheGap(b)
      BY <1>0, <1>1, <1>2, <2>9, PaidRefundIsInTheGap
    <3>2. TransferState' = [TransferState EXCEPT ![b].state = "both"]
      BY <2>4, <2>5, <2>6, <2>7, <2>9
    <3>3. TransferState[b] = [state |-> "paid", account |-> a, amount |-> x]
      BY <2>4, <2>9
    <3>4. GivesBackPaid(b)
      BY <1>1, <2>1, <3>1, <3>2, <3>3 DEF GivesBackPaid
    <3>5. QED
      BY <3>4 DEF MayStep
  <2>10. QED
    BY <2>8, <2>9
<1>6. QED
  BY <1>4, <1>5

LEMMA IncludeImplements ==
  ASSUME IInv, NEW b \in Batches, NEW result \in {"success", "failed"},
         Include(b, result)
  PROVE  [T!Next]_<<balance, reserved, TransferState>>
<1> DEFINE a == AccountFor(b)
<1> DEFINE x == AmountOf(b)
<1>1. BaseInv /\ TypeOK /\ StagesInOrder /\ RefundInv
  BY DEF IInv, BaseInv
<1>2. /\ b \in sent /\ chain[b] = "absent" /\ now <= tx[b].maxTime
      /\ chain' = [chain EXCEPT ![b] = result]
      /\ UNCHANGED <<balance, reserved, group, order>>
  BY DEF Include, books
<1>3. "submit" \in group[b] /\ tx[b] \in Tx
  BY <1>1, <1>2 DEF StagesInOrder, TypeOK
<1>4. tx[b].maxTime \in Nat /\ now \in Nat
  BY <1>1, <1>3 DEF Tx, TypeOK
<1>5. "reversal" \notin group[b]
  BY <1>1, <1>2, <1>4 DEF RefundInv
<1>6. a' = a /\ x' = x
  BY <1>2 DEF AccountFor, AmountOf
<1>7. chain'[b] = result /\ \A c \in Batches : c # b => chain'[c] = chain[c]
  BY <1>1, <1>2 DEF TypeOK
<1>8. TransferState[b] = [state |-> "open", account |-> a, amount |-> x]
  BY <1>2, <1>3, <1>5 DEF TransferState, EndOf
<1>9. TransferState'[b] = [state   |-> IF result = "success" THEN "paid" ELSE "open",
                           account |-> a, amount |-> x]
  BY <1>2, <1>3, <1>5, <1>6, <1>7 DEF TransferState, EndOf
<1>10. ASSUME NEW c \in Batches, c # b
       PROVE  TransferState'[c] = TransferState[c]
  <2>1. AccountFor(c)' = AccountFor(c) /\ AmountOf(c)' = AmountOf(c)
        /\ group' = group /\ chain'[c] = chain[c]
    BY <1>2, <1>7, <1>10 DEF AccountFor, AmountOf
  <2>2. QED
    BY <2>1 DEF TransferState
<1>11. TransferState' = [c \in Batches |-> TransferState'[c]]
       /\ TransferState = [c \in Batches |-> TransferState[c]]
  BY DEF TransferState
<1> HIDE DEF a, x
<1>12. CASE result = "success"
  <2>1. TransferState' = [TransferState EXCEPT ![b].state = "paid"]
    BY <1>8, <1>9, <1>10, <1>11, <1>12
  <2>2. T!Pay(b)
    BY <1>2, <1>8, <2>1 DEF T!Pay
  <2>3. QED
    BY <2>2 DEF T!Next
<1>13. CASE result # "success"
  <2>1. TransferState'[b] = TransferState[b]
    BY <1>8, <1>9, <1>13
  <2>2. TransferState' = TransferState
    BY <1>10, <1>11, <2>1
  <2>3. QED
    BY <2>2, <1>2
<1>14. QED
  BY <1>12, <1>13

\* Settling writes nothing a payee can see: the network has already paid.
LEMMA SettleImplements ==
  ASSUME IInv, Settle \/ SettleCrash
  PROVE  UNCHANGED <<balance, reserved, TransferState>>
<1>1. BaseInv /\ TypeOK
  BY DEF IInv, BaseInv
<1>2. /\ group' = [group EXCEPT ![job.batch] = @ \cup {"settled"}]
      /\ UNCHANGED <<balance, reserved, order, chain>>
  BY DEF Settle, SettleCrash, PostSettled, network
<1>3. ASSUME NEW c \in Batches
      PROVE  /\ "submit" \in group'[c] <=> "submit" \in group[c]
             /\ "reversal" \in group'[c] <=> "reversal" \in group[c]
             /\ AccountFor(c)' = AccountFor(c) /\ AmountOf(c)' = AmountOf(c)
  BY <1>1, <1>2 DEF TypeOK, AccountFor, AmountOf
<1>4. TransferState' = TransferState
  BY <1>2, <1>3 DEF TransferState
<1>5. QED
  BY <1>2, <1>4

LEMMA NextImplements ==
  ASSUME IInv, [Next]_vars
  PROVE  [MayStep]_<<balance, reserved, TransferState>>
<1>1. BaseInv /\ TypeOK /\ StagesInOrder
  BY DEF IInv, BaseInv
<1>2. CASE Environment
  BY <1>1, <1>2, EnvironmentImplements DEF MayStep
<1>3. CASE Submit \/ SubmitCrash
  BY <1>1, <1>3, SubmitImplements DEF MayStep
<1>4. CASE Refund \/ RefundCrash
  BY <1>4, RefundImplements
<1>5. CASE Network
  BY <1>5, IncludeImplements DEF Network, MayStep
<1>6. CASE Settle \/ SettleCrash
  BY <1>6, SettleImplements
<1>7. CASE Requests
  <2>1. PICK b \in Batches, e \in Payees, x \in Amounts : Withdraw(b, e, x)
    BY <1>7 DEF Requests
  <2>2. /\ UNCHANGED <<balance, reserved, group, chain>> /\ order[b] = NoOrder
        /\ order' = [order EXCEPT ![b] = [payee |-> e, amount |-> x]]
    BY <2>1 DEF Withdraw, books, network
  <2>3. group[b] = {}
    BY <1>1, <2>2 DEF StagesInOrder
  <2>4. \A c \in Batches : group[c] # {} => order'[c] = order[c]
    BY <1>1, <2>2, <2>3 DEF TypeOK
  <2>5. QED
    BY <1>1, <2>2, <2>4, TransfersFramed
<1>8. CASE ResumeTimer \/ Tick \/ Crash \/ UNCHANGED vars
  <2>1. UNCHANGED <<balance, reserved, group, chain, order>>
    BY <1>8 DEF ResumeTimer, Tick, Crash, vars, books, network
  <2>2. QED
    BY <1>1, <2>1, TransfersFramed
<1>9. CASE StartWithdraw \/ StartResume \/ Prepare \/ PrepareFails \/ SubmitRefused
           \/ Send \/ AskThrows \/ Pending \/ (\E c \in Batches : Ask(c))
  <2>1. UNCHANGED <<balance, reserved, group, chain, order>>
    BY <1>9 DEF StartWithdraw, StartResume, Prepare, PrepareFails, SubmitRefused,
                Send, AskThrows, Pending, Ask, books, network
  <2>2. QED
    BY <1>1, <2>1, TransfersFramed
<1>10. QED
  BY <1>2, <1>3, <1>4, <1>5, <1>6, <1>7, <1>8, <1>9 DEF Next, Step, Crashes

\* The withdrawals implement the abstract transfers: every posted batch is a
\* transfer made once out of unpromised money, and paid or given back; both
\* only in the gap of reconcile, and what is both stays so.
THEOREM WithdrawalsImplementTransfers == Spec => ImplementsTransfer
<1>1. Init => T!Init
  BY DEF Init, T!Init, T!NotMade, TransferState
<1>2. IInv /\ [Next]_vars
        => [T!Next \/ \E b \in Batches : GivesBackPaid(b)]_<<balance, reserved, TransferState>>
  BY NextImplements DEF MayStep
<1>3. QED
  BY <1>1, <1>2, IInvAlways, PTL DEF Spec, ImplementsTransfer

-----------------------------------------------------------------------------
(* The items agree with the ledger *)

ItemInv ==
  \A b \in Batches :
    /\ item[b] = "settled" => "settled" \in group[b]
    /\ item[b] = "failed" => "reversal" \in group[b]

LEMMA ItemInvNext == ASSUME BaseInv, ItemInv, [Next]_vars PROVE ItemInv'
<1>1. TypeOK /\ StagesInOrder /\ JobInv
  BY DEF BaseInv
<1>2. ASSUME NEW c \in Batches PROVE group[c] \subseteq group'[c]
  BY GroupsWritten
<1>3. CASE item' = item
  BY <1>2, <1>3 DEF ItemInv
<1>4. CASE Submit
  <2>1. job.pc = "submit" /\ item' = [item EXCEPT ![job.batch] = "submitted"]
    BY <1>4 DEF Submit
  <2>2. \A c \in Batches : item'[c] = item[c] \/ item'[c] = "submitted"
    BY <2>1, <1>1 DEF TypeOK
  <2>3. QED
    BY <1>2, <2>2 DEF ItemInv
<1>5. CASE Settle
  <2>1. PostSettled(job.batch) /\ Mark(job.batch, "settled") /\ job.batch \in Batches
    BY <1>1, <1>5 DEF Settle, JobInv
  <2>2. "settled" \in group'[job.batch]
    BY <1>1, <2>1 DEF PostSettled, TypeOK
  <2>3. \A c \in Batches : item'[c] = item[c] \/ (c = job.batch /\ item'[c] = "settled")
    BY <1>1, <2>1 DEF Mark, TypeOK
  <2>4. QED
    BY <1>2, <2>2, <2>3 DEF ItemInv
<1>6. CASE Refund
  <2>1. Reverse(job.batch) /\ Mark(job.batch, "failed") /\ job.batch \in Batches
    BY <1>1, <1>6 DEF Refund, JobInv
  <2>2. "reversal" \in group'[job.batch]
    BY <1>1, <2>1 DEF Reverse, TypeOK
  <2>3. \A c \in Batches : item'[c] = item[c] \/ (c = job.batch /\ item'[c] = "failed")
    BY <1>1, <2>1 DEF Mark, TypeOK
  <2>4. QED
    BY <1>2, <2>2, <2>3 DEF ItemInv
<1>7. CASE Environment \/ Requests \/ ResumeTimer \/ Network \/ Tick \/ UNCHANGED vars
  <2>1. item' = item
    BY <1>7 DEF Environment, Credit, Reserve, Charge, Lapse, Requests, Withdraw,
              ResumeTimer, Network, Include, Tick, vars, books
  <2>2. QED
    BY <1>3, <2>1
<1>8. CASE StartWithdraw \/ StartResume \/ Prepare \/ PrepareFails \/ SubmitRefused
           \/ Send \/ AskThrows \/ Pending \/ (\E c \in Batches : Ask(c)) \/ Crashes
  <2>1. item' = item
    BY <1>8 DEF StartWithdraw, StartResume, Prepare, PrepareFails, SubmitRefused,
              Send, AskThrows, Pending, Ask, Crashes, Crash, SubmitCrash, SettleCrash,
              RefundCrash, books
  <2>2. QED
    BY <1>3, <2>1
<1>9. QED
  BY <1>4, <1>5, <1>6, <1>7, <1>8 DEF Next, Step

\* The item of a batch agrees with its ledger groups, and only envelopes that
\* were recorded leave the server: whatever part of a step a crash cuts off.
THEOREM RecordsFirst == Spec => []RecordedBeforeSent
<1>1. Init => BaseInv /\ ItemInv
  BY BaseInvInit DEF Init, ItemInv
<1>2. BaseInv /\ ItemInv /\ [Next]_vars => (BaseInv /\ ItemInv)'
  BY BaseInvNext, ItemInvNext
<1>3. BaseInv /\ ItemInv => RecordedBeforeSent
  <2>1. SUFFICES ASSUME BaseInv, ItemInv PROVE RecordedBeforeSent
    OBVIOUS
  <2>2. sent \subseteq Batches /\ StagesInOrder
    BY <2>1 DEF BaseInv, TypeOK
  <2>3. \A b \in sent : item[b] # "none" /\ "submit" \in group[b]
    BY <2>2 DEF StagesInOrder
  <2>4. QED
    BY <2>1, <2>3 DEF ItemInv, RecordedBeforeSent
<1>4. QED
  BY <1>1, <1>2, <1>3, PTL DEF Spec

-----------------------------------------------------------------------------
(* No money is lost or made *)

\* What a batch took from its account and did not give back.
Outside ==
  [b \in Batches |-> IF "submit" \in group[b] /\ "reversal" \notin group[b] THEN AmountOf(b) ELSE 0]

BooksInv == funded = Total(balance) + Total(Outside)

OutsideOK == Outside \in [Batches -> Nat]

LEMMA OutsideTyped == BaseInv => OutsideOK
<1> SUFFICES ASSUME BaseInv PROVE OutsideOK
  OBVIOUS
<1>1. TypeOK /\ StagesInOrder
  BY DEF BaseInv
<1>2. ASSUME NEW b \in Batches, "submit" \in group[b] PROVE AmountOf(b) \in Nat
  BY <1>1, <1>2, OrderedBatch DEF StagesInOrder
<1>3. QED
  BY <1>2 DEF Outside, OutsideOK

LEMMA OutsideTypedNext == BaseInv' => OutsideOK'
BY OutsideTyped, PTL

LEMMA OrderKept ==
  ASSUME BaseInv, [Next]_vars, NEW b \in Batches, order[b] # NoOrder
  PROVE  order'[b] = order[b]
<1>1. TypeOK
  BY DEF BaseInv
<1>2. CASE Requests
  BY <1>1, <1>2 DEF Requests, Withdraw, TypeOK
<1>3. CASE ~Requests
  <2>1. order' = order
    BY <1>3 DEF Next, Environment, Credit, Reserve, Charge, Lapse,
         ResumeTimer, Step, StartWithdraw, StartResume, Prepare, PrepareFails, Submit,
         SubmitRefused, Send, AskThrows, Pending, Settle, Refund, Ask, Network, Include, Tick,
         Crashes, Crash, SubmitCrash, SettleCrash, RefundCrash, vars
  <2>2. QED
    BY <2>1
<1>4. QED
  BY <1>2, <1>3

\* A batch is outside the ledger for the same amount as long as its groups
\* of withdrawal and reversal are the same.
LEMMA OutsideKept ==
  ASSUME BaseInv, [Next]_vars, NEW b \in Batches,
         "submit" \in group'[b] <=> "submit" \in group[b],
         "reversal" \in group'[b] <=> "reversal" \in group[b]
  PROVE  Outside'[b] = Outside[b]
<1>1. Outside'[b] = IF "submit" \in group'[b] /\ "reversal" \notin group'[b] THEN AmountOf(b)' ELSE 0
  BY DEF Outside
<1>2. Outside[b] = IF "submit" \in group[b] /\ "reversal" \notin group[b] THEN AmountOf(b) ELSE 0
  BY DEF Outside
<1>3. CASE "submit" \in group[b]
  <2>1. order[b] # NoOrder
    BY <1>3 DEF BaseInv, StagesInOrder
  <2>2. AmountOf(b)' = AmountOf(b)
    BY <2>1, OrderKept DEF AmountOf
  <2>3. QED
    BY <1>1, <1>2, <2>2
<1>4. CASE "submit" \notin group[b]
  BY <1>1, <1>2, <1>4
<1>5. QED
  BY <1>3, <1>4

\* A step that leaves the accounts alone, and what is outside.
LEMMA BooksFramed ==
  ASSUME BaseInv, BooksInv, [Next]_vars, UNCHANGED <<funded, balance>>,
         \A b \in Batches : Outside'[b] = Outside[b]
  PROVE  BooksInv'
<1>1. Outside' = Outside
  BY DEF Outside
<1>2. QED
  BY <1>1 DEF BooksInv

\* One account changes: its change is that of the total.
LEMMA AccountMoved ==
  ASSUME BaseInv, [Next]_vars, NEW a \in Accounts,
         \A c \in Accounts : c # a => balance'[c] = balance[c]
  PROVE  /\ Total(balance') \in Nat /\ Total(balance) \in Nat
         /\ balance[a] \in Nat /\ balance'[a] \in Nat
         /\ Total(balance') - Total(balance) = balance'[a] - balance[a]
<1>1. balance \in [Accounts -> Nat] /\ balance' \in [Accounts -> Nat]
  BY BaseInvNext DEF BaseInv, TypeOK
<1>2. PICK g : g = balance'
  OBVIOUS
<1>3. /\ Total(g) \in Nat /\ Total(balance) \in Nat
      /\ Total(g) + balance[a] = Total(balance) + g[a]
  BY <1>1, <1>2, TotalUpdate, PayeesAssumption
<1>4. balance[a] \in Nat /\ g[a] \in Nat
  BY <1>1, <1>2
<1>5. Total(g) - Total(balance) = g[a] - balance[a]
  BY <1>3, <1>4
<1>6. QED
  BY <1>2, <1>3, <1>4, <1>5

LEMMA BatchMoved ==
  ASSUME BaseInv, [Next]_vars, NEW b \in Batches,
         \A c \in Batches : c # b => Outside'[c] = Outside[c]
  PROVE  /\ Total(Outside') \in Nat /\ Total(Outside) \in Nat
         /\ Outside[b] \in Nat /\ Outside'[b] \in Nat
         /\ Total(Outside') - Total(Outside) = Outside'[b] - Outside[b]
<1>1. Outside \in [Batches -> Nat] /\ Outside' \in [Batches -> Nat]
  BY BaseInvNext, OutsideTyped, OutsideTypedNext DEF OutsideOK
<1>2. PICK g : g = Outside'
  OBVIOUS
<1>3. PICK f : f = Outside
  OBVIOUS
<1>4. /\ Total(g) \in Nat /\ Total(f) \in Nat
      /\ Total(g) + f[b] = Total(f) + g[b]
  BY <1>1, <1>2, <1>3, TotalUpdate, PayeesAssumption
<1>5. f[b] \in Nat /\ g[b] \in Nat
  BY <1>1, <1>2, <1>3
<1>6. Total(g) - Total(f) = g[b] - f[b]
  BY <1>4, <1>5
<1>7. QED
  BY <1>2, <1>3, <1>4, <1>5, <1>6

LEMMA BooksEnvironment ==
  ASSUME BaseInv, BooksInv, [Next]_vars, Environment
  PROVE  BooksInv'
<1>1. TypeOK /\ PromiseKept /\ Advertisers \subseteq Accounts
  BY PayeesAssumption DEF BaseInv
<1>2. group' = group
  BY DEF Environment, Credit, Reserve, Charge, Lapse, books
<1>3. \A b \in Batches : Outside'[b] = Outside[b]
  BY <1>2, OutsideKept
<1>4. Outside' = Outside
  BY <1>3 DEF Outside
<1>5. ASSUME NEW a \in Accounts, \A c \in Accounts : c # a => balance'[c] = balance[c],
             funded' - funded = balance'[a] - balance[a]
      PROVE  BooksInv'
  <2>1. /\ Total(balance') \in Nat /\ Total(balance) \in Nat
        /\ balance[a] \in Nat /\ balance'[a] \in Nat
        /\ Total(balance') - Total(balance) = balance'[a] - balance[a]
    BY <1>5, AccountMoved
  <2>2. funded \in Int /\ funded' \in Int
    BY BaseInvNext DEF BaseInv, TypeOK
  <2>3. PICK f \in [Batches -> Nat] : f = Outside /\ f = Outside'
    BY <1>4, OutsideTyped DEF OutsideOK
  <2>4. PICK h \in Nat : h = Total(f)
    BY TotalType, PayeesAssumption
  <2>5. funded = Total(balance) + h
    BY <2>3, <2>4 DEF BooksInv
  <2>6. funded' = Total(balance') + h
    BY <1>5, <2>1, <2>2, <2>4, <2>5
  <2>7. QED
    BY <2>3, <2>4, <2>6 DEF BooksInv
<1>6. ASSUME NEW x \in Amounts, NEW a \in Accounts, Credit(a, x) PROVE BooksInv'
  <2>1. balance' = [balance EXCEPT ![a] = @ + x] /\ funded' = funded + x /\ x \in Nat
    BY <1>6, PayeesAssumption DEF Credit
  <2>2. /\ \A c \in Accounts : c # a => balance'[c] = balance[c]
        /\ funded' - funded = balance'[a] - balance[a]
    BY <1>1, <2>1 DEF TypeOK
  <2>3. QED
    BY <1>5, <2>2
<1>7. ASSUME NEW x \in Amounts, NEW a \in Advertisers, Charge(a, x) PROVE BooksInv'
  <2>1. /\ balance' = [balance EXCEPT ![a] = @ - x] /\ funded' = funded - x
        /\ x \in Nat /\ a \in Accounts
    BY <1>1, <1>7, PayeesAssumption DEF Charge
  <2>2. /\ \A c \in Accounts : c # a => balance'[c] = balance[c]
        /\ funded' - funded = balance'[a] - balance[a]
    BY <1>1, <2>1 DEF TypeOK
  <2>3. QED
    BY <1>5, <2>1, <2>2
<1>8. ASSUME NEW x \in Amounts, NEW a \in Advertisers, Reserve(a, x) \/ Lapse(a, x)
      PROVE  BooksInv'
  <2>1. UNCHANGED <<funded, balance>>
    BY <1>8 DEF Reserve, Lapse
  <2>2. QED
    BY <1>3, <2>1, BooksFramed
<1>9. QED
  BY <1>6, <1>7, <1>8 DEF Environment

\* The account of a batch and the batch: what one loses the other gains.
LEMMA BooksMoved ==
  ASSUME BaseInv, BooksInv, [Next]_vars, NEW a \in Accounts, NEW b \in Batches,
         UNCHANGED funded,
         \A c \in Accounts : c # a => balance'[c] = balance[c],
         \A c \in Batches : c # b => Outside'[c] = Outside[c],
         balance'[a] + Outside'[b] = balance[a] + Outside[b]
  PROVE  BooksInv'
<1>1. PICK t, u, v, w : /\ t = Total(balance') /\ u = Total(balance)
                        /\ v = Total(Outside') /\ w = Total(Outside)
  OBVIOUS
<1>2. /\ t \in Nat /\ u \in Nat /\ balance[a] \in Nat /\ balance'[a] \in Nat
      /\ t - u = balance'[a] - balance[a]
  BY <1>1, AccountMoved
<1>3. /\ v \in Nat /\ w \in Nat /\ Outside[b] \in Nat /\ Outside'[b] \in Nat
      /\ v - w = Outside'[b] - Outside[b]
  BY <1>1, BatchMoved
<1>4. funded = u + w
  BY <1>1 DEF BooksInv
<1>5. funded' = t + v
  BY <1>2, <1>3, <1>4
<1>6. QED
  BY <1>1, <1>5 DEF BooksInv

LEMMA BooksSubmit ==
  ASSUME BaseInv, BooksInv, [Next]_vars, Submit \/ SubmitCrash
  PROVE  BooksInv'
<1>1. TypeOK /\ JobInv /\ StagesInOrder
  BY DEF BaseInv
<1>2. job.pc = "submit" /\ PayoutSubmit(job.batch) /\ UNCHANGED <<funded, order>>
  BY DEF Submit, SubmitCrash
<1>3. PICK b \in Batches : b = job.batch /\ order[b] # NoOrder /\ group[b] = {}
  BY <1>1, <1>2 DEF JobInv
<1>4. PICK a \in Accounts, x \in Nat : a = AccountFor(b) /\ x = AmountOf(b)
  BY <1>1, <1>3, OrderedBatch
<1>5. /\ balance' = [balance EXCEPT ![a] = @ - x]
      /\ group' = [group EXCEPT ![b] = @ \cup {"submit"}]
  BY <1>2, <1>3, <1>4 DEF PayoutSubmit
<1>6. Outside[b] = 0
  BY <1>3 DEF Outside
<1>7. Outside'[b] = x
  <2>1. "submit" \in group'[b] /\ "reversal" \notin group'[b]
    BY <1>1, <1>3, <1>5 DEF TypeOK
  <2>2. AmountOf(b)' = x
    BY <1>2, <1>4 DEF AmountOf
  <2>3. QED
    BY <2>1, <2>2 DEF Outside
<1>8. \A c \in Batches : c # b => group'[c] = group[c]
  BY <1>1, <1>5 DEF TypeOK
<1>9. \A c \in Batches : c # b => Outside'[c] = Outside[c]
  BY <1>8, OutsideKept
<1>10. /\ \A c \in Accounts : c # a => balance'[c] = balance[c]
       /\ balance'[a] = balance[a] - x /\ balance[a] \in Nat
  BY <1>1, <1>5 DEF TypeOK
<1>11. balance'[a] + Outside'[b] = balance[a] + Outside[b]
  BY <1>6, <1>7, <1>10
<1>12. QED
  BY <1>2, <1>9, <1>10, <1>11, BooksMoved

LEMMA BooksRefund ==
  ASSUME BaseInv, BooksInv, [Next]_vars, Refund \/ RefundCrash
  PROVE  BooksInv'
<1>1. TypeOK /\ JobInv /\ StagesInOrder
  BY DEF BaseInv
<1>2. job.pc = "answer" /\ Reverse(job.batch) /\ UNCHANGED <<funded, order>>
  BY DEF Refund, RefundCrash
<1>3. PICK b \in Batches : b = job.batch /\ order[b] # NoOrder /\ "submit" \in group[b]
  BY <1>1, <1>2, DecidedBatch DEF StagesInOrder
<1>4. CASE "reversal" \in group[b]
  <2>1. UNCHANGED <<balance, group>>
    BY <1>2, <1>3, <1>4 DEF Reverse
  <2>2. QED
    BY <1>2, <2>1, OutsideKept, BooksFramed
<1>5. CASE "reversal" \notin group[b]
  <2>1. PICK a \in Accounts, x \in Nat : a = AccountFor(b) /\ x = AmountOf(b)
    BY <1>1, <1>3, OrderedBatch
  <2>2. /\ balance' = [balance EXCEPT ![a] = @ + x]
        /\ group' = [group EXCEPT ![b] = @ \cup {"reversal"}]
    BY <1>2, <1>3, <1>5, <2>1 DEF Reverse
  <2>3. Outside[b] = x
    BY <1>3, <1>5, <2>1 DEF Outside
  <2>4. Outside'[b] = 0
    <3>1. "reversal" \in group'[b]
      BY <1>1, <2>2 DEF TypeOK
    <3>2. QED
      BY <3>1 DEF Outside
  <2>5. \A c \in Batches : c # b => group'[c] = group[c]
    BY <1>1, <2>2 DEF TypeOK
  <2>6. \A c \in Batches : c # b => Outside'[c] = Outside[c]
    BY <2>5, OutsideKept
  <2>7. /\ \A c \in Accounts : c # a => balance'[c] = balance[c]
        /\ balance'[a] = balance[a] + x /\ balance[a] \in Nat
    BY <1>1, <2>2 DEF TypeOK
  <2>8. balance'[a] + Outside'[b] = balance[a] + Outside[b]
    BY <2>3, <2>4, <2>7
  <2>9. QED
    BY <1>2, <2>6, <2>7, <2>8, BooksMoved
<1>6. QED
  BY <1>4, <1>5

LEMMA BooksInvNext == ASSUME BaseInv, BooksInv, [Next]_vars PROVE BooksInv'
<1>1. CASE Submit \/ SubmitCrash
  BY <1>1, BooksSubmit
<1>2. CASE Refund \/ RefundCrash
  BY <1>2, BooksRefund
<1>3. CASE Environment
  BY <1>3, BooksEnvironment
<1>4. CASE ~(Submit \/ SubmitCrash) /\ ~(Refund \/ RefundCrash) /\ ~Environment
  <2>1. UNCHANGED <<funded, balance>>
    <3>1. CASE Settle \/ SettleCrash
      BY <3>1 DEF Settle, SettleCrash
    <3>2. CASE Requests \/ ResumeTimer \/ Network \/ Tick \/ UNCHANGED vars \/ Crash
      BY <3>2 DEF Requests, Withdraw, ResumeTimer, Network, Include, Tick, Crash, vars, books
    <3>3. CASE StartWithdraw \/ StartResume \/ Prepare \/ PrepareFails \/ SubmitRefused
               \/ Send \/ AskThrows \/ Pending \/ (\E c \in Batches : Ask(c))
      BY <3>3 DEF StartWithdraw, StartResume, Prepare, PrepareFails, SubmitRefused,
                  Send, AskThrows, Pending, Ask, books
    <3>4. QED
      BY <1>4, <3>1, <3>2, <3>3 DEF Next, Step, Crashes
  <2>2. ASSUME NEW b \in Batches PROVE Outside'[b] = Outside[b]
    <3>1. /\ "submit" \in group'[b] <=> "submit" \in group[b]
          /\ "reversal" \in group'[b] <=> "reversal" \in group[b]
      BY <1>4, GroupsWritten
    <3>2. QED
      BY <3>1, OutsideKept
  <2>3. QED
    BY <2>1, <2>2, BooksFramed
<1>5. QED
  BY <1>1, <1>2, <1>3, <1>4

LEMMA BooksInvInit == Init => BooksInv
<1>1. SUFFICES ASSUME Init PROVE BooksInv
  OBVIOUS
<1>2. Units(balance) = {} /\ Units(Outside) = {}
  BY <1>1 DEF Init, Units, Outside
<1>3. QED
  BY <1>1, <1>2, FS_EmptySet DEF Init, BooksInv, Total

\* What is in flight, and what is settled and not in an account again, is all
\* that is outside.
LEMMA OutsideParts ==
  ASSUME BaseInv, SettleInv, BooksInv
  PROVE  MoneyAccountedFor
<1> DEFINE Gone == {b \in Settled : "reversal" \notin group[b]}
<1>1. \A b \in Batches : group[b] # {} => "submit" \in group[b]
  BY DEF BaseInv, StagesInOrder
<1>2. PICK f \in [Batches -> Nat] : f = Outside
  BY OutsideTyped DEF OutsideOK
<1>3. \A b \in Batches :
        f[b] = IF "submit" \in group[b] /\ "reversal" \notin group[b] THEN AmountOf(b) ELSE 0
  BY <1>2 DEF Outside
<1>4. \A b \in Settled : b \in Batches /\ AmountOf(b) \in Nat
  BY <1>1, OrderedBatch DEF Settled, BaseInv, StagesInOrder
<1>5. PICK A, B, C, D : A = InFlight /\ B = Gone /\ C = Doubled /\ D = Settled
  OBVIOUS
<1>6. /\ A \in SUBSET Batches /\ B \in SUBSET Batches /\ A \cap B = {}
      /\ \A b \in Batches : b \notin A \cup B => f[b] = 0
      /\ D \in SUBSET Batches /\ B \in SUBSET D /\ C \in SUBSET D /\ B \cap C = {}
      /\ D = B \cup C
  BY <1>1, <1>3, <1>5 DEF InFlight, Settled, Doubled
<1>7. PICK g \in [D -> Nat] : \A b \in D : g[b] = AmountOf(b)
  <2>1. [b \in D |-> AmountOf(b)] \in [D -> Nat]
    BY <1>4, <1>5
  <2>2. QED
    BY <2>1
<1>8. /\ Total(f) = Total([b \in A |-> f[b]]) + Total([b \in B |-> f[b]])
      /\ Total([b \in A |-> f[b]]) \in Nat /\ Total([b \in B |-> f[b]]) \in Nat
  BY <1>6, TotalParts, PayeesAssumption
<1>9. /\ Total(g) = Total([b \in B |-> g[b]]) + Total([b \in C |-> g[b]])
      /\ Total([b \in B |-> g[b]]) \in Nat /\ Total([b \in C |-> g[b]]) \in Nat
  <2>1. IsFiniteSet(D)
    BY <1>6, PayeesAssumption, FS_Subset
  <2>2. \A b \in D : b \notin B \cup C => g[b] = 0
    BY <1>6
  <2>3. QED
    BY <1>6, <2>1, <2>2, TotalParts
<1>10. [b \in A |-> f[b]] = [b \in InFlight |-> AmountOf(b)]
  <2>1. \A b \in A : f[b] = AmountOf(b)
    BY <1>3, <1>5, <1>6 DEF InFlight
  <2>2. QED
    BY <1>5, <2>1
<1>11. [b \in B |-> f[b]] = [b \in B |-> g[b]]
  <2>1. \A b \in B : f[b] = g[b]
    BY <1>1, <1>3, <1>5, <1>6, <1>7 DEF Settled
  <2>2. QED
    BY <2>1
<1>12. g = [b \in Settled |-> AmountOf(b)]
  BY <1>5, <1>7
<1>13. [b \in C |-> g[b]] = [b \in Doubled |-> AmountOf(b)]
  <2>1. \A b \in C : g[b] = AmountOf(b)
    BY <1>6, <1>7
  <2>2. QED
    BY <1>5, <2>1
<1>14. Total(balance) \in Nat
  BY TotalType, PayeesAssumption DEF BaseInv, TypeOK
<1>15. funded = Total(balance) + Total(f)
  BY <1>2 DEF BooksInv
<1>16. funded + Total([b \in C |-> g[b]]) =
         Total(balance) + Total([b \in A |-> f[b]]) + Total(g)
  BY <1>8, <1>9, <1>11, <1>14, <1>15
<1>17. \A b \in Settled : chain[b] = "success"
  BY DEF SettleInv, Settled
<1>18. QED
  BY <1>10, <1>12, <1>13, <1>16, <1>17 DEF MoneyAccountedFor

\* The ledger says "settled" only of a payment the network has made, and what
\* was credited is in an account, in flight or settled: nothing is lost when a
\* crash cuts a step off or counted twice when its step is repeated, except a
\* payment that was given back and then settled.
THEOREM NoMoneyLost == Spec => []MoneyAccountedFor
<1>1. Init => IInv /\ SettleInv /\ BooksInv
  BY IInvInit, BooksInvInit DEF Init, SettleInv
<1>2. IInv /\ SettleInv /\ BooksInv /\ [Next]_vars => (IInv /\ SettleInv /\ BooksInv)'
  BY IInvNext, SettleInvNext, BooksInvNext DEF IInv
<1>3. IInv /\ SettleInv /\ BooksInv => MoneyAccountedFor
  BY OutsideParts DEF IInv
<1>4. QED
  BY <1>1, <1>2, <1>3, PTL DEF Spec
=============================================================================
