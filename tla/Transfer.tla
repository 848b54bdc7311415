------------------------------ MODULE Transfer ------------------------------
(***************************************************************************)
(* What a withdrawal promises: money leaves an account once, if the        *)
(* account has it beyond its promises, and is then either paid outside or  *)
(* put back, never both.  Neither end is ever undone.                      *)
(***************************************************************************)
EXTENDS Integers

CONSTANTS
  Transfers,  \* transfers that may be made
  Accounts,   \* accounts of the ledger
  Amounts     \* amounts of money

VARIABLES
  balance,    \* the money of each account
  reserved,   \* the part of it that is promised to others
  transfer    \* every transfer made so far and how it ended

NotMade == [state |-> "new"]

Init ==
  /\ balance = [a \in Accounts |-> 0]
  /\ reserved = [a \in Accounts |-> 0]
  /\ transfer = [t \in Transfers |-> NotMade]

\* Money comes in, is promised, is handed over as promised, or is released.
Earn(a, x) ==
  /\ balance' = [balance EXCEPT ![a] = @ + x]
  /\ UNCHANGED <<reserved, transfer>>

Promise(a, x) ==
  /\ reserved[a] + x <= balance[a]
  /\ reserved' = [reserved EXCEPT ![a] = @ + x]
  /\ UNCHANGED <<balance, transfer>>

Deliver(a, x) ==
  /\ x <= reserved[a]
  /\ reserved' = [reserved EXCEPT ![a] = @ - x]
  /\ balance' \in {balance, [balance EXCEPT ![a] = @ - x]}
  /\ UNCHANGED transfer

Make(t, a, x) ==
  /\ transfer[t] = NotMade
  /\ reserved[a] + x <= balance[a]
  /\ balance' = [balance EXCEPT ![a] = @ - x]
  /\ transfer' = [transfer EXCEPT ![t] = [state |-> "open", account |-> a, amount |-> x]]
  /\ UNCHANGED reserved

Pay(t) ==
  /\ transfer[t].state = "open"
  /\ transfer' = [transfer EXCEPT ![t].state = "paid"]
  /\ UNCHANGED <<balance, reserved>>

GiveBack(t) ==
  /\ transfer[t].state = "open"
  /\ transfer' = [transfer EXCEPT ![t].state = "refunded"]
  /\ balance' = [balance EXCEPT ![transfer[t].account] = @ + transfer[t].amount]
  /\ UNCHANGED reserved

Next ==
  \/ \E a \in Accounts, x \in Amounts : Earn(a, x) \/ Promise(a, x) \/ Deliver(a, x)
  \/ \E t \in Transfers, a \in Accounts, x \in Amounts : Make(t, a, x)
  \/ \E t \in Transfers : Pay(t) \/ GiveBack(t)

Spec == Init /\ [][Next]_<<balance, reserved, transfer>>
=============================================================================
