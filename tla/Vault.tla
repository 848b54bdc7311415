-------------------------------- MODULE Vault --------------------------------
(***************************************************************************)
(* The escrow contract of the advertisers (contracts/vault).               *)
(*                                                                         *)
(* Advertisers put tokens into the vault and take them out on their own    *)
(* signature; the admin pays them out, split between a publisher and the   *)
(* platform at a rate fixed for good.  The token contract keeps its own    *)
(* books, and anybody may send tokens to any account.  A transaction is    *)
(* one step: when a transfer in it fails, nothing of it happens.  The      *)
(* names a call gives are of any account, the vault's own among them.      *)
(* Events and the life time of the entries are left out.                   *)
(***************************************************************************)
EXTENDS Totals, Integers

CONSTANTS
  Accounts,  \* addresses on the network
  Vault,     \* the address of the contract, which signs nothing
  MaxAmount  \* bound: tokens in existence

VARIABLES
  admin,    \* who may release
  platform, \* where the platform's part goes
  bps,      \* the publishers' part, in 1/10000
  balance,  \* what each advertiser may still spend or take back
  held      \* the books of the token contract

config == <<platform, bps>>
vars == <<admin, config, balance, held>>

Users == Accounts \ {Vault}
Amounts == 1 .. MaxAmount

\* The constructor; a rate above the whole is refused.
Init ==
  /\ admin \in Users /\ platform \in Accounts
  /\ bps \in 0 .. 10000
  /\ balance = [a \in Accounts |-> 0]
  /\ held \in [Accounts -> Nat] /\ Total(held) <= MaxAmount

\* What a transfer leaves in the books; one to oneself moves nothing.
Moved(books, from, to, n) ==
  IF from = to THEN books
  ELSE [books EXCEPT ![from] = @ - n, ![to] = @ + n]

Credit(a, n) == balance' = [balance EXCEPT ![a] = @ + n]
Debit(a, n) == balance' = [balance EXCEPT ![a] = @ - n]

\* An advertiser signs, and owns what it puts in.
Deposit(a, n) ==
  /\ held[a] >= n
  /\ held' = Moved(held, a, Vault, n)
  /\ Credit(a, n)
  /\ UNCHANGED <<admin, config>>

\* The publisher's part, rounded down.
PublisherAmount(n) == (n * bps) \div 10000

PaidOut(p, n) ==
  LET first == Moved(held, Vault, p, PublisherAmount(n))
  IN  Moved(first, Vault, platform, n - PublisherAmount(n))

\* The admin signs: the whole amount leaves the advertiser's balance.
Release(a, p, n) ==
  /\ balance[a] >= n
  /\ held[Vault] >= n
  /\ held' = PaidOut(p, n)
  /\ Debit(a, n)
  /\ UNCHANGED <<admin, config>>

\* The advertiser signs; the admin is not asked.
Withdraw(a, n) ==
  /\ balance[a] >= n
  /\ held[Vault] >= n
  /\ held' = Moved(held, Vault, a, n)
  /\ Debit(a, n)
  /\ UNCHANGED <<admin, config>>

\* The old and the new admin sign.
SetAdmin(new) ==
  /\ admin' = new
  /\ UNCHANGED <<config, balance, held>>

\* Tokens move without the contract; only their owner moves them.
Send(from, to, n) ==
  /\ held[from] >= n
  /\ held' = Moved(held, from, to, n)
  /\ UNCHANGED <<admin, config, balance>>

Next ==
  \/ \E a \in Users, n \in Amounts : Deposit(a, n) \/ Withdraw(a, n)
  \/ \E a, p \in Accounts, n \in Amounts : Release(a, p, n)
  \/ \E new \in Users : SetAdmin(new)
  \/ \E from \in Users, to \in Accounts, n \in Amounts : Send(from, to, n)

Spec == Init /\ [][Next]_vars

------------------------------------------------------------------------------
TypeOK ==
  /\ admin \in Users /\ platform \in Accounts
  /\ bps \in 0 .. 10000
  /\ balance \in [Accounts -> Nat]
  /\ held \in [Accounts -> Nat]

\* The vault holds at least what its advertisers may claim, whoever the
\* tokens are paid to and in whatever order the calls come (lib.rs, on its
\* own tokens and the balances).
Backed == Total(balance) <= held[Vault]

\* So everyone can take out all of what is theirs, without the platform.
CanWithdraw == \A a \in Users : balance[a] <= held[Vault]
=============================================================================
