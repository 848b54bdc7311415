-------------------------- MODULE StandaloneProofs --------------------------
(***************************************************************************)
(* The two components that share no state with the others, and that no run *)
(* checks: the vault holds what it owes, for any number of accounts, any   *)
(* rate and any sequence of calls; names on the leaderboard are unique and *)
(* lead to their owners, for any publishers, failed writes and restarts.   *)
(***************************************************************************)
EXTENDS Vault, Profiles, TotalsProofs

-----------------------------------------------------------------------------
(* The vault *)

\* A total grows and shrinks by what one of its values does.
LEMMA TotalOfChanged ==
  ASSUME NEW D, IsFiniteSet(D), NEW f \in [D -> Nat], NEW x \in D, NEW v \in Nat
  PROVE  Total([f EXCEPT ![x] = v]) = Total(f) - f[x] + v
<1> DEFINE g == [f EXCEPT ![x] = v]
           rest == [y \in D \ {x} |-> f[y]]
<1>1. g \in [D -> Nat] /\ g[x] = v
  OBVIOUS
<1>2. rest = [y \in D \ {x} |-> g[y]]
  OBVIOUS
<1>3. rest \in [D \ {x} -> Nat] /\ IsFiniteSet(D \ {x})
  BY FS_RemoveElement
<1>4. Total(rest) \in Nat
  BY <1>3, TotalType
<1>5. Total(f) = f[x] + Total(rest)
  BY TotalSplit
<1>6. Total(g) = v + Total(rest)
  <2> HIDE DEF g, rest
  <2>1. Total(g) = g[x] + Total([y \in D \ {x} |-> g[y]])
    BY <1>1, TotalSplit
  <2>2. QED
    BY <1>1, <1>2, <2>1
<1>7. QED
  <2> HIDE DEF rest
  <2>1. f[x] \in Nat
    OBVIOUS
  <2>2. QED
    BY <1>4, <1>5, <1>6, <2>1

LEMMA OnePartOfTotal ==
  ASSUME NEW D, IsFiniteSet(D), NEW f \in [D -> Nat], NEW x \in D
  PROVE  f[x] <= Total(f)
<1> DEFINE rest == [y \in D \ {x} |-> f[y]]
<1>1. rest \in [D \ {x} -> Nat] /\ IsFiniteSet(D \ {x})
  BY FS_RemoveElement
<1>2. Total(rest) \in Nat
  BY <1>1, TotalType
<1>3. Total(f) = f[x] + Total(rest)
  BY TotalSplit
<1>4. f[x] \in Nat
  OBVIOUS
<1> HIDE DEF rest
<1>5. QED
  BY <1>2, <1>3, <1>4

\* The total of a function that is zero everywhere.
LEMMA TotalOfNothing ==
  ASSUME NEW D
  PROVE  Total([x \in D |-> 0]) = 0
<1>1. Units([x \in D |-> 0]) = {}
  BY DEF Units
<1>2. QED
  BY <1>1, FS_EmptySet DEF Total

\* The publisher gets no more than was released.
LEMMA PublisherPart ==
  ASSUME bps \in 0 .. 10000, NEW n \in Nat
  PROVE  PublisherAmount(n) \in 0 .. n
<1>1. n * bps \in Nat /\ n * bps <= n * 10000
  OBVIOUS
<1> DEFINE whole == n * bps
<1>2. whole \in Nat /\ whole <= n * 10000
  BY <1>1
<1> HIDE DEF whole
<1>3. whole \div 10000 \in 0 .. n
  BY <1>2
<1>4. QED
  BY <1>3 DEF PublisherAmount, whole

\* A transfer of what is there: the sender loses it and nobody else loses.
LEMMA Transferred ==
  ASSUME NEW books \in [Accounts -> Nat], NEW from \in Accounts, NEW to \in Accounts,
         NEW n \in Nat, books[from] >= n
  PROVE  /\ Moved(books, from, to, n) \in [Accounts -> Nat]
         /\ Moved(books, from, to, n)[from] >= books[from] - n
         /\ \A a \in Accounts \ {from} : Moved(books, from, to, n)[a] >= books[a]
         /\ to # from => Moved(books, from, to, n)[to] = books[to] + n
BY DEF Moved

VaultInv == TypeOK /\ Backed

\* What the proofs ask of the constants.
Sound == IsFiniteSet(Accounts) /\ Vault \in Accounts /\ MaxAmount \in Nat

LEMMA Starts ==
  ASSUME Sound, Init
  PROVE  VaultInv
<1>1. TypeOK
  BY DEF Init, TypeOK
<1>2. Total(balance) = 0
  BY TotalOfNothing DEF Init
<1>3. QED
  BY <1>1, <1>2 DEF VaultInv, Backed, TypeOK, Sound

LEMMA DepositKeeps ==
  ASSUME Sound, VaultInv, NEW a \in Users, NEW n \in Amounts, Deposit(a, n)
  PROVE  VaultInv'
<1>1. n \in Nat /\ a \in Accounts /\ Vault \in Accounts /\ a # Vault
  BY DEF Amounts, Users, Sound
<1>2. held' \in [Accounts -> Nat] /\ held'[Vault] = held[Vault] + n
  BY <1>1, Transferred DEF Deposit, VaultInv, TypeOK
<1>3. balance[a] \in Nat /\ balance' = [balance EXCEPT ![a] = balance[a] + n]
  BY <1>1 DEF Deposit, Credit, VaultInv, TypeOK
<1>4. balance' \in [Accounts -> Nat]
  BY <1>1, <1>3 DEF VaultInv, TypeOK
<1>5. Total(balance') = Total(balance) - balance[a] + (balance[a] + n)
  <2>1. balance \in [Accounts -> Nat] /\ IsFiniteSet(Accounts)
    BY DEF VaultInv, TypeOK, Sound
  <2> DEFINE v == balance[a] + n
  <2>2. v \in Nat /\ balance' = [balance EXCEPT ![a] = v]
    BY <1>1, <1>3
  <2> HIDE DEF v
  <2>3. Total(balance') = Total(balance) - balance[a] + v
    BY <1>1, <2>1, <2>2, TotalOfChanged
  <2>4. QED
    BY <2>3 DEF v
<1>6. Total(balance) \in Nat /\ held[Vault] \in Nat
  BY TotalType DEF VaultInv, TypeOK, Sound
<1>7. QED
  BY <1>1, <1>2, <1>3, <1>4, <1>5, <1>6 DEF Deposit, config, VaultInv, TypeOK, Backed

\* A balance goes down by no less than the vault pays out.
LEMMA DebitKeeps ==
  ASSUME Sound, VaultInv, NEW a \in Accounts, NEW n \in Nat, balance[a] >= n, Debit(a, n),
         held' \in [Accounts -> Nat], held'[Vault] >= held[Vault] - n,
         UNCHANGED <<admin, config>>
  PROVE  VaultInv'
<1>1. balance[a] \in Nat /\ balance[a] - n \in Nat
      /\ balance' = [balance EXCEPT ![a] = balance[a] - n]
  BY DEF Debit, VaultInv, TypeOK
<1>2. balance' \in [Accounts -> Nat]
  BY <1>1 DEF VaultInv, TypeOK
<1>3. Total(balance') = Total(balance) - balance[a] + (balance[a] - n)
  <2>1. balance \in [Accounts -> Nat] /\ IsFiniteSet(Accounts)
    BY DEF VaultInv, TypeOK, Sound
  <2> DEFINE v == balance[a] - n
  <2>2. v \in Nat /\ balance' = [balance EXCEPT ![a] = v]
    BY <1>1
  <2> HIDE DEF v
  <2>3. Total(balance') = Total(balance) - balance[a] + v
    BY <2>1, <2>2, TotalOfChanged
  <2>4. QED
    BY <2>3 DEF v
<1>4. Total(balance) \in Nat /\ held[Vault] \in Nat /\ held'[Vault] \in Nat
  BY TotalType DEF VaultInv, TypeOK, Sound
<1>5. QED
  BY <1>1, <1>2, <1>3, <1>4 DEF config, VaultInv, TypeOK, Backed

LEMMA ReleaseKeeps ==
  ASSUME Sound, VaultInv, NEW a \in Accounts, NEW p \in Accounts, NEW n \in Amounts,
         Release(a, p, n)
  PROVE  VaultInv'
<1> DEFINE part == PublisherAmount(n)
           first == Moved(held, Vault, p, part)
<1>1. n \in Nat /\ Vault \in Accounts /\ platform \in Accounts /\ held[Vault] \in Nat
  BY DEF Amounts, Sound, VaultInv, TypeOK
<1>2. part \in 0 .. n
  BY <1>1, PublisherPart DEF VaultInv, TypeOK
<1>3. held \in [Accounts -> Nat] /\ held[Vault] >= n /\ part \in Nat /\ n - part \in Nat
  BY <1>1, <1>2 DEF Release, VaultInv, TypeOK
<1> HIDE DEF part
<1>4. first \in [Accounts -> Nat] /\ first[Vault] >= held[Vault] - part
  BY <1>1, <1>2, <1>3, Transferred
<1>5. held' = Moved(first, Vault, platform, n - part)
  BY DEF Release, PaidOut, part
<1> HIDE DEF first
<1>6. first[Vault] \in Nat /\ first[Vault] >= n - part
  BY <1>1, <1>3, <1>4
<1>7. held' \in [Accounts -> Nat] /\ held'[Vault] >= first[Vault] - (n - part)
  BY <1>1, <1>3, <1>4, <1>5, <1>6, Transferred
<1>8. held'[Vault] >= held[Vault] - n
  BY <1>1, <1>3, <1>4, <1>6, <1>7
<1>9. QED
  BY <1>1, <1>7, <1>8, DebitKeeps DEF Release

LEMMA WithdrawKeeps ==
  ASSUME Sound, VaultInv, NEW a \in Users, NEW n \in Amounts, Withdraw(a, n)
  PROVE  VaultInv'
<1>1. n \in Nat /\ a \in Accounts /\ Vault \in Accounts
  BY DEF Amounts, Users, Sound
<1>2. held' \in [Accounts -> Nat] /\ held'[Vault] >= held[Vault] - n
  BY <1>1, Transferred DEF Withdraw, VaultInv, TypeOK
<1>3. QED
  BY <1>1, <1>2, DebitKeeps DEF Withdraw

LEMMA SendKeeps ==
  ASSUME Sound, VaultInv, NEW from \in Users, NEW to \in Accounts, NEW n \in Amounts,
         Send(from, to, n)
  PROVE  VaultInv'
<1>1. n \in Nat /\ from \in Accounts /\ Vault \in Accounts /\ from # Vault
  BY DEF Amounts, Users, Sound
<1>2. held' \in [Accounts -> Nat] /\ held'[Vault] >= held[Vault]
  <2>1. held \in [Accounts -> Nat] /\ held[from] >= n /\ held' = Moved(held, from, to, n)
    BY DEF Send, VaultInv, TypeOK
  <2>2. Vault \in Accounts \ {from}
    BY <1>1
  <2>3. QED
    BY <1>1, <2>1, <2>2, Transferred
<1>3. Total(balance) \in Nat /\ held[Vault] \in Nat /\ held'[Vault] \in Nat
  BY <1>1, <1>2, TotalType DEF VaultInv, TypeOK, Sound
<1>4. QED
  BY <1>2, <1>3 DEF Send, config, VaultInv, TypeOK, Backed

LEMMA StepKeeps ==
  ASSUME Sound, VaultInv, [Next]_vars
  PROVE  VaultInv'
<1>1. ASSUME NEW a \in Users, NEW n \in Amounts, Deposit(a, n) \/ Withdraw(a, n)
      PROVE  VaultInv'
  BY <1>1, DepositKeeps, WithdrawKeeps
<1>2. ASSUME NEW a \in Accounts, NEW p \in Accounts, NEW n \in Amounts, Release(a, p, n)
      PROVE  VaultInv'
  BY <1>2, ReleaseKeeps
<1>3. ASSUME NEW new \in Users, SetAdmin(new)
      PROVE  VaultInv'
  BY <1>3 DEF SetAdmin, config, VaultInv, TypeOK, Backed
<1>4. ASSUME NEW from \in Users, NEW to \in Accounts, NEW n \in Amounts, Send(from, to, n)
      PROVE  VaultInv'
  BY <1>4, SendKeeps
<1>5. CASE UNCHANGED vars
  BY <1>5 DEF vars, config, VaultInv, TypeOK, Backed
<1>6. QED
  BY <1>1, <1>2, <1>3, <1>4, <1>5 DEF Next

\* Whatever is called, by whom and in whatever order, the vault's tokens
\* cover the balances of its advertisers (lib.rs deposit, release, withdraw).
THEOREM AlwaysBacked ==
  ASSUME Sound
  PROVE  Spec => []Backed
<1>1. Init => VaultInv
  BY Starts
<1>2. VaultInv /\ [Next]_vars => VaultInv'
  BY StepKeeps
<1>3. VaultInv => Backed
  BY DEF VaultInv
<1>4. QED
  BY <1>1, <1>2, <1>3, PTL DEF Spec

\* So no advertiser ever waits for another, or for the platform, to take out
\* what is left of its own (lib.rs withdraw).
THEOREM AlwaysCanWithdraw ==
  ASSUME Sound
  PROVE  Spec => []CanWithdraw
<1>1. Init => VaultInv
  BY Starts
<1>2. VaultInv /\ [Next]_vars => VaultInv'
  BY StepKeeps
<1>3. ASSUME VaultInv
      PROVE  CanWithdraw
  <2> SUFFICES ASSUME NEW a \in Users
               PROVE  balance[a] <= held[Vault]
    BY DEF CanWithdraw
  <2>1. balance[a] \in Nat /\ held[Vault] \in Nat /\ Total(balance) \in Nat
    BY <1>3, TotalType DEF Users, Sound, VaultInv, TypeOK
  <2>2. balance[a] <= Total(balance)
    BY <1>3, OnePartOfTotal DEF Users, Sound, VaultInv, TypeOK
  <2>3. QED
    BY <1>3, <2>1, <2>2 DEF VaultInv, Backed
<1>4. QED
  BY <1>1, <1>2, <1>3, PTL DEF Spec

-----------------------------------------------------------------------------
(* The names *)

ProfilesInv == ProfilesTypeOK /\ NamesUnique /\ IndexExact

\* Another profile in a table of unique names, under a name nobody else has.
LEMMA PutKeepsUnique ==
  ASSUME NEW table, NEW p \in Publishers, NEW x \in Profile,
         IsTable(table), NoTwins(table),
         \A q \in DOMAIN table \ {p} : Name(table, q) # Lower[x.nickname]
  PROVE  IsTable(Put(table, p, x)) /\ NoTwins(Put(table, p, x))
<1> DEFINE t == Put(table, p, x)
<1>1. DOMAIN t = DOMAIN table \cup {p} /\ t[p] = x
  BY DEF Put
<1>2. \A q \in DOMAIN t \ {p} : q \in DOMAIN table \ {p} /\ t[q] = table[q]
  BY DEF Put
<1> HIDE DEF t
<1>3. IsTable(t)
  BY <1>1, <1>2 DEF IsTable
<1>4. NoTwins(t)
  <2>1. SUFFICES ASSUME NEW q \in DOMAIN t, NEW r \in DOMAIN t, Name(t, q) = Name(t, r)
                 PROVE  q = r
    BY DEF NoTwins
  <2>2. CASE q = p /\ r # p
    BY <1>1, <1>2, <2>1, <2>2 DEF Name
  <2>3. CASE q # p /\ r = p
    BY <1>1, <1>2, <2>1, <2>3 DEF Name
  <2>4. CASE q # p /\ r # p
    BY <1>2, <2>1, <2>4 DEF Name, NoTwins
  <2>5. QED
    BY <2>2, <2>3, <2>4
<1>5. QED
  BY <1>3, <1>4 DEF t

LEMMA NamesStart ==
  ASSUME ProfilesInit
  PROVE  ProfilesInv
<1>1. DOMAIN Empty = {}
  BY DEF Empty
<1>2. ProfilesTypeOK
  BY <1>1 DEF ProfilesInit, ProfilesTypeOK, IsTable
<1>3. NamesUnique
  BY <1>1 DEF ProfilesInit, NamesUnique, NoTwins
<1>4. IndexExact
  BY <1>1 DEF ProfilesInit, IndexExact, Names
<1>5. QED
  BY <1>2, <1>3, <1>4 DEF ProfilesInv

\* Whoever has a name is the only one in the index under it: a name that is
\* not taken is new, or was the publisher's own.
LEMMA SetKeeps ==
  ASSUME ProfilesInv, NEW p \in Publishers, NEW x \in Profile, Set(p, x)
  PROVE  ProfilesInv'
<1> DEFINE k == Lower[x.nickname]
           given == IF p \in DOMAIN profiles THEN Drop(owner, Name(profiles, p)) ELSE owner
<1>1. /\ profiles' = Put(profiles, p, x) /\ owner' = Put(given, k, p)
      /\ k \in DOMAIN owner => owner[k] = p
      /\ UNCHANGED <<earned, impressions>>
  BY DEF Set, Taken
<1>2. /\ DOMAIN owner = Names(profiles)
      /\ \A q \in DOMAIN profiles : owner[Name(profiles, q)] = q
      /\ IsTable(profiles) /\ IsTable(disk) /\ NoTwins(profiles) /\ NoTwins(disk)
  BY DEF ProfilesInv, ProfilesTypeOK, NamesUnique, IndexExact
<1>3. \A q \in DOMAIN profiles \ {p} : Name(profiles, q) # k
  <2>1. ASSUME NEW q \in DOMAIN profiles \ {p}, Name(profiles, q) = k
        PROVE  FALSE
    <3>1. k \in DOMAIN owner /\ owner[k] = q
      BY <1>2, <2>1 DEF Names
    <3>2. QED
      BY <1>1, <3>1
  <2>2. QED
    BY <2>1
<1>4. IsTable(profiles') /\ NoTwins(profiles')
  BY <1>1, <1>2, <1>3, PutKeepsUnique
<1>5. IsTable(disk') /\ NoTwins(disk')
  <2>1. CASE UNCHANGED disk
    BY <1>2, <2>1 DEF IsTable, NoTwins, Name
  <2>2. CASE ~Refused(p, x) /\ disk' = Put(disk, p, x)
    <3>1. \A q \in DOMAIN disk \ {p} : Name(disk, q) # k
      BY <2>2 DEF Refused
    <3>2. QED
      BY <1>2, <2>2, <3>1, PutKeepsUnique
  <2>3. QED
    BY <2>1, <2>2 DEF Set, Save
<1>6. DOMAIN profiles' = DOMAIN profiles \cup {p} /\ profiles'[p] = x
  BY <1>1 DEF Put
<1>7. \A q \in DOMAIN profiles \ {p} : profiles'[q] = profiles[q]
  BY <1>1 DEF Put
<1>8. \A n \in DOMAIN given : n # k => n \in DOMAIN owner /\ given[n] = owner[n]
  BY DEF Drop
<1>9. \A q \in DOMAIN profiles \ {p} :
         Name(profiles, q) \in DOMAIN given /\ given[Name(profiles, q)] = q
  <2>1. ASSUME NEW q \in DOMAIN profiles \ {p}
        PROVE  Name(profiles, q) \in DOMAIN given /\ given[Name(profiles, q)] = q
    <3>1. Name(profiles, q) \in DOMAIN owner /\ owner[Name(profiles, q)] = q
      BY <1>2 DEF Names
    <3>2. p \in DOMAIN profiles => Name(profiles, q) # Name(profiles, p)
      BY <1>2 DEF NoTwins
    <3>3. QED
      BY <3>1, <3>2 DEF Drop
  <2>2. QED
    BY <2>1
<1>10. \A n \in DOMAIN given :
         \E q \in DOMAIN profiles \ {p} : n = Name(profiles, q)
  <2>1. ASSUME NEW n \in DOMAIN given
        PROVE  \E q \in DOMAIN profiles \ {p} : n = Name(profiles, q)
    <3>1. n \in Names(profiles)
      BY <1>2, <2>1 DEF Drop
    <3>2. p \in DOMAIN profiles => n # Name(profiles, p)
      BY <2>1 DEF Drop
    <3>3. QED
      BY <3>1, <3>2 DEF Names
  <2>2. QED
    BY <2>1
<1>11. DOMAIN owner' = DOMAIN given \cup {k} /\ owner'[k] = p
  BY <1>1 DEF Put
<1>12. \A n \in DOMAIN given : n # k => owner'[n] = given[n]
  BY <1>1 DEF Put
<1> HIDE DEF given
<1>13. \A q \in DOMAIN profiles \ {p} : Name(profiles, q)' = Name(profiles, q)
  BY <1>7 DEF Name
<1>14. Name(profiles, p)' = k
  BY <1>6 DEF Name
<1> HIDE DEF k
<1>15. IndexExact'
  <2>1. DOMAIN owner' = Names(profiles)'
    <3>1. ASSUME NEW n \in DOMAIN owner'
          PROVE  \E q \in DOMAIN profiles' : n = Name(profiles, q)'
      <4>1. CASE n = k
        BY <1>6, <1>14, <4>1
      <4>2. CASE n \in DOMAIN given
        BY <1>6, <1>10, <1>13, <4>2
      <4>3. QED
        BY <1>11, <4>1, <4>2
    <3>2. ASSUME NEW q \in DOMAIN profiles'
          PROVE  Name(profiles, q)' \in DOMAIN owner'
      <4>1. CASE q = p
        BY <1>11, <1>14, <4>1
      <4>2. CASE q # p
        BY <1>6, <1>9, <1>11, <1>13, <4>2
      <4>3. QED
        BY <4>1, <4>2
    <3>3. QED
      BY <3>1, <3>2 DEF Names
  <2>2. ASSUME NEW q \in DOMAIN profiles'
        PROVE  owner'[Name(profiles, q)'] = q
    <3>1. CASE q = p
      BY <1>11, <1>14, <3>1
    <3>2. CASE q # p
      <4>1. q \in DOMAIN profiles \ {p}
        BY <1>6, <3>2
      <4>2. QED
        BY <1>3, <1>9, <1>12, <1>13, <4>1
    <3>3. QED
      BY <3>1, <3>2
  <2>3. QED
    BY <2>1, <2>2 DEF IndexExact
<1>16. ProfilesTypeOK'
  <2>1. DOMAIN owner' \subseteq {Lower[n] : n \in Nicknames}
    <3>1. k \in {Lower[n] : n \in Nicknames}
      BY DEF k, Profile
    <3>2. DOMAIN given \subseteq DOMAIN owner
      BY DEF given, Drop
    <3>3. QED
      BY <1>11, <3>1, <3>2 DEF ProfilesInv, ProfilesTypeOK
  <2>2. ASSUME NEW n \in DOMAIN owner'
        PROVE  owner'[n] \in Publishers
    <3>1. CASE n = k
      BY <1>11, <3>1
    <3>2. CASE n # k
      BY <1>8, <1>11, <1>12, <3>2 DEF ProfilesInv, ProfilesTypeOK
    <3>3. QED
      BY <3>1, <3>2
  <2>3. earned' \in [Publishers -> Int] /\ impressions' \in [Publishers -> Int]
    BY <1>1 DEF ProfilesInv, ProfilesTypeOK
  <2>4. IsTable(profiles)' /\ IsTable(disk)'
    BY <1>4, <1>5 DEF IsTable
  <2>5. QED
    BY <2>1, <2>2, <2>3, <2>4 DEF ProfilesTypeOK
<1>17. NamesUnique'
  BY <1>4, <1>5 DEF NamesUnique, NoTwins, Name
<1>18. QED
  BY <1>15, <1>16, <1>17 DEF ProfilesInv

\* With unique names on the disk there is only one index.
LEMMA RestartKeeps ==
  ASSUME ProfilesInv, Restart
  PROVE  ProfilesInv'
<1>1. /\ profiles' = disk /\ disk' = disk /\ owner' \in Indexes(disk)
      /\ UNCHANGED <<earned, impressions>>
  BY DEF Restart
<1>2. IsTable(disk) /\ NoTwins(disk)
  BY DEF ProfilesInv, ProfilesTypeOK, NamesUnique
<1>3. /\ owner' \in [Names(disk) -> DOMAIN disk]
      /\ \A k \in Names(disk) : Name(disk, owner'[k]) = k
  BY <1>1 DEF Indexes
<1>4. \A p \in DOMAIN disk : Name(disk, p) \in Names(disk)
  BY DEF Names
<1>5. \A p \in DOMAIN disk : owner'[Name(disk, p)] = p
  BY <1>2, <1>3, <1>4 DEF NoTwins
<1>6. IndexExact'
  BY <1>1, <1>3, <1>5 DEF IndexExact, Names, Name
<1>7. NamesUnique'
  BY <1>1, <1>2 DEF NamesUnique, NoTwins, Name
<1>8. ProfilesTypeOK'
  <2>1. Names(disk) \subseteq {Lower[n] : n \in Nicknames}
    BY <1>2 DEF Names, Name, IsTable, Profile
  <2>2. \A k \in DOMAIN owner' : owner'[k] \in Publishers
    BY <1>2, <1>3 DEF IsTable
  <2>3. QED
    BY <1>1, <1>2, <1>3, <2>1, <2>2 DEF ProfilesInv, ProfilesTypeOK, IsTable
<1>9. QED
  BY <1>6, <1>7, <1>8 DEF ProfilesInv

LEMMA EarnKeeps ==
  ASSUME ProfilesInv, NEW p \in Publishers, Earn(p)
  PROVE  ProfilesInv'
<1>1. earned' \in [Publishers -> Int] /\ impressions' \in [Publishers -> Int]
  BY DEF Earn, ProfilesInv, ProfilesTypeOK
<1>2. UNCHANGED store
  BY DEF Earn
<1>3. QED
  BY <1>1, <1>2 DEF store, ProfilesInv, ProfilesTypeOK, IsTable, NamesUnique, NoTwins, IndexExact, Names, Name

LEMMA NamesInvariant == ProfilesSpec => []ProfilesInv
<1>1. ProfilesInv /\ [ProfilesNext]_profilesVars => ProfilesInv'
  <2> SUFFICES ASSUME ProfilesInv, [ProfilesNext]_profilesVars
               PROVE  ProfilesInv'
    OBVIOUS
  <2>1. ASSUME NEW p \in Publishers, NEW x \in Profile, Set(p, x)
        PROVE  ProfilesInv'
    BY <2>1, SetKeeps
  <2>2. ASSUME NEW p \in Publishers, Earn(p)
        PROVE  ProfilesInv'
    BY <2>2, EarnKeeps
  <2>3. CASE Restart
    BY <2>3, RestartKeeps
  <2>4. CASE UNCHANGED profilesVars
    BY <2>4 DEF profilesVars, store, ProfilesInv, ProfilesTypeOK, IsTable, NamesUnique, NoTwins, IndexExact, Names, Name
  <2>5. QED
    BY <2>1, <2>2, <2>3, <2>4 DEF ProfilesNext
<1>2. QED
  BY <1>1, NamesStart, PTL DEF ProfilesSpec

\* No two publishers have the same name at any time, in memory or on disk
\* (profiles.ts ProfileStore.set).
THEOREM NamesStayUnique == ProfilesSpec => []NamesUnique
<1>1. ProfilesInv => NamesUnique
  BY DEF ProfilesInv
<1>2. QED
  BY <1>1, NamesInvariant, PTL

\* Every row of the leaderboard leads to the card of the publisher it names
\* (leaderboard.ts profile).
THEOREM RowsLeadToTheirCards == ProfilesSpec => []CardOfRow
<1>1. ProfilesInv => CardOfRow
  <2> SUFFICES ASSUME ProfilesInv, NEW p \in Listed(Countries)
               PROVE  Card(profiles[p].nickname) = {p}
    BY DEF CardOfRow
  <2>1. p \in DOMAIN profiles
    BY DEF Listed
  <2>2. Lower[profiles[p].nickname] \in DOMAIN owner
    BY <2>1 DEF ProfilesInv, IndexExact, Names, Name
  <2>3. owner[Lower[profiles[p].nickname]] = p
    BY <2>1 DEF ProfilesInv, IndexExact, Name
  <2>4. QED
    BY <2>2, <2>3 DEF Card
<1>2. QED
  BY <1>1, NamesInvariant, PTL

\* If the alphabet puts any two names in one order, the rows of the
\* leaderboard have one order, ties of earnings included (leaderboard.ts rank).
THEOREM RowsHaveOneOrder ==
  ASSUME \A m, n \in Nicknames : m # n => (Precedes(m, n) <=> ~Precedes(n, m))
  PROVE  ProfilesSpec => []OneOrder
<1>1. ProfilesInv => OneOrder
  <2> SUFFICES ASSUME ProfilesInv, NEW p \in Listed(Countries), NEW q \in Listed(Countries), p # q
               PROVE  Ahead(p, q) <=> ~Ahead(q, p)
    BY DEF OneOrder
  <2>1. /\ p \in DOMAIN profiles /\ q \in DOMAIN profiles
        /\ p \in Publishers /\ q \in Publishers
    BY DEF Listed, ProfilesInv, ProfilesTypeOK, IsTable
  <2>2. /\ profiles[p].nickname \in Nicknames
        /\ profiles[q].nickname \in Nicknames
    BY <2>1 DEF ProfilesInv, ProfilesTypeOK, IsTable, Profile
  <2>3. profiles[p].nickname # profiles[q].nickname
    BY <2>1 DEF ProfilesInv, NamesUnique, NoTwins, Name
  <2>4. earned[p] \in Int /\ earned[q] \in Int /\ impressions[p] \in Int /\ impressions[q] \in Int
    BY <2>1 DEF ProfilesInv, ProfilesTypeOK
  <2>5. Precedes(profiles[p].nickname, profiles[q].nickname)
          <=> ~Precedes(profiles[q].nickname, profiles[p].nickname)
    BY <2>2, <2>3
  <2>6. QED
    BY <2>4, <2>5 DEF Ahead
<1>2. QED
  BY <1>1, NamesInvariant, PTL
=============================================================================
