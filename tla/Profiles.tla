------------------------------ MODULE Profiles ------------------------------
(***************************************************************************)
(* The public names of publishers and the leaderboard made of them.        *)
(*                                                                         *)
(* A publisher takes a nickname nobody else has, whatever the case of its  *)
(* letters; the store keeps the profiles, an index of the names, and a     *)
(* copy on disk whose unique index refuses a second owner of a name.  The  *)
(* memory changes first, so that a write that fails leaves it ahead of the *)
(* disk until the next start.  The earnings come from the ledger.          *)
(***************************************************************************)
EXTENDS Integers

CONSTANTS
  Publishers,
  Nicknames,
  Lower,         \* the name without the case of its letters
  Countries,     \* "no country" among them
  Precedes(_, _) \* the alphabetical order of the names

VARIABLES
  profiles, \* in memory, by publisher
  owner,    \* in memory, the publisher of each lower-case name
  disk,     \* the table
  earned, impressions \* what the ledger has for each publisher

store == <<profiles, owner, disk>>
profilesVars == <<store, earned, impressions>>

Profile == [nickname : Nicknames, country : Countries, listed : BOOLEAN]

\* The name of a publisher, as far as owners of names are told apart.
Name(table, p) == Lower[table[p].nickname]

Put(f, x, v) == [y \in DOMAIN f \cup {x} |-> IF y = x THEN v ELSE f[y]]
Drop(f, x) == [y \in DOMAIN f \ {x} |-> f[y]]

\* The index a start builds: of two owners of a name, the one read last.
Names(table) == {Name(table, p) : p \in DOMAIN table}
Indexes(table) ==
  {f \in [Names(table) -> DOMAIN table] : \A k \in Names(table) : Name(table, f[k]) = k}

Empty == [x \in {} |-> x]

ProfilesInit ==
  /\ profiles = Empty /\ owner = Empty /\ disk = Empty
  /\ earned \in [Publishers -> Int] /\ impressions \in [Publishers -> Int]

Taken(p, x) == Lower[x.nickname] \in DOMAIN owner /\ owner[Lower[x.nickname]] # p

\* The unique index on the lower-case name.
Refused(p, x) == \E q \in DOMAIN disk \ {p} : Name(disk, q) = Lower[x.nickname]

Save(p, x) ==
  \/ ~Refused(p, x) /\ disk' = Put(disk, p, x)
  \/ UNCHANGED disk

\* PUT /v1/me/profile: the old name is given up before the new one is taken,
\* which may be the old one in other letters.
Set(p, x) ==
  LET given == IF p \in DOMAIN profiles THEN Drop(owner, Name(profiles, p)) ELSE owner IN
  /\ ~Taken(p, x)
  /\ profiles' = Put(profiles, p, x)
  /\ owner' = Put(given, Lower[x.nickname], p)
  /\ Save(p, x)
  /\ UNCHANGED <<earned, impressions>>

\* The process starts again with what the disk holds.
Restart ==
  /\ profiles' = disk /\ owner' \in Indexes(disk)
  /\ UNCHANGED <<disk, earned, impressions>>

\* An impression is billed, or a period ends; one's own ads do not count.
Earn(p) ==
  /\ \E e, n \in Int : earned' = [earned EXCEPT ![p] = e] /\ impressions' = [impressions EXCEPT ![p] = n]
  /\ UNCHANGED store

ProfilesNext ==
  \/ \E p \in Publishers : (\E x \in Profile : Set(p, x)) \/ Earn(p)
  \/ Restart

ProfilesSpec == ProfilesInit /\ [][ProfilesNext]_profilesVars

(***************************************************************************)
(* The leaderboard                                                         *)
(***************************************************************************)
Listed(where) ==
  {p \in DOMAIN profiles : profiles[p].listed /\ profiles[p].country \in where /\ earned[p] > 0}

Ahead(p, q) ==
  \/ earned[p] > earned[q]
  \/ earned[p] = earned[q] /\ impressions[p] > impressions[q]
  \/ /\ earned[p] = earned[q] /\ impressions[p] = impressions[q]
     /\ Precedes(profiles[p].nickname, profiles[q].nickname)

\* The card of a name: nobody's, when its owner is not on the board.
Card(n) == {p \in Listed(Countries) : Lower[n] \in DOMAIN owner /\ p = owner[Lower[n]]}

------------------------------------------------------------------------------
IsTable(t) == DOMAIN t \subseteq Publishers /\ \A p \in DOMAIN t : t[p] \in Profile

ProfilesTypeOK ==
  /\ IsTable(profiles) /\ IsTable(disk)
  /\ DOMAIN owner \subseteq {Lower[n] : n \in Nicknames}
  /\ \A k \in DOMAIN owner : owner[k] \in Publishers
  /\ earned \in [Publishers -> Int] /\ impressions \in [Publishers -> Int]

\* The index knows the owner of every name, and no name that was given up:
\* through changes of name, of case only, failed writes and restarts.
IndexExact ==
  /\ DOMAIN owner = Names(profiles)
  /\ \A p \in DOMAIN profiles : owner[Name(profiles, p)] = p

\* Two publishers never have the same name, in memory or on the disk
\* (profiles.ts set; db.ts ux_profiles_nickname).
NoTwins(table) ==
  \A p, q \in DOMAIN table : Name(table, p) = Name(table, q) => p = q
NamesUnique == NoTwins(profiles) /\ NoTwins(disk)

\* So every name on the board leads to the card of the publisher it names,
\* and the rows have one order, the same at every request.
CardOfRow == \A p \in Listed(Countries) : Card(profiles[p].nickname) = {p}
OneOrder ==
  \A p, q \in Listed(Countries) : p # q => (Ahead(p, q) <=> ~Ahead(q, p))
=============================================================================
