----------------------------- MODULE MCBilling -----------------------------
(***************************************************************************)
(* Small instances of Billing: one advertiser with one campaign, two       *)
(* deliveries, one publisher that repeats itself or two that compete.      *)
(***************************************************************************)
EXTENDS Billing, TLC

CONSTANTS a1, p1, p2, i1, i2

MCOwner == [c \in Campaigns |-> a1]
MCBid   == [c \in Campaigns |-> 2]

OneImpression  == [c \in Campaigns |-> 1]
TwoImpressions == [c \in Campaigns |-> 2]

LargeBudget == [c \in Campaigns |-> 4]

\* Each client draws its ids from a set of its own; or any client any id.
OwnIds    == [p \in Publishers |-> IF p = p1 THEN {i1} ELSE {i2}]
SharedIds == [p \in Publishers |-> ImpIds]

Symmetry == Permutations(Nonces) \cup Permutations(ImpIds)
=============================================================================
