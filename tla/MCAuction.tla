----------------------------- MODULE MCAuction -----------------------------
\* A small market: the sponsor s bids with two campaigns of its own against
\* the campaign of a, and keeps a pool; p and q show ads.
EXTENDS Auction

MCOwner == [high |-> "s", low |-> "s", rival |-> "a", late |-> "a"]
MCBid == [high |-> 6, low |-> 4, rival |-> 4, late |-> 3]
MCDaily == [high |-> 9, low |-> 9, rival |-> 2, late |-> 9]
MCBlocks == [high |-> 2, low |-> 9, rival |-> 9, late |-> 9]
MCSponsor == [k |-> "s", m |-> "a"]
MCPoolBid == [k \in Pools |-> 2]
MCCap == [k \in Pools |-> 1]
MCOpened == [k \in Pools |-> IF k = "k" THEN 2 ELSE 0]
MCJoined == [p \in Publishers |-> IF p = "p" THEN "k" ELSE None]
MCEntered == [x |-> [pool |-> "k", team |-> "q"], y |-> None]
MCFunds == [s |-> 5, a |-> 2]
=============================================================================
