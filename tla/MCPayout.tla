------------------------------ MODULE MCPayout ------------------------------
(***************************************************************************)
(* Small instances of Payout: an advertiser, and an address to which       *)
(* platform_revenue may be withdrawn.                                      *)
(***************************************************************************)
EXTENDS Payout, TLC

CONSTANTS adv1, platform, e1, e2

MCAccountOf == [e \in Payees |-> IF e = e1 THEN adv1 ELSE platform]
=============================================================================
