------------------------ MODULE MCTimelockGovernance ------------------------
(* A small instance of TimelockGovernance for TLC: two accounts so that the  *)
(* admin role can move, every delay at least one block long and the admin    *)
(* transfer longer than the rest, two announcements, so that two changes     *)
(* of one router, or a change and an admin transfer, overlap.                *)
EXTENDS TimelockGovernance

CONSTANTS a1, a2, r1, x1, usdc, eth, f1, none

MCAccounts  == {a1, a2}
MCRouters   == {r1}
MCExecutors == {x1}
MCAssets    == {usdc, eth}
MCFeeds     == {f1}

MCOracleConfigs == {[maxStaleness |-> 1, minPrice |-> 1, maxPrice |-> 0]}
=============================================================================
