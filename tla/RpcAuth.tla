------------------------------- MODULE RpcAuth -------------------------------
(***************************************************************************)
(* createRpcAuthMonitor (rpc-auth.js): the keeper's one record of the RPC  *)
(* methods whose provider rejects its credentials.  Threshold rejections   *)
(* of one method in a row pause the keeper; the pause ends with the first  *)
(* success that leaves no method with an open streak.  A streak whose last *)
(* rejection is older than RPC_AUTH_STREAK_TTL_MS is dropped by the next   *)
(* report of any method; when it is that old is a choice (Age).            *)
(* The column that tells other hosts of the pause is not modelled.         *)
(***************************************************************************)
EXTENDS Naturals

CONSTANTS
    Methods,        \* the origins that are ever rejected
    Threshold       \* RPC_AUTH_THRESHOLD

ASSUME RpcAuthAssumption == Threshold \in Nat \ {0}

VARIABLES
    streaks,        \* rejections in a row, by method, counted up to the threshold
    stale,          \* methods whose streak is older than the TTL
    paused          \* pausedSince is set

authVars == <<streaks, stale, paused>>

AuthTypeOK ==
    /\ streaks \in [Methods -> 0 .. Threshold]
    /\ stale \subseteq {m \in Methods : streaks[m] > 0}
    /\ paused \in BOOLEAN

NoStreaks == [m \in Methods |-> 0]

AuthInit ==
    /\ streaks = NoStreaks
    /\ stale = {}
    /\ paused = FALSE

\* Slip: streaks never age.
Unpruned == streaks

PruneStale == [m \in Methods |-> IF m \in stale THEN 0 ELSE streaks[m]]

OnRpcError(m) ==
    LET consecutive == IF PruneStale[m] < Threshold THEN PruneStale[m] + 1 ELSE Threshold
    IN  /\ streaks' = [PruneStale EXCEPT ![m] = consecutive]
        /\ stale' = {}
        /\ paused' = (paused \/ consecutive = Threshold)

\* origin is a method, or "cycle" or "poll", which have no streak to end.
OnRpcSuccess(origin) ==
    /\ streaks' = [m \in Methods |-> IF m = origin THEN 0 ELSE PruneStale[m]]
    /\ stale' = {}
    /\ paused' = (paused /\ \E m \in Methods : streaks'[m] > 0)

Age(m) ==
    /\ streaks[m] > 0 /\ m \notin stale
    /\ stale' = stale \cup {m}
    /\ UNCHANGED <<streaks, paused>>
=============================================================================
