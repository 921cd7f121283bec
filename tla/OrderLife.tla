------------------------------ MODULE OrderLife ------------------------------
(***************************************************************************)
(* What the order executor promises of signed orders, whatever the         *)
(* administration, the feeds, the routers and the keepers do: an order is  *)
(* filled at most as often as it was signed for, a recurring one only when *)
(* its interval has elapsed, the others once for all orders that share     *)
(* their nonce, and none once it is closed (by its owner, by a fill of one *)
(* that shares its nonce, or by time).  Closing is for good.               *)
(*                                                                         *)
(* OrderExecutorV3 implements it; OrderKeeper drives an instance of it.    *)
(***************************************************************************)
EXTENDS Naturals

CONSTANTS
    Orders,
    Terms,          \* records: fills an order is signed for, and whether it recurs
    Rivals          \* Rivals[o]: the orders that share the nonce of o

VARIABLES
    terms,          \* of each signed order
    fills,          \* fills of each order
    due,            \* orders whose interval has elapsed
    closed          \* orders that are not filled any more

vars == <<terms, fills, due, closed>>

Signed == DOMAIN terms

Init ==
    /\ Signed \subseteq Orders
    /\ \A o \in Signed : terms[o] \in Terms
    /\ fills = [o \in Orders |-> 0]
    /\ due \subseteq Orders
    /\ closed \subseteq Orders

Sign(o, t) ==
    /\ o \notin Signed
    /\ terms' = [p \in Signed \cup {o} |-> IF p = o THEN t ELSE terms[p]]
    /\ UNCHANGED <<fills, due, closed>>

CanFill(o) ==
    /\ o \in Signed \ closed
    /\ o \in due
    /\ fills[o] < terms[o].total

Fill(o) ==
    /\ CanFill(o)
    /\ fills' = [fills EXCEPT ![o] = @ + 1]
    /\ due' = IF terms[o].recurring THEN due \ {o} ELSE due
    /\ closed' = IF terms[o].recurring THEN closed ELSE closed \cup Rivals[o]
    /\ UNCHANGED terms

\* Owners and time close orders; time makes orders due.
Pass ==
    /\ closed \subseteq closed'
    /\ due \subseteq due'
    /\ UNCHANGED <<terms, fills>>

Close(o) == closed' = closed \cup {o} /\ UNCHANGED <<terms, fills, due>>

Elapse(o) == due' = due \cup {o} /\ UNCHANGED <<terms, fills, closed>>

Next ==
    \/ \E o \in Orders : Fill(o) \/ \E t \in Terms : Sign(o, t)
    \/ Pass

Spec == Init /\ [][Next]_vars
=============================================================================
