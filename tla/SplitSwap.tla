------------------------------ MODULE SplitSwap ------------------------------
(***************************************************************************)
(* A swap split over several sources (src/src/hooks/useSplitSwap.ts).      *)
(*                                                                         *)
(* execute builds the transactions of every leg, one call of the server    *)
(* after the other, and freezes them for review; confirmPlan sends the     *)
(* legs of the plan on the screen, each after the receipt of the last.     *)
(* Both are asynchronous functions: an invocation that the user has turned *)
(* away from goes on until it reads abortRef, and every invocation reads   *)
(* and writes the same refs and the same state of the component.           *)
(*                                                                         *)
(* The chain and the account are one value here, the wallet's context.     *)
(* What a leg's checks compare is left out: a leg passes them, is skipped, *)
(* or stops the plan.  So are the legs' statuses, which nothing reads.     *)
(***************************************************************************)
EXTENDS Naturals

CONSTANTS
    Contexts,       \* a chain with an account
    NoWallet,       \* disconnected
    None,
    LegCount,
    MaxExecutions,  \* bound: invocations of execute
    MaxSignings,    \* bound: invocations of confirmPlan that sign
    MaxSwitches     \* bound: changes of the wallet's context

ASSUME SplitSwapAssumption ==
    /\ None \notin Contexts \cup {NoWallet}
    /\ NoWallet \notin Contexts
    /\ LegCount \in Nat \ {0}
    /\ MaxExecutions \in Nat /\ MaxSignings \in Nat /\ MaxSwitches \in Nat

Legs == 1 .. LegCount

Executions == 1 .. MaxExecutions

Signings == 1 .. MaxSignings

VARIABLES
    context,        \* useAccount and useActiveChainId
    switches,
    status, plan,   \* React state: status and plannedLegs
    view,           \* the two as the last render handed them to the screen
    abort,          \* abortRef
    executing,      \* executingRef
    planContext,    \* planContextRef
    planner,        \* what each invocation of execute does
    signer          \* what each invocation of confirmPlan does

refs == <<abort, executing, planContext>>

react == <<status, plan, view>>

wallet == <<context, switches>>

vars == <<wallet, react, refs, planner, signer>>

Statuses ==
    {"idle", "planning", "awaiting-review", "executing", "success", "partial", "error"}

Checked == {"reviewed", "skipped"}

Plans == [of : Executions, at : Contexts, legs : [Legs -> Checked]]

Fates == {"unsent", "pending", "success", "reverted"}

\* An invocation of execute: where it was started, the leg it waits for, and what the
\* legs before it came to ("skipped" stands at the legs not reached).
Planners ==
    [pc : {"off", "ended"}]
      \cup [pc : {"leg"}, at : Contexts, leg : Legs, legs : [Legs -> Checked]]

\* An invocation of confirmPlan: the plan it signs, where it was confirmed, the leg at
\* the wallet or on its way, the legs it saw succeed, and every leg's transaction.
Signers ==
    [pc : {"off"}]
      \cup [pc : {"prompt", "receipt", "ended"}, plan : Plans, confirmedIn : Contexts,
            leg : Legs, ok : SUBSET Legs, fate : [Legs -> Fates],
            sentFrom : [Legs -> Contexts \cup {NoWallet, None}]]

TypeOK ==
    /\ context \in Contexts \cup {NoWallet}
    /\ switches \in 0 .. MaxSwitches
    /\ status \in Statuses
    /\ plan \in Plans \cup {None}
    /\ view \in [status : Statuses, plan : Plans \cup {None}]
    /\ abort \in BOOLEAN
    /\ executing \in BOOLEAN
    /\ planContext \in Contexts \cup {None}
    /\ planner \in [Executions -> Planners]
    /\ signer \in [Signings -> Signers]

Init ==
    /\ context \in Contexts
    /\ switches = 0
    /\ status = "idle"
    /\ plan = None
    /\ view = [status |-> "idle", plan |-> None]
    /\ abort = FALSE
    /\ executing = FALSE
    /\ planContext = None
    /\ planner = [e \in Executions |-> [pc |-> "off"]]
    /\ signer = [s \in Signings |-> [pc |-> "off"]]

-----------------------------------------------------------------------------
(* React.  A handler sees the state of the last render.  A click leaves    *)
(* the screen as it is until the next render, which comes before any       *)
(* answer is handled; what an answer sets is rendered before the next      *)
(* click.                                                                  *)

Rendered == view = [status |-> status, plan |-> plan]

Render ==
    /\ ~Rendered
    /\ view' = [status |-> status, plan |-> plan]
    /\ UNCHANGED <<wallet, status, plan, refs, planner, signer>>

\* What an answer sets, and the render after it.
Set(newStatus, newPlan) ==
    /\ status' = newStatus
    /\ plan' = newPlan
    /\ view' = [status |-> newStatus, plan |-> newPlan]

Keep == UNCHANGED react

Discard ==
    /\ abort' = TRUE
    /\ executing' = FALSE
    /\ planContext' = None
    /\ status' = "idle"
    /\ plan' = None

\* The user cancels the review, picks another token, or edits the amount of a swap
\* that is under way.
Reset ==
    /\ Discard
    /\ UNCHANGED <<wallet, view, planner, signer>>

\* Another chain or account.  The effects reset the hook, except when a wallet connects
\* on the chain that the panel showed.
SwitchContext(c) ==
    /\ Rendered
    /\ switches < MaxSwitches /\ c # context
    /\ context' = c
    /\ switches' = switches + 1
    /\ \/ Discard /\ view' = [status |-> "idle", plan |-> None]
       \/ context = NoWallet /\ UNCHANGED <<react, refs>>
    /\ UNCHANGED <<planner, signer>>

-----------------------------------------------------------------------------
(* Phase A: execute.                                                       *)

PlannerEnds(e) == planner' = [planner EXCEPT ![e] = [pc |-> "ended"]]

\* An amount that cannot be read ends the invocation before it touches the plan.
Execute(e) ==
    /\ planner[e].pc = "off" /\ \A d \in 1 .. e - 1 : planner[d].pc # "off"
    /\ context # NoWallet
    /\ ~executing
    /\ abort' = FALSE
    /\ \/ /\ PlannerEnds(e)
          /\ status' = "error"
          /\ UNCHANGED plan
       \/ /\ status' = "planning"
          /\ plan' = None
          /\ planner' = [planner EXCEPT ![e] =
                [pc |-> "leg", at |-> context, leg |-> 1,
                 legs |-> [i \in Legs |-> "skipped"]]]
    /\ UNCHANGED <<wallet, view, executing, planContext, signer>>

\* 409: the pair needs the user's consent.  The dialog's answer is another execute.
ConsentNeeded(e) ==
    /\ PlannerEnds(e)
    /\ Set("idle", None)
    /\ UNCHANGED refs

\* A leg, or the sum of the legs, is not what was quoted: nothing may be signed.
Tampered(e) ==
    /\ PlannerEnds(e)
    /\ Set("error", None)
    /\ UNCHANGED refs

\* Every leg was tried.  The plan is stamped with the context it was built for.
Freeze(e, legs) ==
    /\ PlannerEnds(e)
    /\ LET built == [of |-> e, at |-> planner[e].at, legs |-> legs] IN
         IF \A i \in Legs : legs[i] = "skipped"
           THEN Set("error", built) /\ UNCHANGED refs
           ELSE /\ Set("awaiting-review", built)
                /\ planContext' = planner[e].at
                /\ UNCHANGED <<abort, executing>>

\* Slip: the legs are counted from nought.
LegCheckedPastTheLast(e, outcome) ==
    LET legs == [planner[e].legs EXCEPT ![planner[e].leg] = outcome] IN
      \/ /\ abort
         /\ PlannerEnds(e)
         /\ Keep /\ UNCHANGED refs
      \/ /\ ~abort /\ planner[e].leg <= LegCount
         /\ planner' = [planner EXCEPT ![e].leg = @ + 1, ![e].legs = legs]
         /\ Keep /\ UNCHANGED refs

LegChecked(e, outcome) ==
    LET legs == [planner[e].legs EXCEPT ![planner[e].leg] = outcome] IN
      \/ /\ abort
         /\ PlannerEnds(e)
         /\ Keep /\ UNCHANGED refs
      \/ /\ ~abort /\ planner[e].leg < LegCount
         /\ planner' = [planner EXCEPT ![e].leg = @ + 1, ![e].legs = legs]
         /\ Keep /\ UNCHANGED refs
      \/ /\ ~abort /\ planner[e].leg = LegCount
         /\ Freeze(e, legs) \/ Tampered(e)

\* The server and the simulation have answered for a leg.
LegAnswers(e) ==
    /\ Rendered
    /\ planner[e].pc = "leg"
    /\ \/ \E outcome \in Checked : LegChecked(e, outcome)
       \/ ConsentNeeded(e)
       \/ Tampered(e)
    /\ UNCHANGED <<wallet, signer>>

-----------------------------------------------------------------------------
(* Phase B: confirmPlan.                                                   *)

Reviewed(p) == {i \in Legs : p.legs[i] = "reviewed"}

First(legs) == CHOOSE i \in legs : \A j \in legs : i <= j

\* The wallet is asked for leg i.  It signs for the chain and the account it is on.
Ask(x, i) == [x EXCEPT !.pc = "prompt", !.leg = i, !.sentFrom[i] = context]

StartSigning(s) ==
    /\ executing' = TRUE
    /\ abort' = FALSE
    /\ status' = "executing"
    /\ signer' = [signer EXCEPT ![s] =
          Ask([pc |-> "prompt", plan |-> view.plan, confirmedIn |-> context, leg |-> 1,
               ok |-> {}, fate |-> [i \in Legs |-> "unsent"],
               sentFrom |-> [i \in Legs |-> None]],
              First(Reviewed(view.plan)))]
    /\ UNCHANGED <<planContext, plan>>

\* Slip: a second click, on the same screen, signs the plan a second time.
ConfirmTwice(s) ==
    /\ signer[s].pc = "off" /\ \A r \in 1 .. s - 1 : signer[r].pc # "off"
    /\ view.status = "awaiting-review" /\ context # NoWallet
    /\ IF planContext = context
         THEN StartSigning(s)
         ELSE Discard /\ UNCHANGED signer
    /\ UNCHANGED <<wallet, view, planner>>

\* Slip: the context the plan was built for is not compared with the wallet's.
ConfirmAnywhere(s) ==
    /\ signer[s].pc = "off" /\ \A r \in 1 .. s - 1 : signer[r].pc # "off"
    /\ view.status = "awaiting-review" /\ context # NoWallet
    /\ ~executing
    /\ StartSigning(s)
    /\ UNCHANGED <<wallet, view, planner>>

ConfirmPlan(s) ==
    /\ signer[s].pc = "off" /\ \A r \in 1 .. s - 1 : signer[r].pc # "off"
    /\ view.status = "awaiting-review" /\ context # NoWallet
    /\ ~executing
    /\ IF planContext = context
         THEN StartSigning(s)
         ELSE Discard /\ UNCHANGED signer
    /\ UNCHANGED <<wallet, view, planner>>

FinalStatus(x) ==
    CASE x.ok = Legs -> "success"
      [] x.ok # {} /\ x.ok # Legs -> "partial"
      [] OTHER -> "error"

\* The loop ends.  Whatever the screen shows by now, the status is this invocation's.
Finish(s, x) ==
    /\ signer' = [signer EXCEPT ![s] = [x EXCEPT !.pc = "ended"]]
    /\ Set(FinalStatus(x), plan)
    /\ executing' = FALSE
    /\ UNCHANGED <<abort, planContext>>

\* The top of the loop, after a leg.
NextLeg(s, x) ==
    LET rest == {i \in Reviewed(x.plan) : i > x.leg} IN
      IF abort \/ rest = {}
        THEN Finish(s, x)
        ELSE /\ signer' = [signer EXCEPT ![s] = Ask(x, First(rest))]
             /\ Keep /\ UNCHANGED refs

\* The leg is sent, the user refuses and the loop stops, or the call fails.
WalletAnswers(s) ==
    /\ Rendered
    /\ signer[s].pc = "prompt"
    /\ LET x == signer[s] IN
         \/ /\ x.sentFrom[x.leg] # NoWallet
            /\ signer' = [signer EXCEPT ![s] =
                  [x EXCEPT !.pc = "receipt", !.fate[x.leg] = "pending"]]
            /\ Keep /\ UNCHANGED refs
         \/ Finish(s, x)
         \/ NextLeg(s, x)
    /\ UNCHANGED <<wallet, planner>>

\* Slip: a receipt is waited for as long as it takes.
ReceiptOrNothing(s) ==
    /\ Rendered
    /\ signer[s].pc = "receipt"
    /\ LET x == signer[s] IN
         \/ x.fate[x.leg] = "success" /\ NextLeg(s, [x EXCEPT !.ok = @ \cup {x.leg}])
         \/ x.fate[x.leg] = "reverted" /\ NextLeg(s, x)
    /\ UNCHANGED <<wallet, planner>>

\* The receipt is read, or two minutes have passed: then the leg counts as failed,
\* whatever becomes of its transaction.
ReceiptOrTimeout(s) ==
    /\ Rendered
    /\ signer[s].pc = "receipt"
    /\ LET x == signer[s] IN
         \/ x.fate[x.leg] = "success" /\ NextLeg(s, [x EXCEPT !.ok = @ \cup {x.leg}])
         \/ NextLeg(s, x)
    /\ UNCHANGED <<wallet, planner>>

\* A transaction is mined, whoever still waits for it.
TxLands(s, i) ==
    /\ signer[s].pc # "off" /\ signer[s].fate[i] = "pending"
    /\ \E outcome \in {"success", "reverted"} :
         signer' = [signer EXCEPT ![s].fate[i] = outcome]
    /\ UNCHANGED <<wallet, react, refs, planner>>

-----------------------------------------------------------------------------

Next ==
    \/ Render \/ Reset
    \/ \E c \in Contexts \cup {NoWallet} : SwitchContext(c)
    \/ \E e \in Executions : Execute(e) \/ LegAnswers(e)
    \/ \E s \in Signings :
         \/ ConfirmPlan(s) \/ WalletAnswers(s) \/ ReceiptOrTimeout(s)
         \/ \E i \in Legs : TxLands(s, i)

\* React renders, the server answers or the call fails, and the wait for a receipt is
\* bounded.  The user, the wallet and the chain owe nothing.
Fairness ==
    /\ WF_vars(Render)
    /\ \A e \in Executions : WF_vars(LegAnswers(e))
    /\ \A s \in Signings : WF_vars(ReceiptOrTimeout(s))

Spec == Init /\ [][Next]_vars /\ Fairness

-----------------------------------------------------------------------------
(* Properties.                                                             *)

Signing(s) == signer[s].pc # "off"

\* A leg that left the wallet.
Left(s, i) == Signing(s) /\ signer[s].fate[i] # "unsent"

\* No leg of a plan leaves the wallet twice, however the user clicks while a plan is
\* rebuilt or its legs are sent: a leg sent twice is a swap the user pays for twice.
LegsLeaveOnce ==
    \A s, r \in Signings : \A i \in Legs :
        Left(s, i) /\ Left(r, i) /\ signer[s].plan = signer[r].plan => s = r

\* A plan is only confirmed on the chain and by the account it was built for, also when
\* an invocation of execute from before a switch is the one that froze it.
PlansAreConfirmedWhereBuilt ==
    \A s \in Signings : Signing(s) => signer[s].confirmedIn = signer[s].plan.at

\* Whatever the servers and the chain do, the hook is again and again out of its busy
\* states, or waiting for the user at the wallet.
OnlyTheWalletBlocks ==
    []<>(\/ status \notin {"planning", "executing"}
         \/ \E s \in Signings : signer[s].pc = "prompt")

=============================================================================
