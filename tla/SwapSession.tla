----------------------------- MODULE SwapSession -----------------------------
(***************************************************************************)
(* One swap panel of the web app: src/src/hooks/useSwap.ts with the parts  *)
(* of src/src/components/SwapBox.tsx that call it.                         *)
(*                                                                         *)
(* execute builds a transaction (or a CoW order) from the server's answer, *)
(* walking from source to source when one fails, and leaves it for review. *)
(* confirmSwap hands the reviewed transaction to the wallet; its receipt   *)
(* is watched by wagmi and, as a fallback, by a poll with a time limit.    *)
(* confirmCowOrder has the order signed, submits it and polls it.  The     *)
(* user edits the trade, switches the chain or the account at any time,    *)
(* and an invocation under way is not stopped by that: it goes on to set   *)
(* the state of the one hook.                                              *)
(*                                                                         *)
(* A click is handled by the closures of the last render, so that two      *)
(* clicks on one screen see the same review; no ref stops the second.      *)
(*                                                                         *)
(* The checks of an answer (router, selector, recipient, fee, floor) are   *)
(* its outcome; what is kept of them is that the floor needs the quote of  *)
(* the source that executes, unless the source is on the floor's skip      *)
(* list.  Log, analytics and the flags that only choose a message are left *)
(* out.                                                                    *)
(***************************************************************************)
EXTENDS Naturals

CONSTANTS
    Chains, Accounts,
    None,
    Fallbacks,                  \* sources ranked below the best one
    MaxFlows,                   \* bound: invocations of execute
    MaxSignings,                \* bound: requests for a signature
    MaxSwitches                 \* bound: switches of the chain or the account

ASSUME SwapSessionAssumption ==
    /\ None \notin Accounts /\ None \notin Nat
    /\ Fallbacks \in Nat
    /\ MaxFlows \in Nat /\ MaxSignings \in Nat /\ MaxSwitches \in Nat

Flows == 1 .. MaxFlows

Signings == 1 .. MaxSignings

VARIABLES
    chain, account,     \* the wallet; no account when disconnected
    switches,
    quoted,             \* the screen shows quotes for the pair on this chain
    status,
    pendingSwap, pendingCowOrder,
    view,               \* status and review as the last render showed them
    flow,               \* what each invocation of execute does
    tx,                 \* the transaction of each signing
    order,              \* or the order
    mutation,           \* the transaction useSendTransaction shows
    swapConfirmed,      \* wagmi has seen its receipt
    poll,               \* the transaction a receipt was asked for by the fallback
    late                \* SWAP_TIMEOUT_MS have passed in 'swapping'

wallet == <<chain, account, switches>>

review == <<pendingSwap, pendingCowOrder>>

receipts == <<mutation, swapConfirmed, poll, late>>

vars == <<quoted, wallet, review, receipts, status, view, flow, tx, order>>

Statuses ==
    {"idle", "fetching_swap", "simulating", "confirming", "swapping",
     "cow_awaiting_review", "cow_signing", "cow_pending", "success", "error"}

Wallets == Chains \X Accounts

Wallet == <<chain, account>>

\* What the answer of a source is held against: the source's quote on the screen, which
\* may be missing, or nothing, for a source of QUOTE_FLOOR_SKIP_SOURCES and for CoW.
Floors == {"quote", "missing", "exempt"}

\* What is frozen for review: the flow it comes from, the wallet it was built for, and
\* what it was held against.
Frozen == [of : Flows, built : Wallets, floor : Floors]

Off == [pc |-> "off"]

FlowStates ==
    [pc : {"off", "ended"}]
      \cup [pc : {"fetch", "simulate"}, cow : BOOLEAN, built : Wallets,
            floor : Floors, left : 0 .. Fallbacks]

\* of: the flow it was built by; None before the signing.
Txs == [state : {"unsent", "prompt", "refused", "pending", "success", "reverted"},
        of : Flows \cup {None}, built : Wallets \cup {None},
        signedBy : Wallets \cup {None}]

\* "watched": confirmCowOrder still waits for the wallet, the server or a poll.
Orders == [state : {"unsigned", "prompt", "refused", "submitted", "open", "filled", "over"},
           watched : BOOLEAN,
           of : Flows \cup {None}, built : Wallets \cup {None},
           signedBy : Wallets \cup {None}]

Screens == [status : Statuses, swap : Frozen \cup {None}, order : Frozen \cup {None}]

TypeOK ==
    /\ chain \in Chains /\ account \in Accounts \cup {None}
    /\ quoted \in BOOLEAN
    /\ switches \in 0 .. MaxSwitches
    /\ status \in Statuses
    /\ pendingSwap \in Frozen \cup {None} /\ pendingCowOrder \in Frozen \cup {None}
    /\ view \in Screens
    /\ flow \in [Flows -> FlowStates]
    /\ tx \in [Signings -> Txs] /\ order \in [Signings -> Orders]
    /\ mutation \in Signings \cup {None} /\ poll \in Signings \cup {None}
    /\ swapConfirmed \in BOOLEAN /\ late \in BOOLEAN

Init ==
    /\ chain \in Chains /\ account \in Accounts
    /\ quoted = FALSE
    /\ switches = 0
    /\ status = "idle"
    /\ pendingSwap = None /\ pendingCowOrder = None
    /\ view = [status |-> "idle", swap |-> None, order |-> None]
    /\ flow = [f \in Flows |-> Off]
    /\ tx = [s \in Signings |-> [state |-> "unsent", of |-> None,
                                 built |-> None, signedBy |-> None]]
    /\ order = [s \in Signings |-> [state |-> "unsigned", watched |-> FALSE, of |-> None,
                                    built |-> None, signedBy |-> None]]
    /\ mutation = None /\ poll = None
    /\ swapConfirmed = FALSE /\ late = FALSE

Sent(s) == tx[s].state \in {"pending", "success", "reverted"}

\* The next signing: of a transaction or of an order.
Unused(s) == tx[s].of = None /\ order[s].of = None

Upcoming(s) == Unused(s) /\ \A r \in 1 .. s - 1 : ~Unused(r)

-----------------------------------------------------------------------------
(* React.  A click leaves the screen as it is until the next render, which *)
(* comes before any answer, timer or switch is handled; what those set is  *)
(* rendered before the next click.                                         *)

Screen == [status |-> status, swap |-> pendingSwap, order |-> pendingCowOrder]

Rendered == view = Screen

Shown == view' = Screen'

Render ==
    /\ ~Rendered
    /\ UNCHANGED <<quoted, wallet, review, receipts, status, flow, tx, order>>
    /\ Shown

-----------------------------------------------------------------------------
(* The user edits the trade, and the quotes follow.                        *)

\* Cancel, another token, or another amount while a swap is shown.
ResetSwap ==
    /\ status' = "idle"
    /\ pendingSwap' = None /\ pendingCowOrder' = None
    /\ mutation' = None /\ swapConfirmed' = FALSE
    /\ UNCHANGED <<quoted, wallet, view, poll, late, flow, tx, order>>

\* useQuote has quotes for the pair, or none.  A new amount keeps the last ones on the
\* screen until its own are there.
QuotesChange ==
    /\ Rendered
    /\ quoted' = ~quoted
    /\ UNCHANGED <<wallet, review, receipts, status, view, flow, tx, order>>

-----------------------------------------------------------------------------
(* The wallet's chain and account.                                         *)

Forget == pendingSwap' = None /\ pendingCowOrder' = None

SwitchChain(c) ==
    /\ Rendered
    /\ account # None
    /\ switches < MaxSwitches /\ c # chain
    /\ chain' = c /\ switches' = switches + 1
    /\ Forget /\ status' = "idle"
    /\ quoted' = FALSE
    /\ swapConfirmed' = FALSE
    /\ UNCHANGED <<account, mutation, poll, late, flow, tx, order>>
    /\ Shown

\* The effects that report a receipt and a refusal depend on the account too: they run
\* once more, after the one that resets.
SwitchAccount(a) ==
    /\ Rendered
    /\ switches < MaxSwitches /\ a # account
    /\ account' = a /\ switches' = switches + 1
    /\ IF account = None THEN UNCHANGED review ELSE Forget
    /\ status' = IF mutation # None /\ tx[mutation].state = "refused" THEN "error"
                 ELSE IF swapConfirmed THEN "success"
                 ELSE IF account = None THEN status ELSE "idle"
    /\ UNCHANGED <<chain, quoted, receipts, flow, tx, order>>
    /\ Shown

-----------------------------------------------------------------------------
(* execute: from the answer of the server to the review.                   *)

Enter(f, cow, floor, left) ==
    /\ flow' = [flow EXCEPT ![f] =
          [pc |-> "fetch", cow |-> cow, built |-> Wallet, floor |-> floor, left |-> left]]
    /\ status' = "fetching_swap"

Ends(f) == flow' = [flow EXCEPT ![f] = [pc |-> "ended"]]

\* The button: there are quotes, and the screen shows no swap under way.
Execute(f, cow) ==
    /\ flow[f] = Off /\ \A g \in 1 .. f - 1 : flow[g] # Off
    /\ view.status \in {"idle", "error"}
    /\ account # None /\ quoted
    /\ \E floor \in IF cow THEN {"exempt"} ELSE {"quote", "exempt"} :
         Enter(f, cow, floor, IF cow THEN 0 ELSE Fallbacks)
    /\ UNCHANGED <<quoted, wallet, review, view, receipts, tx, order>>

\* The quotes of now need not have one of the source that is tried.
FloorsNow == IF quoted THEN Floors ELSE {"missing", "exempt"}

\* Slip: the walk does not look for the end of the ranking.
NextSourceAlways(f) ==
    IF account = None
      THEN Ends(f) /\ UNCHANGED status
      ELSE \E floor \in FloorsNow : Enter(f, FALSE, floor, flow[f].left - 1)

\* The next source, for what the panel and the wallet are by now.
NextSource(f) ==
    /\ flow[f].left > 0
    /\ IF account = None
         THEN Ends(f) /\ UNCHANGED status
         ELSE \E floor \in FloorsNow : Enter(f, FALSE, floor, flow[f].left - 1)

Fails(f, newStatus) == Ends(f) /\ status' = newStatus

\* The swap could not be built.  The server wants the user's consent, or a check tells
\* the user, or the next source is tried.
Refused(f) ==
    /\ \/ Fails(f, "idle")
       \/ Fails(f, "error")
       \/ NextSource(f)
    /\ UNCHANGED review

FreezeCow(f) ==
    /\ Ends(f)
    /\ pendingCowOrder' = [of |-> f, built |-> flow[f].built, floor |-> flow[f].floor]
    /\ status' = "cow_awaiting_review"
    /\ UNCHANGED pendingSwap

\* Slip: without a quote of its own the answer is not floored, and goes on.
FetchAnswersUnpriced(f) ==
    /\ Rendered
    /\ flow[f].pc = "fetch"
    /\ \/ Refused(f)
       \/ /\ ~flow[f].cow
          /\ flow' = [flow EXCEPT ![f].pc = "simulate"]
          /\ status' = "simulating"
          /\ UNCHANGED review
       \/ flow[f].cow /\ FreezeCow(f)
    /\ UNCHANGED <<quoted, wallet, receipts, tx, order>>
    /\ Shown

FetchAnswers(f) ==
    /\ Rendered
    /\ flow[f].pc = "fetch"
    /\ \/ Refused(f)
       \/ /\ ~flow[f].cow /\ flow[f].floor # "missing"
          /\ flow' = [flow EXCEPT ![f].pc = "simulate"]
          /\ status' = "simulating"
          /\ UNCHANGED review
       \/ flow[f].cow /\ FreezeCow(f)
    /\ UNCHANGED <<quoted, wallet, receipts, tx, order>>
    /\ Shown

\* The simulation and the read of the allowance.
SimulationAnswers(f) ==
    /\ Rendered
    /\ flow[f].pc = "simulate"
    /\ \/ Fails(f, "error") /\ UNCHANGED review
       \/ NextSource(f) /\ UNCHANGED review
       \/ /\ Ends(f)
          /\ pendingSwap' = [of |-> f, built |-> flow[f].built, floor |-> flow[f].floor]
          /\ status' = "confirming"
          /\ UNCHANGED pendingCowOrder
    /\ UNCHANGED <<quoted, wallet, receipts, tx, order>>
    /\ Shown

-----------------------------------------------------------------------------
(* confirmSwap, the wallet, and the receipt.                               *)

\* The transaction on the screen goes to the wallet, which is asked to sign for the
\* chain and the account it is on.
SendReviewed(s) ==
    /\ Upcoming(s)
    /\ tx' = [tx EXCEPT ![s] = [state |-> "prompt", of |-> view.swap.of,
                                built |-> view.swap.built, signedBy |-> Wallet]]
    /\ mutation' = s
    /\ swapConfirmed' = FALSE /\ late' = FALSE
    /\ UNCHANGED <<quoted, wallet, view, poll, flow, order>>

\* Slip: the review stays open until the wallet has answered.
ConfirmSwapOpen ==
    /\ view.status = "confirming" /\ view.swap # None /\ account # None
    /\ \E s \in Signings : SendReviewed(s)
    /\ UNCHANGED <<status, review>>

\* The review is taken away, whether or not it is still the one on the screen.
ConfirmSwap ==
    /\ view.status = "confirming" /\ view.swap # None /\ account # None
    /\ \E s \in Signings : SendReviewed(s)
    /\ status' = "swapping"
    /\ pendingSwap' = None
    /\ UNCHANGED pendingCowOrder

\* A refusal is shown if the panel still follows that transaction.
WalletAnswersTx(s) ==
    /\ Rendered
    /\ tx[s].state = "prompt"
    /\ \/ tx' = [tx EXCEPT ![s].state = "pending"] /\ UNCHANGED status
       \/ /\ tx' = [tx EXCEPT ![s].state = "refused"]
          /\ status' = IF mutation = s THEN "error" ELSE status
    /\ UNCHANGED <<quoted, wallet, review, receipts, flow, order>>
    /\ Shown

\* The chain: at any time, or never.
TxLands(s) ==
    /\ tx[s].state = "pending"
    /\ \E outcome \in {"success", "reverted"} : tx' = [tx EXCEPT ![s].state = outcome]
    /\ UNCHANGED <<quoted, wallet, review, receipts, status, view, flow, order>>

\* useWaitForTransactionReceipt, on the wallet's chain.
WagmiConfirms ==
    /\ Rendered
    /\ mutation # None /\ ~swapConfirmed
    /\ tx[mutation].state = "success" /\ tx[mutation].signedBy[1] = chain
    /\ swapConfirmed' = TRUE
    /\ status' = "success"
    /\ UNCHANGED <<quoted, wallet, review, mutation, poll, late, flow, tx, order>>
    /\ Shown

\* The timer of the fallback asks for the receipt, after wagmi had its head start.
PollAsks ==
    /\ Rendered
    /\ status = "swapping" /\ mutation # None /\ Sent(mutation)
    /\ poll = None
    /\ poll' = mutation
    /\ UNCHANGED <<quoted, wallet, review, mutation, swapConfirmed, late, status,
                   view, flow, tx, order>>

TwoMinutesPass ==
    /\ Rendered
    /\ status = "swapping" /\ ~late
    /\ late' = TRUE
    /\ UNCHANGED <<quoted, wallet, review, mutation, swapConfirmed, poll, status,
                   view, flow, tx, order>>

\* Slip: no receipt yet means another poll, whatever the time.
PollAnswersWithoutLimit ==
    /\ Rendered
    /\ poll # None
    /\ poll' = None
    /\ status' \in {CASE tx[poll].state = "success" -> "success"
                      [] tx[poll].state = "reverted" -> "error"
                      [] OTHER -> status} \cup {status}
    /\ UNCHANGED <<quoted, wallet, review, mutation, swapConfirmed, late,
                   flow, tx, order>>
    /\ Shown

\* A receipt, or none that could be read.  Past the limit the panel reports an error,
\* also of a receipt that is there.
PollAnswers ==
    /\ Rendered
    /\ poll # None
    /\ poll' = None
    /\ \/ late /\ status' = "error"
       \/ ~late /\ tx[poll].state = "success" /\ status' = "success"
       \/ ~late /\ tx[poll].state = "reverted" /\ status' = "error"
       \/ ~late /\ UNCHANGED status
    /\ UNCHANGED <<quoted, wallet, review, mutation, swapConfirmed, late,
                   flow, tx, order>>
    /\ Shown

-----------------------------------------------------------------------------
(* confirmCowOrder.                                                        *)

\* The order on the screen, as it was frozen.
AskForSignature(s) ==
    /\ Upcoming(s)
    /\ order' = [order EXCEPT ![s] =
          [state |-> "prompt", watched |-> TRUE, of |-> view.order.of,
           built |-> view.order.built, signedBy |-> Wallet]]
    /\ status' = "cow_signing"
    /\ UNCHANGED pendingCowOrder

\* Slip: the wallet is not compared with the one the order was built for.
ConfirmCowOrderAnywhere ==
    /\ view.status = "cow_awaiting_review" /\ view.order # None /\ account # None
    /\ \/ pendingCowOrder' = None /\ status' = "error" /\ UNCHANGED order
       \/ \E s \in Signings : AskForSignature(s)
    /\ UNCHANGED <<quoted, wallet, pendingSwap, view, receipts, flow, tx>>

\* The order is dropped when the wallet is another one, or when it has expired.
ConfirmCowOrder ==
    /\ view.status = "cow_awaiting_review" /\ view.order # None /\ account # None
    /\ \/ /\ view.order.built # Wallet
          /\ pendingCowOrder' = None /\ status' = "idle" /\ UNCHANGED order
       \/ /\ view.order.built = Wallet
          /\ pendingCowOrder' = None /\ status' = "error" /\ UNCHANGED order
       \/ view.order.built = Wallet /\ \E s \in Signings : AskForSignature(s)
    /\ UNCHANGED <<quoted, wallet, pendingSwap, view, receipts, flow, tx>>

OrderBecomes(s, state, watched, newStatus) ==
    /\ order' = [order EXCEPT ![s].state = state, ![s].watched = watched]
    /\ status' = newStatus

\* The wallet signs or refuses.
WalletAnswersOrder(s) ==
    /\ Rendered
    /\ order[s].state = "prompt"
    /\ \/ OrderBecomes(s, "submitted", TRUE, "cow_pending")
       \/ OrderBecomes(s, "refused", FALSE, "error")
    /\ UNCHANGED <<quoted, wallet, review, receipts, flow, tx>>
    /\ Shown

\* The order book takes the order or not; of an error the panel cannot tell which.
OrderBookAnswers(s) ==
    /\ Rendered
    /\ order[s].state = "submitted"
    /\ \/ OrderBecomes(s, "open", TRUE, status)
       \/ OrderBecomes(s, "open", FALSE, "error")
       \/ OrderBecomes(s, "over", FALSE, "error")
    /\ UNCHANGED <<quoted, wallet, review, receipts, flow, tx>>
    /\ Shown

\* A solver fills the order, or it is cancelled or expires, watched or not.
OrderSettles(s) ==
    /\ order[s].state = "open"
    /\ \E state \in {"filled", "over"} : order' = [order EXCEPT ![s].state = state]
    /\ UNCHANGED <<quoted, wallet, review, receipts, status, view, flow, tx>>

\* pollCowOrderStatus ends within its two minutes: with a fill and its transaction, with
\* the order's end, or with neither, which is reported as the order's end.
OrderPollEnds(s) ==
    /\ Rendered
    /\ order[s].state \in {"open", "filled", "over"} /\ order[s].watched
    /\ \/ order[s].state = "filled" /\ OrderBecomes(s, "filled", FALSE, "success")
       \/ OrderBecomes(s, order[s].state, FALSE, "error")
    /\ UNCHANGED <<quoted, wallet, review, receipts, flow, tx>>
    /\ Shown

-----------------------------------------------------------------------------

Next ==
    \/ Render
    \/ ResetSwap \/ QuotesChange
    \/ \E c \in Chains : SwitchChain(c)
    \/ \E a \in Accounts \cup {None} : SwitchAccount(a)
    \/ \E f \in Flows :
         \/ \E cow \in BOOLEAN : Execute(f, cow)
         \/ FetchAnswers(f) \/ SimulationAnswers(f)
    \/ \E s \in Signings :
         \/ WalletAnswersTx(s) \/ TxLands(s)
         \/ WalletAnswersOrder(s) \/ OrderBookAnswers(s) \/ OrderSettles(s)
         \/ OrderPollEnds(s)
    \/ ConfirmSwap \/ WagmiConfirms \/ PollAsks \/ TwoMinutesPass \/ PollAnswers
    \/ ConfirmCowOrder

\* React renders, timers fire, and a request is answered or fails.  The user, the wallet,
\* the chain and the solvers owe nothing.
Fairness ==
    /\ WF_vars(Render)
    /\ WF_vars(PollAsks) /\ WF_vars(TwoMinutesPass) /\ WF_vars(PollAnswers)
    /\ \A f \in Flows : WF_vars(FetchAnswers(f)) /\ WF_vars(SimulationAnswers(f))
    /\ \A s \in Signings : WF_vars(OrderBookAnswers(s)) /\ WF_vars(OrderPollEnds(s))

Spec == Init /\ [][Next]_vars /\ Fairness

-----------------------------------------------------------------------------
(* Properties.                                                             *)

Signed(f) == \E s \in Signings : tx[s].of = f \/ order[s].of = f

\* The wallet is asked to sign what f came to.
IsSigned(f) ==
    \E s \in Signings : \/ tx'[s].of = f /\ tx[s].of # f
                        \/ order'[s].of = f /\ order[s].of # f

\* What one invocation of execute came to is put before the wallet a second time only by
\* a click on a screen that is out of date: what the panel offers to confirm once it has
\* rendered was never signed, whatever other invocations, switches and resets did to the
\* review and the status meanwhile.  Two clicks before one render do ask twice.
SignedAgainOnlyUnrendered ==
    [][\A f \in Flows : Signed(f) /\ IsSigned(f) => ~Rendered]_vars

\* An order is only put before the wallet on the chain and by the account it was built
\* for, also when the invocation that built it is from before a switch.
OrdersSignedWhereBuilt ==
    \A s \in Signings : order[s].of # None => order[s].signedBy = order[s].built

\* No transaction is up for review that was not floored by a quote of its own source,
\* unless the source needs none, also after a walk over the sources with the quotes of
\* another moment.
ReviewedSwapsArePriced == pendingSwap # None => pendingSwap.floor # "missing"

\* The panel is again and again out of 'swapping', or the wallet is what it waits for.
SentSwapSettles ==
    []<>(status # "swapping" \/ (mutation # None /\ tx[mutation].state = "prompt"))

\* The comment's claim for transactions: one built for a chain, or an account, is never
\* signed on another.  The switch clears the review, but not the flow that is about to
\* fill it.
SwapsSignedWhereBuilt ==
    \A s \in Signings : tx[s].of # None => tx[s].signedBy = tx[s].built

=============================================================================
