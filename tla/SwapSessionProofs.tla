-------------------------- MODULE SwapSessionProofs --------------------------
(***************************************************************************)
(* What is proved of a swap panel, for any number of chains, accounts,     *)
(* sources, flows and switches.                                            *)
(*                                                                         *)
(* A flow freezes once: a flow that runs has nothing signed, what it       *)
(* freezes ends it, and the review that the state puts up for confirmation *)
(* is of a flow with nothing signed.  A click takes the review of a        *)
(* transaction away; that of an order stays while the wallet is asked, but *)
(* in a status that is not confirmed and that only another freeze leaves   *)
(* for one that is.  A screen that shows the state therefore offers        *)
(* nothing that was signed; a screen that lags behind it may.              *)
(***************************************************************************)
EXTENDS SwapSession, TLAPS

\* A flow ends when what it built is frozen, and stays on screens after that.
FrozenIsOver ==
    \A r \in {pendingSwap, pendingCowOrder, view.swap, view.order} :
        r # None => flow[r.of].pc = "ended"

UnsignedBeforeReview == \A f \in Flows : flow[f].pc # "ended" => ~Signed(f)

\* What the state puts up for confirmation has not been signed.
ReviewIsUnsigned ==
    /\ status = "confirming" /\ pendingSwap # None => ~Signed(pendingSwap.of)
    /\ status = "cow_awaiting_review" /\ pendingCowOrder # None =>
          ~Signed(pendingCowOrder.of)

\* Only a transaction that was held against a quote, or needs none, is simulated.
SimulatedIsPriced == \A f \in Flows : flow[f].pc = "simulate" => flow[f].floor # "missing"

IInv ==
    /\ TypeOK
    /\ FrozenIsOver
    /\ UnsignedBeforeReview
    /\ ReviewIsUnsigned
    /\ SimulatedIsPriced
    /\ OrdersSignedWhereBuilt
    /\ ReviewedSwapsArePriced

\* What SignedAgainOnlyUnrendered says of a step.
NoneAgain == \A f \in Flows : Signed(f) /\ IsSigned(f) => ~Rendered

-----------------------------------------------------------------------------
(* Steps that freeze and sign nothing.                                     *)

SignaturesKept ==
    \A s \in Signings :
        /\ tx'[s].of = tx[s].of
        /\ order'[s].of = order[s].of
        /\ order'[s].built = order[s].built
        /\ order'[s].signedBy = order[s].signedBy

FlowsKept ==
    \A f \in Flows :
        /\ flow[f].pc = "ended" => flow'[f].pc = "ended"
        /\ flow'[f].pc = "simulate" => flow'[f].floor # "missing"

\* The review is left or taken away, and none is opened; the screen lags or is rendered.
ReviewKept ==
    /\ pendingSwap' \in {pendingSwap, None}
    /\ pendingCowOrder' \in {pendingCowOrder, None}
    /\ status' \in {"confirming", "cow_awaiting_review"} => status' = status
    /\ view' = view \/ Shown

\* Every use of the same flows and signatures.
LEMMA Unmoved ==
  ASSUME IInv
  PROVE  /\ UNCHANGED <<tx, order>> => SignaturesKept
         /\ UNCHANGED flow => FlowsKept
         /\ (/\ UNCHANGED review
             /\ status' = status \/ status' \notin {"confirming", "cow_awaiting_review"}
             /\ view' = view \/ Shown)
            => ReviewKept
<1>1. UNCHANGED <<tx, order>> => SignaturesKept
  BY DEF SignaturesKept
<1>2. UNCHANGED flow => FlowsKept
  BY DEF FlowsKept, IInv, SimulatedIsPriced
<1> QED BY <1>1, <1>2 DEF ReviewKept, review

\* The types that hold of a review.
LEMMA ReviewTypes ==
  ASSUME TypeOK
  PROVE  \A r \in {pendingSwap, pendingCowOrder, view.swap, view.order} :
            r # None => r \in Frozen /\ r.of \in Flows
BY DEF TypeOK, Frozen, Screens

\* A screen that is rendered has the types of the state.
LEMMA ScreenTyped ==
  ASSUME status' \in Statuses, pendingSwap' \in Frozen \cup {None},
         pendingCowOrder' \in Frozen \cup {None}, Shown
  PROVE  view' \in Screens
BY DEF Shown, Screen, Screens

LEMMA QuietStep ==
  ASSUME IInv, TypeOK', SignaturesKept, FlowsKept, ReviewKept
  PROVE  IInv' /\ NoneAgain
<1>1. \A f : Signed(f)' = Signed(f)
  BY DEF SignaturesKept, Signed
<1>2. \A r \in {pendingSwap, pendingCowOrder, view.swap, view.order} :
          r # None => flow[r.of].pc = "ended" /\ r.of \in Flows
  BY ReviewTypes DEF IInv, FrozenIsOver
<1>3. FrozenIsOver'
  <2> SUFFICES ASSUME NEW r \in {pendingSwap, pendingCowOrder, view.swap, view.order}',
                      r # None
               PROVE  flow'[r.of].pc = "ended"
    BY DEF FrozenIsOver
  <2>1. r \in {pendingSwap, pendingCowOrder, view.swap, view.order}
    BY DEF ReviewKept, Shown, Screen
  <2> QED BY <1>2, <2>1 DEF FlowsKept
<1>4. UnsignedBeforeReview'
  BY <1>1 DEF UnsignedBeforeReview, IInv, FlowsKept
<1>5. ReviewIsUnsigned'
  BY <1>1 DEF ReviewIsUnsigned, IInv, ReviewKept
<1>6. ReviewedSwapsArePriced'
  BY DEF ReviewedSwapsArePriced, IInv, ReviewKept
<1>7. SimulatedIsPriced'
  BY DEF SimulatedIsPriced, FlowsKept
<1>8. OrdersSignedWhereBuilt' /\ NoneAgain
  BY DEF OrdersSignedWhereBuilt, IInv, SignaturesKept, NoneAgain, IsSigned
<1> QED BY <1>3, <1>4, <1>5, <1>6, <1>7, <1>8 DEF IInv

-----------------------------------------------------------------------------
(* The user and the wallet's chain and account.                            *)

LEMMA InitInv == Init => IInv
<1> SUFFICES ASSUME Init PROVE IInv
  OBVIOUS
<1>1. \A f \in Flows : flow[f].pc = "off" /\ f # None
  BY SwapSessionAssumption DEF Init, Off, Flows
<1>2. \A s \in Signings : tx[s].of = None /\ order[s].of = None
  BY DEF Init
<1>3. flow \in [Flows -> FlowStates]
  BY DEF Init, FlowStates, Off
<1>4. tx \in [Signings -> Txs] /\ order \in [Signings -> Orders]
  BY DEF Init, Txs, Orders
<1>5. 0 \in 0 .. MaxSwitches
  BY SwapSessionAssumption
<1>6. TypeOK
  BY <1>3, <1>4, <1>5 DEF Init, TypeOK, Statuses, Screens
<1>7. /\ pendingSwap = None /\ pendingCowOrder = None
      /\ view.swap = None /\ view.order = None
  BY DEF Init
<1> QED BY <1>1, <1>2, <1>6, <1>7
      DEF IInv, FrozenIsOver, UnsignedBeforeReview, ReviewIsUnsigned,
          SimulatedIsPriced, OrdersSignedWhereBuilt, ReviewedSwapsArePriced, Signed

LEMMA RenderStep ==
  ASSUME IInv, Render
  PROVE  IInv' /\ NoneAgain
<1>1. TypeOK'
  BY ScreenTyped DEF Render, IInv, TypeOK, wallet, review, receipts
<1>2. SignaturesKept /\ FlowsKept /\ ReviewKept
  BY Unmoved DEF Render
<1> QED BY <1>1, <1>2, QuietStep

LEMMA ResetSwapStep ==
  ASSUME IInv, ResetSwap
  PROVE  IInv' /\ NoneAgain
<1>1. TypeOK'
  BY DEF ResetSwap, IInv, TypeOK, wallet, Statuses
<1>2. SignaturesKept /\ FlowsKept
  BY Unmoved DEF ResetSwap
<1>3. ReviewKept
  BY DEF ResetSwap, ReviewKept
<1> QED BY <1>1, <1>2, <1>3, QuietStep

LEMMA QuotesChangeStep ==
  ASSUME IInv, QuotesChange
  PROVE  IInv' /\ NoneAgain
<1>1. TypeOK'
  BY DEF QuotesChange, IInv, TypeOK, wallet, review, receipts
<1>2. SignaturesKept /\ FlowsKept /\ ReviewKept
  BY Unmoved DEF QuotesChange
<1> QED BY <1>1, <1>2, QuietStep

LEMMA SwitchChainStep ==
  ASSUME IInv, NEW c \in Chains, SwitchChain(c)
  PROVE  IInv' /\ NoneAgain
<1>1. switches' \in 0 .. MaxSwitches
  BY SwapSessionAssumption DEF SwitchChain, IInv, TypeOK
<1>2. view' \in Screens
  BY ScreenTyped DEF SwitchChain, Forget, Statuses
<1>3. TypeOK'
  BY <1>1, <1>2 DEF SwitchChain, Forget, IInv, TypeOK, Statuses
<1>4. SignaturesKept /\ FlowsKept
  BY Unmoved DEF SwitchChain
<1>5. ReviewKept
  BY DEF SwitchChain, Forget, ReviewKept
<1> QED BY <1>3, <1>4, <1>5, QuietStep

LEMMA SwitchAccountStep ==
  ASSUME IInv, NEW a \in Accounts \cup {None}, SwitchAccount(a)
  PROVE  IInv' /\ NoneAgain
<1>1. switches' \in 0 .. MaxSwitches
  BY SwapSessionAssumption DEF SwitchAccount, IInv, TypeOK
<1>2. status' \in {"error", "success", "idle", status}
  BY DEF SwitchAccount
<1>3. ReviewKept
  BY <1>2 DEF SwitchAccount, Forget, ReviewKept, review
<1>4. status' \in Statuses
  BY <1>2 DEF Statuses, IInv, TypeOK
<1>5. /\ pendingSwap' \in Frozen \cup {None} /\ pendingCowOrder' \in Frozen \cup {None}
      /\ view' \in Screens
  BY <1>3, <1>4, ScreenTyped DEF SwitchAccount, IInv, TypeOK, ReviewKept
<1>6. TypeOK'
  BY <1>1, <1>4, <1>5 DEF SwitchAccount, IInv, TypeOK, receipts
<1>7. SignaturesKept /\ FlowsKept
  BY Unmoved DEF SwitchAccount
<1> QED BY <1>3, <1>6, <1>7, QuietStep

-----------------------------------------------------------------------------
(* execute.                                                                *)

LEMMA EnterStep ==
  ASSUME IInv, NEW f \in Flows, flow[f].pc # "ended", NEW cow \in BOOLEAN,
         NEW floor \in Floors, NEW left \in 0 .. Fallbacks, account # None,
         Enter(f, cow, floor, left), view' = view \/ Shown,
         UNCHANGED <<quoted, wallet, review, receipts, tx, order>>
  PROVE  IInv' /\ NoneAgain
<1> DEFINE y == [pc |-> "fetch", cow |-> cow, built |-> Wallet, floor |-> floor,
                 left |-> left]
<1>1. Wallet \in Wallets
  BY DEF IInv, TypeOK, Wallet, Wallets
<1>2. y \in FlowStates /\ y.pc = "fetch"
  BY <1>1 DEF FlowStates
<1>3. flow' = [flow EXCEPT ![f] = y] /\ status' = "fetching_swap"
  BY DEF Enter
<1> HIDE DEF y
<1>4. TypeOK'
  <2>1. status' \in Statuses /\ view' \in Screens
    BY <1>3, ScreenTyped DEF IInv, TypeOK, review, Statuses
  <2> QED BY <1>2, <1>3, <2>1 DEF IInv, TypeOK, wallet, review, receipts
<1>5. FlowsKept
  BY <1>2, <1>3 DEF FlowsKept, IInv, TypeOK, SimulatedIsPriced
<1>6. SignaturesKept /\ ReviewKept
  BY <1>3, Unmoved
<1> QED BY <1>4, <1>5, <1>6, QuietStep

\* A flow that ends with nothing frozen.
LEMMA EndsStep ==
  ASSUME IInv, NEW f \in Flows, Ends(f), NEW st \in Statuses,
         status' = st, st = status \/ st \notin {"confirming", "cow_awaiting_review"}, Shown,
         UNCHANGED <<quoted, wallet, review, receipts, tx, order>>
  PROVE  IInv' /\ NoneAgain
<1>1. TypeOK'
  BY ScreenTyped DEF Ends, IInv, TypeOK, wallet, review, receipts, FlowStates
<1>2. FlowsKept
  BY DEF Ends, FlowsKept, IInv, TypeOK, SimulatedIsPriced
<1>3. SignaturesKept /\ ReviewKept
  BY Unmoved
<1> QED BY <1>1, <1>2, <1>3, QuietStep

LEMMA ExecuteStep ==
  ASSUME IInv, NEW f \in Flows, NEW cow \in BOOLEAN, Execute(f, cow)
  PROVE  IInv' /\ NoneAgain
<1>1. PICK floor \in (IF cow THEN {"exempt"} ELSE {"quote", "exempt"}) :
          Enter(f, cow, floor, IF cow THEN 0 ELSE Fallbacks)
  BY DEF Execute
<1>2. floor \in Floors
  BY DEF Floors
<1>3. (IF cow THEN 0 ELSE Fallbacks) \in 0 .. Fallbacks
  BY SwapSessionAssumption
<1>4. flow[f].pc # "ended" /\ account # None
  BY DEF Execute, Off
<1> QED BY <1>1, <1>2, <1>3, <1>4, EnterStep DEF Execute

LEMMA NextSourceStep ==
  ASSUME IInv, NEW f \in Flows, flow[f].pc \in {"fetch", "simulate"}, NextSource(f), Shown,
         UNCHANGED <<quoted, wallet, review, receipts, tx, order>>
  PROVE  IInv' /\ NoneAgain
<1>1. CASE account = None
  BY <1>1, EndsStep DEF NextSource, IInv, TypeOK
<1>2. CASE account # None
  <2>1. PICK floor \in FloorsNow : Enter(f, FALSE, floor, flow[f].left - 1)
    BY <1>2 DEF NextSource
  <2>2. floor \in Floors
    BY DEF FloorsNow, Floors
  <2>3. flow[f].left \in 0 .. Fallbacks
    BY DEF IInv, TypeOK, FlowStates
  <2>4. flow[f].left - 1 \in 0 .. Fallbacks
    BY <2>3, SwapSessionAssumption DEF NextSource
  <2> QED BY <1>2, <2>1, <2>2, <2>4, EnterStep
<1> QED BY <1>1, <1>2

\* A flow that freezes takes the place of what was up for review.
LEMMA FreezeStep ==
  ASSUME IInv, NEW f \in Flows, flow[f].pc \in {"fetch", "simulate"}, Ends(f),
         NEW frozen \in Frozen, frozen.of = f,
         \/ /\ pendingSwap' = frozen /\ status' = "confirming"
            /\ pendingCowOrder' = pendingCowOrder /\ frozen.floor # "missing"
         \/ /\ pendingCowOrder' = frozen /\ status' = "cow_awaiting_review"
            /\ pendingSwap' = pendingSwap,
         Shown, UNCHANGED <<quoted, wallet, receipts, tx, order>>
  PROVE  IInv' /\ NoneAgain
<1>1. /\ pendingSwap' \in Frozen \cup {None} /\ pendingCowOrder' \in Frozen \cup {None}
      /\ status' \in Statuses /\ view' \in Screens
  BY ScreenTyped DEF IInv, TypeOK, Statuses
<1>2. TypeOK'
  BY <1>1 DEF Ends, IInv, TypeOK, wallet, receipts, FlowStates
<1>3. FlowsKept /\ flow'[f].pc = "ended"
  BY DEF Ends, FlowsKept, IInv, TypeOK, SimulatedIsPriced
<1>4. \A g : Signed(g)' = Signed(g)
  BY DEF Signed
<1>5. \A r \in {pendingSwap, pendingCowOrder} :
          r # None => flow'[r.of].pc = "ended"
  BY <1>3, ReviewTypes DEF IInv, FrozenIsOver, FlowsKept
<1>6. FrozenIsOver'
  BY <1>3, <1>5 DEF FrozenIsOver, Shown, Screen
<1>7. UnsignedBeforeReview' /\ SimulatedIsPriced'
  BY <1>3, <1>4 DEF UnsignedBeforeReview, SimulatedIsPriced, FlowsKept, IInv
<1>8. ~Signed(f)
  BY DEF IInv, UnsignedBeforeReview
<1>9. ReviewIsUnsigned' /\ ReviewedSwapsArePriced'
  BY <1>4, <1>8 DEF ReviewIsUnsigned, ReviewedSwapsArePriced, IInv
<1>10. OrdersSignedWhereBuilt' /\ NoneAgain
  BY DEF OrdersSignedWhereBuilt, NoneAgain, IsSigned, IInv
<1> QED BY <1>2, <1>6, <1>7, <1>9, <1>10 DEF IInv

LEMMA FetchAnswersStep ==
  ASSUME IInv, NEW f \in Flows, FetchAnswers(f)
  PROVE  IInv' /\ NoneAgain
<1>1. flow[f].pc = "fetch" /\ Shown /\ UNCHANGED <<quoted, wallet, receipts, tx, order>>
  BY DEF FetchAnswers
<1>2. CASE Refused(f)
  <2>1. CASE Fails(f, "idle") \/ Fails(f, "error")
    BY <1>1, <1>2, <2>1, EndsStep DEF Refused, Fails, Statuses
  <2>2. CASE NextSource(f)
    BY <1>1, <1>2, <2>2, NextSourceStep DEF Refused
  <2> QED BY <1>2, <2>1, <2>2 DEF Refused
<1>3. CASE /\ flow[f].floor # "missing" /\ flow' = [flow EXCEPT ![f].pc = "simulate"]
           /\ status' = "simulating" /\ UNCHANGED review
  <2> DEFINE y == [flow[f] EXCEPT !.pc = "simulate"]
  <2>1. y \in FlowStates /\ y.pc = "simulate" /\ y.floor # "missing"
    BY <1>1, <1>3 DEF IInv, TypeOK, FlowStates
  <2>2. flow' = [flow EXCEPT ![f] = y]
    BY <1>3 DEF IInv, TypeOK
  <2> HIDE DEF y
  <2>3. status' \in Statuses /\ view' \in Screens
    BY <1>1, <1>3, ScreenTyped DEF IInv, TypeOK, review, Statuses
  <2>4. TypeOK'
    BY <1>1, <1>3, <2>1, <2>2, <2>3 DEF IInv, TypeOK, wallet, review, receipts
  <2>5. FlowsKept
    BY <1>1, <2>1, <2>2 DEF FlowsKept, IInv, TypeOK, SimulatedIsPriced
  <2>6. SignaturesKept /\ ReviewKept
    BY <1>1, <1>3, Unmoved
  <2> QED BY <2>4, <2>5, <2>6, QuietStep
<1>4. CASE FreezeCow(f)
  <2> DEFINE frozen == [of |-> f, built |-> flow[f].built, floor |-> flow[f].floor]
  <2>1. frozen \in Frozen /\ frozen.of = f
    BY <1>1 DEF Frozen, IInv, TypeOK, FlowStates
  <2>2. /\ pendingCowOrder' = frozen /\ status' = "cow_awaiting_review"
        /\ pendingSwap' = pendingSwap /\ Ends(f)
    BY <1>4 DEF FreezeCow
  <2> HIDE DEF frozen
  <2> QED BY <1>1, <2>1, <2>2, FreezeStep
<1> QED BY <1>2, <1>3, <1>4 DEF FetchAnswers

LEMMA SimulationAnswersStep ==
  ASSUME IInv, NEW f \in Flows, SimulationAnswers(f)
  PROVE  IInv' /\ NoneAgain
<1> DEFINE frozen == [of |-> f, built |-> flow[f].built, floor |-> flow[f].floor]
<1>1. flow[f].pc = "simulate" /\ Shown /\ UNCHANGED <<quoted, wallet, receipts, tx, order>>
  BY DEF SimulationAnswers
<1>2. CASE Fails(f, "error") /\ UNCHANGED review
  BY <1>1, <1>2, EndsStep DEF Fails, Statuses
<1>3. CASE NextSource(f) /\ UNCHANGED review
  BY <1>1, <1>3, NextSourceStep
<1>4. CASE Ends(f) /\ pendingSwap' = frozen /\ status' = "confirming" /\ UNCHANGED pendingCowOrder
  <2>1. frozen \in Frozen /\ frozen.of = f /\ frozen.floor # "missing"
    BY <1>1 DEF Frozen, IInv, TypeOK, FlowStates, SimulatedIsPriced
  <2> HIDE DEF frozen
  <2> QED BY <1>1, <1>4, <2>1, FreezeStep
<1> QED BY <1>2, <1>3, <1>4 DEF SimulationAnswers

-----------------------------------------------------------------------------
(* The wallet, the chain and the receipts.                                 *)

\* The wallet is asked for what the screen offers, and the state offers nothing any more.
LEMMA SigningStep ==
  ASSUME IInv, TypeOK', NEW frozen \in {view.swap, view.order}, frozen # None,
         NEW s \in Signings, Upcoming(s),
         \A r \in Signings \ {s} : tx'[r] = tx[r] /\ order'[r] = order[r],
         tx'[s].of \in {frozen.of, None}, order'[s].of \in {frozen.of, None},
         order'[s].of # None => order'[s].signedBy = order'[s].built,
         view.status \in {"confirming", "cow_awaiting_review"},
         view.status = "confirming" => frozen = view.swap,
         view.status = "cow_awaiting_review" => frozen = view.order,
         status' \notin {"confirming", "cow_awaiting_review"},
         pendingSwap' \in {pendingSwap, None},
         UNCHANGED <<pendingCowOrder, view, flow>>
  PROVE  IInv' /\ NoneAgain
<1>1. frozen.of \in Flows /\ flow[frozen.of].pc = "ended"
  BY ReviewTypes DEF IInv, FrozenIsOver
<1>2. /\ tx[s].of = None /\ order[s].of = None
      /\ \A f \in Flows : f # None
  BY SwapSessionAssumption DEF Upcoming, Unused, Flows
<1>3. \A f \in Flows : f # frozen.of => (Signed(f)' => Signed(f)) /\ ~IsSigned(f)
  BY <1>2 DEF Signed, IsSigned
<1>4. FrozenIsOver' /\ SimulatedIsPriced' /\ ReviewedSwapsArePriced'
  BY DEF FrozenIsOver, SimulatedIsPriced, ReviewedSwapsArePriced, IInv
<1>5. UnsignedBeforeReview' /\ ReviewIsUnsigned'
  BY <1>1, <1>3 DEF UnsignedBeforeReview, ReviewIsUnsigned, IInv
<1>6. OrdersSignedWhereBuilt'
  BY DEF OrdersSignedWhereBuilt, IInv
<1>7. NoneAgain
  <2>1. Rendered => ~Signed(frozen.of)
    BY DEF Rendered, Screen, IInv, ReviewIsUnsigned
  <2> QED BY <1>3, <2>1 DEF NoneAgain
<1> QED BY <1>4, <1>5, <1>6, <1>7 DEF IInv

LEMMA ConfirmSwapStep ==
  ASSUME IInv, ConfirmSwap
  PROVE  IInv' /\ NoneAgain
<1>1. PICK s \in Signings : SendReviewed(s)
  BY DEF ConfirmSwap
<1> DEFINE y == [state |-> "prompt", of |-> view.swap.of,
                 built |-> view.swap.built, signedBy |-> Wallet]
<1>2. view.swap \in Frozen /\ view.swap # None /\ account \in Accounts
  BY DEF ConfirmSwap, IInv, TypeOK, Screens
<1>3. y \in Txs /\ y.of = view.swap.of
  BY <1>2 DEF Frozen, Txs, Wallets, Wallet, IInv, TypeOK
<1>4. tx' = [tx EXCEPT ![s] = y] /\ mutation' = s /\ order' = order
  BY <1>1 DEF SendReviewed
<1> HIDE DEF y
<1>5. tx \in [Signings -> Txs]
  BY DEF IInv, TypeOK
<1>6. TypeOK'
  BY <1>1, <1>3, <1>4 DEF ConfirmSwap, SendReviewed, IInv, TypeOK, wallet, Statuses
<1>7. /\ tx'[s].of = view.swap.of
      /\ \A r \in Signings \ {s} : tx'[r] = tx[r] /\ order'[r] = order[r]
  BY <1>3, <1>4, <1>5
<1>8. Upcoming(s) /\ order'[s].of = None
  BY <1>1, <1>4 DEF SendReviewed, Upcoming, Unused
<1>9. /\ view.status = "confirming" /\ status' = "swapping" /\ pendingSwap' = None
      /\ UNCHANGED <<pendingCowOrder, view, flow>>
  BY <1>1 DEF ConfirmSwap, SendReviewed
<1> QED BY <1>2, <1>6, <1>7, <1>8, <1>9, SigningStep

\* The wallet or the chain moves a transaction on.
LEMMA TxMoves ==
  ASSUME IInv, NEW s \in Signings,
         NEW state \in {"refused", "pending", "success", "reverted"},
         tx' = [tx EXCEPT ![s].state = state], status' \in {status, "error"},
         view' = view \/ Shown,
         UNCHANGED <<quoted, wallet, review, receipts, flow, order>>
  PROVE  IInv' /\ NoneAgain
<1> DEFINE y == [tx[s] EXCEPT !.state = state]
<1>1. y \in Txs /\ y.of = tx[s].of
  BY DEF IInv, TypeOK, Txs
<1>2. tx' = [tx EXCEPT ![s] = y]
  BY DEF IInv, TypeOK
<1> HIDE DEF y
<1>3. status' \in Statuses /\ view' \in Screens
  BY ScreenTyped DEF IInv, TypeOK, review, Statuses
<1>4. TypeOK'
  BY <1>1, <1>2, <1>3 DEF IInv, TypeOK, wallet, review, receipts
<1>5. SignaturesKept
  BY <1>1, <1>2 DEF SignaturesKept, IInv, TypeOK
<1>6. FlowsKept /\ ReviewKept
  BY Unmoved
<1> QED BY <1>4, <1>5, <1>6, QuietStep

LEMMA WalletAnswersTxStep ==
  ASSUME IInv, NEW s \in Signings, WalletAnswersTx(s)
  PROVE  IInv' /\ NoneAgain
BY TxMoves DEF WalletAnswersTx

LEMMA TxLandsStep ==
  ASSUME IInv, NEW s \in Signings, TxLands(s)
  PROVE  IInv' /\ NoneAgain
BY TxMoves DEF TxLands

LEMMA ReceiptsStep ==
  ASSUME IInv, WagmiConfirms \/ PollAsks \/ TwoMinutesPass \/ PollAnswers
  PROVE  IInv' /\ NoneAgain
<1>1. /\ UNCHANGED <<quoted, wallet, review, mutation, flow, tx, order>>
      /\ status' \in {status, "success", "error"}
      /\ swapConfirmed' \in {swapConfirmed, TRUE} /\ late' \in {late, TRUE}
      /\ poll' \in {poll, mutation, None}
      /\ view' = view \/ Shown
  BY DEF WagmiConfirms, PollAsks, TwoMinutesPass, PollAnswers
<1>2. swapConfirmed' \in BOOLEAN /\ late' \in BOOLEAN
  BY <1>1, Zenon DEF IInv, TypeOK
<1>3. status' \in Statuses /\ poll' \in Signings \cup {None}
  BY <1>1 DEF IInv, TypeOK, Statuses
<1>4. view' \in Screens
  BY <1>1, <1>3, ScreenTyped DEF IInv, TypeOK, review
<1>5. TypeOK'
  BY <1>1, <1>2, <1>3, <1>4 DEF IInv, TypeOK, wallet, review
<1>6. SignaturesKept /\ FlowsKept /\ ReviewKept
  BY <1>1, Unmoved
<1> QED BY <1>5, <1>6, QuietStep

-----------------------------------------------------------------------------
(* confirmCowOrder.                                                        *)

LEMMA AskForSignatureStep ==
  ASSUME IInv, view.status = "cow_awaiting_review", view.order # None, account # None,
         view.order.built = Wallet, NEW s \in Signings, AskForSignature(s),
         UNCHANGED <<quoted, wallet, pendingSwap, view, receipts, flow, tx>>
  PROVE  IInv' /\ NoneAgain
<1> DEFINE y == [state |-> "prompt", watched |-> TRUE, of |-> view.order.of,
                 built |-> view.order.built, signedBy |-> Wallet]
<1>1. view.order \in Frozen
  BY DEF IInv, TypeOK, Screens
<1>2. y \in Orders /\ y.of = view.order.of /\ y.signedBy = y.built
  BY <1>1 DEF Frozen, Orders
<1>3. order' = [order EXCEPT ![s] = y]
  BY DEF AskForSignature
<1> HIDE DEF y
<1>4. order \in [Signings -> Orders]
  BY DEF IInv, TypeOK
<1>5. TypeOK'
  BY <1>2, <1>3 DEF AskForSignature, IInv, TypeOK, wallet, receipts, Statuses
<1>6. /\ order'[s] = y
      /\ \A r \in Signings \ {s} : tx'[r] = tx[r] /\ order'[r] = order[r]
  BY <1>3, <1>4
<1>7. Upcoming(s) /\ tx'[s].of = None
  BY DEF AskForSignature, Upcoming, Unused
<1>8. status' = "cow_signing" /\ pendingCowOrder' = pendingCowOrder
  BY DEF AskForSignature
<1> QED BY <1>2, <1>5, <1>6, <1>7, <1>8, SigningStep

LEMMA ConfirmCowOrderStep ==
  ASSUME IInv, ConfirmCowOrder
  PROVE  IInv' /\ NoneAgain
<1>1. CASE pendingCowOrder' = None /\ status' \in {"idle", "error"} /\ UNCHANGED order
  <2>1. TypeOK'
    BY <1>1 DEF ConfirmCowOrder, IInv, TypeOK, wallet, receipts, Statuses
  <2>2. SignaturesKept /\ FlowsKept
    BY <1>1, Unmoved DEF ConfirmCowOrder
  <2>3. ReviewKept
    BY <1>1 DEF ConfirmCowOrder, ReviewKept
  <2> QED BY <2>1, <2>2, <2>3, QuietStep
<1>2. CASE view.order.built = Wallet /\ \E s \in Signings : AskForSignature(s)
  BY <1>2, AskForSignatureStep DEF ConfirmCowOrder
<1> QED BY <1>1, <1>2 DEF ConfirmCowOrder

\* The wallet, the order book or a solver moves an order on.
LEMMA OrderMoves ==
  ASSUME IInv, NEW s \in Signings,
         NEW state \in {"refused", "submitted", "open", "filled", "over"},
         NEW watched \in BOOLEAN,
         order' = [order EXCEPT ![s].state = state, ![s].watched = watched],
         status' \in {status, "cow_pending", "success", "error"},
         view' = view \/ Shown,
         UNCHANGED <<quoted, wallet, review, receipts, flow, tx>>
  PROVE  IInv' /\ NoneAgain
<1> DEFINE y == [order[s] EXCEPT !.state = state, !.watched = watched]
<1>1. /\ y \in Orders /\ y.of = order[s].of
      /\ y.built = order[s].built /\ y.signedBy = order[s].signedBy
  BY DEF IInv, TypeOK, Orders
<1>2. order' = [order EXCEPT ![s] = y]
  BY DEF IInv, TypeOK, Orders
<1> HIDE DEF y
<1>3. status' \in Statuses /\ view' \in Screens
  BY ScreenTyped DEF IInv, TypeOK, review, Statuses
<1>4. TypeOK'
  BY <1>1, <1>2, <1>3 DEF IInv, TypeOK, wallet, review, receipts
<1>5. SignaturesKept
  BY <1>1, <1>2 DEF SignaturesKept, IInv, TypeOK
<1>6. FlowsKept /\ ReviewKept
  BY Unmoved
<1> QED BY <1>4, <1>5, <1>6, QuietStep

LEMMA OrderSteps ==
  ASSUME IInv, NEW s \in Signings,
         WalletAnswersOrder(s) \/ OrderBookAnswers(s) \/ OrderPollEnds(s)
  PROVE  IInv' /\ NoneAgain
<1>1. CASE WalletAnswersOrder(s)
  BY <1>1, OrderMoves DEF WalletAnswersOrder, OrderBecomes
<1>2. CASE OrderBookAnswers(s)
  BY <1>2, OrderMoves DEF OrderBookAnswers, OrderBecomes
<1>3. CASE OrderPollEnds(s)
  BY <1>3, OrderMoves DEF OrderPollEnds, OrderBecomes
<1> QED BY <1>1, <1>2, <1>3

LEMMA OrderSettlesStep ==
  ASSUME IInv, NEW s \in Signings, OrderSettles(s)
  PROVE  IInv' /\ NoneAgain
<1>1. PICK state \in {"filled", "over"} : order' = [order EXCEPT ![s].state = state]
  BY DEF OrderSettles
<1>2. order[s] \in Orders
  BY DEF IInv, TypeOK
<1>3. [order[s] EXCEPT !.state = state] =
      [order[s] EXCEPT !.state = state, !.watched = order[s].watched]
  BY <1>2 DEF Orders
<1>4. order' = [order EXCEPT ![s].state = state, ![s].watched = order[s].watched]
  BY <1>1, <1>3 DEF IInv, TypeOK
<1>5. order[s].watched \in BOOLEAN
  BY <1>2 DEF Orders
<1> QED BY <1>4, <1>5, OrderMoves DEF OrderSettles

-----------------------------------------------------------------------------
(* The theorems.                                                           *)

LEMMA NextStep ==
  ASSUME IInv, Next
  PROVE  IInv' /\ NoneAgain
<1>1. CASE Render \/ ResetSwap \/ QuotesChange
  BY <1>1, RenderStep, ResetSwapStep, QuotesChangeStep
<1>2. CASE \/ \E c \in Chains : SwitchChain(c)
           \/ \E a \in Accounts \cup {None} : SwitchAccount(a)
  BY <1>2, SwitchChainStep, SwitchAccountStep
<1>3. ASSUME NEW f \in Flows,
             \/ \E cow \in BOOLEAN : Execute(f, cow)
             \/ FetchAnswers(f) \/ SimulationAnswers(f)
      PROVE  IInv' /\ NoneAgain
  BY <1>3, ExecuteStep, FetchAnswersStep, SimulationAnswersStep
<1>4. ASSUME NEW s \in Signings, WalletAnswersTx(s) \/ TxLands(s)
      PROVE  IInv' /\ NoneAgain
  BY <1>4, WalletAnswersTxStep, TxLandsStep
<1>5. ASSUME NEW s \in Signings,
             \/ WalletAnswersOrder(s) \/ OrderBookAnswers(s) \/ OrderSettles(s)
             \/ OrderPollEnds(s)
      PROVE  IInv' /\ NoneAgain
  BY <1>5, OrderSteps, OrderSettlesStep
<1>6. CASE ConfirmSwap \/ ConfirmCowOrder
  BY <1>6, ConfirmSwapStep, ConfirmCowOrderStep
<1>7. CASE WagmiConfirms \/ PollAsks \/ TwoMinutesPass \/ PollAnswers
  BY <1>7, ReceiptsStep
<1> QED BY <1>1, <1>2, <1>3, <1>4, <1>5, <1>6, <1>7 DEF Next

THEOREM Invariance == Spec => []IInv
<1>1. Init => IInv
  BY InitInv
<1>2. IInv /\ [Next]_vars => IInv'
  <2> SUFFICES ASSUME IInv, [Next]_vars PROVE IInv'
    OBVIOUS
  <2>1. CASE Next
    BY <2>1, NextStep
  <2>2. CASE UNCHANGED vars
    <3>1. TypeOK'
      BY <2>2 DEF vars, IInv, TypeOK, wallet, review, receipts
    <3>2. SignaturesKept /\ FlowsKept /\ ReviewKept
      BY <2>2, Unmoved DEF vars
    <3> QED BY <3>1, <3>2, QuietStep
  <2> QED BY <2>1, <2>2
<1> QED BY <1>1, <1>2, PTL DEF Spec

\* The variables keep their types, for any length of the walk over the sources.
THEOREM TypeCorrect == Spec => []TypeOK
<1>1. IInv => TypeOK
  BY DEF IInv
<1> QED BY <1>1, Invariance, PTL

\* A second signature of what one click on Swap came to takes a second click on a screen
\* that lags behind: confirmSwap takes the review away, confirmCowOrder leaves the status
\* it needs, and no other flow, switch or reset brings either back.
THEOREM SignedAgainOnlyByOldScreens == Spec => SignedAgainOnlyUnrendered
<1>1. IInv /\ [Next]_vars => [NoneAgain]_vars
  BY NextStep
<1>2. Spec => [][NoneAgain]_vars
  BY <1>1, Invariance, PTL DEF Spec
<1> QED BY <1>2 DEF SignedAgainOnlyUnrendered, NoneAgain

\* An order is signed by the wallet it was built for: confirmCowOrder compares the two,
\* and an order's context is not written again.
THEOREM OrdersKeepTheirWallet == Spec => []OrdersSignedWhereBuilt
<1>1. IInv => OrdersSignedWhereBuilt
  BY DEF IInv
<1> QED BY <1>1, Invariance, PTL

\* A transaction is up for review only when it was held against a quote of its source or
\* needs none, however many sources the walk tried with the quotes of whatever moment.
THEOREM ReviewsArePriced == Spec => []ReviewedSwapsArePriced
<1>1. IInv => ReviewedSwapsArePriced
  BY DEF IInv
<1> QED BY <1>1, Invariance, PTL

=============================================================================
