--------------------------- MODULE SplitSwapProofs ---------------------------
(***************************************************************************)
(* What is proved of a swap split over several sources, for any number of  *)
(* contexts, legs, invocations and switches.                               *)
(*                                                                         *)
(* The two safety invariants rest on what is true of a plan on the screen: *)
(* it was frozen by the one invocation of execute that ended with it, the  *)
(* stamp beside it is its own context or has been wiped, and, while        *)
(* neither a signing nor a reset has come between, nobody signs it.        *)
(***************************************************************************)
EXTENDS SplitSwap, FiniteSetTheorems, WellFoundedInduction, TLAPS

\* Every nonempty set of naturals has a least element.
LEMMA LeastNatural ==
  ASSUME NEW T \in SUBSET Nat, T # {}
  PROVE  \E m \in T : \A k \in T : m <= k
<1> DEFINE F == {1 .. k : k \in T}
           R == StrictSubsetOrdering(Nat)
<1>1. F # {}
  <2> PICK k \in T : TRUE
    OBVIOUS
  <2> 1 .. k \in F
    OBVIOUS
  <2> QED OBVIOUS
<1>2. F \subseteq FiniteSubsetsOf(Nat)
  <2> SUFFICES ASSUME NEW k \in T PROVE 1 .. k \in FiniteSubsetsOf(Nat)
    OBVIOUS
  <2>1. IsFiniteSet(1 .. k)
    BY FS_Interval, SMT
  <2>2. 1 .. k \in SUBSET Nat
    BY SMT
  <2> QED BY <2>1, <2>2 DEF FiniteSubsetsOf
<1>3. IsWellFoundedOn(R, FiniteSubsetsOf(Nat))
  BY FS_StrictSubsetOrderingWellFounded
<1>4. PICK x \in F : \A y \in F : ~ (<<y, x>> \in R)
  <2> HIDE DEF F, R
  <2> QED BY <1>1, <1>2, <1>3, WFMin
<1>5. PICK m \in T : x = 1 .. m
  BY <1>4
<1>6. ASSUME NEW k \in T, k < m PROVE FALSE
  <2>1. 1 .. k \in F /\ x = 1 .. m
    BY <1>5
  <2>2. 1 .. k \subseteq 1 .. m /\ m \in 1 .. m /\ m \notin 1 .. k
    BY <1>6
  <2>3. 1 .. k \in SUBSET Nat /\ 1 .. m \in SUBSET Nat
    BY SMT
  <2>4. <<1 .. k, x>> \in R
    BY <2>1, <2>2, <2>3 DEF StrictSubsetOrdering
  <2> QED BY <2>1, <2>4, <1>4
<1> QED BY <1>6

\* The leg that is asked for next is one of those that are left.
LEMMA FirstIsOne ==
  ASSUME NEW legs \in SUBSET Legs, legs # {}
  PROVE  First(legs) \in legs
<1>1. legs \in SUBSET Nat
  BY SplitSwapAssumption DEF Legs
<1> QED BY <1>1, LeastNatural DEF First

-----------------------------------------------------------------------------
(* The inductive invariant.                                                *)

\* A review that is set is rendered at once.
ReviewIsRendered == status = "awaiting-review" => Rendered

\* The plan on the screen has a leg to sign, the invocation that froze it has ended with
\* it, and the stamp is of its context unless a reset has wiped it.
ReviewIsOfItsContext ==
    view.status = "awaiting-review" =>
        /\ view.plan \in Plans
        /\ Reviewed(view.plan) # {}
        /\ planner[view.plan.of].pc = "ended"
        /\ planContext \in {None, view.plan.at}

\* So has the invocation that froze a plan that is signed.
FrozenOnce == \A s \in Signings : Signing(s) => planner[signer[s].plan.of].pc = "ended"

\* Nobody signs a plan that a click could confirm.
ReviewIsUnsigned ==
    view.status = "awaiting-review" /\ ~executing /\ planContext # None =>
        \A s \in Signings : Signing(s) => signer[s].plan.of # view.plan.of

\* One signing per plan.
SignedOnce ==
    \A s, r \in Signings :
        Signing(s) /\ Signing(r) /\ signer[s].plan.of = signer[r].plan.of => s = r

IInv ==
    /\ TypeOK
    /\ ReviewIsRendered
    /\ ReviewIsOfItsContext
    /\ FrozenOnce
    /\ ReviewIsUnsigned
    /\ SignedOnce
    /\ PlansAreConfirmedWhereBuilt

-----------------------------------------------------------------------------
(* What the steps of the two kinds of invocation keep.                     *)

\* No signing starts, and those under way sign the plan they started with.
SigningsKept ==
    \A s \in Signings :
        /\ Signing(s)' <=> Signing(s)
        /\ Signing(s) => /\ signer'[s].plan = signer[s].plan
                         /\ signer'[s].confirmedIn = signer[s].confirmedIn

EndedStays == \A e \in Executions : planner[e].pc = "ended" => planner'[e].pc = "ended"

LEMMA AskType ==
  ASSUME TypeOK, NEW x \in Signers, x.pc # "off", NEW i \in Legs
  PROVE  /\ Ask(x, i) \in Signers
         /\ Ask(x, i).pc = "prompt"
         /\ Ask(x, i).plan = x.plan /\ Ask(x, i).confirmedIn = x.confirmedIn
BY DEF TypeOK, Ask, Signers

LEMMA SignerMoves ==
  ASSUME TypeOK, NEW s \in Signings, Signing(s), NEW y \in Signers, y.pc # "off",
         y.plan = signer[s].plan, y.confirmedIn = signer[s].confirmedIn,
         signer' = [signer EXCEPT ![s] = y]
  PROVE  signer' \in [Signings -> Signers] /\ SigningsKept
BY DEF TypeOK, Signing, SigningsKept

LEMMA Unmoved ==
  ASSUME TypeOK, UNCHANGED signer
  PROVE  signer' \in [Signings -> Signers] /\ SigningsKept
BY DEF TypeOK, Signing, SigningsKept

\* The parts of the invariant that are about signings, under a step that starts none.
LEMMA KeptStep ==
  ASSUME IInv, TypeOK', SigningsKept, EndedStays
  PROVE  FrozenOnce' /\ SignedOnce' /\ PlansAreConfirmedWhereBuilt'
<1>1. \A s \in Signings : Signing(s)' =>
          /\ Signing(s)
          /\ signer'[s].plan = signer[s].plan
          /\ signer'[s].confirmedIn = signer[s].confirmedIn
          /\ signer[s].plan.of \in Executions
  BY DEF SigningsKept, IInv, TypeOK, Signing, Signers, Plans
<1>2. FrozenOnce'
  BY <1>1 DEF IInv, FrozenOnce, EndedStays, Signing
<1>3. SignedOnce'
  BY <1>1 DEF IInv, SignedOnce, Signing
<1>4. PlansAreConfirmedWhereBuilt'
  BY <1>1 DEF IInv, PlansAreConfirmedWhereBuilt, Signing
<1> QED BY <1>2, <1>3, <1>4

\* A step after which nothing is up for review.
LEMMA NothingToReview ==
  ASSUME IInv, TypeOK', SigningsKept, EndedStays,
         status' # "awaiting-review",
         view'.status # "awaiting-review" \/ (UNCHANGED <<view, executing>> /\ planContext' = None)
  PROVE  IInv'
<1>1. FrozenOnce' /\ SignedOnce' /\ PlansAreConfirmedWhereBuilt'
  BY KeptStep
<1>2. ReviewIsRendered'
  BY DEF ReviewIsRendered
<1>3. ReviewIsOfItsContext'
  BY DEF ReviewIsOfItsContext, IInv, EndedStays, Plans, Reviewed
<1>4. ReviewIsUnsigned'
  BY DEF ReviewIsUnsigned
<1> QED BY <1>1, <1>2, <1>3, <1>4 DEF IInv

\* A step that leaves the screen and the refs alone.
LEMMA ScreenKept ==
  ASSUME IInv, TypeOK', SigningsKept, EndedStays, Keep, UNCHANGED refs
  PROVE  IInv'
<1>1. FrozenOnce' /\ SignedOnce' /\ PlansAreConfirmedWhereBuilt'
  BY KeptStep
<1>2. ReviewIsRendered'
  BY DEF ReviewIsRendered, IInv, Keep, react, Rendered
<1>3. ReviewIsOfItsContext'
  BY DEF ReviewIsOfItsContext, IInv, Keep, react, refs, EndedStays, Plans, Reviewed
<1>4. ReviewIsUnsigned'
  <2> SUFFICES ASSUME (view.status = "awaiting-review" /\ ~executing /\ planContext # None)'
               PROVE  \A s \in Signings : Signing(s)' => signer'[s].plan.of # view'.plan.of
    BY DEF ReviewIsUnsigned
  <2>1. \A s \in Signings : Signing(s) => signer[s].plan.of # view.plan.of
    BY DEF IInv, ReviewIsUnsigned, Keep, react, refs
  <2> QED BY <2>1 DEF SigningsKept, Keep, react
<1> QED BY <1>1, <1>2, <1>3, <1>4 DEF IInv

-----------------------------------------------------------------------------
(* The actions.                                                            *)

LEMMA InitInv == Init => IInv
<1> SUFFICES ASSUME Init PROVE IInv
  OBVIOUS
<1>1. planner \in [Executions -> Planners]
  BY DEF Init, Planners
<1>2. signer \in [Signings -> Signers] /\ \A s \in Signings : ~ Signing(s)
  BY DEF Init, Signers, Signing
<1>3. view \in [status : Statuses, plan : Plans \cup {None}]
  BY DEF Init, Statuses
<1>4. 0 \in 0 .. MaxSwitches
  BY SplitSwapAssumption
<1>5. TypeOK
  BY <1>1, <1>2, <1>3, <1>4 DEF Init, TypeOK, Statuses
<1>6. ReviewIsRendered /\ ReviewIsOfItsContext /\ ReviewIsUnsigned
  BY DEF Init, ReviewIsRendered, ReviewIsOfItsContext, ReviewIsUnsigned
<1>7. FrozenOnce /\ SignedOnce /\ PlansAreConfirmedWhereBuilt
  BY <1>2 DEF FrozenOnce, SignedOnce, PlansAreConfirmedWhereBuilt
<1> QED BY <1>5, <1>6, <1>7 DEF IInv

LEMMA RenderStep ==
  ASSUME IInv, Render
  PROVE  IInv'
<1>1. TypeOK' /\ SigningsKept /\ EndedStays
  BY Unmoved DEF Render, IInv, TypeOK, wallet, refs, EndedStays
<1>2. status # "awaiting-review"
  BY DEF Render, IInv, ReviewIsRendered
<1>3. status' # "awaiting-review" /\ view'.status # "awaiting-review"
  BY <1>2 DEF Render
<1> QED BY <1>1, <1>3, NothingToReview

LEMMA ResetStep ==
  ASSUME IInv, Reset
  PROVE  IInv'
<1>1. TypeOK' /\ SigningsKept /\ EndedStays
  BY Unmoved DEF Reset, Discard, IInv, TypeOK, wallet, EndedStays, Statuses
<1>2. UNCHANGED view /\ planContext' = None /\ status' # "awaiting-review"
  BY DEF Reset, Discard
<1>3. ReviewIsOfItsContext' /\ ReviewIsUnsigned' /\ ReviewIsRendered'
  BY <1>1, <1>2 DEF ReviewIsOfItsContext, ReviewIsUnsigned, ReviewIsRendered, IInv, Reviewed,
       EndedStays, Plans
<1> QED BY <1>1, <1>3, KeptStep DEF IInv

LEMMA SwitchStep ==
  ASSUME IInv, NEW c \in Contexts \cup {NoWallet}, SwitchContext(c)
  PROVE  IInv'
<1>1. SigningsKept /\ EndedStays
  BY Unmoved DEF SwitchContext, IInv, EndedStays
<1>2. CASE Discard /\ view' = [status |-> "idle", plan |-> None]
  <2>1. switches' \in 0 .. MaxSwitches
    BY SplitSwapAssumption DEF SwitchContext, IInv, TypeOK
  <2>2. view' \in [status : Statuses, plan : Plans \cup {None}]
    BY <1>2 DEF Statuses
  <2>3. TypeOK'
    BY <1>2, <2>1, <2>2 DEF SwitchContext, Discard, IInv, TypeOK, Statuses
  <2>4. status' # "awaiting-review" /\ view'.status # "awaiting-review"
    BY <1>2 DEF Discard
  <2> QED BY <1>1, <2>3, <2>4, NothingToReview
<1>3. CASE UNCHANGED <<react, refs>>
  <2>1. TypeOK'
    BY <1>3, SplitSwapAssumption DEF SwitchContext, IInv, TypeOK, react, refs
  <2> QED BY <1>1, <1>3, <2>1, ScreenKept DEF Keep
<1> QED BY <1>2, <1>3 DEF SwitchContext

LEMMA ExecuteStep ==
  ASSUME IInv, NEW e \in Executions, Execute(e)
  PROVE  IInv'
<1>6. [pc |-> "leg", at |-> context, leg |-> 1, legs |-> [i \in Legs |-> "skipped"]]
        \in Planners
  BY SplitSwapAssumption DEF Execute, IInv, TypeOK, Planners, Legs, Checked
<1>1. TypeOK'
  <2>1. planner' \in [Executions -> Planners]
    BY <1>6 DEF Execute, PlannerEnds, IInv, TypeOK, Planners
  <2>2. status' \in Statuses /\ plan' \in Plans \cup {None}
    BY DEF Execute, IInv, TypeOK, Statuses
  <2> QED BY <2>1, <2>2 DEF Execute, IInv, TypeOK, wallet
<1>2. SigningsKept
  BY Unmoved DEF Execute, IInv
<1>3. EndedStays
  BY DEF Execute, PlannerEnds, EndedStays, IInv, TypeOK
<1>4. UNCHANGED <<view, executing, planContext, signer>> /\ status' # "awaiting-review"
  BY DEF Execute
<1>5. ReviewIsOfItsContext' /\ ReviewIsUnsigned' /\ ReviewIsRendered'
  BY <1>3, <1>4 DEF ReviewIsOfItsContext, ReviewIsUnsigned, ReviewIsRendered, IInv, Reviewed,
       EndedStays, Plans, Signing
<1> QED BY <1>1, <1>2, <1>3, <1>5, KeptStep DEF IInv

\* An answer that ends an invocation with nothing to sign.
LEMMA StoppedStep ==
  ASSUME IInv, NEW e \in Executions, NEW st \in Statuses \ {"awaiting-review"},
         NEW p \in Plans \cup {None}, PlannerEnds(e), Set(st, p),
         UNCHANGED <<wallet, refs, signer>>
  PROVE  IInv'
<1>1. TypeOK'
  BY DEF PlannerEnds, Set, IInv, TypeOK, wallet, refs, Planners
<1>2. SigningsKept /\ EndedStays
  BY Unmoved DEF PlannerEnds, EndedStays, IInv, TypeOK
<1> QED BY <1>1, <1>2, NothingToReview DEF Set

LEMMA FreezeStep ==
  ASSUME IInv, NEW e \in Executions, planner[e].pc = "leg",
         NEW legs \in [Legs -> Checked], Freeze(e, legs), UNCHANGED <<wallet, signer>>
  PROVE  IInv'
<1> DEFINE built == [of |-> e, at |-> planner[e].at, legs |-> legs]
<1>1. built \in Plans /\ planner[e].at \in Contexts
  BY DEF Plans, IInv, TypeOK, Planners
<1>2. SigningsKept /\ EndedStays
  BY Unmoved DEF Freeze, PlannerEnds, EndedStays, IInv, TypeOK
<1>3. CASE \A i \in Legs : legs[i] = "skipped"
  <2>1. PlannerEnds(e) /\ Set("error", built) /\ UNCHANGED refs
    BY <1>3 DEF Freeze
  <2> QED BY <1>1, <2>1, StoppedStep DEF Statuses
<1>4. CASE ~ \A i \in Legs : legs[i] = "skipped"
  <2>1. /\ PlannerEnds(e) /\ Set("awaiting-review", built)
        /\ planContext' = planner[e].at /\ UNCHANGED <<abort, executing>>
    BY <1>4 DEF Freeze
  <2>2. TypeOK'
    BY <1>1, <2>1 DEF PlannerEnds, Set, IInv, TypeOK, wallet, Planners, Statuses
  <2>3. view' = [status |-> "awaiting-review", plan |-> built]
        /\ status' = "awaiting-review" /\ plan' = built /\ planner'[e].pc = "ended"
    BY <2>1 DEF Set, PlannerEnds, IInv, TypeOK
  <2>4. ReviewIsRendered'
    BY <2>3 DEF ReviewIsRendered, Rendered
  <2>5. Reviewed(built) # {}
    BY <1>4 DEF Reviewed, Checked
  <2>6. ReviewIsOfItsContext'
    BY <1>1, <2>1, <2>3, <2>5 DEF ReviewIsOfItsContext, Reviewed
  <2>7. ReviewIsUnsigned'
    <3>1. \A s \in Signings : Signing(s) => signer[s].plan.of # e
      BY DEF IInv, FrozenOnce
    <3> QED BY <2>3, <3>1 DEF ReviewIsUnsigned, Signing
  <2> QED BY <1>2, <2>2, <2>4, <2>6, <2>7, KeptStep DEF IInv
<1> QED BY <1>3, <1>4

LEMMA LegAnswersStep ==
  ASSUME IInv, NEW e \in Executions, LegAnswers(e)
  PROVE  IInv'
<1>1. planner[e].pc = "leg" /\ UNCHANGED <<wallet, signer>>
  BY DEF LegAnswers
<1>2. ASSUME NEW outcome \in Checked, LegChecked(e, outcome) PROVE IInv'
  <2> DEFINE legs == [planner[e].legs EXCEPT ![planner[e].leg] = outcome]
  <2>1. /\ planner[e].leg \in Legs /\ planner[e].at \in Contexts
        /\ planner[e].legs \in [Legs -> Checked] /\ legs \in [Legs -> Checked]
    BY <1>1, <1>2 DEF IInv, TypeOK, Planners
  <2>2. CASE PlannerEnds(e) /\ Keep /\ UNCHANGED refs
    <3>1. TypeOK'
      BY <1>1, <2>2 DEF PlannerEnds, Keep, IInv, TypeOK, wallet, react, refs, Planners
    <3>2. SigningsKept /\ EndedStays
      BY <1>1, <2>2, Unmoved DEF PlannerEnds, EndedStays, IInv, TypeOK
    <3> QED BY <2>2, <3>1, <3>2, ScreenKept
  <2>3. CASE /\ planner[e].leg < LegCount
             /\ planner' = [planner EXCEPT ![e].leg = @ + 1, ![e].legs = legs]
             /\ Keep /\ UNCHANGED refs
    <3>1. planner[e].leg + 1 \in Legs
      BY <2>1, <2>3, SplitSwapAssumption DEF Legs
    <3>2. planner[e] \in [pc : {"leg"}, at : Contexts, leg : Legs, legs : [Legs -> Checked]]
      BY <1>1 DEF IInv, TypeOK, Planners
    <3>3. planner' = [planner EXCEPT ![e] = [planner[e] EXCEPT !.leg = @ + 1, !.legs = legs]]
      BY <2>3, <3>2 DEF IInv, TypeOK
    <3>4. [planner[e] EXCEPT !.leg = @ + 1, !.legs = legs] \in Planners
      BY <2>1, <3>1, <3>2 DEF Planners
    <3>5. TypeOK'
      BY <1>1, <2>3, <3>3, <3>4 DEF Keep, IInv, TypeOK, wallet, react, refs
    <3>6. SigningsKept /\ EndedStays
      BY <1>1, <3>3, Unmoved DEF EndedStays, IInv, TypeOK
    <3> QED BY <2>3, <3>5, <3>6, ScreenKept
  <2>4. CASE Freeze(e, legs)
    BY <1>1, <2>1, <2>4, FreezeStep
  <2>5. CASE Tampered(e)
    BY <1>1, <2>5, StoppedStep DEF Tampered, Statuses
  <2> QED BY <1>2, <2>2, <2>3, <2>4, <2>5 DEF LegChecked
<1>3. CASE ConsentNeeded(e)
  BY <1>1, <1>3, StoppedStep DEF ConsentNeeded, Statuses
<1>4. CASE Tampered(e)
  BY <1>1, <1>4, StoppedStep DEF Tampered, Statuses
<1> QED BY <1>2, <1>3, <1>4 DEF LegAnswers

\* The click signs the plan of the last render, which nobody signs yet.
LEMMA StartSigningStep ==
  ASSUME IInv, NEW s \in Signings, signer[s].pc = "off",
         view.status = "awaiting-review", context \in Contexts, ~executing,
         planContext = context, StartSigning(s), UNCHANGED <<wallet, view, planner>>
  PROVE  IInv'
<1> DEFINE leg == First(Reviewed(view.plan))
           x == [pc |-> "prompt", plan |-> view.plan, confirmedIn |-> context, leg |-> 1,
                 ok |-> {}, fate |-> [i \in Legs |-> "unsent"],
                 sentFrom |-> [i \in Legs |-> None]]
<1>1. /\ view.plan \in Plans /\ Reviewed(view.plan) # {}
      /\ planner[view.plan.of].pc = "ended" /\ view.plan.at = context
  BY SplitSwapAssumption DEF IInv, ReviewIsOfItsContext
<1>2. leg \in Legs
  BY <1>1, FirstIsOne DEF Reviewed
<1>3. x \in Signers /\ x.pc # "off"
  BY <1>1, SplitSwapAssumption DEF Signers, Legs, Fates
<1>4. /\ Ask(x, leg) \in Signers /\ Ask(x, leg).pc = "prompt"
      /\ Ask(x, leg).plan = view.plan /\ Ask(x, leg).confirmedIn = context
  <2> HIDE DEF x, leg
  <2> QED BY <1>2, <1>3, AskType DEF IInv, x
<1>5. signer' = [signer EXCEPT ![s] = Ask(x, leg)]
  BY DEF StartSigning
<1> HIDE DEF x, leg
<1>6. TypeOK'
  BY <1>4, <1>5 DEF StartSigning, IInv, TypeOK, wallet, Statuses
<1>7. \A r \in Signings : Signing(r)' =>
          \/ r = s /\ signer'[r].plan = view.plan /\ signer'[r].confirmedIn = context
          \/ r # s /\ Signing(r) /\ signer'[r] = signer[r]
  BY <1>4, <1>5 DEF Signing, IInv, TypeOK
<1>8. \A r \in Signings : Signing(r) => signer[r].plan.of # view.plan.of
  BY SplitSwapAssumption DEF IInv, ReviewIsUnsigned
<1>9. FrozenOnce' /\ SignedOnce' /\ PlansAreConfirmedWhereBuilt'
  <2>1. FrozenOnce'
    BY <1>1, <1>7 DEF FrozenOnce, IInv, Signing
  <2>2. SignedOnce'
    BY <1>7, <1>8 DEF SignedOnce, IInv, Signing
  <2>3. PlansAreConfirmedWhereBuilt'
    BY <1>1, <1>7 DEF PlansAreConfirmedWhereBuilt, IInv, Signing
  <2> QED BY <2>1, <2>2, <2>3
<1>10. executing' = TRUE /\ status' = "executing" /\ UNCHANGED <<view, planContext, planner>>
  BY DEF StartSigning
<1>11. ReviewIsRendered' /\ ReviewIsUnsigned'
  BY <1>10 DEF ReviewIsRendered, ReviewIsUnsigned
<1>12. ReviewIsOfItsContext'
  BY <1>10 DEF ReviewIsOfItsContext, IInv, Reviewed
<1> QED BY <1>6, <1>9, <1>11, <1>12 DEF IInv

LEMMA ConfirmPlanStep ==
  ASSUME IInv, NEW s \in Signings, ConfirmPlan(s)
  PROVE  IInv'
<1>1. context \in Contexts
  BY DEF ConfirmPlan, IInv, TypeOK
<1>2. CASE planContext = context
  BY <1>1, <1>2, StartSigningStep DEF ConfirmPlan
<1>3. CASE planContext # context
  <2>1. Discard /\ UNCHANGED <<wallet, view, planner, signer>>
    BY <1>3 DEF ConfirmPlan
  <2> QED BY <2>1, ResetStep DEF Reset
<1> QED BY <1>2, <1>3

LEMMA FinishStep ==
  ASSUME IInv, NEW s \in Signings, Signing(s), NEW x \in Signers, x.pc # "off",
         x.plan = signer[s].plan, x.confirmedIn = signer[s].confirmedIn,
         Finish(s, x), UNCHANGED <<wallet, planner>>
  PROVE  IInv'
<1> DEFINE y == [x EXCEPT !.pc = "ended"]
<1>1. y \in Signers /\ y.pc # "off" /\ y.plan = x.plan /\ y.confirmedIn = x.confirmedIn
  BY DEF Signers
<1>2. signer' = [signer EXCEPT ![s] = y]
  BY DEF Finish
<1> HIDE DEF y
<1>3. signer' \in [Signings -> Signers] /\ SigningsKept
  BY <1>1, <1>2, SignerMoves DEF IInv
<1>4. FinalStatus(x) \in {"success", "partial", "error"}
  BY DEF FinalStatus
<1>5. /\ status' = FinalStatus(x) /\ plan' = plan
      /\ view' = [status |-> FinalStatus(x), plan |-> plan]
      /\ executing' = FALSE /\ UNCHANGED <<abort, planContext>>
  BY DEF Finish, Set
<1>6. TypeOK'
  <2>1. view' \in [status : Statuses, plan : Plans \cup {None}]
    BY <1>4, <1>5 DEF IInv, TypeOK, Statuses
  <2> QED BY <1>3, <1>4, <1>5, <2>1 DEF IInv, TypeOK, wallet, Statuses
<1>7. EndedStays
  BY DEF EndedStays
<1>8. status' # "awaiting-review" /\ view'.status # "awaiting-review"
  BY <1>4, <1>5
<1> QED BY <1>3, <1>6, <1>7, <1>8, NothingToReview

LEMMA NextLegStep ==
  ASSUME IInv, NEW s \in Signings, Signing(s), NEW x \in Signers, x.pc # "off",
         x.plan = signer[s].plan, x.confirmedIn = signer[s].confirmedIn,
         NextLeg(s, x), UNCHANGED <<wallet, planner>>
  PROVE  IInv'
<1> DEFINE rest == {i \in Reviewed(x.plan) : i > x.leg}
<1>1. CASE abort \/ rest = {}
  BY <1>1, FinishStep DEF NextLeg
<1>2. CASE ~ (abort \/ rest = {})
  <2>1. signer' = [signer EXCEPT ![s] = Ask(x, First(rest))] /\ Keep /\ UNCHANGED refs
    BY <1>2 DEF NextLeg
  <2>2. rest \in SUBSET Legs /\ rest # {}
    BY <1>2 DEF Reviewed
  <2> HIDE DEF rest
  <2>3. First(rest) \in Legs
    BY <2>2, FirstIsOne
  <2>4. /\ Ask(x, First(rest)) \in Signers /\ Ask(x, First(rest)).pc = "prompt"
        /\ Ask(x, First(rest)).plan = x.plan
        /\ Ask(x, First(rest)).confirmedIn = x.confirmedIn
    BY <2>3, AskType DEF IInv
  <2>5. signer' \in [Signings -> Signers] /\ SigningsKept
    BY <2>1, <2>4, SignerMoves DEF IInv
  <2>6. TypeOK' /\ EndedStays
    BY <2>1, <2>5 DEF IInv, TypeOK, Keep, react, refs, wallet, EndedStays
  <2> QED BY <2>1, <2>5, <2>6, ScreenKept
<1> QED BY <1>1, <1>2

LEMMA WalletAnswersStep ==
  ASSUME IInv, NEW s \in Signings, WalletAnswers(s)
  PROVE  IInv'
<1> DEFINE x == signer[s]
           y == [x EXCEPT !.pc = "receipt", !.fate[x.leg] = "pending"]
<1>1. Signing(s) /\ x \in Signers /\ x.pc = "prompt" /\ UNCHANGED <<wallet, planner>>
  BY DEF WalletAnswers, Signing, IInv, TypeOK
<1>2. CASE signer' = [signer EXCEPT ![s] = y] /\ Keep /\ UNCHANGED refs
  <2>1. y \in Signers /\ y.pc # "off" /\ y.plan = x.plan /\ y.confirmedIn = x.confirmedIn
    BY <1>1 DEF Signers, Fates
  <2> HIDE DEF y
  <2>2. signer' \in [Signings -> Signers] /\ SigningsKept
    BY <1>1, <1>2, <2>1, SignerMoves DEF IInv
  <2>3. TypeOK' /\ EndedStays
    BY <1>1, <1>2, <2>2 DEF IInv, TypeOK, Keep, react, refs, wallet, EndedStays
  <2> QED BY <1>2, <2>2, <2>3, ScreenKept
<1>3. CASE Finish(s, x)
  BY <1>1, <1>3, FinishStep
<1>4. CASE NextLeg(s, x)
  BY <1>1, <1>4, NextLegStep
<1> QED BY <1>2, <1>3, <1>4 DEF WalletAnswers

LEMMA ReceiptStep ==
  ASSUME IInv, NEW s \in Signings, ReceiptOrTimeout(s)
  PROVE  IInv'
<1> DEFINE x == signer[s]
           y == [x EXCEPT !.ok = @ \cup {x.leg}]
<1>1. Signing(s) /\ x \in Signers /\ x.pc = "receipt" /\ UNCHANGED <<wallet, planner>>
  BY DEF ReceiptOrTimeout, Signing, IInv, TypeOK
<1>2. CASE NextLeg(s, y)
  <2>1. y \in Signers /\ y.pc # "off" /\ y.plan = x.plan /\ y.confirmedIn = x.confirmedIn
    BY <1>1 DEF Signers
  <2> HIDE DEF y
  <2> QED BY <1>1, <1>2, <2>1, NextLegStep
<1>3. CASE NextLeg(s, x)
  BY <1>1, <1>3, NextLegStep
<1> QED BY <1>2, <1>3 DEF ReceiptOrTimeout

LEMMA TxLandsStep ==
  ASSUME IInv, NEW s \in Signings, NEW i \in Legs, TxLands(s, i)
  PROVE  IInv'
<1>1. PICK outcome \in {"success", "reverted"} : signer' = [signer EXCEPT ![s].fate[i] = outcome]
  BY DEF TxLands
<1> DEFINE y == [signer[s] EXCEPT !.fate[i] = outcome]
<1>2. /\ Signing(s) /\ y \in Signers /\ y.pc # "off"
      /\ y.plan = signer[s].plan /\ y.confirmedIn = signer[s].confirmedIn
  BY DEF TxLands, Signing, IInv, TypeOK, Signers, Fates
<1>3. signer' = [signer EXCEPT ![s] = y]
  BY <1>1 DEF IInv, TypeOK
<1> HIDE DEF y
<1>4. signer' \in [Signings -> Signers] /\ SigningsKept
  BY <1>2, <1>3, SignerMoves DEF IInv
<1>5. TypeOK' /\ EndedStays
  BY <1>4 DEF TxLands, IInv, TypeOK, react, refs, wallet, EndedStays
<1> QED BY <1>4, <1>5, ScreenKept DEF TxLands, Keep

-----------------------------------------------------------------------------
(* The theorems.                                                           *)

THEOREM Invariance == Spec => []IInv
<1>1. Init => IInv
  BY InitInv
<1>2. IInv /\ [Next]_vars => IInv'
  <2> SUFFICES ASSUME IInv, [Next]_vars PROVE IInv'
    OBVIOUS
  <2>1. CASE Render
    BY <2>1, RenderStep
  <2>2. CASE Reset
    BY <2>2, ResetStep
  <2>3. CASE \E c \in Contexts \cup {NoWallet} : SwitchContext(c)
    BY <2>3, SwitchStep
  <2>4. CASE \E e \in Executions : Execute(e) \/ LegAnswers(e)
    BY <2>4, ExecuteStep, LegAnswersStep
  <2>5. ASSUME NEW s \in Signings,
               \/ ConfirmPlan(s) \/ WalletAnswers(s) \/ ReceiptOrTimeout(s)
               \/ \E i \in Legs : TxLands(s, i)
        PROVE  IInv'
    BY <2>5, ConfirmPlanStep, WalletAnswersStep, ReceiptStep, TxLandsStep
  <2>6. CASE UNCHANGED vars
    <3>1. TypeOK' /\ SigningsKept /\ EndedStays
      BY <2>6, Unmoved DEF vars, wallet, react, refs, IInv, TypeOK, EndedStays
    <3> QED BY <2>6, <3>1, ScreenKept DEF vars, Keep
  <2> QED BY <2>1, <2>2, <2>3, <2>4, <2>5, <2>6 DEF Next
<1> QED BY <1>1, <1>2, PTL DEF Spec

\* The variables keep their types: in particular a confirmed plan has a leg to ask for,
\* so the loop of confirmPlan never starts on an empty plan.
THEOREM TypeCorrect == Spec => []TypeOK
<1>1. IInv => TypeOK
  BY DEF IInv
<1> QED BY <1>1, Invariance, PTL

\* No leg of a plan leaves the wallet twice: one invocation of confirmPlan signs a plan,
\* since the refs are read and written before anything is awaited.
THEOREM LegsAreSentOnce == Spec => []LegsLeaveOnce
<1>1. IInv => LegsLeaveOnce
  BY DEF IInv, SignedOnce, LegsLeaveOnce, Left
<1> QED BY <1>1, Invariance, PTL

\* A plan is confirmed in the context it was built for: the stamp beside a plan on the
\* screen is the plan's own, whichever invocation of execute froze it last.
THEOREM ConfirmedWhereBuilt == Spec => []PlansAreConfirmedWhereBuilt
<1>1. IInv => PlansAreConfirmedWhereBuilt
  BY DEF IInv
<1> QED BY <1>1, Invariance, PTL

=============================================================================
