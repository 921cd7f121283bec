--------------------------- MODULE KeeperRpcProofs ---------------------------
(***************************************************************************)
(* The watcher's invariants hold for every number of polls, blocks and     *)
(* methods: its state keeps its types, no admin event is skipped, and an   *)
(* outage of it is heard.                                                  *)
(***************************************************************************)
EXTENDS KeeperRpc, TLAPS

Events(from, to) == {b \in EventBlocks : from < b /\ b <= to}

\* What each poll stands on: the events below its range were handed over, and a
\* poll that has sent its alerts has handed over those of its range.
PollsStandOnAlerts ==
    \A p \in Polls :
        /\ poll[p].pc \in {"logs", "alert", "done"} =>
              Events(firstBlock, poll[p].from) \subseteq alerted
        /\ poll[p].pc = "done" => Events(poll[p].from, poll[p].to) \subseteq alerted

WatcherInv == TypeOK /\ NoEventSkipped /\ PollsStandOnAlerts

LEMMA PruneType ==
    ASSUME AuthTypeOK
    PROVE  PruneStale \in [Methods -> 0 .. Threshold]
BY RpcAuthAssumption DEF AuthTypeOK, PruneStale

\* The monitor keeps its types whatever is reported to it.
LEMMA ErrorTypes ==
    ASSUME AuthTypeOK, NEW m \in Methods, OnRpcError(m)
    PROVE  AuthTypeOK'
BY PruneType, RpcAuthAssumption DEF AuthTypeOK, OnRpcError

LEMMA SuccessTypes ==
    ASSUME AuthTypeOK, NEW origin, OnRpcSuccess(origin)
    PROVE  AuthTypeOK'
BY PruneType, RpcAuthAssumption DEF AuthTypeOK, OnRpcSuccess

LEMMA AgeTypes ==
    ASSUME AuthTypeOK, NEW m \in Methods, Age(m)
    PROVE  AuthTypeOK'
BY DEF AuthTypeOK, Age

LEMMA ReportTypes ==
    ASSUME AuthTypeOK, NEW m \in Methods, Report(m)
    PROVE  AuthTypeOK'
BY ErrorTypes, SuccessTypes DEF Report, authVars, AuthTypeOK

LEMMA InitHolds == Init => WatcherInv
<1> SUFFICES ASSUME Init PROVE WatcherInv
    OBVIOUS
<1>1. AuthTypeOK
  <2>1. streaks \in [Methods -> 0 .. Threshold]
      BY RpcAuthAssumption DEF Init, AuthInit, NoStreaks
  <2>2. stale = {} /\ paused \in BOOLEAN
      BY DEF Init, AuthInit
  <2>3. QED
      BY <2>1, <2>2 DEF AuthTypeOK
<1>2. poll \in [Polls -> PollStates]
    BY DEF Init, PollStates, Off
<1>3. /\ answers \in [Methods -> Answers]
      /\ \A p \in Polls : poll[p] = Off /\ poll[p].pc = "off"
    BY DEF Init, Answers, Off
<1>4. TypeOK
  <2>1. /\ changes \in 0 .. MaxChanges /\ boots \in 0 .. MaxBoots
        /\ failures \in 0 .. MaxFailures - 1 /\ silent \in 0 .. MaxFailures
        /\ head \in Blocks
      BY KeeperRpcAssumption DEF Init, Blocks
  <2>2. alive \in BOOLEAN /\ alive /\ firstBlock = None /\ lastBlock = None
      BY DEF Init
  <2>3. alerted \subseteq EventBlocks
      BY DEF Init
  <2>4. QED
      BY <1>1, <1>2, <1>3, <2>1, <2>2, <2>3 DEF TypeOK
<1>5. QED
    BY <1>4 DEF Init, WatcherInv, NoEventSkipped, PollsStandOnAlerts, Off

\* A step that leaves the watcher alone keeps what is said of it.
LEMMA OthersStep ==
    ASSUME WatcherInv, AuthTypeOK', UNCHANGED watcher,
           head' \in Blocks, head <= head',
           answers' \in [Methods -> Answers], changes' \in 0 .. MaxChanges,
           alive' \in BOOLEAN, boots' \in 0 .. MaxBoots,
           ~alive' => boots' < MaxBoots /\ \A p \in Polls : poll[p] = Off
    PROVE  WatcherInv'
<1>0. /\ firstBlock' = firstBlock /\ lastBlock' = lastBlock /\ poll' = poll
      /\ alerted' = alerted /\ failures' = failures /\ silent' = silent
    BY DEF watcher
<1>a. lastBlock' # None => lastBlock' \in firstBlock' .. head'
    BY <1>0, KeeperRpcAssumption DEF WatcherInv, TypeOK, Blocks
<1>b. ASSUME NEW p \in Polls, poll'[p].pc \in {"logs", "alert", "done"}
      PROVE  /\ firstBlock' # None
             /\ firstBlock' <= poll'[p].from /\ poll'[p].from < poll'[p].to
             /\ poll'[p].to <= head'
  <2>1. poll[p].to \in Nat
      BY <1>b, <1>0 DEF WatcherInv, TypeOK, PollStates, Off, Blocks
  <2>2. QED
      BY <1>b, <1>0, <2>1, KeeperRpcAssumption DEF WatcherInv, TypeOK, Blocks
<1>c. ASSUME NEW p \in Polls, poll'[p].pc = "check" PROVE poll'[p].to <= head'
  <2>1. poll[p].to \in Nat
      BY <1>c, <1>0 DEF WatcherInv, TypeOK, PollStates, Off, Blocks
  <2>2. QED
      BY <1>c, <1>0, <2>1, KeeperRpcAssumption DEF WatcherInv, TypeOK, Blocks
<1>1. TypeOK'
    BY <1>0, <1>a, <1>b, <1>c DEF WatcherInv, TypeOK
<1>2. NoEventSkipped'
    BY DEF WatcherInv, NoEventSkipped, watcher
<1>3. PollsStandOnAlerts'
    BY DEF WatcherInv, PollsStandOnAlerts, watcher, Events
<1>4. QED
    BY <1>1, <1>2, <1>3 DEF WatcherInv

\* A poll that stops, or has not read lastBlock yet, stands on nothing.
LEMMA PollStepKeeps ==
    ASSUME WatcherInv, AuthTypeOK', UNCHANGED world, alive,
           NEW p \in Polls, NEW step \in PollStates, At(p, step),
           step.pc \in {"off", "number"} \/ (step.pc = "check" /\ step.to <= head),
           UNCHANGED <<firstBlock, lastBlock, alerted>>,
           failures' \in 0 .. MaxFailures - 1, silent' \in 0 .. MaxFailures
    PROVE  WatcherInv'
<1>1. /\ poll' \in [Polls -> PollStates]
      /\ \A q \in Polls : poll'[q] = IF q = p THEN step ELSE poll[q]
    BY DEF WatcherInv, TypeOK, At
<1>2. TypeOK'
    BY <1>1 DEF WatcherInv, TypeOK, world
<1>3. NoEventSkipped'
    BY DEF WatcherInv, NoEventSkipped
<1>4. PollsStandOnAlerts'
    BY <1>1 DEF WatcherInv, PollsStandOnAlerts, Events
<1>5. QED
    BY <1>2, <1>3, <1>4 DEF WatcherInv

LEMMA CycleStep ==
    ASSUME WatcherInv, CycleBegins \/ CycleEnds
    PROVE  WatcherInv'
<1>1. AuthTypeOK'
    BY ReportTypes, SuccessTypes, KeeperRpcAssumption
       DEF CycleBegins, CycleEnds, WatcherInv, TypeOK
<1>2. UNCHANGED <<world, watcher>>
    BY DEF CycleBegins, CycleEnds
<1>3. QED
    BY <1>1, <1>2, OthersStep DEF world, WatcherInv, TypeOK, Blocks

LEMMA WorldStep ==
    ASSUME WatcherInv,
           \/ BlockIsMined \/ Boot
           \/ \E m \in Methods, a \in Answers : ProviderChanges(m, a)
           \/ \E m \in Methods : Age(m) /\ UNCHANGED <<world, watcher>>
    PROVE  WatcherInv'
<1>1. CASE BlockIsMined
    BY <1>1, OthersStep, KeeperRpcAssumption
       DEF BlockIsMined, WatcherInv, TypeOK, AuthTypeOK, authVars, Blocks
<1>2. CASE Boot
  <2>1. AuthTypeOK' /\ UNCHANGED <<head, answers, changes>> /\ UNCHANGED watcher
      BY <1>2 DEF Boot, WatcherInv, TypeOK, AuthTypeOK, authVars
  <2>2. alive' \in BOOLEAN /\ \A p \in Polls : poll[p] = Off
      BY <1>2 DEF Boot, WatcherInv, TypeOK
  <2>3. boots' \in 0 .. MaxBoots /\ (~alive' => boots' < MaxBoots)
      BY <1>2, KeeperRpcAssumption DEF Boot, WatcherInv, TypeOK
  <2>4. QED
      BY <2>1, <2>2, <2>3, OthersStep DEF WatcherInv, TypeOK, Blocks
<1>3. CASE \E m \in Methods, a \in Answers : ProviderChanges(m, a)
  <2>1. PICK m \in Methods, a \in Answers : ProviderChanges(m, a)
      BY <1>3
  <2>2. AuthTypeOK' /\ UNCHANGED <<alive, boots, head>> /\ UNCHANGED watcher
      BY <2>1 DEF ProviderChanges, WatcherInv, TypeOK, AuthTypeOK, authVars
  <2>3. answers' \in [Methods -> Answers] /\ changes' \in 0 .. MaxChanges
      BY <2>1, KeeperRpcAssumption DEF ProviderChanges, WatcherInv, TypeOK
  <2>4. QED
      BY <2>2, <2>3, OthersStep DEF WatcherInv, TypeOK, Blocks
<1>4. CASE \E m \in Methods : Age(m) /\ UNCHANGED <<world, watcher>>
  <2>1. AuthTypeOK'
      BY <1>4, AgeTypes DEF WatcherInv, TypeOK
  <2>2. QED
      BY <1>4, <2>1, OthersStep DEF world, WatcherInv, TypeOK, Blocks
<1>5. QED
    BY <1>1, <1>2, <1>3, <1>4

LEMMA CrashStep == ASSUME WatcherInv, Crash PROVE WatcherInv'
<1>1. AuthTypeOK'
  <2>1. streaks' \in [Methods -> 0 .. Threshold]
      BY RpcAuthAssumption DEF Crash, NoStreaks
  <2>2. stale' = {} /\ paused' \in BOOLEAN
      BY DEF Crash
  <2>3. QED
      BY <2>1, <2>2 DEF AuthTypeOK
<1>2. poll' \in [Polls -> PollStates] /\ \A p \in Polls : poll'[p] = Off
    BY DEF Crash, WatcherStarts, PollStates
<1>3. /\ firstBlock' = None /\ lastBlock' = None /\ alerted' = {}
      /\ failures' = 0 /\ silent' = 0 /\ UNCHANGED <<answers, changes, boots, head>>
    BY DEF Crash, WatcherStarts
<1>4. alive' \in BOOLEAN /\ boots' < MaxBoots
    BY DEF Crash
<1>a. \A p \in Polls : poll'[p].pc = "off"
    BY <1>2 DEF Off
<1>b. 0 \in 0 .. MaxFailures - 1 /\ 0 \in 0 .. MaxFailures
    BY KeeperRpcAssumption
<1>5. TypeOK'
    BY <1>1, <1>2, <1>3, <1>4, <1>a, <1>b DEF WatcherInv, TypeOK
<1>6. QED
    BY <1>2, <1>3, <1>5 DEF WatcherInv, NoEventSkipped, PollsStandOnAlerts, Off

\* A failed poll.
LEMMA FailStep ==
    ASSUME WatcherInv, alive, NEW p \in Polls, NEW m \in Methods, PollFails(p, m)
    PROVE  WatcherInv'
<1>1. AuthTypeOK'
    BY ReportTypes DEF PollFails, WatcherInv, TypeOK
<1>2. failures' \in 0 .. MaxFailures - 1 /\ silent' \in 0 .. MaxFailures
    BY KeeperRpcAssumption DEF PollFails, WatcherInv, TypeOK
<1>3. Off \in PollStates /\ Off.pc = "off"
    BY DEF Off, PollStates
<1>4. QED
    BY <1>1, <1>2, <1>3, PollStepKeeps DEF PollFails

\* Only a running process polls.
LEMMA Alive ==
    ASSUME WatcherInv, NEW p \in Polls, poll[p].pc # "off"
    PROVE  alive
BY DEF WatcherInv, TypeOK, Off

LEMMA NumberStep ==
    ASSUME WatcherInv, NEW p \in Polls, PollStarts(p) \/ NumberAnswers(p) \/ NoNewBlocks(p)
    PROVE  WatcherInv'
<1>1. CASE PollStarts(p)
  <2>1. AuthTypeOK' /\ [pc |-> "number"] \in PollStates
      BY <1>1 DEF PollStarts, WatcherInv, TypeOK, AuthTypeOK, authVars, PollStates
  <2>2. QED
      BY <1>1, <2>1, PollStepKeeps DEF PollStarts, WatcherInv, TypeOK
<1>2. CASE NumberAnswers(p)
  <2>1. alive
      BY <1>2, Alive DEF NumberAnswers
  <2>2. CASE PollFails(p, "getBlockNumber")
      BY <2>1, <2>2, FailStep, KeeperRpcAssumption
  <2>3. CASE ~PollFails(p, "getBlockNumber")
    <3>1. AuthTypeOK'
        BY <1>2, <2>3, ReportTypes, KeeperRpcAssumption DEF NumberAnswers, WatcherInv, TypeOK
    <3>2. [pc |-> "check", to |-> head] \in PollStates /\ head <= head
        BY KeeperRpcAssumption DEF WatcherInv, TypeOK, PollStates, Blocks
    <3>3. QED
        BY <1>2, <2>1, <2>3, <3>1, <3>2, PollStepKeeps DEF NumberAnswers, WatcherInv, TypeOK
  <2>4. QED
      BY <2>2, <2>3
<1>3. CASE NoNewBlocks(p)
  <2>1. alive
      BY <1>3, Alive DEF NoNewBlocks
  <2>2. AuthTypeOK' /\ Off \in PollStates /\ Off.pc = "off" /\ silent' \in 0 .. MaxFailures
      BY <1>3, KeeperRpcAssumption
         DEF NoNewBlocks, WatcherInv, TypeOK, AuthTypeOK, authVars, PollStates, Off
  <2>3. QED
      BY <1>3, <2>1, <2>2, PollStepKeeps DEF NoNewBlocks, WatcherInv, TypeOK
<1>4. QED
    BY <1>1, <1>2, <1>3

\* What a poll's record says of its range.
LEMMA PollRange ==
    ASSUME WatcherInv, NEW p \in Polls
    PROVE  /\ poll[p].pc \in {"logs", "alert", "done"} =>
                /\ poll[p] = [pc |-> poll[p].pc, from |-> poll[p].from, to |-> poll[p].to]
                /\ poll[p].from \in Blocks /\ poll[p].to \in Blocks
                /\ firstBlock # None /\ firstBlock \in Blocks
                /\ firstBlock <= poll[p].from /\ poll[p].from < poll[p].to
                /\ poll[p].to <= head
           /\ poll[p].pc = "check" => poll[p].to \in Blocks /\ poll[p].to <= head
BY DEF WatcherInv, TypeOK, PollStates, Off

LEMMA FirstPollStep ==
    ASSUME WatcherInv, NEW p \in Polls, FirstPoll(p)
    PROVE  WatcherInv'
<1>1. poll[p].to \in Blocks /\ firstBlock = None
    BY PollRange DEF FirstPoll, WatcherInv, TypeOK
<1>2. /\ poll' \in [Polls -> PollStates]
      /\ \A q \in Polls : poll'[q] = IF q = p THEN Off ELSE poll[q]
      /\ \A q \in Polls : poll'[q].pc \notin {"logs", "alert", "done"}
    BY <1>1, PollRange DEF FirstPoll, At, WatcherInv, TypeOK, PollStates, Off
<1>3. alive
    BY Alive DEF FirstPoll
<1>4. poll[p].to <= head
    BY PollRange DEF FirstPoll
<1>5. /\ AuthTypeOK' /\ UNCHANGED <<answers, changes, alive, boots, head>>
      /\ firstBlock' = poll[p].to /\ lastBlock' = poll[p].to /\ alerted' = alerted
      /\ failures' \in 0 .. MaxFailures - 1 /\ silent' \in 0 .. MaxFailures
    BY KeeperRpcAssumption DEF FirstPoll, WatcherInv, TypeOK, AuthTypeOK, authVars, world
<1>6. lastBlock' # None /\ lastBlock' \in firstBlock' .. head'
    BY <1>1, <1>4, <1>5, KeeperRpcAssumption DEF WatcherInv, TypeOK, Blocks
<1>7. \A q \in Polls : poll'[q].pc = "check" => poll'[q].to <= head'
    BY <1>2, <1>5 DEF WatcherInv, TypeOK, Off
<1>a. firstBlock' \in Blocks /\ firstBlock' # None /\ alive'
    BY <1>1, <1>3, <1>5, KeeperRpcAssumption DEF Blocks
<1>b. /\ \A q \in Polls : poll'[q].pc \in {"logs", "alert", "done"} => FALSE
      /\ alerted' \subseteq EventBlocks /\ answers' \in [Methods -> Answers]
      /\ changes' \in 0 .. MaxChanges /\ boots' \in 0 .. MaxBoots /\ head' \in Blocks
    BY <1>2, <1>5 DEF WatcherInv, TypeOK
<1>8. TypeOK'
    BY <1>2, <1>5, <1>6, <1>7, <1>a, <1>b DEF TypeOK
<1>9. \A b \in EventBlocks : ~(poll[p].to < b /\ b <= poll[p].to)
    BY <1>1, KeeperRpcAssumption DEF Blocks
<1>10. QED
    BY <1>2, <1>5, <1>8, <1>9 DEF WatcherInv, NoEventSkipped, PollsStandOnAlerts

LEMMA NewBlocksStep ==
    ASSUME WatcherInv, NEW p \in Polls, NewBlocks(p)
    PROVE  WatcherInv'
<1> DEFINE step == [pc |-> "logs", from |-> lastBlock, to |-> poll[p].to]
<1>1. /\ poll[p].to \in Blocks /\ poll[p].to <= head
      /\ firstBlock \in Blocks /\ lastBlock \in Blocks /\ firstBlock # None
      /\ firstBlock <= lastBlock /\ lastBlock < poll[p].to
    BY PollRange, KeeperRpcAssumption DEF NewBlocks, WatcherInv, TypeOK, Blocks
<1>2. /\ poll' \in [Polls -> PollStates]
      /\ \A q \in Polls : poll'[q] = IF q = p THEN step ELSE poll[q]
    BY <1>1 DEF NewBlocks, At, WatcherInv, TypeOK, PollStates
<1>3. /\ AuthTypeOK' /\ UNCHANGED <<answers, changes, alive, boots, head>>
      /\ UNCHANGED <<firstBlock, lastBlock, alerted, failures, silent>>
    BY DEF NewBlocks, WatcherInv, TypeOK, AuthTypeOK, authVars, world
<1>4. alive
    BY Alive DEF NewBlocks
<1>a. \A q \in Polls : poll'[q].pc = "check" => poll'[q].to <= head'
    BY <1>2, <1>3 DEF WatcherInv, TypeOK
<1>b. ASSUME NEW q \in Polls, poll'[q].pc \in {"logs", "alert", "done"}
      PROVE  /\ firstBlock' # None
             /\ firstBlock' <= poll'[q].from /\ poll'[q].from < poll'[q].to
             /\ poll'[q].to <= head'
    BY <1>1, <1>2, <1>3, <1>b DEF WatcherInv, TypeOK
<1>5. TypeOK'
    BY <1>2, <1>3, <1>4, <1>a, <1>b DEF WatcherInv, TypeOK
<1>6. NoEventSkipped'
    BY <1>3 DEF WatcherInv, NoEventSkipped
<1>7. PollsStandOnAlerts'
  <2>1. Events(firstBlock, lastBlock) \subseteq alerted
      BY DEF NewBlocks, WatcherInv, NoEventSkipped, Events
  <2>2. QED
      BY <1>2, <1>3, <2>1 DEF WatcherInv, PollsStandOnAlerts, Events
<1>8. QED
    BY <1>5, <1>6, <1>7 DEF WatcherInv

LEMMA LogsStep ==
    ASSUME WatcherInv, NEW p \in Polls, LogsAnswer(p)
    PROVE  WatcherInv'
<1>1. alive
    BY Alive DEF LogsAnswer
<1>2. CASE PollFails(p, "getLogs")
    BY <1>1, <1>2, FailStep, KeeperRpcAssumption
<1>3. CASE ~PollFails(p, "getLogs")
  <2>1. /\ Report("getLogs") /\ At(p, [poll[p] EXCEPT !.pc = "alert"])
        /\ UNCHANGED <<answers, changes, alive, boots, head>>
        /\ UNCHANGED <<firstBlock, lastBlock, alerted, failures, silent>>
      BY <1>3 DEF LogsAnswer, world
  <2>2. AuthTypeOK'
      BY <2>1, ReportTypes, KeeperRpcAssumption DEF WatcherInv, TypeOK
  <2>3. /\ poll' \in [Polls -> PollStates]
        /\ \A q \in Polls : q # p => poll'[q] = poll[q]
        /\ poll'[p] = [pc |-> "alert", from |-> poll[p].from, to |-> poll[p].to]
      BY <2>1, PollRange DEF LogsAnswer, At, WatcherInv, TypeOK, PollStates
  <2>4. TypeOK'
      BY <1>1, <2>1, <2>2, <2>3, PollRange DEF LogsAnswer, WatcherInv, TypeOK
  <2>5. NoEventSkipped'
      BY <2>1 DEF WatcherInv, NoEventSkipped
  <2>6. PollsStandOnAlerts'
      BY <2>1, <2>3 DEF LogsAnswer, WatcherInv, PollsStandOnAlerts, Events
  <2>7. QED
      BY <2>4, <2>5, <2>6 DEF WatcherInv
<1>4. QED
    BY <1>2, <1>3

LEMMA AlertStep ==
    ASSUME WatcherInv, NEW p \in Polls, SendAlerts(p)
    PROVE  WatcherInv'
<1>1. alive
    BY Alive DEF SendAlerts
<1>2. /\ UNCHANGED <<answers, changes, alive, boots, head>> /\ AuthTypeOK'
      /\ UNCHANGED <<firstBlock, lastBlock, failures, silent>>
      /\ alerted' = alerted \cup Events(poll[p].from, poll[p].to)
    BY DEF SendAlerts, WatcherInv, TypeOK, AuthTypeOK, authVars, world, Events
<1>3. /\ poll' \in [Polls -> PollStates]
      /\ \A q \in Polls : q # p => poll'[q] = poll[q]
      /\ poll'[p] = [pc |-> "done", from |-> poll[p].from, to |-> poll[p].to]
    BY PollRange DEF SendAlerts, At, WatcherInv, TypeOK, PollStates
<1>4. alerted' \subseteq EventBlocks
    BY <1>2 DEF WatcherInv, TypeOK, Events
<1>5. TypeOK'
    BY <1>1, <1>2, <1>3, <1>4, PollRange DEF SendAlerts, WatcherInv, TypeOK
<1>6. NoEventSkipped'
    BY <1>2 DEF WatcherInv, NoEventSkipped
<1>7. PollsStandOnAlerts'
    BY <1>2, <1>3 DEF SendAlerts, WatcherInv, PollsStandOnAlerts, Events
<1>8. QED
    BY <1>5, <1>6, <1>7 DEF WatcherInv

\* The range below a poll and its own range together reach its last block.
LEMMA SuccessStep ==
    ASSUME WatcherInv, NEW p \in Polls, PollSucceeds(p)
    PROVE  WatcherInv'
<1>1. alive
    BY Alive DEF PollSucceeds
<1>2. /\ UNCHANGED <<answers, changes, alive, boots, head>> /\ AuthTypeOK'
      /\ UNCHANGED <<firstBlock, alerted>> /\ lastBlock' = poll[p].to
      /\ failures' \in 0 .. MaxFailures - 1 /\ silent' \in 0 .. MaxFailures
    BY SuccessTypes, KeeperRpcAssumption DEF PollSucceeds, WatcherInv, TypeOK, world
<1>3. /\ poll' \in [Polls -> PollStates]
      /\ \A q \in Polls : poll'[q] = IF q = p THEN Off ELSE poll[q]
      /\ Off.pc = "off"
    BY DEF PollSucceeds, At, WatcherInv, TypeOK, PollStates, Off
<1>4. /\ firstBlock \in Blocks /\ firstBlock # None /\ poll[p].to # None
      /\ poll[p].from \in Blocks /\ poll[p].to \in firstBlock .. head
    BY PollRange, KeeperRpcAssumption DEF PollSucceeds, WatcherInv, TypeOK, Blocks
<1>5. TypeOK'
    BY <1>1, <1>2, <1>3, <1>4 DEF WatcherInv, TypeOK
<1>6. NoEventSkipped'
  <2>1. /\ Events(firstBlock, poll[p].from) \subseteq alerted
        /\ Events(poll[p].from, poll[p].to) \subseteq alerted
      BY DEF PollSucceeds, WatcherInv, PollsStandOnAlerts
  <2>2. ASSUME NEW b \in EventBlocks, firstBlock < b, b <= poll[p].to
        PROVE  b \in alerted
      BY <1>4, <2>1, <2>2, KeeperRpcAssumption DEF Events, Blocks
  <2>3. QED
      BY <1>2, <2>2 DEF NoEventSkipped
<1>7. PollsStandOnAlerts'
    BY <1>2, <1>3 DEF WatcherInv, PollsStandOnAlerts, Events
<1>8. QED
    BY <1>5, <1>6, <1>7 DEF WatcherInv

LEMMA NextStep == WatcherInv /\ [Next]_vars => WatcherInv'
<1> SUFFICES ASSUME WatcherInv, [Next]_vars PROVE WatcherInv'
    OBVIOUS
<1>1. CASE CycleBegins \/ CycleEnds
    BY <1>1, CycleStep
<1>2. ASSUME NEW p \in Polls, PollStarts(p) \/ PollStep(p) PROVE WatcherInv'
    BY <1>2, NumberStep, FirstPollStep, NewBlocksStep, LogsStep, AlertStep, SuccessStep
       DEF PollStep
<1>3. CASE Crash
    BY <1>3, CrashStep
<1>4. CASE \/ BlockIsMined \/ Boot
           \/ \E m \in Methods, a \in Answers : ProviderChanges(m, a)
           \/ \E m \in Methods : Age(m) /\ UNCHANGED <<world, watcher>>
    BY <1>4, WorldStep
<1>5. CASE UNCHANGED vars
  <2>1. AuthTypeOK' /\ UNCHANGED <<answers, changes, alive, boots, head>> /\ UNCHANGED watcher
      BY <1>5 DEF vars, world, authVars, WatcherInv, TypeOK, AuthTypeOK
  <2>2. head <= head
      BY KeeperRpcAssumption DEF WatcherInv, TypeOK, Blocks
  <2>3. QED
      BY <2>1, <2>2, OthersStep DEF WatcherInv, TypeOK
<1>6. QED
    BY <1>1, <1>2, <1>3, <1>4, <1>5 DEF Next

\* The keeper's watcher and its monitor keep their types, for every set of methods
\* and polls and every bound.
THEOREM WatcherTypeCorrect == Spec => []TypeOK
<1>1. WatcherInv => TypeOK
    BY DEF WatcherInv
<1>2. QED
    BY <1>1, InitHolds, NextStep, PTL DEF Spec

\* However polls of event-watcher.js overlap, fail and set lastBlock back, no admin
\* event between the block the watcher began at and lastBlock is left out.
THEOREM NoEventIsSkipped == Spec => []NoEventSkipped
<1>1. WatcherInv => NoEventSkipped
    BY DEF WatcherInv
<1>2. QED
    BY <1>1, InitHolds, NextStep, PTL DEF Spec

-----------------------------------------------------------------------------
(* The watcher's outages.                                                   *)

\* Every poll that failed unheard counts as a failure in a row: an alert that is due
\* after MaxFailures of them is muted by a pause only, and a pause ends the silence.
SilenceIsCounted == silent <= failures

LEMMA SilenceStep ==
    ASSUME TypeOK, SilenceIsCounted, [Next]_vars
    PROVE  SilenceIsCounted'
<1>1. failures \in 0 .. MaxFailures - 1 /\ silent \in 0 .. MaxFailures
    BY DEF TypeOK
<1>2. ASSUME NEW p \in Polls, NEW m \in Methods, PollFails(p, m) PROVE SilenceIsCounted'
  <2>1. failures + 1 >= MaxFailures => failures' = 0 /\ silent' = 0
      BY <1>1, <1>2, KeeperRpcAssumption DEF PollFails, Muted
  <2>2. failures + 1 < MaxFailures => failures' = failures + 1 /\ silent' \in {0, silent + 1}
      BY <1>1, <1>2, KeeperRpcAssumption DEF PollFails, Muted, SilenceIsCounted
  <2>3. QED
      BY <1>1, <2>1, <2>2, KeeperRpcAssumption DEF SilenceIsCounted
<1>3. ASSUME NEW p \in Polls, PollStep(p) PROVE SilenceIsCounted'
  <2>1. CASE \E m \in Methods : PollFails(p, m)
      BY <1>2, <2>1
  <2>2. CASE ~\E m \in Methods : PollFails(p, m)
    <3>1. \/ UNCHANGED <<failures, silent>>
          \/ silent' = 0 /\ failures' \in {0, failures}
        BY <1>3, <2>2, KeeperRpcAssumption
           DEF PollStep, NumberAnswers, FirstPoll, NoNewBlocks, NewBlocks, LogsAnswer,
               SendAlerts, PollSucceeds
    <3>2. QED
        BY <1>1, <3>1 DEF SilenceIsCounted
  <2>3. QED
      BY <2>1, <2>2
<1>4. ASSUME ~\E p \in Polls : PollStep(p) PROVE SilenceIsCounted'
  <2>1. \/ UNCHANGED <<failures, silent>>
        \/ silent' = 0 /\ failures' = 0
      BY <1>4 DEF Next, CycleBegins, CycleEnds, PollStarts, Crash, WatcherStarts, Boot,
                  BlockIsMined, ProviderChanges, vars, watcher
  <2>2. QED
      BY <1>1, <2>1 DEF SilenceIsCounted
<1>5. QED
    BY <1>3, <1>4

\* An outage of event-watcher.js is never silent, for every limit on the failures and
\* every number of polls: one of the last MaxFailures failed polls was alerted.
THEOREM OutagesAreHeard == Spec => []NoSilentOutage
<1>1. Init => SilenceIsCounted
    BY DEF Init, SilenceIsCounted
<1>2. TypeOK /\ SilenceIsCounted /\ [Next]_vars => SilenceIsCounted'
    BY SilenceStep
<1>3. TypeOK /\ SilenceIsCounted => NoSilentOutage
    BY KeeperRpcAssumption DEF TypeOK, SilenceIsCounted, NoSilentOutage
<1>4. QED
    BY <1>1, <1>2, <1>3, WatcherTypeCorrect, PTL DEF Spec
=============================================================================
