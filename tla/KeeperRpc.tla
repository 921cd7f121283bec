------------------------------ MODULE KeeperRpc ------------------------------
(***************************************************************************)
(* The keeper process and its RPC provider: the cycle's balance read       *)
(* (executor.js) and the watcher of the contracts' admin events            *)
(* (event-watcher.js), which report every outcome to one RpcAuth monitor.  *)
(*                                                                         *)
(* The watcher's interval starts a poll whether or not the previous one    *)
(* has ended; a poll waits for two RPC calls and for every alert it sends. *)
(* A restart forgets the watcher's last block and the monitor's streaks.   *)
(* When intervals fire, idle or active, is not measured.  What an order's  *)
(* own calls come to is caught in the cycle, which throws for the database *)
(* only: a streak of the origin "cycle" is left out.                       *)
(***************************************************************************)
EXTENDS RpcAuth

CONSTANTS
    Polls,          \* polls that may run at once
    EventBlocks,    \* blocks with an admin event
    MaxFailures,    \* MAX_CONSECUTIVE_FAILURES
    MaxBlock,       \* bound: blocks
    MaxChanges,     \* bound: changes of the provider's behaviour
    MaxBoots,       \* bound: restarts
    None            \* lastBlock = null

ASSUME KeeperRpcAssumption ==
    /\ {"getBalance", "getBlockNumber", "getLogs"} \subseteq Methods
    /\ MaxBlock \in Nat /\ None \notin Nat
    /\ EventBlocks \subseteq 1 .. MaxBlock
    /\ MaxFailures \in Nat \ {0}
    /\ MaxChanges \in Nat /\ MaxBoots \in Nat

VARIABLES
    answers,        \* what the provider does with each method
    changes,
    alive, boots,   \* the process, and how often it was started
    head,           \* the newest block
    firstBlock,     \* where the watcher began
    lastBlock,
    poll,           \* what each poll executes
    alerted,        \* blocks whose events were handed to the alert channel
    failures,       \* consecutiveFailures
    silent          \* polls that failed since the last success, alert or pause

watcher == <<firstBlock, lastBlock, poll, alerted, failures, silent>>

world == <<answers, changes, alive, boots, head>>

vars == <<authVars, world, watcher>>

Answers == {"ok", "refused", "down"}

Off == [pc |-> "off"]

Blocks == 0 .. MaxBlock

PollStates ==
    {Off, [pc |-> "number"]}
      \cup [pc : {"check"}, to : Blocks]
      \cup [pc : {"logs", "alert", "done"}, from : Blocks, to : Blocks]

TypeOK ==
    /\ AuthTypeOK
    /\ answers \in [Methods -> Answers]
    /\ changes \in 0 .. MaxChanges
    /\ alive \in BOOLEAN
    /\ boots \in 0 .. MaxBoots
    /\ head \in Blocks
    /\ firstBlock \in Blocks \cup {None}
    /\ lastBlock = None <=> firstBlock = None
    /\ lastBlock # None => lastBlock \in firstBlock .. head
    /\ poll \in [Polls -> PollStates]
    /\ \A p \in Polls : poll[p].pc = "check" => poll[p].to <= head
    /\ \A p \in Polls : poll[p].pc \in {"logs", "alert", "done"} =>
          /\ firstBlock # None
          /\ firstBlock <= poll[p].from /\ poll[p].from < poll[p].to /\ poll[p].to <= head
    /\ alerted \subseteq EventBlocks
    /\ failures \in 0 .. MaxFailures - 1
    /\ silent \in 0 .. MaxFailures
    /\ ~alive => boots < MaxBoots /\ \A p \in Polls : poll[p] = Off

WatcherStarts ==
    /\ firstBlock' = None
    /\ lastBlock' = None
    /\ poll' = [p \in Polls |-> Off]
    /\ alerted' = {}
    /\ failures' = 0
    /\ silent' = 0

Init ==
    /\ AuthInit
    /\ answers = [m \in Methods |-> "ok"]
    /\ changes = 0
    /\ alive = TRUE
    /\ boots = 0
    /\ head = 0
    /\ firstBlock = None
    /\ lastBlock = None
    /\ poll = [p \in Polls |-> Off]
    /\ alerted = {}
    /\ failures = 0
    /\ silent = 0

-----------------------------------------------------------------------------
(* A call of an RPC method answers, is rejected, or fails in another way.  *)

Report(m) ==
    \/ answers[m] = "ok" /\ OnRpcSuccess(m)
    \/ answers[m] = "refused" /\ OnRpcError(m)
    \/ answers[m] = "down" /\ UNCHANGED authVars

\* A cycle begins with the balance read.
CycleBegins ==
    /\ alive
    /\ Report("getBalance")
    /\ UNCHANGED <<world, watcher>>

\* A cycle that finds no active orders, paused or not, or that tries those it finds ends
\* with a success of its own.  A paused one with orders attempts and reports nothing.
CycleEnds ==
    /\ alive
    /\ OnRpcSuccess("cycle")
    /\ UNCHANGED <<world, watcher>>

-----------------------------------------------------------------------------
(* The watcher. *)

At(p, step) == poll' = [poll EXCEPT ![p] = step]

PollStarts(p) ==
    /\ alive /\ poll[p] = Off
    /\ At(p, [pc |-> "number"])
    /\ UNCHANGED <<authVars, world, firstBlock, lastBlock, alerted, failures, silent>>

\* Slip: a rejection is muted whether or not its alert was sent.
MutedIfRefused(m) == answers[m] = "refused"

\* An error is muted while the monitor is paused, which has alerted it.
Muted(m) == answers[m] = "refused" /\ paused'

\* The catch block of poll: every MaxFailures errors in a row are alerted, unless
\* the last one is muted.
PollFails(p, m) ==
    /\ answers[m] # "ok"
    /\ Report(m)
    /\ At(p, Off)
    /\ LET full      == failures + 1 >= MaxFailures
           announced == paused' \/ (full /\ ~Muted(m))
       IN  /\ failures' = IF full THEN 0 ELSE failures + 1
           /\ silent' = IF announced THEN 0
                        ELSE IF silent < MaxFailures THEN silent + 1 ELSE MaxFailures
    /\ UNCHANGED <<world, firstBlock, lastBlock, alerted>>

NumberAnswers(p) ==
    /\ poll[p].pc = "number"
    /\ \/ /\ answers["getBlockNumber"] = "ok"
          /\ Report("getBlockNumber")
          /\ At(p, [pc |-> "check", to |-> head])
          /\ UNCHANGED <<world, firstBlock, lastBlock, alerted, failures, silent>>
       \/ PollFails(p, "getBlockNumber")

\* The first poll to get here records the block and replays no history.
FirstPoll(p) ==
    /\ poll[p].pc = "check" /\ lastBlock = None
    /\ lastBlock' = poll[p].to
    /\ firstBlock' = poll[p].to
    /\ failures' = 0
    /\ silent' = 0
    /\ At(p, Off)
    /\ UNCHANGED <<authVars, world, alerted>>

NoNewBlocks(p) ==
    /\ poll[p].pc = "check" /\ lastBlock # None
    /\ poll[p].to <= lastBlock
    /\ At(p, Off)
    /\ silent' = 0
    /\ UNCHANGED <<authVars, world, firstBlock, lastBlock, alerted, failures>>

\* Slip: the newest block waits for the one after it.
NewBlocksButTheLast(p) ==
    /\ poll[p].pc = "check" /\ lastBlock # None
    /\ poll[p].to > lastBlock + 1
    /\ At(p, [pc |-> "logs", from |-> lastBlock, to |-> poll[p].to])
    /\ UNCHANGED <<authVars, world, firstBlock, lastBlock, alerted, failures, silent>>

\* Slip: the range counts as read when it is asked for.
NewBlocksTakenAtOnce(p) ==
    /\ poll[p].pc = "check" /\ lastBlock # None
    /\ poll[p].to > lastBlock
    /\ lastBlock' = poll[p].to
    /\ At(p, [pc |-> "logs", from |-> lastBlock, to |-> poll[p].to])
    /\ UNCHANGED <<authVars, world, firstBlock, alerted, failures, silent>>

\* Slip: any other block counts as a new one.
OtherBlocks(p) ==
    /\ poll[p].pc = "check" /\ lastBlock # None
    /\ poll[p].to # lastBlock
    /\ At(p, [pc |-> "logs", from |-> lastBlock, to |-> poll[p].to])
    /\ UNCHANGED <<authVars, world, firstBlock, lastBlock, alerted, failures, silent>>

NewBlocks(p) ==
    /\ poll[p].pc = "check" /\ lastBlock # None
    /\ poll[p].to > lastBlock
    /\ At(p, [pc |-> "logs", from |-> lastBlock, to |-> poll[p].to])
    /\ UNCHANGED <<authVars, world, firstBlock, lastBlock, alerted, failures, silent>>

LogsAnswer(p) ==
    /\ poll[p].pc = "logs"
    /\ \/ /\ answers["getLogs"] = "ok"
          /\ Report("getLogs")
          /\ At(p, [poll[p] EXCEPT !.pc = "alert"])
          /\ UNCHANGED <<world, firstBlock, lastBlock, alerted, failures, silent>>
       \/ PollFails(p, "getLogs")

\* The next event of the range is handed to sendTelegramAlert, which never throws.
SendAlerts(p) ==
    /\ poll[p].pc = "alert"
    /\ alerted' = alerted \cup {b \in EventBlocks : poll[p].from < b /\ b <= poll[p].to}
    /\ At(p, [poll[p] EXCEPT !.pc = "done"])
    /\ UNCHANGED <<authVars, world, firstBlock, lastBlock, failures, silent>>

PollSucceeds(p) ==
    /\ poll[p].pc = "done"
    /\ OnRpcSuccess("poll")
    /\ lastBlock' = poll[p].to
    /\ failures' = 0
    /\ silent' = 0
    /\ At(p, Off)
    /\ UNCHANGED <<world, firstBlock, alerted>>

PollStep(p) ==
    \/ NumberAnswers(p) \/ FirstPoll(p) \/ NoNewBlocks(p) \/ NewBlocks(p)
    \/ LogsAnswer(p) \/ SendAlerts(p) \/ PollSucceeds(p)

-----------------------------------------------------------------------------
(* The process dies; its supervisor starts it again until a boot succeeds. *)

Crash ==
    /\ alive /\ boots < MaxBoots
    /\ alive' = FALSE
    /\ streaks' = NoStreaks
    /\ stale' = {}
    /\ paused' = FALSE
    /\ WatcherStarts
    /\ UNCHANGED <<answers, changes, boots, head>>

\* A boot reads the chain first, and ends the process if it cannot.
Boot ==
    /\ ~alive
    /\ alive' = (answers["getBalance"] = "ok")
    /\ boots' = IF alive' THEN boots + 1 ELSE boots
    /\ UNCHANGED <<authVars, answers, changes, head, watcher>>

-----------------------------------------------------------------------------
(* The chain and the provider go on. *)

BlockIsMined ==
    /\ head < MaxBlock
    /\ head' = head + 1
    /\ UNCHANGED <<authVars, answers, changes, alive, boots, watcher>>

ProviderChanges(m, a) ==
    /\ changes < MaxChanges
    /\ answers[m] # a
    /\ answers' = [answers EXCEPT ![m] = a]
    /\ changes' = changes + 1
    /\ UNCHANGED <<authVars, alive, boots, head, watcher>>

Next ==
    \/ CycleBegins \/ CycleEnds
    \/ \E p \in Polls : PollStarts(p) \/ PollStep(p)
    \/ Crash \/ Boot
    \/ BlockIsMined
    \/ \E m \in Methods, a \in Answers : ProviderChanges(m, a)
    \/ \E m \in Methods : Age(m) /\ UNCHANGED <<world, watcher>>

Spec == Init /\ [][Next]_vars

\* Intervals fire, requests are answered or time out, streaks age with the clock and
\* the supervisor restarts the process.
Fairness ==
    /\ WF_vars(CycleBegins)
    /\ \A p \in Polls : WF_vars(PollStarts(p)) /\ WF_vars(PollStep(p))
    /\ \A m \in Methods : WF_vars(Age(m) /\ UNCHANGED <<world, watcher>>)
    /\ WF_vars(Boot)

FairSpec == Spec /\ Fairness

-----------------------------------------------------------------------------
(* Properties. *)

\* However polls overlap, fail and move lastBlock back, no admin event is skipped:
\* every event between the block the watcher began at and lastBlock was handed to
\* the alert channel, so that the next poll may start after it.
NoEventSkipped ==
    lastBlock # None =>
        {b \in EventBlocks : firstBlock < b /\ b <= lastBlock} \subseteq alerted

\* An outage of the watcher is never silent: outside a pause, which has an alert of
\* its own, the channel has heard of one of the last MaxFailures failed polls.
NoSilentOutage == ~paused => silent < MaxFailures

\* A pause ends: once the provider rejects nothing for good and answers the balance
\* read, the keeper is not paused for ever, whatever else fails from then on.
PauseEnds ==
    <>[](\A m \in Methods : answers[m] # "refused") /\ <>[](answers["getBalance"] = "ok")
        => <>[]~paused

\* Once the provider answers for good, every event that is mined while the watcher
\* runs reaches the alert channel or the process dies.
EventsAreReported ==
    <>[](\A m \in Methods : answers[m] = "ok") =>
        \A b \in EventBlocks :
            (firstBlock # None /\ firstBlock < b /\ b <= head)
                ~> (b \in alerted \/ firstBlock = None)
=============================================================================
