------------------------------ MODULE QuotePath ------------------------------
(***************************************************************************)
(* The quotes of one pair and amount, in one server instance, from the     *)
(* routes to one of the sources:                                           *)
(*   src/src/lib/meta-quote-cache.ts   the cache in the KV store, and the  *)
(*                                     dampener of the instance,           *)
(*   src/src/lib/quote-cache.ts        the cache of the fan-out,           *)
(*   src/src/lib/api.ts                the fan-out and the building of a   *)
(*                                     swap,                               *)
(*   src/src/lib/adapters/circuit-breaker.ts   the source's breaker, and   *)
(*                                     its first state, read from KV.      *)
(*                                                                         *)
(* Requests overlap.  A step is what JavaScript runs between two awaits.   *)
(* What a read or a write of KV comes to is a choice at each: done, failed *)
(* or timed out.  A refusal before any of this (halt, rate limit, bad      *)
(* parameters) changes nothing here and is left out.  A quote is its age.  *)
(* An instance starts, and starts again, in Init; what other instances     *)
(* wrote is what KV holds by then.                                         *)
(***************************************************************************)
EXTENDS SourceBreaker

CONSTANTS
    Requests,
    None,
    LruTtl,             \* TTL_MS of quote-cache.ts
    DampenerTtl,        \* DAMPENER_TTL_MS
    KvTtl,              \* QUOTE_CACHE_TTL_SECONDS
    KvDelay,            \* KV_GATE_TIMEOUT_MS, and how long a write may still land
    MaxChanges          \* bound: changes of the source

ASSUME QuotePathAssumption ==
    /\ None \notin Requests \cup Nat
    /\ LruTtl \in Nat \ {0} /\ DampenerTtl \in Nat \ {0} /\ KvTtl \in Nat \ {0}
    /\ DampenerTtl <= KvTtl
    /\ KvDelay \in Nat
    /\ MaxChanges \in Nat

VARIABLES
    source, changes,    \* how the source answers
    request,            \* what each request does
    stored,             \* the quote in KV
    writes,             \* quotes on their way to KV
    inFlight,           \* the request that fetches for the others
    local,              \* localQuoteDampenerCache
    lru,                \* the cache of fetchMetaQuote
    breaker,
    seed                \* initPromise

outside == <<source, changes>>

caches == <<stored, writes, local, lru>>

vars == <<outside, request, caches, inFlight, breaker, seed>>

Sources == {"up", "noroute", "down", "limited"}

\* "quote" goes through the caches.  "direct" does not, or is for another amount, or has
\* the source build a swap: what it comes to, it need not leave in the cache.
Kinds == {"quote", "direct"}

Idle == [pc |-> "idle"]

RequestStates ==
    [pc : {"idle", "read", "wait"}]
      \cup [pc : {"boot"}, kind : Kinds, asks : BOOLEAN]
      \cup [pc : {"call"}, kind : Kinds, answer : Sources]
      \cup [pc : {"gather"}, kind : Kinds, found : BOOLEAN]
      \cup [pc : {"store"}, wait : 0 .. KvDelay]

TypeOK ==
    /\ source \in Sources /\ changes \in 0 .. MaxChanges
    /\ request \in [Requests -> RequestStates]
    /\ stored \in [age : Nat, left : 1 .. KvTtl] \cup {None}
    /\ writes \subseteq [age : Nat, wait : 0 .. KvDelay]
    /\ inFlight \in Requests \cup {None}
    /\ local \in [age : Nat, left : 1 .. DampenerTtl] \cup {None}
    /\ lru \in 0 .. LruTtl - 1 \cup {None}
    /\ breaker \in Breakers
    /\ seed \in {"none", "reading", "done"}

Init ==
    /\ source \in Sources
    /\ changes = 0
    /\ request = [r \in Requests |-> Idle]
    /\ stored \in {None, [age |-> LruTtl - 1 + KvDelay, left |-> KvTtl]}
    /\ writes = {}
    /\ inFlight = None /\ local = None /\ lru = None
    /\ breaker = NewBreaker
    /\ seed = "none"

Becomes(r, state) == request' = [request EXCEPT ![r] = state]

-----------------------------------------------------------------------------
(* The breaker around a call of the source: withCircuitBreaker.            *)

\* The check, once the statuses are read, and the call.
Call(r, kind, asks, b) ==
    IF asks /\ ~Blocks(b)
      THEN /\ breaker' = Asked(b)
           /\ Becomes(r, [pc |-> "call", kind |-> kind, answer |-> source])
      ELSE /\ breaker' = b
           /\ Becomes(r, [pc |-> "gather", kind |-> kind, found |-> FALSE])

\* The first request of an instance has the statuses read, and the others wait with it.
Guarded(r, kind, asks, b) ==
    IF seed = "done"
      THEN Call(r, kind, asks, b) /\ UNCHANGED seed
      ELSE /\ Becomes(r, [pc |-> "boot", kind |-> kind, asks |-> asks])
           /\ breaker' = b
           /\ seed' = "reading"

\* The statuses are read, or cannot be read.  The read has no timeout.
Seeded ==
    /\ seed = "reading"
    /\ seed' = "done"
    /\ breaker' \in {breaker, ForceOpen(breaker)}
    /\ UNCHANGED <<outside, request, caches, inFlight>>

Resumes(r) ==
    /\ request[r].pc = "boot" /\ seed = "done"
    /\ Call(r, request[r].kind, request[r].asks, breaker)
    /\ UNCHANGED <<outside, caches, inFlight, seed>>

\* The fan-out leaves out a source whose breaker is open, and one that the caller excludes.
FanOut(r, kind, excluded) ==
    Guarded(r, kind, ~excluded /\ ~Blocks(breaker), Asked(breaker))

-----------------------------------------------------------------------------
(* Requests.                                                               *)

WriteThrough(age) == writes' = writes \cup {[age |-> age, wait |-> 0]}

\* The fetch has come to a quote.  It is kept in the dampener and on its way to KV, and
\* those who waited for it are answered.
Fetched(r, age) ==
    /\ local' = [age |-> age, left |-> DampenerTtl]
    /\ inFlight' = None
    /\ request' = [q \in Requests |->
          IF q = r THEN [pc |-> "store", wait |-> 0]
          ELSE IF request[q].pc = "wait" THEN Idle
          ELSE request[q]]
    /\ WriteThrough(age)

\* A fetch that fails, fails for all who waited.
FetchFailed(r) ==
    /\ inFlight' = None
    /\ request' = [q \in Requests |->
          IF q = r \/ request[q].pc = "wait" THEN Idle ELSE request[q]]
    /\ UNCHANGED <<local, writes>>

\* fetchMetaQuote, for the dampener.  The sequencer's gate and the limiter of the instance
\* may refuse.
Lead(r) ==
    \/ FetchFailed(r) /\ UNCHANGED <<breaker, seed>>
    \/ lru # None /\ Fetched(r, lru) /\ UNCHANGED <<breaker, seed>>
    \/ /\ lru = None
       /\ inFlight' = r
       /\ FanOut(r, "quote", FALSE)
       /\ UNCHANGED <<local, writes>>

\* Slip: an answer of the dampener is written through too.
DampenedAndStored(r) ==
    \/ /\ local # None
       /\ Becomes(r, Idle)
       /\ WriteThrough(local.age)
       /\ UNCHANGED <<local, inFlight, breaker, seed>>
    \/ /\ local = None /\ inFlight # None
       /\ Becomes(r, [pc |-> "wait"])
       /\ UNCHANGED <<local, writes, inFlight, breaker, seed>>
    \/ local = None /\ inFlight = None /\ Lead(r)

Dampened(r) ==
    \/ /\ local # None
       /\ Becomes(r, Idle)
       /\ UNCHANGED <<local, writes, inFlight, breaker, seed>>
    \/ /\ local = None /\ inFlight # None
       /\ Becomes(r, [pc |-> "wait"])
       /\ UNCHANGED <<local, writes, inFlight, breaker, seed>>
    \/ local = None /\ inFlight = None /\ Lead(r)

\* A request for a quote first reads KV.
AsksForQuote(r) ==
    /\ request[r] = Idle
    /\ Becomes(r, [pc |-> "read"])
    /\ UNCHANGED <<outside, caches, inFlight, breaker, seed>>

\* KV answers with the quote, or with none, or not in time.
KvAnswers(r) ==
    /\ request[r].pc = "read"
    /\ \/ /\ stored # None
          /\ Becomes(r, Idle)
          /\ UNCHANGED <<local, writes, inFlight, breaker, seed>>
       \/ Dampened(r)
    /\ UNCHANGED <<outside, stored, lru>>

AsksDirectly(r, excluded) ==
    /\ request[r] = Idle
    /\ FanOut(r, "direct", excluded)
    /\ UNCHANGED <<outside, caches, inFlight>>

\* No filter before the check of the breaker.
AsksForSwap(r) ==
    /\ request[r] = Idle
    /\ Guarded(r, "direct", TRUE, breaker)
    /\ UNCHANGED <<outside, caches, inFlight>>

Judged(answer) ==
    CASE answer = "up" -> {OnSuccess(breaker)}
      [] answer = "noroute" -> {breaker}
      [] answer = "down" -> {OnFailure(breaker)}
      [] answer = "limited" -> {OnRateLimit(breaker, c) : c \in 1 .. LongestCooldown}

\* Slip: a source that does not answer is waited for.
SourceAnswersInTime(r) ==
    /\ request[r].pc = "call" /\ request[r].answer # "down"
    /\ breaker' \in Judged(request[r].answer)
    /\ Becomes(r, [pc |-> "gather", kind |-> request[r].kind,
                   found |-> request[r].answer = "up"])
    /\ UNCHANGED <<outside, caches, inFlight, seed>>

\* The answer of the source, as the source was when it was called, or the timeout.
SourceAnswers(r) ==
    /\ request[r].pc = "call"
    /\ breaker' \in Judged(request[r].answer)
    /\ Becomes(r, [pc |-> "gather", kind |-> request[r].kind,
                   found |-> request[r].answer = "up"])
    /\ UNCHANGED <<outside, caches, inFlight, seed>>

\* The other sources have answered, with a quote or without one.
FanOutEnds(r) ==
    /\ request[r].pc = "gather"
    /\ \E found \in {request[r].found, TRUE} :
         IF request[r].kind = "quote"
           THEN IF found
                  THEN Fetched(r, 0) /\ lru' = 0
                  ELSE FetchFailed(r) /\ UNCHANGED lru
           ELSE /\ Becomes(r, Idle)
                /\ lru' \in IF found THEN {0, lru} ELSE {lru}
                /\ UNCHANGED <<local, writes, inFlight>>
    /\ UNCHANGED <<outside, stored, breaker, seed>>

\* The write is acknowledged, fails, or is not waited for any longer.
StoreEnds(r) ==
    /\ request[r].pc = "store"
    /\ Becomes(r, Idle)
    /\ UNCHANGED <<outside, caches, inFlight, breaker, seed>>

\* A write reaches KV or is lost, whether or not it is still waited for.
WriteEnds(w) ==
    /\ writes' = writes \ {w}
    /\ stored' \in {[age |-> w.age, left |-> KvTtl], stored}
    /\ UNCHANGED <<outside, request, local, lru, inFlight, breaker, seed>>

Overdue == {w \in writes : w.wait = KvDelay}

-----------------------------------------------------------------------------
(* Time and the source.                                                    *)

\* Slip: an entry is served once more when its time is over.
OlderOneTooLong(entry) == IF entry = None \/ entry.left = 0 THEN None
                          ELSE [age |-> entry.age + 1, left |-> entry.left - 1]

Older(entry) == IF entry = None \/ entry.left = 1 THEN None
                ELSE [age |-> entry.age + 1, left |-> entry.left - 1]

\* Nothing of KV takes longer than KvDelay.
Tick ==
    /\ Overdue = {}
    /\ \A r \in Requests : request[r].pc = "store" => request[r].wait < KvDelay
    /\ stored' = Older(stored) /\ local' = Older(local)
    /\ lru' = IF lru = None \/ lru = LruTtl - 1 THEN None ELSE lru + 1
    /\ writes' = {[age |-> w.age + 1, wait |-> w.wait + 1] : w \in writes}
    /\ request' = [r \in Requests |->
          IF request[r].pc = "store"
            THEN [request[r] EXCEPT !.wait = @ + 1]
            ELSE request[r]]
    /\ breaker' = Later(breaker)
    /\ UNCHANGED <<outside, inFlight, seed>>

SourceChanges ==
    /\ changes < MaxChanges
    /\ changes' = changes + 1
    /\ source' \in Sources \ {source}
    /\ UNCHANGED <<request, caches, inFlight, breaker, seed>>

\* What a request waits for comes.
Proceeds(r) ==
    KvAnswers(r) \/ Resumes(r) \/ SourceAnswers(r) \/ FanOutEnds(r) \/ StoreEnds(r)

Next ==
    \/ \E r \in Requests :
         \/ AsksForQuote(r) \/ AsksForSwap(r)
         \/ \E excluded \in BOOLEAN : AsksDirectly(r, excluded)
         \/ Proceeds(r)
    \/ \E w \in writes : WriteEnds(w)
    \/ Seeded \/ Tick \/ SourceChanges

\* Promises are settled, timers fire, time passes.  Neither the callers nor KV's read of
\* the statuses, which has no timeout, owe anything.
Fairness ==
    /\ WF_vars(Tick) /\ WF_vars(\E w \in Overdue : WriteEnds(w))
    /\ \A r \in Requests : WF_vars(Proceeds(r))

Spec == Init /\ [][Next]_vars /\ Fairness

-----------------------------------------------------------------------------
(* Properties.                                                             *)

\* As old as a quote of the fan-out's cache can be when it is written, as long as the
\* write can take, and as long as KV keeps it.
MaxQuoteAge == (LruTtl - 1) + KvDelay + (KvTtl - 1)

\* Three caches one behind the other, and writes that outlive their timeouts, do not add
\* up: no quote that a request can be answered with is older than KV's lifetime allows.
QuotesAreFresh ==
    /\ stored # None => stored.age <= MaxQuoteAge
    /\ local # None => local.age <= MaxQuoteAge

\* Every request is answered, whatever the source and KV do, unless it came while the
\* instance reads the statuses for the first time: that read can hang.
RequestsAreAnswered ==
    \A r \in Requests : request[r].pc # "idle" ~> request[r] = Idle \/ seed = "reading"

FansOut(r) ==
    request[r].pc \in {"call", "gather"} /\ request[r].kind = "quote"

\* A source that is up again is asked again, for as long as quotes are: no sequence of
\* failures, late answers and excluded callers, and no status read at the start, leaves
\* its breaker shut or half open and refusing.
SourceIsAskedAgain ==
    <>[](source = "up") /\ []<>(\E r \in Requests : FansOut(r))
      => []<>(\E r \in Requests : FansOut(r) /\ request[r].pc = "call")

=============================================================================
