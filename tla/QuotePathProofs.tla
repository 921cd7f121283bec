--------------------------- MODULE QuotePathProofs ---------------------------
(***************************************************************************)
(* What is proved of the quote path, for any number of requests, any       *)
(* lifetimes of the three caches in which the dampener's is not above      *)
(* KV's, any delay of KV and any settings of the breaker.                  *)
(*                                                                         *)
(* Age and the time left run against each other, so their sum bounds what  *)
(* an entry can still become: that, and a write's age by how long it is on *)
(* its way, is what the freshness of the quotes rests on.                  *)
(***************************************************************************)
EXTENDS QuotePath, TLAPS

-----------------------------------------------------------------------------
(* The source's breaker.                                                   *)

\* What each operation of the breaker leaves is a breaker.
LEMMA BreakerTypes ==
  ASSUME NEW b \in Breakers
  PROVE  /\ Asked(b) \in Breakers
         /\ OnSuccess(b) \in Breakers
         /\ OnFailure(b) \in Breakers
         /\ \A c \in 1 .. LongestCooldown : OnRateLimit(b, c) \in Breakers
         /\ ForceOpen(b) \in Breakers
         /\ Later(b) \in Breakers
<1>1. Cooldown \in 1 .. LongestCooldown /\ 0 \in 0 .. LongestCooldown
  BY SourceBreakerAssumption
<1>2. Capped(b.failures + 1) \in 0 .. FailureThreshold
  BY SourceBreakerAssumption DEF Breakers, Capped
<1>3. FailureThreshold \in 0 .. FailureThreshold /\ 0 \in 0 .. FailureThreshold
  BY SourceBreakerAssumption
<1>4. Asked(b) \in Breakers
  BY DEF Asked, Breakers
<1>5. OnSuccess(b) \in Breakers
  BY <1>1, <1>3 DEF OnSuccess, Breakers
<1>6. OnFailure(b) \in Breakers
  BY <1>1, <1>2 DEF OnFailure, Breakers
<1>7. \A c \in 1 .. LongestCooldown : OnRateLimit(b, c) \in Breakers
  BY <1>1, <1>2 DEF OnRateLimit, Breakers
<1>8. ForceOpen(b) \in Breakers
  BY <1>1, <1>3 DEF ForceOpen, Breakers
<1>9. Later(b) \in Breakers
  <2>1. b.since < LongestCooldown => b.since + 1 \in 0 .. LongestCooldown
    BY SourceBreakerAssumption DEF Breakers
  <2> QED BY <2>1 DEF Later, Breakers
<1> QED BY <1>4, <1>5, <1>6, <1>7, <1>8, <1>9

LEMMA JudgedType ==
  ASSUME breaker \in Breakers, NEW answer \in Sources, NEW b \in Judged(answer)
  PROVE  b \in Breakers
BY BreakerTypes DEF Judged, Sources

-----------------------------------------------------------------------------
(* The inductive invariant.                                                *)

\* A quote leaves the fan-out's cache for KV within that cache's lifetime, and ages on
\* its way.
WritesAreFresh == \A w \in writes : w.age <= LruTtl - 1 + w.wait

LifetimesAreBounded ==
    /\ stored # None => stored.age + stored.left <= LruTtl - 1 + KvDelay + KvTtl
    /\ local # None => local.age + local.left <= LruTtl - 1 + DampenerTtl

IInv == TypeOK /\ WritesAreFresh /\ LifetimesAreBounded

Stored == [age : Nat, left : 1 .. KvTtl] \cup {None}

Writes == [age : Nat, wait : 0 .. KvDelay]

Local == [age : Nat, left : 1 .. DampenerTtl] \cup {None}

Ages == 0 .. LruTtl - 1

\* The constants, as the arithmetic of the proofs needs them.
LEMMA Constants ==
  /\ LruTtl \in Nat /\ LruTtl > 0 /\ DampenerTtl \in Nat /\ DampenerTtl > 0
  /\ KvTtl \in Nat /\ KvTtl > 0 /\ KvDelay \in Nat /\ DampenerTtl <= KvTtl
  /\ 0 \in Ages /\ 0 \in 0 .. KvDelay
  /\ DampenerTtl \in 1 .. DampenerTtl /\ KvTtl \in 1 .. KvTtl
BY QuotePathAssumption DEF Ages

-----------------------------------------------------------------------------
(* The pieces that the handlers are made of.                               *)

\* A step of a handler that touches neither KV nor the time: what it may change keeps
\* its type and its age.
LEMMA HandlerStep ==
  ASSUME IInv, UNCHANGED <<outside, stored>>,
         request' \in [Requests -> RequestStates],
         breaker' \in Breakers, seed' \in {"none", "reading", "done"},
         inFlight' \in Requests \cup {None}, lru' \in Ages \cup {None},
         \/ UNCHANGED <<writes, local>>
         \/ \E age \in Ages : /\ WriteThrough(age)
                              /\ local' = [age |-> age, left |-> DampenerTtl]
  PROVE  IInv'
<1>1. CASE UNCHANGED <<writes, local>>
  <2>1. TypeOK'
    BY <1>1 DEF IInv, TypeOK, outside, Ages
  <2> QED BY <1>1, <2>1 DEF IInv, WritesAreFresh, LifetimesAreBounded
<1>2. ASSUME NEW age \in Ages, WriteThrough(age),
             local' = [age |-> age, left |-> DampenerTtl]
      PROVE  IInv'
  <2>1. age \in Nat /\ age <= LruTtl - 1
    BY Constants DEF Ages
  <2>2. local' \in Local /\ local'.age + local'.left <= LruTtl - 1 + DampenerTtl
    BY <1>2, <2>1, Constants DEF Local
  <2>3. writes' = writes \cup {[age |-> age, wait |-> 0]} /\ [age |-> age, wait |-> 0] \in Writes
    BY <1>2, <2>1, Constants DEF WriteThrough, Writes
  <2>4. writes' \subseteq Writes
    BY <2>3 DEF IInv, TypeOK, Writes
  <2>5. TypeOK'
    BY <2>2, <2>4 DEF IInv, TypeOK, outside, Local, Writes, Ages
  <2>6. WritesAreFresh'
    BY <2>1, <2>3, Constants DEF IInv, WritesAreFresh
  <2>7. LifetimesAreBounded'
    BY <2>2 DEF IInv, LifetimesAreBounded
  <2> QED BY <2>5, <2>6, <2>7 DEF IInv
<1> QED BY <1>1, <1>2

LEMMA BecomesType ==
  ASSUME IInv, NEW r \in Requests, NEW state \in RequestStates, Becomes(r, state)
  PROVE  request' \in [Requests -> RequestStates]
BY DEF Becomes, IInv, TypeOK

LEMMA States ==
  /\ Idle \in RequestStates
  /\ [pc |-> "read"] \in RequestStates /\ [pc |-> "wait"] \in RequestStates
  /\ [pc |-> "store", wait |-> 0] \in RequestStates
  /\ \A kind \in Kinds : \A asks \in BOOLEAN :
        /\ [pc |-> "boot", kind |-> kind, asks |-> asks] \in RequestStates
        /\ [pc |-> "gather", kind |-> kind, found |-> asks] \in RequestStates
        /\ \A answer \in Sources :
              [pc |-> "call", kind |-> kind, answer |-> answer] \in RequestStates
<1>1. [pc |-> "store", wait |-> 0] \in RequestStates
  BY Constants DEF RequestStates
<1> QED BY <1>1 DEF RequestStates, Idle

LEMMA CallType ==
  ASSUME IInv, NEW r \in Requests, NEW kind \in Kinds, NEW asks \in BOOLEAN,
         NEW b \in Breakers, Call(r, kind, asks, b)
  PROVE  request' \in [Requests -> RequestStates] /\ breaker' \in Breakers
<1>1. CASE asks /\ ~Blocks(b)
  BY <1>1, BreakerTypes, BecomesType, States DEF Call, IInv, TypeOK
<1>2. CASE ~ (asks /\ ~Blocks(b))
  BY <1>2, BecomesType, States DEF Call
<1> QED BY <1>1, <1>2

LEMMA GuardedType ==
  ASSUME IInv, NEW r \in Requests, NEW kind \in Kinds, NEW asks \in BOOLEAN,
         NEW b \in Breakers, Guarded(r, kind, asks, b)
  PROVE  /\ request' \in [Requests -> RequestStates]
         /\ breaker' \in Breakers
         /\ seed' \in {"none", "reading", "done"}
<1>1. CASE seed = "done"
  BY <1>1, CallType DEF Guarded
<1>2. CASE seed # "done"
  BY <1>2, BecomesType, States DEF Guarded
<1> QED BY <1>1, <1>2

LEMMA FanOutType ==
  ASSUME IInv, NEW r \in Requests, NEW kind \in Kinds, NEW excluded \in BOOLEAN,
         FanOut(r, kind, excluded)
  PROVE  /\ request' \in [Requests -> RequestStates]
         /\ breaker' \in Breakers
         /\ seed' \in {"none", "reading", "done"}
<1>1. Asked(breaker) \in Breakers
  BY BreakerTypes DEF IInv, TypeOK
<1>2. (~excluded /\ ~Blocks(breaker)) \in BOOLEAN
  OBVIOUS
<1> HIDE DEF Blocks
<1> QED BY <1>1, <1>2, GuardedType DEF FanOut

-----------------------------------------------------------------------------
(* The actions.                                                            *)

LEMMA InitInv == Init => IInv
<1> SUFFICES ASSUME Init PROVE IInv
  OBVIOUS
<1>1. NewBreaker \in Breakers
  BY SourceBreakerAssumption DEF NewBreaker, Breakers
<1>2. request \in [Requests -> RequestStates]
  BY States DEF Init
<1>3. 0 \in 0 .. MaxChanges
  BY QuotePathAssumption
<1>4. /\ stored \in Stored
      /\ stored # None => stored.age + stored.left <= LruTtl - 1 + KvDelay + KvTtl
  BY Constants DEF Init, Stored
<1>5. TypeOK
  BY <1>1, <1>2, <1>3, <1>4 DEF Init, TypeOK, Stored
<1> QED BY <1>4, <1>5 DEF Init, IInv, WritesAreFresh, LifetimesAreBounded

\* A quote of the fan-out's cache, or a new one, is fetched.
LEMMA FetchedStep ==
  ASSUME IInv, NEW r \in Requests, NEW age \in Ages, Fetched(r, age),
         lru' \in {lru, 0}, UNCHANGED <<outside, stored, breaker, seed>>
  PROVE  IInv'
<1>1. request' \in [Requests -> RequestStates]
  <2> SUFFICES ASSUME NEW q \in Requests
               PROVE  (IF q = r THEN [pc |-> "store", wait |-> 0]
                       ELSE IF request[q].pc = "wait" THEN Idle ELSE request[q])
                         \in RequestStates
    BY DEF Fetched
  <2> QED BY States DEF IInv, TypeOK
<1>2. inFlight' \in Requests \cup {None} /\ lru' \in Ages \cup {None}
  BY Constants DEF Fetched, IInv, TypeOK, Ages
<1>3. WriteThrough(age) /\ local' = [age |-> age, left |-> DampenerTtl]
  BY DEF Fetched
<1>4. breaker' \in Breakers /\ seed' \in {"none", "reading", "done"}
  BY DEF IInv, TypeOK
<1> QED BY <1>1, <1>2, <1>3, <1>4, HandlerStep

LEMMA FetchFailedStep ==
  ASSUME IInv, NEW r \in Requests, FetchFailed(r),
         UNCHANGED <<outside, stored, lru, breaker, seed>>
  PROVE  IInv'
<1>1. request' \in [Requests -> RequestStates]
  <2> SUFFICES ASSUME NEW q \in Requests
               PROVE  (IF q = r \/ request[q].pc = "wait" THEN Idle ELSE request[q])
                         \in RequestStates
    BY DEF FetchFailed
  <2> QED BY States DEF IInv, TypeOK
<1>2. inFlight' \in Requests \cup {None} /\ lru' \in Ages \cup {None}
  BY DEF FetchFailed, IInv, TypeOK, Ages
<1>3. UNCHANGED <<writes, local>>
  BY DEF FetchFailed
<1>4. breaker' \in Breakers /\ seed' \in {"none", "reading", "done"}
  BY DEF IInv, TypeOK
<1> QED BY <1>1, <1>2, <1>3, <1>4, HandlerStep

\* A request moves on, and nothing else does.
LEMMA MoveStep ==
  ASSUME IInv, NEW r \in Requests, NEW state \in RequestStates, Becomes(r, state),
         UNCHANGED <<outside, caches, inFlight, breaker, seed>>
  PROVE  IInv'
<1>1. request' \in [Requests -> RequestStates]
  BY BecomesType
<1>2. /\ breaker' \in Breakers /\ seed' \in {"none", "reading", "done"}
      /\ inFlight' \in Requests \cup {None} /\ lru' \in Ages \cup {None}
  BY DEF IInv, TypeOK, caches, Ages
<1> QED BY <1>1, <1>2, HandlerStep DEF caches

LEMMA FanOutStep ==
  ASSUME IInv, NEW r \in Requests, NEW kind \in Kinds, NEW excluded \in BOOLEAN,
         FanOut(r, kind, excluded), inFlight' \in {inFlight, r}, UNCHANGED <<outside, caches>>
  PROVE  IInv'
<1>1. /\ request' \in [Requests -> RequestStates] /\ breaker' \in Breakers
      /\ seed' \in {"none", "reading", "done"}
  BY FanOutType
<1>2. inFlight' \in Requests \cup {None} /\ lru' \in Ages \cup {None}
  BY DEF IInv, TypeOK, caches, Ages
<1> QED BY <1>1, <1>2, HandlerStep DEF caches

LEMMA KvAnswersStep ==
  ASSUME IInv, NEW r \in Requests, KvAnswers(r)
  PROVE  IInv'
<1>1. UNCHANGED <<outside, stored, lru>>
  BY DEF KvAnswers
<1>2. ASSUME NEW state \in {Idle, [pc |-> "wait"]}, Becomes(r, state),
             UNCHANGED <<local, writes, inFlight, breaker, seed>>
      PROVE  IInv'
  BY <1>1, <1>2, MoveStep, States DEF caches
<1>3. CASE Lead(r)
  <2>1. CASE FetchFailed(r) /\ UNCHANGED <<breaker, seed>>
    BY <1>1, <2>1, FetchFailedStep
  <2>2. CASE lru # None /\ Fetched(r, lru) /\ UNCHANGED <<breaker, seed>>
    <3>1. lru \in Ages
      BY <2>2 DEF IInv, TypeOK, Ages
    <3> QED BY <1>1, <2>2, <3>1, FetchedStep
  <2>3. CASE inFlight' = r /\ FanOut(r, "quote", FALSE) /\ UNCHANGED <<local, writes>>
    BY <1>1, <2>3, FanOutStep DEF Kinds, caches
  <2> QED BY <1>3, <2>1, <2>2, <2>3 DEF Lead
<1> QED BY <1>2, <1>3 DEF KvAnswers, Dampened

LEMMA AskStep ==
  ASSUME IInv, NEW r \in Requests,
         \/ AsksForQuote(r) \/ AsksForSwap(r)
         \/ \E excluded \in BOOLEAN : AsksDirectly(r, excluded)
  PROVE  IInv'
<1>1. CASE AsksForQuote(r)
  BY <1>1, MoveStep, States DEF AsksForQuote
<1>2. CASE AsksForSwap(r)
  <2>1. /\ request' \in [Requests -> RequestStates] /\ breaker' \in Breakers
        /\ seed' \in {"none", "reading", "done"}
    BY <1>2, GuardedType DEF AsksForSwap, Kinds, IInv, TypeOK
  <2>2. inFlight' \in Requests \cup {None} /\ lru' \in Ages \cup {None}
    BY <1>2 DEF AsksForSwap, IInv, TypeOK, caches, Ages
  <2> QED BY <1>2, <2>1, <2>2, HandlerStep DEF AsksForSwap, caches
<1>3. CASE \E excluded \in BOOLEAN : AsksDirectly(r, excluded)
  BY <1>3, FanOutStep DEF AsksDirectly, Kinds
<1> QED BY <1>1, <1>2, <1>3

LEMMA ResumesStep ==
  ASSUME IInv, NEW r \in Requests, Resumes(r)
  PROVE  IInv'
<1>1. request[r].kind \in Kinds /\ request[r].asks \in BOOLEAN /\ breaker \in Breakers
  BY DEF Resumes, IInv, TypeOK, RequestStates
<1>2. request' \in [Requests -> RequestStates] /\ breaker' \in Breakers
  BY <1>1, CallType DEF Resumes
<1>3. /\ seed' \in {"none", "reading", "done"}
      /\ inFlight' \in Requests \cup {None} /\ lru' \in Ages \cup {None}
  BY DEF Resumes, IInv, TypeOK, caches, Ages
<1> QED BY <1>2, <1>3, HandlerStep DEF Resumes, caches

LEMMA SourceAnswersStep ==
  ASSUME IInv, NEW r \in Requests, SourceAnswers(r)
  PROVE  IInv'
<1>1. request[r].kind \in Kinds /\ request[r].answer \in Sources
  BY DEF SourceAnswers, IInv, TypeOK, RequestStates
<1>2. breaker' \in Breakers
  BY <1>1, JudgedType DEF SourceAnswers, IInv, TypeOK
<1>3. (request[r].answer = "up") \in BOOLEAN
  OBVIOUS
<1>4. request' \in [Requests -> RequestStates]
  BY <1>1, <1>3, BecomesType, States DEF SourceAnswers
<1>5. /\ seed' \in {"none", "reading", "done"}
      /\ inFlight' \in Requests \cup {None} /\ lru' \in Ages \cup {None}
  BY DEF SourceAnswers, IInv, TypeOK, caches, Ages
<1> QED BY <1>2, <1>4, <1>5, HandlerStep DEF SourceAnswers, caches

LEMMA FanOutEndsStep ==
  ASSUME IInv, NEW r \in Requests, FanOutEnds(r)
  PROVE  IInv'
<1>1. UNCHANGED <<outside, stored, breaker, seed>>
  BY DEF FanOutEnds
<1>2. CASE Fetched(r, 0) /\ lru' = 0
  BY <1>1, <1>2, Constants, FetchedStep
<1>3. CASE FetchFailed(r) /\ UNCHANGED lru
  BY <1>1, <1>3, FetchFailedStep
<1>4. CASE Becomes(r, Idle) /\ lru' \in {0, lru} /\ UNCHANGED <<local, writes, inFlight>>
  <2>1. request' \in [Requests -> RequestStates]
    BY <1>4, BecomesType, States
  <2>2. /\ breaker' \in Breakers /\ seed' \in {"none", "reading", "done"}
        /\ inFlight' \in Requests \cup {None} /\ lru' \in Ages \cup {None}
    BY <1>1, <1>4, Constants DEF IInv, TypeOK, Ages
  <2> QED BY <1>1, <1>4, <2>1, <2>2, HandlerStep
<1> QED BY <1>2, <1>3, <1>4 DEF FanOutEnds

LEMMA StoreEndsStep ==
  ASSUME IInv, NEW r \in Requests, StoreEnds(r)
  PROVE  IInv'
BY MoveStep, States DEF StoreEnds

LEMMA WriteEndsStep ==
  ASSUME IInv, NEW w \in writes, WriteEnds(w)
  PROVE  IInv'
<1>1. w \in Writes /\ w.age \in Nat /\ w.wait \in 0 .. KvDelay /\ w.age <= LruTtl - 1 + w.wait
  BY DEF IInv, TypeOK, Writes, WritesAreFresh
<1>2. w.age + KvTtl <= LruTtl - 1 + KvDelay + KvTtl
  BY <1>1, Constants
<1>3. /\ stored' \in Stored
      /\ stored' # None => stored'.age + stored'.left <= LruTtl - 1 + KvDelay + KvTtl
  BY <1>1, <1>2, Constants DEF WriteEnds, IInv, TypeOK, Stored, LifetimesAreBounded
<1>4. TypeOK'
  BY <1>3 DEF WriteEnds, IInv, TypeOK, Stored, outside
<1>5. WritesAreFresh' /\ LifetimesAreBounded'
  BY <1>3 DEF WriteEnds, IInv, WritesAreFresh, LifetimesAreBounded
<1> QED BY <1>4, <1>5 DEF IInv

LEMMA SeededStep ==
  ASSUME IInv, Seeded
  PROVE  IInv'
<1>1. breaker' \in Breakers
  BY BreakerTypes DEF Seeded, IInv, TypeOK
<1>2. /\ request' \in [Requests -> RequestStates] /\ seed' \in {"none", "reading", "done"}
      /\ inFlight' \in Requests \cup {None} /\ lru' \in Ages \cup {None}
  BY DEF Seeded, IInv, TypeOK, caches, Ages
<1> QED BY <1>1, <1>2, HandlerStep DEF Seeded, caches

\* An entry that gets older, or goes.
LEMMA OlderType ==
  ASSUME NEW ttl \in Nat, NEW entry \in [age : Nat, left : 1 .. ttl] \cup {None}
  PROVE  /\ Older(entry) \in [age : Nat, left : 1 .. ttl] \cup {None}
         /\ Older(entry) # None =>
              /\ entry # None
              /\ Older(entry).age + Older(entry).left = entry.age + entry.left
<1>1. CASE entry = None \/ entry.left = 1
  BY <1>1 DEF Older
<1>2. CASE ~ (entry = None \/ entry.left = 1)
  <2>1. entry.age \in Nat /\ entry.left \in 2 .. ttl
    BY <1>2
  <2>2. Older(entry) = [age |-> entry.age + 1, left |-> entry.left - 1]
    BY <1>2 DEF Older
  <2> QED BY <1>2, <2>1, <2>2
<1> QED BY <1>1, <1>2

LEMMA TickStep ==
  ASSUME IInv, Tick
  PROVE  IInv'
<1>1. request' \in [Requests -> RequestStates]
  <2> SUFFICES ASSUME NEW r \in Requests
               PROVE  (IF request[r].pc = "store"
                         THEN [request[r] EXCEPT !.wait = @ + 1]
                         ELSE request[r]) \in RequestStates
    BY DEF Tick
  <2>1. CASE request[r].pc = "store"
    <3>1. request[r] \in [pc : {"store"}, wait : 0 .. KvDelay] /\ request[r].wait < KvDelay
      BY <2>1 DEF Tick, IInv, TypeOK, RequestStates
    <3>2. request[r].wait + 1 \in 0 .. KvDelay
      BY <3>1, Constants
    <3> QED BY <2>1, <3>1, <3>2 DEF RequestStates
  <2>2. CASE request[r].pc # "store"
    BY <2>2 DEF IInv, TypeOK
  <2> QED BY <2>1, <2>2
<1>2. breaker' \in Breakers
  BY BreakerTypes DEF Tick, IInv, TypeOK
<1>3. /\ stored' \in Stored /\ local' \in Local
      /\ LifetimesAreBounded'
  <2>1. stored \in Stored /\ local \in Local /\ stored' = Older(stored) /\ local' = Older(local)
    BY DEF Tick, IInv, TypeOK, Stored, Local
  <2>2. /\ stored' \in Stored
        /\ stored' # None => stored # None /\ stored'.age + stored'.left = stored.age + stored.left
    BY <2>1, OlderType, Constants DEF Stored
  <2>3. /\ local' \in Local
        /\ local' # None => local # None /\ local'.age + local'.left = local.age + local.left
    BY <2>1, OlderType, Constants DEF Local
  <2> QED BY <2>2, <2>3 DEF IInv, LifetimesAreBounded
<1>4. lru' \in Ages \cup {None}
  <2>1. CASE lru = None \/ lru = LruTtl - 1
    BY <2>1 DEF Tick
  <2>2. CASE ~ (lru = None \/ lru = LruTtl - 1)
    <3>1. lru \in Ages /\ lru # LruTtl - 1
      BY <2>2 DEF IInv, TypeOK, Ages
    <3>2. lru + 1 \in Ages
      BY <3>1, Constants DEF Ages
    <3> QED BY <2>2, <3>2 DEF Tick
  <2> QED BY <2>1, <2>2
<1>5. ASSUME NEW v \in writes'
      PROVE  v \in Writes /\ v.age <= LruTtl - 1 + v.wait
  <2>1. PICK w \in writes : v = [age |-> w.age + 1, wait |-> w.wait + 1]
    BY <1>5 DEF Tick
  <2>2. w \in Writes /\ w.age <= LruTtl - 1 + w.wait /\ w.wait # KvDelay
    BY DEF Tick, Overdue, IInv, TypeOK, Writes, WritesAreFresh
  <2> QED BY <2>1, <2>2, Constants DEF Writes
<1>6. UNCHANGED <<outside, inFlight, seed>>
  BY DEF Tick
<1>7. TypeOK'
  BY <1>1, <1>2, <1>3, <1>4, <1>5, <1>6
     DEF IInv, TypeOK, outside, Stored, Local, Writes, Ages
<1>8. WritesAreFresh'
  BY <1>5 DEF WritesAreFresh
<1> QED BY <1>3, <1>7, <1>8 DEF IInv

LEMMA SourceChangesStep ==
  ASSUME IInv, SourceChanges
  PROVE  IInv'
<1>1. changes' \in 0 .. MaxChanges
  BY QuotePathAssumption DEF SourceChanges, IInv, TypeOK
<1>2. TypeOK'
  BY <1>1 DEF SourceChanges, IInv, TypeOK, caches
<1> QED BY <1>2 DEF SourceChanges, IInv, WritesAreFresh, LifetimesAreBounded, caches

-----------------------------------------------------------------------------
(* The theorems.                                                           *)

THEOREM Invariance == Spec => []IInv
<1>1. Init => IInv
  BY InitInv
<1>2. IInv /\ [Next]_vars => IInv'
  <2> SUFFICES ASSUME IInv, [Next]_vars PROVE IInv'
    OBVIOUS
  <2>1. ASSUME NEW r \in Requests,
               \/ AsksForQuote(r) \/ AsksForSwap(r)
               \/ \E excluded \in BOOLEAN : AsksDirectly(r, excluded)
        PROVE  IInv'
    BY <2>1, AskStep
  <2>2. ASSUME NEW r \in Requests, Proceeds(r)
        PROVE  IInv'
    BY <2>2, KvAnswersStep, ResumesStep, SourceAnswersStep, FanOutEndsStep, StoreEndsStep
       DEF Proceeds
  <2>3. ASSUME NEW w \in writes, WriteEnds(w)
        PROVE  IInv'
    BY <2>3, WriteEndsStep
  <2>4. CASE Seeded \/ Tick \/ SourceChanges
    BY <2>4, SeededStep, TickStep, SourceChangesStep
  <2>5. CASE UNCHANGED vars
    <3>1. TypeOK'
      BY <2>5 DEF vars, outside, caches, IInv, TypeOK
    <3> QED BY <2>5, <3>1 DEF vars, caches, IInv, WritesAreFresh, LifetimesAreBounded
  <2> QED BY <2>1, <2>2, <2>3, <2>4, <2>5 DEF Next
<1> QED BY <1>1, <1>2, PTL DEF Spec

\* The variables keep their types: a write is not on its way for longer than KV's delay,
\* and a breaker's counts and cooldowns stay within their settings.
THEOREM TypeCorrect == Spec => []TypeOK
<1>1. IInv => TypeOK
  BY DEF IInv
<1> QED BY <1>1, Invariance, PTL

\* No quote that a request can be answered with is older than the fan-out's cache, one
\* delay of KV and KV's lifetime allow together: the caches do not feed each other's
\* lifetimes.
THEOREM QuotesStayFresh == Spec => []QuotesAreFresh
<1>1. IInv => QuotesAreFresh
  <2> SUFFICES ASSUME IInv PROVE QuotesAreFresh
    OBVIOUS
  <2>1. stored # None => stored.age <= MaxQuoteAge
    BY Constants DEF IInv, TypeOK, LifetimesAreBounded, MaxQuoteAge
  <2>2. local # None => local.age <= MaxQuoteAge
    BY Constants DEF IInv, TypeOK, LifetimesAreBounded, MaxQuoteAge
  <2> QED BY <2>1, <2>2 DEF QuotesAreFresh
<1> QED BY <1>1, Invariance, PTL

=============================================================================
