-------------------------- MODULE OrderKeeperProofs --------------------------
(***************************************************************************)
(* What is proved of the life of an order row, for any number of orders,   *)
(* of ticks that overlap, of transactions and of faults, and for any       *)
(* length of a DCA order and of the failure ladder.                        *)
(*                                                                         *)
(* A tick writes what it computes from the row it fetched, so the          *)
(* invariant bounds the fetched copies as well as the rows: by the fills   *)
(* that the chain had, and by the misses that the order had caused.  A     *)
(* tick may raise the count of a row because the fill it saw happened      *)
(* after it fetched the row.                                               *)
(***************************************************************************)
EXTENDS OrderKeeper, FiniteSetTheorems, FunctionTheorems, TLAPS

\* The rows a tick has fetched and not finished with.
Fetched == UNION {[S -> Counts] : S \in SUBSET Orders}

TickStates ==
    [pc : {"rest", "fetch", "order"}, rows : Fetched, tx : {NoTx}]
      \cup [pc : {"check", "build"}, rows : Fetched, order : Orders, tx : {NoTx}]
      \cup [pc : {"wait", "record"}, rows : Fetched, order : Orders, tx : TxIds]

Repairs == [tx : TxIds, read : RepairReads]

Signed == Life!Signed

-----------------------------------------------------------------------------
(* The inductive invariant.                                                *)

\* The fills of an order are numbered, each by the transaction that made it.
ChainOK ==
    /\ Signed \subseteq Orders
    /\ \A o \in Signed : terms[o] \in {Limit, Dca}
    /\ fills \in [Orders -> 0 .. DcaTotal]
    /\ \A o \in Orders : fills[o] <= IF o \in Signed THEN terms[o].total ELSE 0
    /\ due \subseteq Orders /\ expired \subseteq Orders
    /\ txs \in [TxIds -> Txs]
    /\ \A x \in TxIds : txs[x].state # "unsent" => txs[x].order \in Signed
    /\ \A x \in TxIds : txs[x].state = "success" => txs[x].rank \in 1 .. fills[txs[x].order]
    /\ \A x, y \in TxIds :
          /\ txs[x].state = "success" /\ txs[y].state = "success"
          /\ txs[x].order = txs[y].order /\ txs[x].rank = txs[y].rank
          => x = y
    /\ executions \subseteq {x \in TxIds : txs[x].state = "success"}

\* A row of order o, whose own misses were n: no more fills than on chain, no more
\* misses than there were, and a final status that is earned.
RowSound(o, r, n) ==
    /\ r \in Rows
    /\ r.executed <= fills[o]
    /\ r.failures <= n
    /\ r.status = "executed" => fills[o] = terms[o].total
    /\ r.error = "retries" => n = MaxCycleFailures

RowOK(o) == IF o \in Signed THEN RowSound(o, row[o], orderMisses[o]) ELSE row[o] = NoRow

\* A tick's copies of the rows are as sound as the rows; the transaction it waits for is
\* of its order, and succeeds, if it does, after the copy was made.
TickSound(y) ==
    /\ y \in TickStates
    /\ \A o \in DOMAIN y.rows :
          /\ o \in Signed
          /\ y.rows[o].executed <= fills[o]
          /\ y.rows[o].failures <= orderMisses[o]
    /\ y.pc \in Steps => y.order \in DOMAIN y.rows
    /\ y.pc \in {"wait", "record"} => txs[y.tx].state # "unsent" /\ txs[y.tx].order = y.order
    /\ y.pc = "wait" /\ txs[y.tx].state = "success" => y.rows[y.order].executed < txs[y.tx].rank
    /\ y.pc = "record" => txs[y.tx].state = "success"

RepairOK == repair # NoRepair => repair \in Repairs /\ txs[repair.tx].state = "success"

OthersOK ==
    /\ lockOld \subseteq Orders /\ missed \subseteq Orders
    /\ orderMisses \in [Orders -> 0 .. MaxCycleFailures]
    /\ faults \in 0 .. MaxFaults

IInv ==
    /\ ChainOK
    /\ row \in [Orders -> Rows \cup {NoRow}] /\ \A o \in Orders : RowOK(o)
    /\ tick \in [Ticks -> TickStates] /\ \A t \in Ticks : TickSound(tick[t])
    /\ RepairOK
    /\ OthersOK

-----------------------------------------------------------------------------
(* The sets and the copies.                                                *)

LEMMA ConstantsOK ==
  /\ DcaTotal \in Nat /\ DcaTotal >= 2
  /\ MaxCycleFailures \in Nat /\ MaxCycleFailures >= 1
  /\ MaxTxs \in Nat /\ MaxFaults \in Nat
BY KeeperAssumption

LEMMA FetchedFacts ==
  ASSUME NEW f
  PROVE  f \in Fetched <=> /\ f = [o \in DOMAIN f |-> f[o]]
                           /\ DOMAIN f \subseteq Orders
                           /\ \A o \in DOMAIN f : f[o] \in Counts
<1>1. ASSUME f \in Fetched
      PROVE  /\ f = [o \in DOMAIN f |-> f[o]]
             /\ DOMAIN f \subseteq Orders
             /\ \A o \in DOMAIN f : f[o] \in Counts
  <2> PICK S \in SUBSET Orders : f \in [S -> Counts]
    BY <1>1 DEF Fetched
  <2> QED OBVIOUS
<1>2. ASSUME f = [o \in DOMAIN f |-> f[o]], DOMAIN f \subseteq Orders,
             \A o \in DOMAIN f : f[o] \in Counts
      PROVE  f \in Fetched
  <2>1. f \in [DOMAIN f -> Counts]
    BY <1>2
  <2> QED BY <1>2, <2>1 DEF Fetched
<1> QED BY <1>1, <1>2

LEMMA RestIsSound ==
  /\ Rest \in TickStates /\ Rest.pc = "rest" /\ DOMAIN Rest.rows = {}
<1>1. DOMAIN <<>> = {} /\ <<>> = [o \in {} |-> o]
  OBVIOUS
<1>2. <<>> \in Fetched
  BY <1>1, FetchedFacts
<1> QED BY <1>1, <1>2 DEF Rest, TickStates

\* What is left of the copies is as sound as before.
LEMMA ContinueSound ==
  ASSUME NEW rows \in Fetched,
         \A o \in DOMAIN rows : /\ o \in Signed
                                /\ rows[o].executed <= fills[o]
                                /\ rows[o].failures <= orderMisses[o]
  PROVE  TickSound(Continue(rows))
<1>1. CASE DOMAIN rows = {}
  <2>1. Continue(rows) = Rest
    BY <1>1 DEF Continue
  <2> QED BY <2>1, RestIsSound DEF TickSound, Steps
<1>2. CASE DOMAIN rows # {}
  <2>1. Continue(rows) = [pc |-> "order", rows |-> rows, tx |-> NoTx]
    BY <1>2 DEF Continue
  <2> QED BY <2>1 DEF TickSound, Steps, TickStates
<1> QED BY <1>1, <1>2

\* What is known of a tick's copies.
LEMMA CopiesSound ==
  ASSUME IInv, NEW t \in Ticks
  PROVE  /\ tick[t] \in TickStates /\ tick[t].rows \in Fetched
         /\ DOMAIN tick[t].rows \subseteq Orders
         /\ \A o \in DOMAIN tick[t].rows :
               /\ o \in Signed
               /\ tick[t].rows[o] \in Counts
               /\ tick[t].rows[o].executed \in Nat /\ tick[t].rows[o].failures \in Nat
               /\ tick[t].rows[o].executed <= fills[o]
               /\ tick[t].rows[o].failures <= orderMisses[o]
<1>1. tick[t] \in TickStates /\ tick[t].rows \in Fetched
  BY DEF IInv, TickStates
<1>2. \A o \in DOMAIN tick[t].rows :
         o \in Signed /\ tick[t].rows[o].executed <= fills[o]
           /\ tick[t].rows[o].failures <= orderMisses[o]
  BY DEF IInv, TickSound
<1>3. DOMAIN tick[t].rows \subseteq Orders /\ \A o \in DOMAIN tick[t].rows : tick[t].rows[o] \in Counts
  BY <1>1, FetchedFacts
<1> QED BY <1>1, <1>2, <1>3, ConstantsOK DEF Counts

-----------------------------------------------------------------------------
(* Steps.                                                                  *)

\* Fills and misses are not taken back, orders and transactions not forgotten; a
\* transaction that succeeds is numbered above the fills there were.
Progress ==
    /\ \A o \in Orders :
          /\ fills[o] <= fills'[o] /\ orderMisses[o] <= orderMisses'[o]
          /\ o \in Signed => o \in Signed' /\ terms'[o] = terms[o]
    /\ \A x \in TxIds : txs[x].state # "unsent" =>
          /\ txs'[x].state # "unsent" /\ txs'[x].order = txs[x].order
          /\ txs[x].state = "success" => txs'[x].state = "success" /\ txs'[x].rank = txs[x].rank
          /\ txs[x].state # "success" /\ txs'[x].state = "success" =>
                txs'[x].rank > fills[txs[x].order]

\* Rows that are as they were, or sound for the chain before the step or after it.
RowsWritten ==
    /\ row' \in [Orders -> Rows \cup {NoRow}]
    /\ \A o \in Orders :
          \/ row'[o] = row[o] /\ (o \in Signed' <=> o \in Signed)
          \/ o \in Signed /\ RowSound(o, row'[o], orderMisses'[o])
          \/ RowOK(o)'

LEMMA RowsStep ==
  ASSUME IInv, Progress, ChainOK', OthersOK', RowsWritten
  PROVE  \A o \in Orders : RowOK(o)'
<1> SUFFICES ASSUME NEW o \in Orders PROVE RowOK(o)'
  OBVIOUS
<1>1. /\ fills[o] \in Nat /\ fills'[o] \in Nat /\ orderMisses[o] \in Nat
      /\ orderMisses'[o] \in 0 .. MaxCycleFailures
      /\ fills[o] <= fills'[o] /\ orderMisses[o] <= orderMisses'[o]
      /\ o \in Signed => o \in Signed' /\ terms'[o] = terms[o] /\ terms[o].total \in Nat
      /\ o \in Signed' => fills'[o] <= terms'[o].total
  BY ConstantsOK DEF IInv, ChainOK, OthersOK, Progress, Limit, Dca
<1>2. \A r \in Rows : r.executed \in Nat /\ r.failures \in Nat
  BY ConstantsOK DEF Rows
<1>3. ASSUME o \in Signed, NEW n \in Nat, RowSound(o, row'[o], n), n <= orderMisses'[o]
      PROVE  RowOK(o)'
  BY <1>1, <1>2, <1>3, ConstantsOK DEF RowOK, RowSound
<1>4. CASE o \in Signed /\ RowSound(o, row'[o], orderMisses'[o])
  BY <1>1, <1>3, <1>4, ConstantsOK
<1>5. CASE row'[o] = row[o] /\ (o \in Signed' <=> o \in Signed)
  <2>1. CASE o \in Signed
    <3>1. RowSound(o, row'[o], orderMisses[o])
      BY <1>5, <2>1 DEF IInv, RowOK
    <3> QED BY <1>1, <1>3, <2>1, <3>1
  <2>2. CASE o \notin Signed
    BY <1>5, <2>2 DEF IInv, RowOK
  <2> QED BY <2>1, <2>2
<1> QED BY <1>4, <1>5 DEF RowsWritten

\* Ticks that were sound for the chain before the step are so after it.
LEMMA TicksStep ==
  ASSUME IInv, Progress, ChainOK', OthersOK', NEW t \in Ticks, TickSound(tick'[t])
  PROVE  TickSound(tick[t])'
<1> DEFINE y == tick'[t]
<1>1. y \in TickStates /\ y.rows \in Fetched
  BY DEF TickSound, TickStates
<1>2. DOMAIN y.rows \subseteq Orders /\ \A o \in DOMAIN y.rows : y.rows[o] \in Counts
  BY <1>1, FetchedFacts
<1>3. \A o \in DOMAIN y.rows :
         /\ o \in Signed' /\ y.rows[o].executed <= fills'[o]
         /\ y.rows[o].failures <= orderMisses'[o]
  <2> SUFFICES ASSUME NEW o \in DOMAIN y.rows
               PROVE  /\ o \in Signed' /\ y.rows[o].executed <= fills'[o]
                      /\ y.rows[o].failures <= orderMisses'[o]
    OBVIOUS
  <2>1. o \in Orders /\ o \in Signed /\ y.rows[o].executed <= fills[o]
        /\ y.rows[o].failures <= orderMisses[o]
    BY <1>2 DEF TickSound
  <2>2. /\ y.rows[o].executed \in Nat /\ y.rows[o].failures \in Nat
        /\ fills[o] \in Nat /\ fills'[o] \in Nat
        /\ orderMisses[o] \in Nat /\ orderMisses'[o] \in Nat
    BY <1>2, <2>1, ConstantsOK DEF Counts, IInv, ChainOK, OthersOK
  <2> QED BY <2>1, <2>2 DEF Progress
<1>4. y.pc \in Steps => y.order \in DOMAIN y.rows
  BY DEF TickSound
<1>5. ASSUME y.pc \in {"wait", "record"}
      PROVE  /\ txs'[y.tx].state # "unsent" /\ txs'[y.tx].order = y.order
             /\ y.pc = "wait" /\ txs'[y.tx].state = "success" =>
                   y.rows[y.order].executed < txs'[y.tx].rank
             /\ y.pc = "record" => txs'[y.tx].state = "success"
  <2>1. y.tx \in TxIds /\ y.order \in DOMAIN y.rows /\ y.order \in Orders
    BY <1>1, <1>2, <1>4, <1>5 DEF TickStates, Steps
  <2>2. /\ txs[y.tx].state # "unsent" /\ txs[y.tx].order = y.order
        /\ y.pc = "wait" /\ txs[y.tx].state = "success" =>
              y.rows[y.order].executed < txs[y.tx].rank
        /\ y.pc = "record" => txs[y.tx].state = "success"
        /\ y.rows[y.order].executed <= fills[y.order]
    BY <1>5, <2>1 DEF TickSound
  <2>3. /\ y.rows[y.order].executed \in Nat /\ fills[y.order] \in Nat
        /\ txs'[y.tx].state # "unsent" => txs'[y.tx].rank \in Nat
    BY <1>2, <2>1, ConstantsOK DEF Counts, IInv, ChainOK, Txs, TxStates
  <2> QED BY <2>1, <2>2, <2>3 DEF Progress
<1> QED BY <1>1, <1>3, <1>4, <1>5 DEF TickSound

\* Every step.
LEMMA StepInv ==
  ASSUME IInv, Progress, ChainOK', RepairOK', OthersOK', RowsWritten,
         tick' \in [Ticks -> TickStates],
         \A t \in Ticks : TickSound(tick'[t]) \/ TickSound(tick[t])'
  PROVE  IInv'
<1>1. \A o \in Orders : RowOK(o)'
  BY RowsStep
<1>2. \A t \in Ticks : TickSound(tick[t])'
  BY TicksStep
<1> QED BY <1>1, <1>2 DEF IInv, RowsWritten

\* Every step that leaves the chain, the transactions, the execution rows and the repair
\* alone.
LEMMA TickStepInv ==
  ASSUME IInv, UNCHANGED world, OthersOK',
         \A o \in Orders : orderMisses[o] <= orderMisses'[o],
         RowsWritten, tick' \in [Ticks -> TickStates],
         \A t \in Ticks : TickSound(tick'[t])
  PROVE  IInv'
<1>1. UNCHANGED <<terms, fills, due, expired, executions, txs, repair>> /\ UNCHANGED Signed
  BY DEF world, contract, Signed, Life!Signed
<1>2. ChainOK' /\ RepairOK'
  BY <1>1 DEF IInv, ChainOK, RepairOK
<1>3. Progress
  BY <1>1, ConstantsOK DEF Progress, IInv, ChainOK, OthersOK
<1> QED BY <1>2, <1>3, RowsStep, TicksStep DEF IInv, RowsWritten

-----------------------------------------------------------------------------
(* The pieces that the actions of a tick are made of.                      *)

LEMMA RowFacts ==
  ASSUME IInv, NEW o \in Signed
  PROVE  /\ o \in Orders /\ row[o] \in Rows /\ RowSound(o, row[o], orderMisses[o])
         /\ orderMisses[o] \in 0 .. MaxCycleFailures
BY DEF IInv, ChainOK, RowOK, RowSound, OthersOK

\* A write that is sound, or lost.
LEMMA WriteStep ==
  ASSUME IInv, NEW o \in Signed, NEW r, Write(o, r), UNCHANGED Signed,
         RowSound(o, r, orderMisses'[o])
  PROVE  RowsWritten /\ lockOld' \subseteq Orders /\ faults' \in 0 .. MaxFaults
<1>1. o \in Orders /\ r \in Rows
  BY RowFacts DEF RowSound
<1>2. CASE Patch(o, r)
  <2>1. row' = [row EXCEPT ![o] = r]
    BY <1>2 DEF Patch
  <2>2. row' \in [Orders -> Rows \cup {NoRow}]
    BY <1>1, <2>1 DEF IInv
  <2>3. row'[o] = r /\ \A p \in Orders \ {o} : row'[p] = row[p]
    BY <1>1, <2>1 DEF IInv
  <2>4. RowsWritten
    BY <2>2, <2>3 DEF RowsWritten
  <2> QED BY <1>2, <2>4 DEF Patch, IInv, OthersOK
<1>3. CASE UNCHANGED <<row, lockOld>> /\ Fault
  <2>1. faults' \in 0 .. MaxFaults
    BY <1>3, ConstantsOK DEF Fault, IInv, OthersOK
  <2> QED BY <1>3, <2>1 DEF RowsWritten, IInv, OthersOK
<1> QED BY <1>2, <1>3 DEF Write

LEMMA RowsKept ==
  ASSUME IInv, UNCHANGED <<row, Signed>>
  PROVE  RowsWritten
BY DEF RowsWritten, IInv

LEMMA FaultType ==
  ASSUME IInv, Fault
  PROVE  faults' \in 0 .. MaxFaults
BY ConstantsOK DEF Fault, IInv, OthersOK

LEMMA TicksKept ==
  ASSUME IInv, UNCHANGED tick
  PROVE  tick' \in [Ticks -> TickStates] /\ \A t \in Ticks : TickSound(tick'[t])
BY DEF IInv

LEMMA OneTick ==
  ASSUME IInv, NEW t \in Ticks, NEW y, TickSound(y), tick' = [tick EXCEPT ![t] = y]
  PROVE  tick' \in [Ticks -> TickStates] /\ \A s \in Ticks : TickSound(tick'[s])
<1>1. y \in TickStates
  BY DEF TickSound
<1>2. tick' \in [Ticks -> TickStates]
  BY <1>1 DEF IInv
<1>3. ASSUME NEW s \in Ticks PROVE TickSound(tick'[s])
  <2>1. CASE s = t
    <3>1. tick'[s] = y
      BY <2>1 DEF IInv
    <3> QED BY <3>1
  <2>2. CASE s # t
    <3>1. tick'[s] = tick[s]
      BY <2>2 DEF IInv
    <3>2. TickSound(tick[s])
      BY DEF IInv
    <3> QED BY <3>1, <3>2
  <2> QED BY <2>1, <2>2
<1> QED BY <1>2, <1>3

LEMMA RestStep ==
  ASSUME IInv, NEW t \in Ticks, tick' = [tick EXCEPT ![t] = Rest]
  PROVE  tick' \in [Ticks -> TickStates] /\ \A s \in Ticks : TickSound(tick'[s])
<1>1. TickSound(Rest)
  BY RestIsSound DEF TickSound, Steps
<1> QED BY <1>1, OneTick

LEMMA FinishedStep ==
  ASSUME IInv, NEW t \in Ticks, NEW o, Finished(t, o)
  PROVE  tick' \in [Ticks -> TickStates] /\ \A s \in Ticks : TickSound(tick'[s])
<1> DEFINE rows == Restrict(tick[t].rows, DOMAIN tick[t].rows \ {o})
<1>1. /\ DOMAIN rows \subseteq DOMAIN tick[t].rows
      /\ \A p \in DOMAIN rows : rows[p] = tick[t].rows[p]
      /\ rows = [p \in DOMAIN rows |-> rows[p]]
  BY DEF Restrict
<1>2. rows \in Fetched
  <2> HIDE DEF rows
  <2>1. DOMAIN rows \subseteq Orders /\ \A p \in DOMAIN rows : rows[p] \in Counts
    BY <1>1, CopiesSound
  <2> QED BY <1>1, <2>1, FetchedFacts
<1>3. \A p \in DOMAIN rows : /\ p \in Signed
                             /\ rows[p].executed <= fills[p]
                             /\ rows[p].failures <= orderMisses[p]
  <2> HIDE DEF rows
  <2> QED BY <1>1, CopiesSound
<1>4. tick' = [tick EXCEPT ![t] = Continue(rows)]
  BY DEF Finished, IInv
<1> HIDE DEF rows
<1>5. TickSound(Continue(rows))
  BY <1>2, <1>3, ContinueSound
<1> QED BY <1>4, <1>5, OneTick

LEMMA AtStep ==
  ASSUME IInv, NEW t \in Ticks, NEW step \in {"check", "build"},
         NEW o \in DOMAIN tick[t].rows, tick' = At(t, step, o)
  PROVE  tick' \in [Ticks -> TickStates] /\ \A s \in Ticks : TickSound(tick'[s])
<1> DEFINE y == [pc |-> step, rows |-> tick[t].rows, order |-> o, tx |-> NoTx]
<1>1. tick' = [tick EXCEPT ![t] = y]
  BY DEF At, IInv
<1>2. o \in Orders /\ tick[t].rows \in Fetched
  BY CopiesSound
<1>3. TickSound(y)
  BY <1>2, CopiesSound DEF TickSound, TickStates, Steps
<1> HIDE DEF y
<1> QED BY <1>1, <1>3, OneTick

\* The order of a tick that is past its choice.
LEMMA StepOrder ==
  ASSUME IInv, NEW t \in Ticks, tick[t].pc \in Steps
  PROVE  tick[t].order \in DOMAIN tick[t].rows /\ tick[t].order \in Signed
BY CopiesSound DEF IInv, TickSound

LEMMA StatusSound ==
  ASSUME IInv, NEW o \in Signed, NEW status \in Statuses \ {"executed"}
  PROVE  RowSound(o, WithStatus(o, status), orderMisses[o]) /\ WithStatus(o, status) \in Rows
BY RowFacts DEF WithStatus, RowSound, Rows

\* The plan for a miss counts from the copy, which had no more misses than there were.
LEMMA MissPlanSound ==
  ASSUME IInv, NEW t \in Ticks, NEW o \in DOMAIN tick[t].rows,
         NEW cause \in {"infra", "order", "permanent"},
         orderMisses' = IF cause = "infra" THEN orderMisses
                        ELSE [orderMisses EXCEPT ![o] = OneMore(@)]
  PROVE  /\ RowSound(o, MissPlan(t, o, cause), orderMisses'[o])
         /\ orderMisses' \in [Orders -> 0 .. MaxCycleFailures]
         /\ \A p \in Orders : orderMisses[p] <= orderMisses'[p]
<1> DEFINE copy == tick[t].rows[o]
           n == OneMore(copy.failures)
<1>1. /\ o \in Signed /\ o \in Orders /\ row[o] \in Rows
      /\ RowSound(o, row[o], orderMisses[o]) /\ orderMisses[o] \in 0 .. MaxCycleFailures
      /\ copy \in Counts /\ copy.failures <= orderMisses[o]
  BY CopiesSound, RowFacts
<1>2. orderMisses \in [Orders -> 0 .. MaxCycleFailures]
  BY DEF IInv, OthersOK
<1>3. \A m \in 0 .. MaxCycleFailures : OneMore(m) \in 0 .. MaxCycleFailures /\ m <= OneMore(m)
  BY ConstantsOK DEF OneMore
<1>4. /\ orderMisses' \in [Orders -> 0 .. MaxCycleFailures]
      /\ \A p \in Orders : orderMisses[p] <= orderMisses'[p]
      /\ cause # "infra" => orderMisses'[o] = OneMore(orderMisses[o])
  <2>1. CASE cause = "infra"
    BY <1>2, <2>1, ConstantsOK
  <2>2. CASE cause # "infra"
    <3>1. OneMore(orderMisses[o]) \in 0 .. MaxCycleFailures /\ orderMisses[o] <= OneMore(orderMisses[o])
      BY <1>1, <1>3
    <3> QED BY <1>1, <1>2, <2>2, <3>1, ConstantsOK
  <2> QED BY <2>1, <2>2
<1>5. /\ n \in 0 .. MaxCycleFailures
      /\ cause # "infra" => n <= orderMisses'[o]
  BY <1>1, <1>3, <1>4, ConstantsOK DEF OneMore, Counts
<1>6. /\ row[o].executed <= fills[o] /\ row[o].failures <= orderMisses'[o]
      /\ row[o].error = "retries" => orderMisses'[o] = MaxCycleFailures
  BY <1>1, <1>4, ConstantsOK DEF RowSound, Rows
<1> DEFINE m == orderMisses'[o]
<1>7. m \in 0 .. MaxCycleFailures
  BY <1>1, <1>4
<1>8. cause = "order" /\ ~(n < MaxCycleFailures) => m = MaxCycleFailures
  BY <1>5, <1>7, ConstantsOK
<1> HIDE DEF n, m
<1>9. RowSound(o, MissPlan(t, o, cause), m)
  <2>1. CASE o \in expired
    <3>1. MissPlan(t, o, cause) = [row[o] EXCEPT !.status = "expired"]
      BY <2>1 DEF MissPlan, WithStatus
    <3> QED BY <1>1, <1>6, <3>1 DEF RowSound, Rows, Statuses, m
  <2>2. CASE o \notin expired /\ cause = "infra"
    <3>1. MissPlan(t, o, cause) = [row[o] EXCEPT !.status = "active"]
      BY <2>2 DEF MissPlan, WithStatus
    <3> QED BY <1>1, <1>6, <3>1 DEF RowSound, Rows, Statuses, m
  <2>3. CASE o \notin expired /\ cause = "permanent"
    <3>1. MissPlan(t, o, cause) =
             [row[o] EXCEPT !.status = "failed", !.error = "permanent", !.failures = n]
      BY <2>3 DEF MissPlan, n
    <3> QED BY <1>1, <1>5, <1>6, <2>3, <3>1 DEF RowSound, Rows, Statuses, m
  <2>4. CASE o \notin expired /\ cause = "order" /\ n < MaxCycleFailures
    <3>1. MissPlan(t, o, cause) = [row[o] EXCEPT !.status = "active", !.failures = n]
      BY <2>4 DEF MissPlan, n
    <3> QED BY <1>1, <1>5, <1>6, <2>4, <3>1 DEF RowSound, Rows, Statuses, m
  <2>5. CASE o \notin expired /\ cause = "order" /\ ~(n < MaxCycleFailures)
    <3>1. MissPlan(t, o, cause) =
             [row[o] EXCEPT !.status = "failed", !.error = "retries", !.failures = n]
      BY <2>5 DEF MissPlan, n
    <3> QED BY <1>1, <1>5, <1>6, <1>8, <2>5, <3>1 DEF RowSound, Rows, Statuses, m
  <2> QED BY <2>1, <2>2, <2>3, <2>4, <2>5
<1> QED BY <1>4, <1>9 DEF m

LEMMA HandleFailureStep ==
  ASSUME IInv, NEW t \in Ticks, NEW o \in DOMAIN tick[t].rows,
         NEW cause \in {"infra", "order", "permanent"}, HandleExecutionFailure(t, o, cause)
  PROVE  IInv'
<1>1. UNCHANGED world /\ UNCHANGED Signed /\ o \in Signed /\ o \in Orders
  BY CopiesSound DEF HandleExecutionFailure, world, contract, Signed, Life!Signed
<1>2. orderMisses' = IF cause = "infra" THEN orderMisses
                     ELSE [orderMisses EXCEPT ![o] = OneMore(@)]
  BY DEF HandleExecutionFailure
<1>3. /\ RowSound(o, MissPlan(t, o, cause), orderMisses'[o])
      /\ orderMisses' \in [Orders -> 0 .. MaxCycleFailures]
      /\ \A p \in Orders : orderMisses[p] <= orderMisses'[p]
  BY <1>2, MissPlanSound
<1>4. RowsWritten /\ lockOld' \subseteq Orders /\ faults' \in 0 .. MaxFaults
  BY <1>1, <1>3, WriteStep DEF HandleExecutionFailure
<1>5. missed' \subseteq Orders
  BY <1>1 DEF HandleExecutionFailure, IInv, OthersOK
<1>6. tick' \in [Ticks -> TickStates] /\ \A s \in Ticks : TickSound(tick'[s])
  BY FinishedStep DEF HandleExecutionFailure
<1> QED BY <1>1, <1>3, <1>4, <1>5, <1>6, TickStepInv DEF OthersOK

-----------------------------------------------------------------------------
(* Steps that write a status to a row, or nothing.                         *)

LEMMA WorldFacts ==
  ASSUME IInv, UNCHANGED world
  PROVE  UNCHANGED Signed
BY DEF world, contract, Signed, Life!Signed

\* A status is written, or lost, and no miss is counted.
LEMMA StatusStep ==
  ASSUME IInv, UNCHANGED <<orderMisses, world>>, NEW o \in Signed,
         NEW status \in Statuses \ {"executed"}, Write(o, WithStatus(o, status)),
         missed' \subseteq Orders,
         tick' \in [Ticks -> TickStates], \A s \in Ticks : TickSound(tick'[s])
  PROVE  IInv'
<1>1. UNCHANGED Signed
  BY WorldFacts
<1>2. RowSound(o, WithStatus(o, status), orderMisses'[o])
  BY StatusSound
<1>3. RowsWritten /\ lockOld' \subseteq Orders /\ faults' \in 0 .. MaxFaults
  BY <1>1, <1>2, WriteStep
<1>4. OthersOK' /\ \A p \in Orders : orderMisses[p] <= orderMisses'[p]
  BY <1>3, ConstantsOK DEF IInv, OthersOK
<1> QED BY <1>3, <1>4, TickStepInv

\* The rows stay as they are.
LEMMA NoWriteStep ==
  ASSUME IInv, UNCHANGED <<row, orderMisses, world>>, lockOld' \subseteq Orders,
         missed' \subseteq Orders, faults' \in 0 .. MaxFaults,
         tick' \in [Ticks -> TickStates], \A s \in Ticks : TickSound(tick'[s])
  PROVE  IInv'
<1>1. RowsWritten
  BY WorldFacts, RowsKept
<1>2. OthersOK' /\ \A p \in Orders : orderMisses[p] <= orderMisses'[p]
  BY ConstantsOK DEF IInv, OthersOK
<1> QED BY <1>1, <1>2, TickStepInv

LEMMA CancelRowStep ==
  ASSUME IInv, NEW o \in Orders, CancelRow(o)
  PROVE  IInv'
<1>1. o \in Signed
  BY DEF CancelRow, IInv, RowOK, NoRow
<1>2. Write(o, WithStatus(o, "cancelled")) /\ UNCHANGED <<tick, missed, orderMisses, world>>
  BY DEF CancelRow, Write
<1>3. missed' \subseteq Orders
  BY <1>2 DEF IInv, OthersOK
<1> QED BY <1>1, <1>2, <1>3, TicksKept, StatusStep DEF Statuses

LEMMA LockAgesStep ==
  ASSUME IInv, NEW o \in Orders, LockAges(o)
  PROVE  IInv'
<1>1. /\ lockOld' \subseteq Orders /\ missed' \subseteq Orders /\ faults' \in 0 .. MaxFaults
      /\ UNCHANGED <<tick, row, orderMisses, world>>
  BY DEF LockAges, IInv, OthersOK
<1> QED BY <1>1, TicksKept, NoWriteStep

LEMMA UnlockStaleStep ==
  ASSUME IInv, NEW t \in Ticks, UnlockStaleOrders(t)
  PROVE  IInv'
<1> DEFINE y == [tick[t] EXCEPT !.pc = "fetch"]
<1>1. UNCHANGED <<missed, orderMisses, world>> /\ missed' \subseteq Orders
      /\ tick' = [tick EXCEPT ![t] = y] /\ tick[t].pc = "rest"
  BY DEF UnlockStaleOrders, IInv, OthersOK
<1>2. /\ y \in TickStates /\ y.pc = "fetch" /\ y.rows = tick[t].rows
      /\ y.tx = tick[t].tx
  BY <1>1 DEF IInv, TickStates
<1>3. TickSound(y)
  BY <1>2, CopiesSound DEF TickSound, Steps
<1> HIDE DEF y
<1>4. tick' \in [Ticks -> TickStates] /\ \A s \in Ticks : TickSound(tick'[s])
  BY <1>1, <1>3, OneTick
<1>5. CASE UNCHANGED <<row, lockOld>> /\ Fault
  BY <1>1, <1>4, <1>5, FaultType, NoWriteStep DEF IInv, OthersOK
<1>6. CASE /\ row' = [o \in Orders |-> AfterUnlock(o)]
           /\ lockOld' = {o \in lockOld : AfterUnlock(o) = row[o]}
           /\ UNCHANGED faults
  <2>1. UNCHANGED Signed
    BY <1>1, WorldFacts
  <2>2. ASSUME NEW o \in Orders
        PROVE  /\ row'[o] \in Rows \cup {NoRow}
               /\ \/ row'[o] = row[o]
                  \/ o \in Signed /\ RowSound(o, row'[o], orderMisses'[o])
    <3>1. CASE row[o].status = "executing" /\ o \in lockOld
      <4>1. row'[o] = WithStatus(o, "active")
        BY <1>6, <3>1 DEF AfterUnlock
      <4>2. o \in Signed
        BY <3>1 DEF IInv, RowOK, NoRow
      <4> QED BY <1>1, <4>1, <4>2, StatusSound DEF Statuses
    <3>2. CASE ~(row[o].status = "executing" /\ o \in lockOld)
      BY <1>6, <3>2 DEF AfterUnlock, IInv
    <3> QED BY <3>1, <3>2
  <2>3. RowsWritten
    BY <1>6, <2>1, <2>2 DEF RowsWritten
  <2>4. OthersOK' /\ \A p \in Orders : orderMisses[p] <= orderMisses'[p]
    BY <1>1, <1>6, ConstantsOK DEF IInv, OthersOK
  <2> QED BY <1>1, <1>4, <2>3, <2>4, TickStepInv
<1> QED BY <1>5, <1>6 DEF UnlockStaleOrders

LEMMA FetchStep ==
  ASSUME IInv, NEW t \in Ticks, FetchActiveOrders(t)
  PROVE  IInv'
<1> DEFINE rows == [o \in Active |-> CountsOf(o)]
<1>1. /\ UNCHANGED <<row, lockOld, missed, orderMisses, world>>
      /\ lockOld' \subseteq Orders /\ missed' \subseteq Orders
  BY DEF FetchActiveOrders, IInv, OthersOK
<1>2. \A o \in Active : /\ o \in Signed /\ CountsOf(o) \in Counts
                        /\ CountsOf(o).executed <= fills[o]
                        /\ CountsOf(o).failures <= orderMisses[o]
  <2> SUFFICES ASSUME NEW o \in Active
               PROVE  /\ o \in Signed /\ CountsOf(o) \in Counts
                      /\ CountsOf(o).executed <= fills[o]
                      /\ CountsOf(o).failures <= orderMisses[o]
    OBVIOUS
  <2>1. o \in Orders /\ o \in Signed
    BY DEF Active, IInv, RowOK, NoRow
  <2> QED BY <2>1, RowFacts DEF CountsOf, Counts, RowSound, Rows
<1>3. DOMAIN rows = Active /\ Active \subseteq Orders /\ \A o \in Active : rows[o] = CountsOf(o)
  BY DEF Active
<1>4. rows = [o \in DOMAIN rows |-> rows[o]]
  OBVIOUS
<1> HIDE DEF rows
<1>5. rows \in Fetched
  BY <1>2, <1>3, <1>4, FetchedFacts
<1>6. TickSound(Continue(rows))
  BY <1>2, <1>3, <1>5, ContinueSound
<1>7. CASE tick' = [tick EXCEPT ![t] = Continue(rows)] /\ UNCHANGED faults
  <2>1. faults' \in 0 .. MaxFaults
    BY <1>7 DEF IInv, OthersOK
  <2> QED BY <1>1, <1>6, <1>7, <2>1, OneTick, NoWriteStep
<1>8. CASE tick' = [tick EXCEPT ![t] = Rest] /\ Fault
  BY <1>1, <1>8, RestStep, FaultType, NoWriteStep
<1> QED BY <1>7, <1>8 DEF FetchActiveOrders, rows

LEMMA RecordExpiryStep ==
  ASSUME IInv, NEW t \in Ticks, NEW o, RecordExpiry(t, o)
  PROVE  IInv'
<1>1. o \in Signed /\ Write(o, WithStatus(o, "expired")) /\ UNCHANGED <<orderMisses, world>>
  BY CopiesSound DEF RecordExpiry
<1>2. missed' \subseteq Orders
  BY DEF RecordExpiry, IInv, OthersOK
<1>3. tick' \in [Ticks -> TickStates] /\ \A s \in Ticks : TickSound(tick'[s])
  BY FinishedStep DEF RecordExpiry
<1> QED BY <1>1, <1>2, <1>3, StatusStep DEF Statuses

LEMMA SkipInBackoffStep ==
  ASSUME IInv, NEW t \in Ticks, NEW o, SkipInBackoff(t, o)
  PROVE  IInv'
<1>1. tick' \in [Ticks -> TickStates] /\ \A s \in Ticks : TickSound(tick'[s])
  BY FinishedStep DEF SkipInBackoff
<1>2. lockOld' \subseteq Orders /\ missed' \subseteq Orders /\ faults' \in 0 .. MaxFaults
  BY DEF SkipInBackoff, IInv, OthersOK
<1> QED BY <1>1, <1>2, NoWriteStep DEF SkipInBackoff

LEMMA LockOrderStep ==
  ASSUME IInv, NEW t \in Ticks, NEW o, LockOrder(t, o)
  PROVE  IInv'
<1>1. /\ o \in DOMAIN tick[t].rows /\ o \in Signed /\ o \in Orders
      /\ UNCHANGED <<missed, orderMisses, world>> /\ missed' \subseteq Orders
      /\ UNCHANGED Signed
  BY CopiesSound, WorldFacts DEF LockOrder, IInv, OthersOK
<1>2. CASE row[o].status # "active"
  <2>1. Finished(t, o) /\ UNCHANGED <<row, lockOld, faults>>
    BY <1>2 DEF LockOrder
  <2>2. lockOld' \subseteq Orders /\ faults' \in 0 .. MaxFaults
    BY <2>1 DEF IInv, OthersOK
  <2> QED BY <1>1, <2>1, <2>2, FinishedStep, NoWriteStep
<1>3. CASE row[o].status = "active"
  <2>1. /\ row' = [row EXCEPT ![o].status = "executing"] /\ lockOld' = lockOld \ {o}
        /\ \/ tick' = At(t, "check", o) /\ UNCHANGED faults
           \/ Finished(t, o) /\ Fault
    BY <1>3 DEF LockOrder
  <2>2. row' = [row EXCEPT ![o] = WithStatus(o, "executing")]
    BY <1>1, <2>1 DEF WithStatus, IInv
  <2>3. RowSound(o, WithStatus(o, "executing"), orderMisses'[o])
    BY <1>1, StatusSound DEF Statuses
  <2>4. WithStatus(o, "executing") \in Rows
    BY <2>3 DEF RowSound
  <2>5. RowsWritten
    <3>1. row'[o] = WithStatus(o, "executing") /\ \A p \in Orders \ {o} : row'[p] = row[p]
      BY <1>1, <2>2 DEF IInv
    <3>2. row' \in [Orders -> Rows \cup {NoRow}]
      BY <2>2, <2>4 DEF IInv
    <3> QED BY <1>1, <2>3, <3>1, <3>2 DEF RowsWritten
  <2>6. tick' \in [Ticks -> TickStates] /\ \A s \in Ticks : TickSound(tick'[s])
    BY <1>1, <2>1, AtStep, FinishedStep
  <2>7. faults' \in 0 .. MaxFaults
    BY <2>1, FaultType DEF IInv, OthersOK
  <2>8. OthersOK' /\ \A p \in Orders : orderMisses[p] <= orderMisses'[p]
    BY <1>1, <2>1, <2>7, ConstantsOK DEF IInv, OthersOK
  <2> QED BY <1>1, <2>5, <2>6, <2>8, TickStepInv
<1> QED BY <1>2, <1>3

LEMMA CanExecuteStep ==
  ASSUME IInv, NEW t \in Ticks, CanExecute(t)
  PROVE  IInv'
<1>1. tick[t].order \in DOMAIN tick[t].rows
  BY StepOrder DEF CanExecute, Steps
<1>2. tick' \in [Ticks -> TickStates] /\ \A s \in Ticks : TickSound(tick'[s])
  BY <1>1, AtStep DEF CanExecute
<1>3. lockOld' \subseteq Orders /\ missed' \subseteq Orders /\ faults' \in 0 .. MaxFaults
  BY DEF CanExecute, IInv, OthersOK
<1> QED BY <1>2, <1>3, NoWriteStep DEF CanExecute

LEMMA UnlockStep ==
  ASSUME IInv, NEW t \in Ticks, PutOff(t) \/ HoldBack(t) \/ SkipByGasTier(t)
  PROVE  IInv'
<1>1. tick[t].order \in Signed
  BY StepOrder DEF PutOff, HoldBack, SkipByGasTier, Steps
<1>2. /\ Write(tick[t].order, WithStatus(tick[t].order, "active"))
      /\ UNCHANGED <<missed, orderMisses, world>> /\ missed' \subseteq Orders
  BY DEF PutOff, HoldBack, SkipByGasTier, Unlock, IInv, OthersOK
<1>3. tick' \in [Ticks -> TickStates] /\ \A s \in Ticks : TickSound(tick'[s])
  BY FinishedStep, RestStep DEF PutOff, HoldBack, SkipByGasTier
<1> QED BY <1>1, <1>2, <1>3, StatusStep DEF Statuses

LEMMA MissSteps ==
  ASSUME IInv, NEW t \in Ticks,
         \/ \E o \in Orders : LockThrows(t, o)
         \/ InfraMiss(t)
         \/ \E cause \in RevertCauses : OrderMiss(t, cause)
         \/ ReceiptReverted(t) \/ ReceiptUnavailable(t)
  PROVE  IInv'
<1>1. CASE \E o \in Orders : LockThrows(t, o)
  BY <1>1, HandleFailureStep DEF LockThrows
<1>2. CASE InfraMiss(t) \/ ReceiptUnavailable(t)
  <2>1. tick[t].order \in DOMAIN tick[t].rows
    BY <1>2, StepOrder DEF InfraMiss, ReceiptUnavailable, Steps
  <2> QED BY <1>2, <2>1, HandleFailureStep DEF InfraMiss, ReceiptUnavailable
<1>3. CASE \E cause \in RevertCauses : OrderMiss(t, cause)
  <2>1. tick[t].order \in DOMAIN tick[t].rows
    BY <1>3, StepOrder DEF OrderMiss, Steps
  <2> QED BY <1>3, <2>1, HandleFailureStep DEF OrderMiss, RevertCauses
<1>4. CASE ReceiptReverted(t)
  <2>1. tick[t].order \in DOMAIN tick[t].rows
    BY <1>4, StepOrder DEF ReceiptReverted, Steps
  <2> QED BY <1>4, <2>1, HandleFailureStep DEF ReceiptReverted
<1> QED BY <1>1, <1>2, <1>3, <1>4

LEMMA PinnedRouteStep ==
  ASSUME IInv, NEW t \in Ticks, PinnedRouteRevert(t)
  PROVE  IInv'
<1>1. tick[t].order \in Signed /\ tick[t].order \in Orders
  BY StepOrder, CopiesSound DEF PinnedRouteRevert, Steps
<1>2. /\ Write(tick[t].order, WithStatus(tick[t].order, "active"))
      /\ UNCHANGED <<orderMisses, world>> /\ missed' \subseteq Orders
  BY <1>1 DEF PinnedRouteRevert, IInv, OthersOK
<1>3. tick' \in [Ticks -> TickStates] /\ \A s \in Ticks : TickSound(tick'[s])
  BY FinishedStep DEF PinnedRouteRevert
<1> QED BY <1>1, <1>2, <1>3, StatusStep DEF Statuses

LEMMA TickFailsStep ==
  ASSUME IInv, NEW t \in Ticks, TickFails(t)
  PROVE  IInv'
<1>1. lockOld' \subseteq Orders /\ missed' \subseteq Orders
  BY DEF TickFails, IInv, OthersOK
<1> QED BY <1>1, RestStep, FaultType, NoWriteStep DEF TickFails

LEMMA CrashStep ==
  ASSUME IInv, Crash
  PROVE  IInv'
<1>1. lockOld' \subseteq Orders /\ missed' \subseteq Orders
  BY DEF Crash, IInv, OthersOK
<1>2. TickSound(Rest)
  BY RestIsSound DEF TickSound, Steps
<1>3. tick' \in [Ticks -> TickStates] /\ \A s \in Ticks : tick'[s] = Rest
  BY RestIsSound DEF Crash
<1>4. \A s \in Ticks : TickSound(tick'[s])
  BY <1>2, <1>3
<1> QED BY <1>1, <1>3, <1>4, FaultType, NoWriteStep DEF Crash

-----------------------------------------------------------------------------
(* Steps of the chain.                                                     *)

\* What the chain's steps leave alone.
LEMMA KeptByChain ==
  ASSUME IInv, UNCHANGED <<lockOld, missed, orderMisses, faults>>
  PROVE  OthersOK' /\ \A p \in Orders : orderMisses[p] <= orderMisses'[p]
BY ConstantsOK DEF IInv, OthersOK

LEMMA CreateOrderStep ==
  ASSUME IInv, NEW o \in Orders, NEW u \in {Limit, Dca}, CreateOrder(o, u)
  PROVE  IInv'
<1>1. /\ row[o] = NoRow /\ o \notin Signed
      /\ row' = [row EXCEPT ![o].status = "active"]
      /\ UNCHANGED <<fills, due, expired, executions, txs, tick, repair>>
      /\ UNCHANGED <<lockOld, missed, orderMisses, faults>>
      /\ terms' = [p \in Signed \cup {o} |-> IF p = o THEN u ELSE terms[p]]
  BY DEF CreateOrder, Life!Sign, Signed
<1>2. Signed' = Signed \cup {o}
  BY <1>1 DEF Signed, Life!Signed
<1>3. terms'[o] = u /\ \A p \in Signed : terms'[p] = terms[p]
  BY <1>1
<1>4. Progress
  BY <1>1, <1>2, <1>3, ConstantsOK DEF Progress, IInv, ChainOK, OthersOK
<1>5. ChainOK'
  <2>1. \A p \in Signed' : terms'[p] \in {Limit, Dca}
    BY <1>1, <1>2, <1>3 DEF IInv, ChainOK
  <2>2. \A p \in Orders : fills'[p] <= IF p \in Signed' THEN terms'[p].total ELSE 0
    <3> SUFFICES ASSUME NEW p \in Orders
                 PROVE  fills'[p] <= IF p \in Signed' THEN terms'[p].total ELSE 0
      OBVIOUS
    <3>1. CASE p = o
      <4>1. fills[p] \in Nat /\ fills[p] <= 0 /\ u.total \in Nat
        BY <1>1, <3>1, ConstantsOK DEF IInv, ChainOK, Limit, Dca
      <4> QED BY <1>1, <1>2, <1>3, <3>1, <4>1
    <3>2. CASE p # o
      BY <1>1, <1>2, <1>3, <3>2 DEF IInv, ChainOK
    <3> QED BY <3>1, <3>2
  <2>3. Signed' \subseteq Orders
    BY <1>2 DEF IInv, ChainOK
  <2> QED BY <1>1, <1>2, <2>1, <2>2, <2>3 DEF IInv, ChainOK
<1>6. RowsWritten
  <2>1. row'[o] = [NoRow EXCEPT !.status = "active"] /\ \A p \in Orders \ {o} : row'[p] = row[p]
    BY <1>1 DEF IInv
  <2>2. row'[o] \in Rows
    BY <2>1, ConstantsOK DEF NoRow, Rows, Statuses
  <2>3. RowOK(o)'
    BY <1>1, <1>2, <2>1, <2>2, ConstantsOK
       DEF RowOK, RowSound, NoRow, IInv, ChainOK, OthersOK
  <2>4. row' \in [Orders -> Rows \cup {NoRow}]
    BY <1>1, <2>1, <2>2 DEF IInv
  <2> QED BY <1>2, <2>1, <2>3, <2>4 DEF RowsWritten
<1>7. RepairOK'
  BY <1>1 DEF IInv, RepairOK
<1> QED BY <1>1, <1>4, <1>5, <1>6, <1>7, KeptByChain, TicksKept, StepInv

LEMMA TimeSteps ==
  ASSUME IInv, NEW o \in Orders, Expire(o) \/ IntervalElapses(o)
  PROVE  IInv'
<1>1. /\ UNCHANGED <<terms, fills, executions, txs, tick, repair, row>>
      /\ UNCHANGED <<lockOld, missed, orderMisses, faults>>
      /\ due' \subseteq Orders /\ expired' \subseteq Orders
  BY DEF Expire, IntervalElapses, Life!Close, Life!Elapse, IInv, ChainOK
<1>2. UNCHANGED Signed
  BY <1>1 DEF Signed, Life!Signed
<1>3. ChainOK' /\ RepairOK'
  BY <1>1, <1>2 DEF IInv, ChainOK, RepairOK
<1>4. Progress
  BY <1>1, <1>2, ConstantsOK DEF Progress, IInv, ChainOK, OthersOK
<1> QED BY <1>1, <1>2, <1>3, <1>4, KeptByChain, RowsKept, TicksKept, StepInv

\* The fill gets the number after those of the order's fills before it.
LEMMA FillStep ==
  ASSUME IInv, NEW x \in TxIds, Fill(x)
  PROVE  IInv'
<1> DEFINE o == txs[x].order
           n == fills[o] + 1
<1>1. /\ txs[x].state = "pending" /\ o \in Signed /\ o \in Orders
      /\ fills[o] \in Nat /\ terms[o].total \in Nat /\ terms[o].total <= DcaTotal
      /\ fills[o] < terms[o].total
  BY ConstantsOK DEF Fill, Life!Fill, Life!CanFill, Signed, IInv, ChainOK, Limit, Dca
<1>2. /\ UNCHANGED <<terms, executions, tick, repair, row>>
      /\ UNCHANGED <<lockOld, missed, orderMisses, faults>>
      /\ due' \subseteq Orders /\ expired' \subseteq Orders
      /\ fills' = [fills EXCEPT ![o] = n]
  BY <1>1 DEF Fill, Life!Fill, IInv, ChainOK
<1>3. UNCHANGED Signed
  BY <1>2 DEF Signed, Life!Signed
<1>4. n \in 1 .. DcaTotal /\ n <= terms[o].total /\ n > fills[o]
  BY <1>1, ConstantsOK
<1>5. fills' \in [Orders -> 0 .. DcaTotal] /\ fills'[o] = n
      /\ \A p \in Orders \ {o} : fills'[p] = fills[p]
  <2> HIDE DEF n
  <2> QED BY <1>1, <1>2, <1>4, ConstantsOK DEF IInv, ChainOK
<1> DEFINE y == [txs[x] EXCEPT !.state = "success", !.rank = n]
<1>6. txs' = [txs EXCEPT ![x] = y]
  <2> HIDE DEF n
  <2> QED BY <1>5 DEF Fill, IInv, ChainOK
<1>7. txs[x] \in [order : Orders, state : TxStates \ {"unsent"}, rank : 0 .. DcaTotal]
  BY <1>1 DEF IInv, ChainOK, Txs
<1>8. /\ y \in Txs /\ y.order = o /\ y.state = "success" /\ y.rank = n
  <2> HIDE DEF n
  <2>1. n \in 0 .. DcaTotal
    BY <1>4
  <2> QED BY <1>7, <2>1 DEF Txs, TxStates
<1> HIDE DEF o, n, y
<1>9. txs' \in [TxIds -> Txs] /\ txs'[x] = y /\ \A z \in TxIds \ {x} : txs'[z] = txs[z]
  BY <1>6, <1>8 DEF IInv, ChainOK
<1>10. Progress
  <2>1. \A p \in Orders : fills[p] \in Nat /\ orderMisses[p] \in Nat
    BY ConstantsOK DEF IInv, ChainOK, OthersOK
  <2>2. \A p \in Orders : fills[p] <= fills'[p]
    BY <1>4, <1>5, <2>1
  <2>3. \A p \in Orders : orderMisses[p] <= orderMisses'[p]
    BY <1>2, <2>1
  <2>4. txs[x].state = "pending" /\ txs[x].order = o
    BY <1>1 DEF o
  <2>5. \A z \in TxIds : txs[z].state # "unsent" =>
          /\ txs'[z].state # "unsent" /\ txs'[z].order = txs[z].order
          /\ txs[z].state = "success" => txs'[z].state = "success" /\ txs'[z].rank = txs[z].rank
          /\ txs[z].state # "success" /\ txs'[z].state = "success" =>
                txs'[z].rank > fills[txs[z].order]
    BY <1>4, <1>8, <1>9, <2>4
  <2> QED BY <1>2, <1>3, <2>2, <2>3, <2>5 DEF Progress
<1>11. ChainOK'
  <2>1. \A p \in Orders : fills'[p] <= IF p \in Signed' THEN terms'[p].total ELSE 0
    <3> SUFFICES ASSUME NEW p \in Orders
                 PROVE  fills'[p] <= IF p \in Signed' THEN terms'[p].total ELSE 0
      OBVIOUS
    <3>1. CASE p = o
      BY <1>1, <1>2, <1>3, <1>4, <1>5, <3>1 DEF o
    <3>2. CASE p # o
      BY <1>2, <1>3, <1>5, <3>2 DEF IInv, ChainOK
    <3> QED BY <3>1, <3>2
  <2>2. \A z \in TxIds : txs'[z].state # "unsent" => txs'[z].order \in Signed'
    BY <1>1, <1>3, <1>8, <1>9 DEF IInv, ChainOK, o
  <2>3. \A z \in TxIds : txs'[z].state = "success" => txs'[z].rank \in 1 .. fills'[txs'[z].order]
    <3> SUFFICES ASSUME NEW z \in TxIds, txs'[z].state = "success"
                 PROVE  txs'[z].rank \in 1 .. fills'[txs'[z].order]
      OBVIOUS
    <3>1. CASE z = x
      <4>1. txs'[z].rank = n /\ fills'[txs'[z].order] = n
        BY <1>5, <1>8, <1>9, <3>1
      <4> QED BY <1>4, <4>1, ConstantsOK
    <3>2. CASE z # x
      <4>1. txs'[z] = txs[z] /\ txs[z].rank \in 1 .. fills[txs[z].order]
            /\ txs[z].order \in Orders
        BY <1>9, <3>2 DEF IInv, ChainOK
      <4>2. fills[txs[z].order] <= fills'[txs[z].order]
            /\ fills[txs[z].order] \in Nat /\ fills'[txs[z].order] \in Nat
        BY <1>5, <1>10, <4>1, ConstantsOK DEF Progress, IInv, ChainOK
      <4> QED BY <4>1, <4>2
    <3> QED BY <3>1, <3>2
  <2>4. ASSUME NEW z \in TxIds \ {x}, txs'[z].state = "success", txs'[z].order = o
        PROVE  txs'[z].rank # n
    <3>1. txs[z].rank \in 1 .. fills[o] /\ txs'[z] = txs[z]
      BY <1>9, <2>4 DEF IInv, ChainOK
    <3> QED BY <1>1, <1>4, <3>1 DEF o
  <2>5. \A z, w \in TxIds :
          /\ txs'[z].state = "success" /\ txs'[w].state = "success"
          /\ txs'[z].order = txs'[w].order /\ txs'[z].rank = txs'[w].rank
          => z = w
    <3> SUFFICES ASSUME NEW z \in TxIds, NEW w \in TxIds,
                        txs'[z].state = "success", txs'[w].state = "success",
                        txs'[z].order = txs'[w].order, txs'[z].rank = txs'[w].rank
                 PROVE  z = w
      OBVIOUS
    <3>1. CASE z # x /\ w # x
      BY <1>9, <3>1 DEF IInv, ChainOK
    <3>2. CASE z = x
      BY <1>8, <1>9, <2>4, <3>2
    <3>3. CASE w = x
      BY <1>8, <1>9, <2>4, <3>3
    <3> QED BY <3>1, <3>2, <3>3
  <2>6. executions' \subseteq {z \in TxIds : txs'[z].state = "success"}
    BY <1>2, <1>8, <1>9 DEF IInv, ChainOK
  <2>7. Signed' \subseteq Orders /\ \A p \in Signed' : terms'[p] \in {Limit, Dca}
    BY <1>2, <1>3 DEF IInv, ChainOK
  <2> QED BY <1>2, <1>5, <1>9, <2>1, <2>2, <2>3, <2>5, <2>6, <2>7 DEF ChainOK
<1>12. RepairOK'
  BY <1>2, <1>8, <1>9 DEF IInv, RepairOK, Repairs
<1> QED BY <1>2, <1>3, <1>10, <1>11, <1>12, KeptByChain, RowsKept, TicksKept, StepInv

LEMMA RevertStep ==
  ASSUME IInv, NEW x \in TxIds, Revert(x)
  PROVE  IInv'
<1> DEFINE y == [txs[x] EXCEPT !.state = "reverted"]
<1>1. /\ txs[x].state = "pending"
      /\ UNCHANGED <<terms, fills, due, expired, executions, tick, repair, row>>
      /\ UNCHANGED <<lockOld, missed, orderMisses, faults>>
      /\ txs' = [txs EXCEPT ![x] = y]
  BY DEF Revert, contract, IInv, ChainOK
<1>2. UNCHANGED Signed
  BY <1>1 DEF Signed, Life!Signed
<1>3. txs[x] \in [order : Orders, state : TxStates \ {"unsent"}, rank : 0 .. DcaTotal]
  BY <1>1 DEF IInv, ChainOK, Txs
<1>4. y \in Txs /\ y.order = txs[x].order /\ y.state = "reverted"
  BY <1>3 DEF Txs, TxStates
<1> HIDE DEF y
<1>5. txs' \in [TxIds -> Txs] /\ txs'[x] = y /\ \A z \in TxIds \ {x} : txs'[z] = txs[z]
  BY <1>1, <1>4 DEF IInv, ChainOK
<1>6. \A z \in TxIds : /\ txs'[z].state = "success" => txs'[z] = txs[z]
                       /\ txs[z].state = "success" => txs'[z] = txs[z]
                       /\ txs'[z].state # "unsent" <=> txs[z].state # "unsent"
                       /\ txs[z].state # "unsent" => txs'[z].order = txs[z].order
  BY <1>1, <1>4, <1>5
<1>7. Progress
  <2>1. \A p \in Orders : fills[p] <= fills'[p] /\ orderMisses[p] <= orderMisses'[p]
    BY <1>1, ConstantsOK DEF IInv, ChainOK, OthersOK
  <2> QED BY <1>1, <1>2, <1>6, <2>1 DEF Progress
<1>8. ChainOK'
  <2>1. ASSUME NEW z \in TxIds, txs'[z].state # "unsent"
        PROVE  txs'[z].order \in Signed'
    <3>1. txs[z].state # "unsent" /\ txs'[z].order = txs[z].order
      BY <1>6, <2>1
    <3> QED BY <1>2, <3>1 DEF IInv, ChainOK
  <2>2. ASSUME NEW z \in TxIds, txs'[z].state = "success"
        PROVE  txs'[z].rank \in 1 .. fills'[txs'[z].order]
    <3>1. txs'[z] = txs[z] /\ fills' = fills
      BY <1>1, <1>6, <2>2
    <3>2. txs[z].rank \in 1 .. fills[txs[z].order]
      BY <2>2, <3>1 DEF IInv, ChainOK
    <3> QED BY <3>1, <3>2
  <2>3. ASSUME NEW z \in TxIds, NEW w \in TxIds,
               txs'[z].state = "success", txs'[w].state = "success",
               txs'[z].order = txs'[w].order, txs'[z].rank = txs'[w].rank
        PROVE  z = w
    <3>1. txs'[z] = txs[z] /\ txs'[w] = txs[w]
      BY <1>6, <2>3
    <3> QED BY <2>3, <3>1 DEF IInv, ChainOK
  <2>4. executions' \subseteq {z \in TxIds : txs'[z].state = "success"}
    BY <1>1, <1>6 DEF IInv, ChainOK
  <2>5. /\ Signed' \subseteq Orders /\ \A p \in Signed' : terms'[p] \in {Limit, Dca}
        /\ fills' \in [Orders -> 0 .. DcaTotal]
        /\ \A p \in Orders : fills'[p] <= IF p \in Signed' THEN terms'[p].total ELSE 0
        /\ due' \subseteq Orders /\ expired' \subseteq Orders
    BY <1>1, <1>2 DEF IInv, ChainOK
  <2> QED BY <1>5, <2>1, <2>2, <2>3, <2>4, <2>5 DEF ChainOK
<1>9. RepairOK'
  BY <1>1, <1>6 DEF IInv, RepairOK, Repairs
<1> QED BY <1>1, <1>2, <1>7, <1>8, <1>9, KeptByChain, RowsKept, TicksKept, StepInv

-----------------------------------------------------------------------------
(* The transaction, its receipt, and the repair.                           *)

\* The transaction is sent after the copy was made: it has no number yet.
LEMMA WriteContractStep ==
  ASSUME IInv, NEW t \in Ticks, WriteContract(t)
  PROVE  IInv'
<1> DEFINE o == tick[t].order
<1>1. PICK x \in TxIds :
         /\ tick[t].pc = "build"
         /\ \A y \in TxIds : txs[y].state = "unsent" <=> y >= x
         /\ txs' = [txs EXCEPT ![x] = [order |-> o, state |-> "pending", rank |-> 0]]
         /\ tick' = [tick EXCEPT ![t].pc = "wait", ![t].tx = x]
         /\ UNCHANGED <<terms, fills, due, expired, executions, repair, row>>
         /\ UNCHANGED <<lockOld, missed, orderMisses, faults>>
  BY DEF WriteContract, contract
<1>2. UNCHANGED Signed
  BY <1>1 DEF Signed, Life!Signed
<1>3. /\ o \in DOMAIN tick[t].rows /\ o \in Signed /\ o \in Orders
      /\ tick[t].rows[o].executed \in Nat
  BY <1>1, StepOrder, CopiesSound DEF Steps
<1>4. txs[x].state = "unsent"
  BY <1>1 DEF TxIds
<1> DEFINE tx == [order |-> o, state |-> "pending", rank |-> 0]
           y  == [tick[t] EXCEPT !.pc = "wait", !.tx = x]
<1>5. tx \in Txs /\ tx.state = "pending" /\ tx.order = o
  <2> HIDE DEF o
  <2> QED BY <1>3, ConstantsOK DEF Txs, TxStates
<1>6. tick' = [tick EXCEPT ![t] = y]
  BY <1>1 DEF IInv
<1>7. /\ y \in TickStates /\ y.pc = "wait" /\ y.tx = x
      /\ y.rows = tick[t].rows /\ y.order = o
  BY <1>1 DEF IInv, TickStates
<1>8. txs' = [txs EXCEPT ![x] = tx]
  BY <1>1
<1> HIDE DEF tx, y
<1>9. txs' \in [TxIds -> Txs] /\ txs'[x] = tx /\ \A z \in TxIds \ {x} : txs'[z] = txs[z]
  BY <1>5, <1>8 DEF IInv, ChainOK
<1>10. \A z \in TxIds : /\ txs'[z].state = "success" => txs'[z] = txs[z]
                        /\ txs[z].state # "unsent" => txs'[z] = txs[z]
  BY <1>4, <1>5, <1>9
<1>11. Progress
  <2>1. \A p \in Orders : fills[p] <= fills'[p] /\ orderMisses[p] <= orderMisses'[p]
    BY <1>1, ConstantsOK DEF IInv, ChainOK, OthersOK
  <2> QED BY <1>1, <1>2, <1>10, <2>1 DEF Progress
<1>12. ChainOK'
  <2>1. ASSUME NEW z \in TxIds, txs'[z].state # "unsent"
        PROVE  txs'[z].order \in Signed'
    BY <1>2, <1>3, <1>5, <1>9, <2>1 DEF IInv, ChainOK
  <2>2. ASSUME NEW z \in TxIds, txs'[z].state = "success"
        PROVE  txs'[z].rank \in 1 .. fills'[txs'[z].order]
    <3>1. txs'[z] = txs[z] /\ fills' = fills
      BY <1>1, <1>10, <2>2
    <3>2. txs[z].rank \in 1 .. fills[txs[z].order]
      BY <2>2, <3>1 DEF IInv, ChainOK
    <3> QED BY <3>1, <3>2
  <2>3. ASSUME NEW z \in TxIds, NEW w \in TxIds,
               txs'[z].state = "success", txs'[w].state = "success",
               txs'[z].order = txs'[w].order, txs'[z].rank = txs'[w].rank
        PROVE  z = w
    <3>1. txs'[z] = txs[z] /\ txs'[w] = txs[w]
      BY <1>10, <2>3
    <3> QED BY <2>3, <3>1 DEF IInv, ChainOK
  <2>4. executions' \subseteq {z \in TxIds : txs'[z].state = "success"}
    BY <1>1, <1>10 DEF IInv, ChainOK
  <2>5. /\ Signed' \subseteq Orders /\ \A p \in Signed' : terms'[p] \in {Limit, Dca}
        /\ fills' \in [Orders -> 0 .. DcaTotal]
        /\ \A p \in Orders : fills'[p] <= IF p \in Signed' THEN terms'[p].total ELSE 0
        /\ due' \subseteq Orders /\ expired' \subseteq Orders
    BY <1>1, <1>2 DEF IInv, ChainOK
  <2> QED BY <1>9, <2>1, <2>2, <2>3, <2>4, <2>5 DEF ChainOK
<1>13. RepairOK'
  BY <1>1, <1>10 DEF IInv, RepairOK, Repairs
<1>14. ASSUME NEW s \in Ticks
       PROVE  TickSound(tick'[s]) \/ TickSound(tick[s])'
  <2>1. CASE s # t
    <3>1. tick'[s] = tick[s] /\ TickSound(tick[s])
      BY <1>6, <2>1 DEF IInv
    <3> QED BY <3>1
  <2>2. CASE s = t
    <3>1. tick'[s] = y
      BY <1>6, <2>2 DEF IInv
    <3>2. txs'[x].state = "pending" /\ txs'[x].order = o
      BY <1>5, <1>9
    <3>3. \A p \in DOMAIN tick[t].rows :
             /\ p \in Signed' /\ tick[t].rows[p].executed <= fills'[p]
             /\ tick[t].rows[p].failures <= orderMisses'[p]
      BY <1>1, <1>2, CopiesSound
    <3> HIDE DEF o
    <3> QED BY <1>3, <1>7, <3>1, <3>2, <3>3 DEF TickSound, Steps
  <2> QED BY <2>1, <2>2
<1>15. tick' \in [Ticks -> TickStates]
  BY <1>6, <1>7 DEF IInv
<1>16. OthersOK' /\ RowsWritten
  BY <1>1, <1>2, KeptByChain, RowsKept
<1> QED BY <1>11, <1>12, <1>13, <1>14, <1>15, <1>16, StepInv

\* The number of the fill is above the copy's count, and at most the fills there are.
LEMMA FillPatchSound ==
  ASSUME IInv, NEW t \in Ticks, tick[t].pc = "wait", txs[tick[t].tx].state = "success"
  PROVE  RowSound(tick[t].order, FillPatch(t), orderMisses[tick[t].order])
<1> DEFINE o == tick[t].order
           x == tick[t].tx
           n == tick[t].rows[o].executed + 1
<1>1. /\ o \in DOMAIN tick[t].rows /\ o \in Signed /\ o \in Orders
      /\ tick[t].rows[o].executed \in Nat
  BY StepOrder, CopiesSound DEF Steps
<1>2. x \in TxIds
  BY DEF IInv, TickStates
<1>3. txs[x].order = o /\ tick[t].rows[o].executed < txs[x].rank
  BY DEF IInv, TickSound
<1>4. txs[x].rank \in 1 .. fills[o]
  BY <1>2, <1>3 DEF IInv, ChainOK
<1>5. terms[o] \in {Limit, Dca} /\ fills[o] \in 0 .. DcaTotal /\ fills[o] <= terms[o].total
  BY <1>1 DEF IInv, ChainOK
<1>6. n \in 0 .. DcaTotal /\ n <= fills[o] /\ fills[o] >= 1 /\ fills[o] \in Nat
  BY <1>1, <1>3, <1>4, <1>5, ConstantsOK
<1>7. row[o] \in Rows /\ RowSound(o, row[o], orderMisses[o]) /\ orderMisses[o] \in 0 .. MaxCycleFailures
  BY <1>1, RowFacts
<1> HIDE DEF o, n
<1>8. CASE terms[o] = Limit
  <2>1. FillPatch(t) = [row[o] EXCEPT !.status = "executed", !.failures = 0]
    BY <1>8 DEF FillPatch, IsDca, Limit, o
  <2>2. fills[o] = terms[o].total
    BY <1>5, <1>6, <1>8 DEF Limit
  <2>3. FillPatch(t) \in Rows
    <3>1. 0 \in 0 .. MaxCycleFailures /\ row[o] \in Rows
      BY <1>7, ConstantsOK
    <3> QED BY <2>1, <3>1 DEF Rows, Statuses
  <2>4. /\ FillPatch(t).executed = row[o].executed /\ FillPatch(t).failures = 0
        /\ FillPatch(t).error = row[o].error
    BY <1>7, <2>1 DEF Rows
  <2>5. RowSound(o, FillPatch(t), orderMisses[o])
    BY <1>7, <2>2, <2>3, <2>4 DEF RowSound
  <2> QED BY <2>5 DEF o
<1>9. CASE terms[o] = Dca
  <2>1. FillPatch(t) = [row[o] EXCEPT !.status = IF n >= DcaTotal THEN "executed" ELSE "active",
                                      !.executed = n, !.failures = 0]
    BY <1>9 DEF FillPatch, IsDca, Dca, o, n
  <2>2. n >= DcaTotal => fills[o] = terms[o].total
    BY <1>5, <1>6, <1>9, ConstantsOK DEF Dca
  <2>3. FillPatch(t) \in Rows
    <3>1. 0 \in 0 .. MaxCycleFailures /\ row[o] \in Rows /\ n \in 0 .. DcaTotal
      BY <1>6, <1>7, ConstantsOK
    <3> DEFINE status == IF n >= DcaTotal THEN "executed" ELSE "active"
    <3>2. status \in Statuses
      BY DEF Statuses
    <3>3. FillPatch(t) = [row[o] EXCEPT !.status = status, !.executed = n, !.failures = 0]
      BY <2>1
    <3> HIDE DEF status
    <3> QED BY <3>1, <3>2, <3>3 DEF Rows
  <2>4. /\ FillPatch(t).status = "executed" => n >= DcaTotal
        /\ FillPatch(t).executed = n /\ FillPatch(t).failures = 0
        /\ FillPatch(t).error = row[o].error
    BY <1>7, <2>1 DEF Rows
  <2>5. RowSound(o, FillPatch(t), orderMisses[o])
    BY <1>6, <1>7, <2>2, <2>3, <2>4 DEF RowSound
  <2> QED BY <2>5 DEF o
<1> QED BY <1>5, <1>8, <1>9

LEMMA ReceiptSuccessStep ==
  ASSUME IInv, NEW t \in Ticks, ReceiptSuccess(t)
  PROVE  IInv'
<1> DEFINE o == tick[t].order
           y == [tick[t] EXCEPT !.pc = "record"]
<1>1. /\ tick[t].pc = "wait" /\ txs[tick[t].tx].state = "success"
      /\ Write(o, FillPatch(t)) /\ UNCHANGED <<orderMisses, world>>
      /\ tick' = [tick EXCEPT ![t] = y]
  BY DEF ReceiptSuccess, IInv
<1>2. o \in Signed /\ o \in Orders /\ o \in DOMAIN tick[t].rows
  BY <1>1, StepOrder, CopiesSound DEF Steps
<1>3. RowSound(o, FillPatch(t), orderMisses'[o])
  BY <1>1, FillPatchSound
<1>4. missed' \subseteq Orders
  BY DEF ReceiptSuccess, IInv, OthersOK
<1>5. /\ y \in TickStates /\ y.pc = "record" /\ y.rows = tick[t].rows
      /\ y.order = o /\ y.tx = tick[t].tx
  BY <1>1 DEF IInv, TickStates
<1>6. TickSound(y)
  <2>1. txs[tick[t].tx].order = o
    BY <1>1 DEF IInv, TickSound
  <2> HIDE DEF y, o
  <2> QED BY <1>1, <1>2, <1>5, <2>1, CopiesSound DEF TickSound, Steps
<1> HIDE DEF y
<1>7. tick' \in [Ticks -> TickStates] /\ \A s \in Ticks : TickSound(tick'[s])
  BY <1>1, <1>6, OneTick
<1>8. UNCHANGED Signed
  BY <1>1, WorldFacts
<1>9. RowsWritten /\ lockOld' \subseteq Orders /\ faults' \in 0 .. MaxFaults
  BY <1>1, <1>2, <1>3, <1>8, WriteStep
<1>10. OthersOK' /\ \A p \in Orders : orderMisses[p] <= orderMisses'[p]
  BY <1>1, <1>4, <1>9, ConstantsOK DEF IInv, OthersOK
<1> QED BY <1>1, <1>7, <1>9, <1>10, TickStepInv

\* Steps that add fills to the execution rows.
LEMMA RecordStep ==
  ASSUME IInv, UNCHANGED <<terms, fills, due, expired, txs, missed, orderMisses>>,
         NEW x \in TxIds, txs[x].state = "success", executions' \subseteq executions \cup {x},
         RepairOK', RowsWritten, lockOld' \subseteq Orders, faults' \in 0 .. MaxFaults,
         tick' \in [Ticks -> TickStates], \A s \in Ticks : TickSound(tick'[s])
  PROVE  IInv'
<1>1. UNCHANGED Signed
  BY DEF Signed, Life!Signed
<1>2. executions' \subseteq {z \in TxIds : txs'[z].state = "success"}
  BY DEF IInv, ChainOK
<1>3. ChainOK'
  BY <1>1, <1>2 DEF IInv, ChainOK
<1>4. OthersOK' /\ \A p \in Orders : orderMisses[p] <= orderMisses'[p]
  BY ConstantsOK DEF IInv, OthersOK
<1>5. Progress
  BY <1>1, <1>4, ConstantsOK DEF Progress, IInv, ChainOK
<1> QED BY <1>3, <1>4, <1>5, StepInv

LEMMA RecordExecutionStep ==
  ASSUME IInv, NEW t \in Ticks, RecordExecutionRow(t)
  PROVE  IInv'
<1> DEFINE x == tick[t].tx
<1>1. x \in TxIds /\ txs[x].state = "success"
  BY DEF RecordExecutionRow, IInv, TickStates, TickSound
<1>2. /\ UNCHANGED <<terms, fills, due, expired, txs, missed, orderMisses, row, lockOld, repair>>
      /\ executions' \subseteq executions \cup {x}
  BY DEF RecordExecutionRow, contract
<1>3. RepairOK' /\ lockOld' \subseteq Orders /\ UNCHANGED Signed
  BY <1>2 DEF IInv, RepairOK, OthersOK, Signed, Life!Signed
<1>4. faults' \in 0 .. MaxFaults
  BY FaultType DEF RecordExecutionRow, IInv, OthersOK
<1>5. tick' \in [Ticks -> TickStates] /\ \A s \in Ticks : TickSound(tick'[s])
  BY FinishedStep, RestStep DEF RecordExecutionRow
<1> HIDE DEF x
<1> QED BY <1>1, <1>2, <1>3, <1>4, <1>5, RowsKept, RecordStep

LEMMA BackfillReadStep ==
  ASSUME IInv, NEW x \in TxIds, BackfillRead(x)
  PROVE  IInv'
<1> DEFINE r == row[txs[x].order]
           read == [open |-> r.status \in {"active", "executing"}, executed |-> r.executed]
<1>1. /\ txs[x].state = "success" /\ repair' = [tx |-> x, read |-> read]
      /\ UNCHANGED <<terms, fills, due, expired, txs, tick, missed, orderMisses, row, lockOld,
                     executions, faults>>
  BY DEF BackfillRead, Missing, contract
<1>2. r \in Rows
  <2>1. txs[x].order \in Signed
    BY <1>1 DEF IInv, ChainOK
  <2> QED BY <2>1, RowFacts
<1>3. read \in RepairReads
  BY <1>2 DEF RepairReads, Rows
<1> HIDE DEF read
<1>4. repair' \in Repairs
  BY <1>1, <1>3 DEF Repairs
<1>5. RepairOK'
  BY <1>1, <1>4 DEF RepairOK
<1>6. lockOld' \subseteq Orders /\ faults' \in 0 .. MaxFaults /\ UNCHANGED Signed
  BY <1>1 DEF IInv, OthersOK, Signed, Life!Signed
<1> QED BY <1>1, <1>5, <1>6, RowsKept, TicksKept, RecordStep

\* The number of the fill that is recorded is at most the fills there are.
LEMMA BackfillPatchSound ==
  ASSUME IInv, NEW x \in TxIds, txs[x].state = "success", NEW read \in RepairReads
  PROVE  RowSound(txs[x].order, BackfillPatch(txs[x].order, read, txs[x].rank),
                  orderMisses[txs[x].order])
<1> DEFINE o == txs[x].order
           rank == txs[x].rank
<1>1. o \in Signed /\ o \in Orders /\ rank \in 1 .. fills[o]
  BY DEF IInv, ChainOK
<1>2. /\ fills[o] \in 0 .. DcaTotal /\ terms[o].total \in Nat /\ fills[o] <= terms[o].total
  BY <1>1, ConstantsOK DEF IInv, ChainOK, Limit, Dca
<1>3. row[o] \in Rows /\ RowSound(o, row[o], orderMisses[o])
  BY <1>1, RowFacts
<1>4. /\ rank \in 0 .. DcaTotal /\ rank <= fills[o] /\ rank \in Nat /\ fills[o] \in Nat
      /\ rank >= terms[o].total => fills[o] = terms[o].total
  BY <1>1, <1>2, ConstantsOK
<1> HIDE DEF o, rank
<1> DEFINE executed == IF read.executed < rank THEN rank ELSE row[o].executed
           status == IF ~read.open THEN row[o].status
                     ELSE IF rank >= terms[o].total THEN "executed" ELSE "active"
<1>5. executed \in 0 .. DcaTotal /\ executed <= fills[o]
  BY <1>3, <1>4 DEF RowSound, Rows
<1>6. status \in Statuses /\ (status = "executed" => fills[o] = terms[o].total)
  BY <1>3, <1>4 DEF RowSound, Rows, Statuses
<1>7. BackfillPatch(o, read, rank) = [row[o] EXCEPT !.executed = executed, !.status = status]
  BY <1>3 DEF BackfillPatch, Rows
<1> HIDE DEF executed, status
<1>8. RowSound(o, BackfillPatch(o, read, rank), orderMisses[o])
  BY <1>3, <1>5, <1>6, <1>7 DEF RowSound, Rows
<1> QED BY <1>8 DEF o, rank

LEMMA BackfillWriteStep ==
  ASSUME IInv, BackfillWrite
  PROVE  IInv'
<1> DEFINE x == repair.tx
           o == txs[x].order
           r == BackfillPatch(o, repair.read, txs[x].rank)
<1>1. x \in TxIds /\ txs[x].state = "success" /\ repair.read \in RepairReads
  BY DEF BackfillWrite, IInv, RepairOK, Repairs
<1>2. o \in Signed
  BY <1>1 DEF IInv, ChainOK
<1>3. RowSound(o, r, orderMisses[o])
  BY <1>1, BackfillPatchSound
<1>4. /\ \/ executions' = executions \cup {x} /\ Write(o, r)
         \/ /\ Fault
            /\ row' = [row EXCEPT ![o] = r]
            /\ lockOld' = lockOld \ {o}
            /\ UNCHANGED executions
      /\ repair' = NoRepair
      /\ UNCHANGED <<terms, fills, due, expired, txs, tick, missed, orderMisses>>
  BY DEF BackfillWrite, contract
<1>5. UNCHANGED Signed /\ RepairOK'
  BY <1>4 DEF Signed, Life!Signed, RepairOK
<1> HIDE DEF x, o, r
<1>6. executions' \subseteq executions \cup {x}
  BY <1>4
<1>7. RowsWritten /\ lockOld' \subseteq Orders /\ faults' \in 0 .. MaxFaults
  <2>1. CASE Write(o, r)
    BY <1>2, <1>3, <1>4, <1>5, <2>1, WriteStep
  <2>2. CASE Fault /\ row' = [row EXCEPT ![o] = r] /\ lockOld' = lockOld \ {o}
    <3>1. r \in Rows /\ o \in Orders
      BY <1>2, <1>3, RowFacts DEF RowSound
    <3>2. row' \in [Orders -> Rows \cup {NoRow}]
      BY <2>2, <3>1 DEF IInv
    <3>3. row'[o] = r /\ \A p \in Orders \ {o} : row'[p] = row[p]
      BY <2>2, <3>1 DEF IInv
    <3>4. RowsWritten
      BY <1>2, <1>3, <1>4, <1>5, <3>2, <3>3 DEF RowsWritten
    <3> QED BY <2>2, <3>4, FaultType DEF IInv, OthersOK
  <2> QED BY <1>4, <2>1, <2>2
<1> QED BY <1>1, <1>4, <1>5, <1>6, <1>7, TicksKept, RecordStep

-----------------------------------------------------------------------------
(* The theorems.                                                           *)

LEMMA InitInv ==
  ASSUME Init
  PROVE  IInv
<1>1. Signed = {}
  BY DEF Init, Signed, Life!Signed
<1>2. ChainOK
  BY <1>1, ConstantsOK DEF Init, ChainOK, Txs, TxStates
<1>3. row \in [Orders -> Rows \cup {NoRow}] /\ \A o \in Orders : RowOK(o)
  BY <1>1 DEF Init, RowOK
<1>4. TickSound(Rest) /\ Rest \in TickStates
  BY RestIsSound DEF TickSound, Steps
<1>5. tick \in [Ticks -> TickStates] /\ \A t \in Ticks : tick[t] = Rest
  BY <1>4 DEF Init
<1>6. \A t \in Ticks : TickSound(tick[t])
  BY <1>4, <1>5
<1>7. RepairOK /\ OthersOK
  BY ConstantsOK DEF Init, RepairOK, OthersOK
<1> QED BY <1>2, <1>3, <1>5, <1>6, <1>7 DEF IInv

LEMMA StutterInv ==
  ASSUME IInv, UNCHANGED vars
  PROVE  IInv'
<1>1. UNCHANGED world /\ lockOld' \subseteq Orders /\ missed' \subseteq Orders
      /\ faults' \in 0 .. MaxFaults /\ UNCHANGED <<row, orderMisses, tick>>
  BY DEF vars, world, contract, IInv, OthersOK
<1> QED BY <1>1, TicksKept, NoWriteStep

LEMMA TickStepKeepsInv ==
  ASSUME IInv, NEW t \in Ticks, TickStep(t)
  PROVE  IInv'
<1>1. CASE FetchActiveOrders(t)
  BY <1>1, FetchStep
<1>2. CASE \E o \in Orders : RecordExpiry(t, o) \/ SkipInBackoff(t, o) \/ LockOrder(t, o)
  BY <1>2, RecordExpiryStep, SkipInBackoffStep, LockOrderStep
<1>3. CASE CanExecute(t)
  BY <1>3, CanExecuteStep
<1>4. CASE PutOff(t) \/ HoldBack(t) \/ SkipByGasTier(t)
  BY <1>4, UnlockStep
<1>5. CASE \/ \E o \in Orders : LockThrows(t, o)
           \/ InfraMiss(t) \/ \E cause \in RevertCauses : OrderMiss(t, cause)
           \/ ReceiptReverted(t) \/ ReceiptUnavailable(t)
  BY <1>5, MissSteps
<1>6. CASE PinnedRouteRevert(t)
  BY <1>6, PinnedRouteStep
<1>7. CASE WriteContract(t)
  BY <1>7, WriteContractStep
<1>8. CASE ReceiptSuccess(t)
  BY <1>8, ReceiptSuccessStep
<1>9. CASE RecordExecutionRow(t)
  BY <1>9, RecordExecutionStep
<1> QED BY <1>1, <1>2, <1>3, <1>4, <1>5, <1>6, <1>7, <1>8, <1>9 DEF TickStep

THEOREM Invariance == Spec => []IInv
<1>1. Init => IInv
  BY InitInv
<1>2. IInv /\ [Next]_vars => IInv'
  <2> SUFFICES ASSUME IInv, [Next]_vars PROVE IInv'
    OBVIOUS
  <2>1. CASE \E t \in Ticks : UnlockStaleOrders(t) \/ TickStep(t) \/ TickFails(t)
    BY <2>1, UnlockStaleStep, TickStepKeepsInv, TickFailsStep
  <2>2. CASE \E o \in Orders : UserStep(o) \/ Expire(o) \/ IntervalElapses(o) \/ LockAges(o)
    <3>1. PICK o \in Orders : UserStep(o) \/ Expire(o) \/ IntervalElapses(o) \/ LockAges(o)
      BY <2>2
    <3>2. CASE UserStep(o)
      BY <3>2, CreateOrderStep, CancelRowStep DEF UserStep
    <3>3. CASE Expire(o) \/ IntervalElapses(o)
      BY <3>3, TimeSteps
    <3>4. CASE LockAges(o)
      BY <3>4, LockAgesStep
    <3> QED BY <3>1, <3>2, <3>3, <3>4
  <2>3. CASE \E x \in TxIds : Fill(x) \/ Revert(x) \/ BackfillRead(x)
    BY <2>3, FillStep, RevertStep, BackfillReadStep
  <2>4. CASE BackfillWrite
    BY <2>4, BackfillWriteStep
  <2>5. CASE Crash
    BY <2>5, CrashStep
  <2>6. CASE UNCHANGED vars
    BY <2>6, StutterInv
  <2> QED BY <2>1, <2>2, <2>3, <2>4, <2>5, <2>6 DEF Next
<1> QED BY <1>1, <1>2, PTL DEF Spec

LEMMA InvType == IInv => TypeOK
<1> SUFFICES ASSUME IInv PROVE TypeOK
  OBVIOUS
<1>1. Life!Signed = {o \in Orders : row[o] # NoRow}
  <2>1. \A o \in Orders : o \in Signed => row[o] # NoRow
    BY RowFacts DEF Rows, Statuses, NoRow
  <2>2. \A o \in Orders : o \notin Signed => row[o] = NoRow
    BY DEF IInv, RowOK
  <2> QED BY <2>1, <2>2 DEF IInv, ChainOK, Signed
<1>2. ASSUME NEW t \in Ticks
      PROVE  /\ DOMAIN tick[t].rows \subseteq Orders
             /\ \A o \in DOMAIN tick[t].rows : tick[t].rows[o] \in Counts
             /\ \/ tick[t].pc \in {"rest", "fetch", "order"}
                \/ tick[t].pc \in Steps /\ tick[t].order \in DOMAIN tick[t].rows
             /\ tick[t].tx # NoTx <=> tick[t].pc \in {"wait", "record"}
  <2>1. tick[t] \in TickStates
    BY CopiesSound
  <2>2. NoTx \notin TxIds
    BY ConstantsOK DEF NoTx, TxIds
  <2>3. /\ tick[t].pc \in {"rest", "fetch", "order"} \cup Steps
        /\ tick[t].tx # NoTx <=> tick[t].pc \in {"wait", "record"}
    BY <2>1, <2>2 DEF TickStates, Steps
  <2> QED BY <2>3, CopiesSound, StepOrder
<1>3. repair # NoRepair => txs[repair.tx].state = "success" /\ repair.read \in RepairReads
  BY DEF IInv, RepairOK, Repairs
<1> QED BY <1>1, <1>2, <1>3 DEF TypeOK, IInv, ChainOK, OthersOK, Signed

\* Rows, copies, transactions, ticks and the repair are what the actions take them for.
THEOREM TypeCorrect == Spec => []TypeOK
BY Invariance, InvType, PTL

\* The execution rows of an order have distinct numbers among its fills.
LEMMA ExecutionsAreFills ==
  ASSUME IInv, NEW o \in Orders
  PROVE  Cardinality({x \in executions : txs[x].order = o}) <= fills[o]
<1> DEFINE S == {x \in executions : txs[x].order = o}
           f == [x \in S |-> txs[x].rank]
<1>1. fills[o] \in Nat
  BY ConstantsOK DEF IInv, ChainOK
<1>2. \A x \in S : x \in TxIds /\ txs[x].state = "success" /\ txs[x].order = o
  BY DEF IInv, ChainOK
<1>3. f \in [S -> 1 .. fills[o]]
  BY <1>2 DEF IInv, ChainOK
<1>4. \A x, y \in S : f[x] = f[y] => x = y
  <2> SUFFICES ASSUME NEW x \in S, NEW y \in S, f[x] = f[y] PROVE x = y
    OBVIOUS
  <2>1. txs[x].rank = txs[y].rank
    OBVIOUS
  <2> HIDE DEF S
  <2> QED BY <1>2, <2>1 DEF IInv, ChainOK
<1> HIDE DEF S, f
<1>5. f \in Injection(S, 1 .. fills[o])
  BY <1>3, <1>4, Fun_IsInj
<1>6. IsFiniteSet(1 .. fills[o]) /\ Cardinality(1 .. fills[o]) = fills[o]
  <2>1. fills[o] \in Int
    BY <1>1
  <2>2. /\ IsFiniteSet(1 .. fills[o])
        /\ Cardinality(1 .. fills[o]) = IF 1 > fills[o] THEN 0 ELSE fills[o] - 1 + 1
    BY <2>1, FS_Interval
  <2> QED BY <1>1, <2>2
<1>7. Cardinality(S) <= fills[o]
  BY <1>5, <1>6, FS_Injection
<1> QED BY <1>7 DEF S

LEMMA InvRows == IInv => RowNeverAheadOfChain
<1> SUFFICES ASSUME IInv, NEW o \in Orders
             PROVE  /\ row[o].executed <= fills[o]
                    /\ Cardinality({x \in executions : txs[x].order = o}) <= fills[o]
                    /\ row[o].status = "executed" => fills[o] = terms[o].total
  BY DEF RowNeverAheadOfChain
<1>1. Cardinality({x \in executions : txs[x].order = o}) <= fills[o]
  BY ExecutionsAreFills
<1>2. fills[o] \in Nat
  BY ConstantsOK DEF IInv, ChainOK
<1>3. CASE o \in Signed
  BY <1>1, <1>3, RowFacts DEF RowSound
<1>4. CASE o \notin Signed
  BY <1>1, <1>2, <1>4 DEF IInv, RowOK, NoRow
<1> QED BY <1>3, <1>4

\* The table never claims more fills of an order than the chain made, in its counter and
\* in its execution rows, nor an order as executed that has chunks left.
THEOREM RowsFollowTheChain == Spec => []RowNeverAheadOfChain
BY Invariance, InvRows, PTL

LEMMA InvFailures == IInv => FailureIsEarned
<1> SUFFICES ASSUME IInv, NEW o \in Orders
             PROVE  /\ row[o].failures <= orderMisses[o]
                    /\ row[o].error = "retries" => orderMisses[o] = MaxCycleFailures
  BY DEF FailureIsEarned
<1>1. orderMisses[o] \in Nat
  BY ConstantsOK DEF IInv, OthersOK
<1>2. CASE o \in Signed
  BY <1>2, RowFacts DEF RowSound
<1>3. CASE o \notin Signed
  BY <1>1, <1>3 DEF IInv, RowOK, NoRow
<1> QED BY <1>2, <1>3

\* ADR-026: the ladder of an order counts only the misses that the order caused, and an
\* order fails for its retries only after MAX_CYCLE_FAILURES of them.
THEOREM FailuresAreEarned == Spec => []FailureIsEarned
BY Invariance, InvFailures, PTL
=============================================================================
