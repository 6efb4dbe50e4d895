-------------------------- MODULE UsagePipelineProofs --------------------------
(***************************************************************************)
(* Proofs about UsagePipeline for any nodes, users, traffic and failures:  *)
(* no unit of traffic is counted twice or lost unnoticed on its way to the *)
(* history, what waits in Redis or in a paused queue has a job, users are  *)
(* charged once what they owe, and greeted once.                           *)
(***************************************************************************)
EXTENDS UsagePipeline, FunctionTheorems, FiniteSetTheorems, TLAPS

Ledger == [carried : [Nodes -> Usage], ignored : [Nodes -> Usage],
           wiped : [Nodes -> Usage], lossy : SUBSET Nodes, free : BOOLEAN,
           missed : SUBSET Nodes, twice : BOOLEAN, rounded : Usage, greeted : Usage]
Records == [pc : {"idle", "collected", "counted", "charged"}, usage : Usage, bytes : Usage]
Pushes == [pc : {"none", "waiting", "found", "flushing", "ending"}, todo : SUBSET Users]

\* The variables on the way to the history are well typed.
WayOK ==
  /\ meter \in [Nodes -> Usage] /\ buffer \in [Nodes -> Usage]
  /\ batch \in [Nodes -> Usage] /\ history \in [Nodes -> Usage]
  /\ record \in [Nodes -> Records]
  /\ push \in [Nodes -> Pushes]
  /\ ledger \in Ledger

\* Sums and parts of usage are usage.
LEMMA UsageTypes ==
  /\ Zero \in Usage /\ One \in Usage /\ Idle \in Records
  /\ \A f, g \in Usage : Plus(f, g) \in Usage
  /\ \A f \in Usage : \A us : On(us, f) \in Usage
<1>1. Zero \in Usage
  BY DEF Usage, Zero
<1>2. Idle \in Records
  BY <1>1 DEF Records, Idle
<1>3. QED
  BY <1>1, <1>2 DEF Usage, One, Plus, On

\* Bytes are charged for units at a rate, in tenths, rounded down by a byte at most.
LEMMA Rounding ==
  ASSUME NEW n \in Nodes, NEW units \in Nat, NEW r \in MultiplyConsumption(n, units)
  PROVE  /\ r \in Nat /\ 10 * r <= Multiplier[n] * units
         /\ Multiplier[n] * units <= 10 * (r + IF Whole(n) THEN 0 ELSE 1)
<1>1. \A a, b \in Nat : a * b \in Nat
  OBVIOUS
<1>2. Multiplier[n] * units \in Nat
  BY <1>1, UsageConstants
<1>3. QED
  BY <1>2 DEF MultiplyConsumption

\* What is kept of an answer, and what it will cost.
LEMMA AnswerTypes ==
  ASSUME WayOK, NEW n \in Nodes, GetUsersStats(n)
  PROVE  LET usage == On(Above(meter[n]), meter[n]) IN
         /\ usage \in Usage
         /\ \E bytes \in Usage :
              /\ \A u \in Users : bytes[u] \in MultiplyConsumption(n, usage[u])
              /\ record' = [record EXCEPT ![n] = [pc |-> "collected", usage |-> usage,
                                                 bytes |-> bytes]]
<1> DEFINE usage == On(Above(meter[n]), meter[n])
           most  == UNION {MultiplyConsumption(n, usage[u]) : u \in Users}
<1>1. usage \in Usage
  BY UsageTypes DEF WayOK
<1>2. PICK bytes \in [Users -> most] :
        /\ \A u \in Users : bytes[u] \in MultiplyConsumption(n, usage[u])
        /\ record' = [record EXCEPT ![n] = [pc |-> "collected", usage |-> usage,
                                           bytes |-> bytes]]
  BY DEF GetUsersStats
<1>3. \A u \in Users : usage[u] \in Nat
  BY <1>1 DEF Usage
<1> HIDE DEF usage, most
<1>4. \A u \in Users : bytes[u] \in Nat
  BY <1>2, <1>3, Rounding
<1>5. bytes \in Usage
  BY <1>2, <1>4 DEF Usage
<1>6. QED
  BY <1>1, <1>2, <1>5 DEF usage

\* What a job that ends early leaves of the ledger.
LEMMA UnrecordedTypes ==
  ASSUME WayOK, NEW ns \in SUBSET Nodes
  PROVE  /\ Unrecorded(ns) \in Ledger
         /\ Unrecorded(ns).wiped = ledger.wiped /\ Unrecorded(ns).carried = ledger.carried
         /\ Unrecorded(ns).ignored = ledger.ignored /\ Unrecorded(ns).twice = ledger.twice
         /\ Unrecorded(ns).rounded = ledger.rounded /\ Unrecorded(ns).greeted = ledger.greeted
         /\ Unrecorded(ns).lossy = ledger.lossy \cup {n \in ns : record[n].pc = "collected"}
         /\ Unrecorded(ns).free
              = (ledger.free \/ \E n \in ns : record[n].pc \in {"collected", "counted"})
         /\ Unrecorded(ns).missed
              = ledger.missed \cup {n \in ns : record[n].pc \in {"counted", "charged"}}
<1> DEFINE lost  == {n \in ns : record[n].pc = "collected"}
           late  == {n \in ns : record[n].pc \in {"counted", "charged"}}
           freed == \E n \in ns : record[n].pc \in {"collected", "counted"}
<1>1. lost \subseteq Nodes /\ late \subseteq Nodes /\ ledger.free \in BOOLEAN /\ freed \in BOOLEAN
  BY DEF WayOK, Ledger
<1>2. Unrecorded(ns) = [ledger EXCEPT !.lossy = @ \cup lost, !.free = @ \/ freed,
                                      !.missed = @ \cup late]
  BY DEF Unrecorded
<1> HIDE DEF lost, late, freed
<1>3. Unrecorded(ns) \in Ledger
  BY <1>1, <1>2 DEF WayOK, Ledger
<1>4. /\ Unrecorded(ns).wiped = ledger.wiped /\ Unrecorded(ns).carried = ledger.carried
      /\ Unrecorded(ns).ignored = ledger.ignored /\ Unrecorded(ns).twice = ledger.twice
      /\ Unrecorded(ns).rounded = ledger.rounded /\ Unrecorded(ns).greeted = ledger.greeted
      /\ Unrecorded(ns).lossy = ledger.lossy \cup lost
      /\ Unrecorded(ns).free = (ledger.free \/ freed)
      /\ Unrecorded(ns).missed = ledger.missed \cup late
  BY <1>2 DEF WayOK, Ledger
<1>5. QED
  BY <1>3, <1>4 DEF lost, late, freed

LEMMA WayInit == Init => WayOK
BY UsageTypes DEF Init, WayOK, Records, Pushes, Ledger

\* The steps that leave the way alone.
Aside ==
  \/ \E c \in charges : ChargeStep(c) \/ FailCharge(c)
  \/ AddReset \/ ResetStep \/ AddClean \/ PauseUsage \/ ResumeUsage
  \/ UNCHANGED vars

\* Such a step changes no more of the ledger than who was charged and greeted.
LEMMA AsideSteps ==
  ASSUME WayOK, Aside
  PROVE  /\ UNCHANGED <<meter, record, buffer, batch, push, history>>
         /\ ledger'.carried = ledger.carried /\ ledger'.ignored = ledger.ignored
         /\ ledger'.wiped = ledger.wiped /\ ledger'.lossy = ledger.lossy
         /\ ledger'.missed = ledger.missed
<1>1. CASE \E c \in charges : ChargeStep(c) \/ FailCharge(c)
  BY <1>1 DEF WayOK, Ledger, ChargeStep, TakeCharge, IncrementUsedTraffic, FireFirstConnected, FailCharge,
     tables
<1>2. CASE \/ AddReset \/ ResetStep \/ AddClean \/ PauseUsage \/ ResumeUsage
           \/ UNCHANGED vars
  BY <1>2 DEF AddReset, ResetStep, PauseQueues, Drain, ResetTraffic, ActivateQueues, AddClean,
     PauseUsage, ResumeUsage, vars, work, tables
<1>3. QED
  BY <1>1, <1>2 DEF Aside

\* Every step keeps the way well typed.
LEMMA WayStep == WayOK /\ [Next]_vars => WayOK'
<1> SUFFICES ASSUME WayOK, [Next]_vars PROVE WayOK'
  OBVIOUS
<1> USE UsageTypes
<1>1. CASE Aside
  <2>1. /\ UNCHANGED <<meter, record, buffer, batch, push, history>>
        /\ ledger' \in Ledger
    <3>1. CASE ledger' = ledger
      BY <1>1, <3>1, AsideSteps DEF WayOK
    <3>2. CASE \E c \in charges : FireFirstConnected(c)
      <4>1. PICK c : FireFirstConnected(c)
        BY <3>2
      <4>3. Plus(ledger.greeted, On(c.first, One)) \in Usage
        BY DEF WayOK, Ledger
      <4>4. QED
        BY <1>1, <4>1, <4>3, AsideSteps DEF FireFirstConnected, WayOK, Ledger
    <3>3. CASE \E c \in charges : FailCharge(c)
      <4>1. PICK c : FailCharge(c)
        BY <3>3
      <4>2. QED
        BY <1>1, <4>1, AsideSteps DEF FailCharge, WayOK, Ledger
    <3>4. CASE ResetStep
      BY <3>1, <3>4 DEF ResetStep, PauseQueues, Drain, ResetTraffic, ActivateQueues
    <3>5. CASE AddReset \/ AddClean \/ PauseUsage \/ ResumeUsage \/ UNCHANGED vars
      BY <3>1, <3>5 DEF AddReset, AddClean, PauseUsage, ResumeUsage, vars
    <3>6. ASSUME NEW c \in charges, TakeCharge(c) \/ IncrementUsedTraffic(c)
          PROVE  ledger' = ledger
      BY <3>6 DEF TakeCharge, IncrementUsedTraffic
    <3>7. QED
      BY <1>1, <3>1, <3>2, <3>3, <3>4, <3>5, <3>6 DEF Aside, ChargeStep
  <2>2. QED
    BY <2>1 DEF WayOK
<1>2. ASSUME NEW n \in Nodes, NEW u \in Users, NEW units \in Amounts, Carry(n, u, units)
      PROVE  WayOK'
  <2>1. /\ [meter[n] EXCEPT ![u] = @ + units] \in Usage
        /\ [ledger.carried[n] EXCEPT ![u] = @ + units] \in Usage
    BY UsageConstants DEF WayOK, Usage, Ledger
  <2>2. meter' \in [Nodes -> Usage] /\ ledger' \in Ledger
    BY <1>2, <2>1 DEF Carry, WayOK, Ledger
  <2>3. QED
    BY <1>2, <2>2 DEF Carry, WayOK, work, tables
<1>3. ASSUME NEW n \in Nodes, GetUsersStats(n)
      PROVE  WayOK'
  <2> DEFINE usage == On(Above(meter[n]), meter[n])
             below == Plus(ledger.ignored[n], On(Users \ Above(meter[n]), meter[n]))
             more  == Plus(ledger.rounded, On(Listed(usage), One))
  <2>1. below \in Usage /\ more \in Usage /\ usage \in Usage
    BY DEF WayOK, Ledger
  <2>4. record' \in [Nodes -> Records]
    BY <1>3, AnswerTypes DEF WayOK, Records
  <2>5. /\ meter' = [meter EXCEPT ![n] = Zero]
        /\ ledger' = [ledger EXCEPT !.ignored[n] = below,
                                    !.rounded = IF Whole(n) THEN @ ELSE more]
    BY <1>3 DEF GetUsersStats, WayOK, Ledger
  <2> HIDE DEF below, more, usage
  <2>2. record' \in [Nodes -> Records] /\ meter' \in [Nodes -> Usage] /\ ledger' \in Ledger
    BY <2>1, <2>4, <2>5 DEF WayOK, Ledger
  <2>3. QED
    BY <1>3, <2>2 DEF GetUsersStats, WayOK, tables
<1>4. ASSUME NEW n \in Nodes, LoseUsersStats(n)
      PROVE  WayOK'
  BY <1>4 DEF LoseUsersStats, WayOK, Ledger, work, tables
<1>5. ASSUME NEW n \in Nodes, CountUsage(n) \/ UpdateUserUsage(n) \/ RecordUserUsageDelayed(n)
      PROVE  WayOK'
  <2>1. CASE CountUsage(n)
    <3>1. Plus(buffer[n], record[n].usage) \in Usage
      BY DEF WayOK, Records
    <3>2. buffer' \in [Nodes -> Usage] /\ record' \in [Nodes -> Records]
      BY <2>1, <3>1 DEF CountUsage, WayOK, Records
    <3>3. QED
      BY <2>1, <3>2 DEF CountUsage, WayOK, tables
  <2>2. CASE UpdateUserUsage(n)
    BY <2>2 DEF UpdateUserUsage, WayOK, Records, tables
  <2>3. CASE RecordUserUsageDelayed(n)
    <3>3. record' \in [Nodes -> Records]
      BY <2>3 DEF RecordUserUsageDelayed, WayOK
    <3>4. ledger' \in Ledger
      BY <2>3 DEF RecordUserUsageDelayed, WayOK, Ledger
    <3>1. record' \in [Nodes -> Records] /\ push' \in [Nodes -> Pushes] /\ ledger' \in Ledger
      BY <2>3, <3>3, <3>4 DEF RecordUserUsageDelayed, WayOK, Pushes
    <3>2. QED
      BY <2>3, <3>1 DEF RecordUserUsageDelayed, WayOK, tables
  <2>4. QED
    BY <1>5, <2>1, <2>2, <2>3
<1>6. ASSUME NEW n \in Nodes, FailRecord(n) \/ ExpireKey(n) \/ ExpireBatch(n) \/ LoseCommands(n)
      PROVE  WayOK'
  <2>1. CASE FailRecord(n)
    <3>1. record' \in [Nodes -> Records] /\ ledger' \in Ledger
      BY <2>1, UnrecordedTypes DEF FailRecord, WayOK
    <3>2. QED
      BY <2>1, <3>1 DEF FailRecord, WayOK, tables
  <2>2. CASE ExpireKey(n)
    <3>1. buffer' \in [Nodes -> Usage] /\ ledger' \in Ledger
      BY <2>2 DEF ExpireKey, WayOK, Ledger
    <3>2. QED
      BY <2>2, <3>1 DEF ExpireKey, WayOK, work, tables
  <2>3. CASE ExpireBatch(n)
    <3>1. batch' \in [Nodes -> Usage] /\ ledger' \in Ledger
      BY <2>3 DEF ExpireBatch, WayOK, Ledger
    <3>2. QED
      BY <2>3, <3>1 DEF ExpireBatch, WayOK, work, tables
  <2>4. CASE LoseCommands(n)
    <3>1. PICK us \in SUBSET Users :
            buffer' = [buffer EXCEPT ![n] = Plus(@, On(us, record[n].usage))]
      BY <2>4 DEF LoseCommands
    <3>2. Plus(buffer[n], On(us, record[n].usage)) \in Usage
      BY DEF WayOK, Records
    <3>3. buffer' \in [Nodes -> Usage] /\ record' \in [Nodes -> Records] /\ ledger' \in Ledger
      BY <2>4, <3>1, <3>2 DEF LoseCommands, WayOK, Records, Ledger
    <3>4. QED
      BY <2>4, <3>3 DEF LoseCommands, WayOK, tables
  <2>5. QED
    BY <1>6, <2>1, <2>2, <2>3, <2>4
<1>7. ASSUME NEW n \in Nodes,
             TakePush(n) \/ RenameKey(n) \/ EndScan(n) \/ DeleteKey(n) \/ FailPush(n) \/ FailDelete(n)
      PROVE  WayOK'
  <2>1. push' \in [Nodes -> Pushes]
    BY <1>7 DEF TakePush, RenameKey, EndScan, DeleteKey, FailPush, FailDelete, Listed, WayOK, Pushes
  <2>2. buffer' \in [Nodes -> Usage] /\ batch' \in [Nodes -> Usage]
    BY <1>7 DEF TakePush, RenameKey, EndScan, DeleteKey, FailPush, FailDelete, WayOK
  <2>3. ledger' \in Ledger
    <3>1. CASE RenameKey(n)
      BY <3>1 DEF RenameKey, WayOK, Ledger
    <3>2. CASE DeleteKey(n)
      BY <3>2 DEF DeleteKey, WayOK, Ledger
    <3>3. CASE FailPush(n)
      BY <3>3 DEF FailPush, WayOK, Ledger
    <3>4. QED
      BY <1>7, <3>1, <3>2, <3>3 DEF TakePush, EndScan, FailDelete, WayOK
  <2>4. UNCHANGED <<meter, record, history>>
    BY <1>7 DEF TakePush, RenameKey, EndScan, DeleteKey, FailPush, FailDelete, tables
  <2>5. QED
    BY <2>1, <2>2, <2>3, <2>4 DEF WayOK
<1>8. ASSUME NEW n \in Nodes, NEW us \in SUBSET Users, BulkUpsertHistory(n, us) \/ FailBatch(n, us)
      PROVE  WayOK'
  <2>1. push' \in [Nodes -> Pushes]
    BY <1>8 DEF BulkUpsertHistory, FailBatch, WayOK, Pushes
  <2>2. Plus(history[n], On(us, batch[n])) \in Usage /\ On(Users \ us, batch[n]) \in Usage
    BY DEF WayOK
  <2>3. history' \in [Nodes -> Usage] /\ batch' \in [Nodes -> Usage]
    BY <1>8, <2>2 DEF BulkUpsertHistory, FailBatch, WayOK, tables
  <2>4. UNCHANGED <<meter, record, buffer, ledger>>
    BY <1>8 DEF BulkUpsertHistory, FailBatch
  <2>5. QED
    BY <2>1, <2>3, <2>4 DEF WayOK
<1>9. CASE TruncateHistory
  <2>1. \A n \in Nodes : Plus(ledger.wiped[n], history[n]) \in Usage
    BY DEF WayOK, Ledger
  <2>2. history' \in [Nodes -> Usage] /\ ledger' \in Ledger
    BY <1>9, <2>1 DEF TruncateHistory, WayOK, Ledger
  <2>3. QED
    BY <1>9, <2>2 DEF TruncateHistory, WayOK, work
<1>10. CASE Crash
  <2>1. record' \in [Nodes -> Records] /\ push' \in [Nodes -> Pushes]
    BY <1>10 DEF Crash, WayOK, Pushes
  <2>2. ledger' \in Ledger
    <3>1. Unrecorded(Nodes) \in Ledger
      BY UnrecordedTypes
    <3>2. QED
      BY <1>10, <3>1 DEF Crash, Ledger
  <2>3. QED
    BY <1>10, <2>1, <2>2 DEF Crash, WayOK, tables
<1>11. QED
  BY <1>1, <1>2, <1>3, <1>4, <1>5, <1>6, <1>7, <1>8, <1>9, <1>10
     DEF Next, RecordStep, PushStep, CleanStep, Failure, Aside

(***************************************************************************)
(* The history                                                             *)
(***************************************************************************)

\* CountedOnce for one node and user.
Counted(n, u) == /\ Whereabouts(n, u) <= ledger.carried[n][u]
                 /\ n \notin ledger.lossy => Whereabouts(n, u) = ledger.carried[n][u]

\* The amounts at a place, and where they are counted.
LEMMA Amount ==
  ASSUME NEW f, NEW g, f \in Usage, g \in Usage, NEW us, NEW u \in Users
  PROVE  /\ Zero[u] = 0 /\ f[u] \in Nat /\ Plus(f, g)[u] = f[u] + g[u]
         /\ On(us, f)[u] = IF u \in us THEN f[u] ELSE 0
BY DEF Usage, Zero, Plus, On

\* What Counted adds up.
AmountsOf(m, v) ==
  /\ meter[m][v] \in Nat /\ Collected(m)[v] \in Nat /\ buffer[m][v] \in Nat
  /\ batch[m][v] \in Nat /\ history[m][v] \in Nat /\ ledger.wiped[m][v] \in Nat
  /\ ledger.ignored[m][v] \in Nat /\ ledger.carried[m][v] \in Nat

LEMMA AmountsOK ==
  ASSUME WayOK
  PROVE  \A m \in Nodes, v \in Users : AmountsOf(m, v)
BY DEF WayOK, Ledger, Records, Usage, Collected, Zero, AmountsOf

\* Every step keeps every unit in one place.
LEMMA CountedStep ==
  ASSUME WayOK, WayOK', [Next]_vars, \A m \in Nodes, v \in Users : Counted(m, v)
  PROVE  \A m \in Nodes, v \in Users : Counted(m, v)'
<1> SUFFICES ASSUME NEW m \in Nodes, NEW v \in Users
             PROVE  Counted(m, v)'
  OBVIOUS
<1>0. Counted(m, v) /\ AmountsOf(m, v)
  BY AmountsOK
<1>1. CASE Aside
  BY <1>0, <1>1, AsideSteps DEF Counted, Whereabouts, Collected
<1>2. ASSUME NEW n \in Nodes, NEW u \in Users, NEW units \in Amounts, Carry(n, u, units)
      PROVE  Counted(m, v)'
  <2> DEFINE more == IF m = n /\ v = u THEN units ELSE 0
  <2>1. /\ meter'[m][v] = meter[m][v] + more
        /\ ledger'.carried[m][v] = ledger.carried[m][v] + more
    BY <1>2 DEF Carry, WayOK, Usage, Ledger, AmountsOf
  <2>2. /\ UNCHANGED <<record, buffer, batch, history>>
        /\ ledger'.wiped = ledger.wiped /\ ledger'.ignored = ledger.ignored
        /\ ledger'.lossy = ledger.lossy
    BY <1>2 DEF Carry, WayOK, Ledger, work, tables
  <2>3. more \in Nat
    BY UsageConstants
  <2> HIDE DEF more
  <2>4. QED
    BY <1>0, <2>1, <2>2, <2>3 DEF Counted, Whereabouts, Collected, AmountsOf
<1>3. ASSUME NEW n \in Nodes, GetUsersStats(n)
      PROVE  Counted(m, v)'
  <2>1. /\ UNCHANGED <<buffer, batch, history>>
        /\ ledger'.wiped = ledger.wiped /\ ledger'.carried = ledger.carried
        /\ ledger'.lossy = ledger.lossy
    BY <1>3 DEF GetUsersStats, WayOK, Ledger, tables
  <2>2. CASE m # n
    <3>1. meter'[m] = meter[m] /\ record'[m] = record[m] /\ ledger'.ignored[m] = ledger.ignored[m]
      BY <1>3, <2>2 DEF GetUsersStats, WayOK, Ledger
    <3>2. QED
      BY <1>0, <2>1, <3>1 DEF Counted, Whereabouts, Collected
  <2>3. CASE m = n
    <3> DEFINE above == On(Above(meter[m]), meter[m])
               below == On(Users \ Above(meter[m]), meter[m])
    <3>5. record'[m].pc = "collected" /\ record'[m].usage = above
      BY <1>3, <2>3, AnswerTypes DEF WayOK
    <3>1. /\ meter'[m] = Zero /\ Collected(m)' = above /\ Collected(m) = Zero
          /\ ledger'.ignored[m] = Plus(ledger.ignored[m], below)
      BY <1>3, <2>3, <3>5 DEF GetUsersStats, WayOK, Ledger, Collected
    <3>2. above[v] + below[v] = meter[m][v] /\ above[v] \in Nat /\ below[v] \in Nat
      BY <1>0, Amount DEF WayOK, AmountsOf, On
    <3>3. meter'[m][v] = 0 /\ Collected(m)[v] = 0
          /\ ledger'.ignored[m][v] = ledger.ignored[m][v] + below[v]
      BY <3>1 DEF Zero, Plus
    <3> HIDE DEF above, below
    <3>4. QED
      BY <1>0, <2>1, <3>1, <3>2, <3>3 DEF Counted, Whereabouts, AmountsOf
  <2>4. QED
    BY <2>2, <2>3
<1>4. ASSUME NEW n \in Nodes, LoseUsersStats(n)
      PROVE  Counted(m, v)'
  <2>1. /\ UNCHANGED <<record, buffer, batch, history>>
        /\ ledger'.wiped = ledger.wiped /\ ledger'.carried = ledger.carried
        /\ ledger'.ignored = ledger.ignored /\ ledger'.lossy = ledger.lossy \cup {n}
        /\ meter'[m][v] = IF m = n THEN 0 ELSE meter[m][v]
    BY <1>4 DEF LoseUsersStats, WayOK, Ledger, work, tables, Zero
  <2>2. QED
    BY <1>0, <2>1 DEF Counted, Whereabouts, Collected, AmountsOf
<1>5. ASSUME NEW n \in Nodes, CountUsage(n)
      PROVE  Counted(m, v)'
  <2>1. UNCHANGED <<meter, batch, history, ledger>>
    BY <1>5 DEF CountUsage, tables
  <2>2. CASE m # n
    BY <1>0, <1>5, <2>1, <2>2 DEF CountUsage, WayOK, Counted, Whereabouts, Collected
  <2>3. CASE m = n
    <3>1. /\ buffer'[m] = Plus(buffer[m], record[m].usage)
          /\ Collected(m) = record[m].usage /\ Collected(m)' = Zero
      BY <1>5, <2>3 DEF CountUsage, WayOK, Records, Collected
    <3>2. buffer'[m][v] = buffer[m][v] + Collected(m)[v] /\ Collected(m)'[v] = 0
      BY <3>1 DEF Plus, Zero
    <3>3. QED
      BY <1>0, <2>1, <3>2 DEF Counted, Whereabouts, AmountsOf
  <2>4. QED
    BY <2>2, <2>3
<1>6. ASSUME NEW n \in Nodes, UpdateUserUsage(n) \/ RecordUserUsageDelayed(n)
      PROVE  Counted(m, v)'
  <2>1. UNCHANGED <<meter, buffer, batch, history>>
    BY <1>6 DEF UpdateUserUsage, RecordUserUsageDelayed, tables
  <2>2. /\ ledger'.wiped = ledger.wiped /\ ledger'.carried = ledger.carried
        /\ ledger'.ignored = ledger.ignored /\ ledger'.lossy = ledger.lossy
    BY <1>6 DEF UpdateUserUsage, RecordUserUsageDelayed, WayOK, Ledger
  <2>3. Collected(m)' = Collected(m)
    BY <1>6 DEF UpdateUserUsage, RecordUserUsageDelayed, Idle, WayOK, Records, Collected
  <2>4. QED
    BY <1>0, <2>1, <2>2, <2>3 DEF Counted, Whereabouts
<1>7. ASSUME NEW n \in Nodes, FailRecord(n)
      PROVE  Counted(m, v)'
  <2>1. /\ UNCHANGED <<meter, buffer, batch, history>>
        /\ ledger'.wiped = ledger.wiped /\ ledger'.carried = ledger.carried
        /\ ledger'.ignored = ledger.ignored
        /\ ledger'.lossy = ledger.lossy \cup {l \in {n} : record[l].pc = "collected"}
    BY <1>7, UnrecordedTypes DEF FailRecord, tables
  <2>2. Collected(m)' = IF m = n THEN Zero ELSE Collected(m)
    BY <1>7 DEF FailRecord, Idle, WayOK, Records, Collected
  <2>3. Collected(m)'[v] = IF m = n THEN 0 ELSE Collected(m)[v]
    BY <2>2 DEF Zero
  <2>4. m \notin ledger'.lossy => Collected(m)'[v] = Collected(m)[v]
    BY <2>1, <2>3 DEF Collected, Zero
  <2>5. QED
    BY <1>0, <2>1, <2>3, <2>4 DEF Counted, Whereabouts, AmountsOf
<1>8. ASSUME NEW n \in Nodes, ExpireKey(n)
      PROVE  Counted(m, v)'
  <2>1. /\ UNCHANGED <<meter, record, batch, history>>
        /\ ledger'.wiped = ledger.wiped /\ ledger'.carried = ledger.carried
        /\ ledger'.ignored = ledger.ignored /\ ledger'.lossy = ledger.lossy \cup {n}
        /\ buffer'[m][v] = IF m = n THEN 0 ELSE buffer[m][v]
    BY <1>8 DEF ExpireKey, WayOK, Ledger, work, tables, Zero
  <2>2. QED
    BY <1>0, <2>1 DEF Counted, Whereabouts, Collected, AmountsOf
<1>9. ASSUME NEW n \in Nodes, TakePush(n) \/ EndScan(n) \/ FailPush(n) \/ FailDelete(n)
      PROVE  Counted(m, v)'
  <2>1. /\ UNCHANGED <<meter, record, buffer, batch, history>>
        /\ ledger'.wiped = ledger.wiped /\ ledger'.carried = ledger.carried
        /\ ledger'.ignored = ledger.ignored /\ ledger'.lossy = ledger.lossy
    BY <1>9 DEF TakePush, EndScan, FailPush, FailDelete, WayOK, Ledger, tables
  <2>2. QED
    BY <1>0, <2>1 DEF Counted, Whereabouts, Collected
<1>10. ASSUME NEW n \in Nodes, RenameKey(n)
       PROVE  Counted(m, v)'
  <2>1. /\ UNCHANGED <<meter, record, history>>
        /\ ledger'.wiped = ledger.wiped /\ ledger'.carried = ledger.carried
        /\ ledger'.ignored = ledger.ignored
        /\ ledger'.lossy = IF batch[n] = Zero THEN ledger.lossy ELSE ledger.lossy \cup {n}
    BY <1>10 DEF RenameKey, WayOK, Ledger, tables
  <2>2. m = n /\ batch[n] = Zero => batch[m][v] = 0
    BY DEF Zero
  <2>3. /\ buffer'[m][v] = IF m = n THEN 0 ELSE buffer[m][v]
        /\ batch'[m][v] = IF m = n THEN buffer[m][v] ELSE batch[m][v]
    BY <1>10 DEF RenameKey, WayOK, Zero
  <2>4. QED
    BY <1>0, <2>1, <2>2, <2>3 DEF Counted, Whereabouts, Collected, AmountsOf
<1>11. ASSUME NEW n \in Nodes, NEW us \in SUBSET Users, BulkUpsertHistory(n, us)
       PROVE  Counted(m, v)'
  <2>1. UNCHANGED <<meter, record, buffer, ledger>>
    BY <1>11 DEF BulkUpsertHistory
  <2>2. CASE m # n
    BY <1>0, <1>11, <2>1, <2>2 DEF BulkUpsertHistory, WayOK, Counted, Whereabouts, Collected
  <2>3. CASE m = n
    <3>1. /\ history'[m] = Plus(history[m], On(us, batch[m]))
          /\ batch'[m] = On(Users \ us, batch[m])
      BY <1>11, <2>3 DEF BulkUpsertHistory, WayOK
    <3>2. /\ history'[m][v] = history[m][v] + IF v \in us THEN batch[m][v] ELSE 0
          /\ batch'[m][v] = IF v \in us THEN 0 ELSE batch[m][v]
      BY <3>1 DEF Plus, On
    <3>3. QED
      BY <1>0, <2>1, <3>2 DEF Counted, Whereabouts, Collected, AmountsOf
  <2>4. QED
    BY <2>2, <2>3
<1>12. ASSUME NEW n \in Nodes, NEW us \in SUBSET Users, FailBatch(n, us)
       PROVE  Counted(m, v)'
  BY <1>0, <1>12 DEF FailBatch, tables, Counted, Whereabouts, Collected
<1>13. ASSUME NEW n \in Nodes, DeleteKey(n)
       PROVE  Counted(m, v)'
  <2>1. /\ UNCHANGED <<meter, record, buffer, history>>
        /\ ledger'.wiped = ledger.wiped /\ ledger'.carried = ledger.carried
        /\ ledger'.ignored = ledger.ignored
        /\ ledger'.lossy = IF batch[n] = Zero THEN ledger.lossy ELSE ledger.lossy \cup {n}
        /\ batch'[m][v] = IF m = n THEN 0 ELSE batch[m][v]
    BY <1>13 DEF DeleteKey, WayOK, Ledger, tables, Zero
  <2>2. m = n /\ batch[n] = Zero => batch[m][v] = 0
    BY DEF Zero
  <2>3. QED
    BY <1>0, <2>1, <2>2 DEF Counted, Whereabouts, Collected, AmountsOf
<1>14. CASE TruncateHistory
  <2>1. UNCHANGED <<meter, record, buffer, batch>>
    BY <1>14 DEF TruncateHistory, work
  <2>2. CASE UNCHANGED <<history, ledger>>
    BY <1>0, <2>1, <2>2 DEF Counted, Whereabouts, Collected
  <2>3. CASE ~UNCHANGED <<history, ledger>>
    <3>1. /\ history'[m] = Zero
          /\ ledger'.wiped[m] = Plus(ledger.wiped[m], history[m])
          /\ ledger'.carried = ledger.carried /\ ledger'.ignored = ledger.ignored
          /\ ledger'.lossy = ledger.lossy
      BY <1>14, <2>3 DEF TruncateHistory, WayOK, Ledger
    <3>2. history'[m][v] = 0 /\ ledger'.wiped[m][v] = ledger.wiped[m][v] + history[m][v]
      BY <3>1 DEF Zero, Plus
    <3>3. QED
      BY <1>0, <2>1, <3>1, <3>2 DEF Counted, Whereabouts, Collected, AmountsOf
  <2>4. QED
    BY <2>2, <2>3
<1>15. CASE Crash
  <2>1. /\ UNCHANGED <<meter, buffer, batch, history>>
        /\ ledger'.wiped = ledger.wiped /\ ledger'.carried = ledger.carried
        /\ ledger'.ignored = ledger.ignored
        /\ ledger'.lossy = ledger.lossy \cup {l \in Nodes : record[l].pc = "collected"}
    <3>1. Unrecorded(Nodes) \in Ledger
      BY UnrecordedTypes
    <3>2. /\ ledger'.wiped = Unrecorded(Nodes).wiped /\ ledger'.carried = Unrecorded(Nodes).carried
          /\ ledger'.ignored = Unrecorded(Nodes).ignored
          /\ ledger'.lossy = Unrecorded(Nodes).lossy
      BY <1>15, <3>1 DEF Crash, Ledger
    <3>3. QED
      BY <1>15, <3>2, UnrecordedTypes DEF Crash, tables
  <2>2. Collected(m)' = Zero
    BY <1>15 DEF Crash, Idle, Collected
  <2>3. Collected(m)'[v] = 0 /\ (m \notin ledger'.lossy => Collected(m)[v] = 0)
    BY <2>1, <2>2 DEF Collected, Zero
  <2>4. QED
    BY <1>0, <2>1, <2>3 DEF Counted, Whereabouts, AmountsOf
<1>16. ASSUME NEW n \in Nodes, ExpireBatch(n)
       PROVE  Counted(m, v)'
  <2>1. /\ UNCHANGED <<meter, record, buffer, history>>
        /\ ledger'.wiped = ledger.wiped /\ ledger'.carried = ledger.carried
        /\ ledger'.ignored = ledger.ignored /\ ledger'.lossy = ledger.lossy \cup {n}
        /\ batch'[m][v] = IF m = n THEN 0 ELSE batch[m][v]
    BY <1>16 DEF ExpireBatch, WayOK, Ledger, work, tables, Zero
  <2>2. QED
    BY <1>0, <2>1 DEF Counted, Whereabouts, Collected, AmountsOf
<1>17. ASSUME NEW n \in Nodes, LoseCommands(n)
       PROVE  Counted(m, v)'
  <2>1. /\ UNCHANGED <<meter, batch, history>>
        /\ ledger'.wiped = ledger.wiped /\ ledger'.carried = ledger.carried
        /\ ledger'.ignored = ledger.ignored /\ ledger'.lossy = ledger.lossy \cup {n}
    BY <1>17 DEF LoseCommands, WayOK, Ledger, tables
  <2>2. CASE m # n
    <3>1. buffer'[m] = buffer[m] /\ record'[m] = record[m] /\ (m \in ledger.lossy <=> m \in ledger'.lossy)
      BY <1>17, <2>1, <2>2 DEF LoseCommands, WayOK
    <3>2. QED
      BY <1>0, <2>1, <3>1 DEF Counted, Whereabouts, Collected
  <2>3. CASE m = n
    <3>1. PICK us \in SUBSET Users :
            buffer' = [buffer EXCEPT ![n] = Plus(@, On(us, record[n].usage))]
      BY <1>17 DEF LoseCommands
    <3>2. /\ buffer'[m] = Plus(buffer[m], On(us, record[m].usage))
          /\ Collected(m) = record[m].usage /\ Collected(m)' = Zero
      BY <1>17, <2>3, <3>1 DEF LoseCommands, WayOK, Records, Collected
    <3>3. /\ buffer'[m][v] = buffer[m][v] + IF v \in us THEN Collected(m)[v] ELSE 0
          /\ Collected(m)'[v] = 0
      BY <3>2 DEF Plus, On, Zero
    <3>4. QED
      BY <1>0, <2>1, <2>3, <3>3 DEF Counted, Whereabouts, AmountsOf
  <2>4. QED
    BY <2>2, <2>3
<1>18. QED
  BY <1>1, <1>2, <1>3, <1>4, <1>5, <1>6, <1>7, <1>8, <1>9, <1>10, <1>11, <1>12, <1>13, <1>14, <1>15,
     <1>16, <1>17
     DEF Next, RecordStep, PushStep, CleanStep, Failure, Aside

\* Every unit of traffic reaches the history at most once, and is lost only by a
\* failure, a crash or an expired key that is on record.
THEOREM TrafficCountedOnce == Spec => []CountedOnce
<1> DEFINE Inv == WayOK /\ \A m \in Nodes, v \in Users : Counted(m, v)
<1>1. Init => Inv
  <2> SUFFICES ASSUME Init PROVE Inv
    OBVIOUS
  <2>1. WayOK
    BY WayInit
  <2>2. ASSUME NEW m \in Nodes, NEW v \in Users PROVE Counted(m, v)
    BY <2>2 DEF Init, Counted, Whereabouts, Collected, Idle, Zero
  <2>3. QED
    BY <2>1, <2>2
<1>2. Inv /\ [Next]_vars => Inv'
  <2> SUFFICES ASSUME Inv, [Next]_vars PROVE Inv'
    OBVIOUS
  <2>1. WayOK'
    BY WayStep
  <2>2. QED
    BY <2>1, CountedStep
<1>3. Inv => CountedOnce
  BY DEF Counted, CountedOnce
<1>4. QED
  BY <1>1, <1>2, <1>3, PTL DEF Spec

(***************************************************************************)
(* Jobs for what waits                                                     *)
(***************************************************************************)

\* BufferIsCovered for one node.
Covered(n) == buffer[n] # Zero /\ n \notin ledger.missed =>
                \/ record[n].pc \in {"counted", "charged"}
                \/ push[n].pc \in {"waiting", "found"}

\* Usage that waits in Redis has a job that will move it, or its node is on record.
THEOREM BuffersAreCovered == Spec => []BufferIsCovered
<1> DEFINE Inv == WayOK /\ \A m \in Nodes : Covered(m)
<1>1. Init => Inv
  BY WayInit DEF Init, Covered
<1>2. Inv /\ [Next]_vars => Inv'
  <2> SUFFICES ASSUME Inv, [Next]_vars PROVE Inv'
    OBVIOUS
  <2>1. WayOK'
    BY WayStep
  <2>2. ASSUME NEW m \in Nodes PROVE Covered(m)'
    <3>1. CASE Aside
      BY <3>1, AsideSteps DEF Covered
    <3>2. CASE \E n \in Nodes, u \in Users, units \in Amounts : Carry(n, u, units)
      BY <3>2 DEF Carry, work, WayOK, Ledger, Covered
    <3>3. ASSUME NEW n \in Nodes, GetUsersStats(n) PROVE Covered(m)'
      <4>1. m # n => record'[m] = record[m]
        BY <3>3 DEF GetUsersStats, WayOK
      <4>2. QED
        BY <3>3, <4>1 DEF GetUsersStats, WayOK, Ledger, Covered
    <3>4. ASSUME NEW n \in Nodes, LoseUsersStats(n) PROVE Covered(m)'
      BY <3>4 DEF LoseUsersStats, work, WayOK, Ledger, Covered
    <3>5. ASSUME NEW n \in Nodes, CountUsage(n) \/ UpdateUserUsage(n) PROVE Covered(m)'
      BY <3>5 DEF CountUsage, UpdateUserUsage, WayOK, Records, Covered
    <3>6. ASSUME NEW n \in Nodes, RecordUserUsageDelayed(n) PROVE Covered(m)'
      BY <3>6 DEF RecordUserUsageDelayed, Idle, WayOK, Records, Pushes, Ledger, Covered
    <3>7. ASSUME NEW n \in Nodes, FailRecord(n) PROVE Covered(m)'
      BY <3>7 DEF FailRecord, Unrecorded, Idle, WayOK, Records, Ledger, Covered
    <3>8. ASSUME NEW n \in Nodes, ExpireKey(n) PROVE Covered(m)'
      BY <3>8 DEF ExpireKey, work, WayOK, Ledger, Covered
    <3>9. ASSUME NEW n \in Nodes, TakePush(n) \/ EndScan(n) PROVE Covered(m)'
      BY <3>9 DEF TakePush, EndScan, WayOK, Pushes, Covered
    <3>10. ASSUME NEW n \in Nodes, RenameKey(n) PROVE Covered(m)'
      BY <3>10 DEF RenameKey, WayOK, Pushes, Ledger, Covered
    <3>11. ASSUME NEW n \in Nodes, DeleteKey(n) PROVE Covered(m)'
      BY <3>11 DEF DeleteKey, WayOK, Pushes, Ledger, Covered
    <3>12. ASSUME NEW n \in Nodes, NEW us \in SUBSET Users, BulkUpsertHistory(n, us) \/ FailBatch(n, us)
           PROVE  Covered(m)'
      BY <3>12 DEF BulkUpsertHistory, FailBatch, WayOK, Pushes, Covered
    <3>13. CASE TruncateHistory
      BY <3>13 DEF TruncateHistory, work, WayOK, Ledger, Covered
    <3>14. CASE Crash
      BY <3>14 DEF Crash, Unrecorded, WayOK, Pushes, Ledger, Covered
    <3>15. ASSUME NEW n \in Nodes, LoseCommands(n) PROVE Covered(m)'
      <4>1. /\ push' = push /\ record'[n].pc = "counted"
            /\ m # n => buffer'[m] = buffer[m] /\ record'[m] = record[m]
            /\ ledger'.missed = ledger.missed
        BY <3>15 DEF LoseCommands, WayOK, Records, Ledger
      <4>2. QED
        BY <4>1 DEF Covered
    <3>16. ASSUME NEW n \in Nodes, ExpireBatch(n) PROVE Covered(m)'
      BY <3>16 DEF ExpireBatch, work, WayOK, Ledger, Covered
    <3>17. ASSUME NEW n \in Nodes, FailPush(n) PROVE Covered(m)'
      BY <3>17 DEF FailPush, WayOK, Pushes, Ledger, Covered
    <3>18. ASSUME NEW n \in Nodes, FailDelete(n) PROVE Covered(m)'
      BY <3>18 DEF FailDelete, WayOK, Pushes, Covered
    <3>19. QED
      BY <3>1, <3>2, <3>3, <3>4, <3>5, <3>6, <3>7, <3>8, <3>9, <3>10, <3>11, <3>12, <3>13, <3>14,
         <3>15, <3>16, <3>17, <3>18
         DEF Next, RecordStep, PushStep, CleanStep, Failure, Aside
  <2>3. QED
    BY <2>1, <2>2
<1>3. Inv => BufferIsCovered
  BY DEF Covered, BufferIsCovered
<1>4. QED
  BY <1>1, <1>2, <1>3, PTL DEF Spec

\* No queue stays paused without a job that will resume it.
THEOREM PausesHaveOwners == Spec => []PauseHasOwner
<1> DEFINE Inv == paused \subseteq {"usage", "push"} /\ PauseHasOwner
<1>1. Init => Inv
  BY DEF Init, PauseHasOwner
<1>2. Inv /\ [Next]_vars => Inv'
  <2> SUFFICES ASSUME Inv, [Next]_vars PROVE Inv'
    OBVIOUS
  <2>1. CASE UNCHANGED maintenance
    BY <2>1 DEF maintenance, PauseHasOwner
  <2>2. CASE AddReset \/ ResetStep
    BY <2>2 DEF AddReset, ResetStep, AbandonQueues, PauseQueues, Drain, ResetTraffic, ActivateQueues,
       PauseHasOwner
  <2>3. CASE AddClean \/ CleanStep
    BY <2>3 DEF AddClean, CleanStep, PauseUsage, TruncateHistory, ResumeUsage, PauseHasOwner
  <2>4. CASE Crash
    BY <2>4 DEF Crash, PauseHasOwner
  <2>5. ASSUME NEW n \in Nodes,
               RecordStep(n) \/ LoseUsersStats(n) \/ LoseCommands(n) \/ FailRecord(n)
        PROVE  UNCHANGED maintenance
    BY <2>5 DEF RecordStep, GetUsersStats, CountUsage, UpdateUserUsage, RecordUserUsageDelayed,
       LoseUsersStats, LoseCommands, FailRecord
  <2>6. ASSUME NEW n \in Nodes,
               ExpireKey(n) \/ ExpireBatch(n) \/ PushStep(n) \/ FailPush(n) \/ FailDelete(n)
        PROVE  UNCHANGED maintenance
    BY <2>6 DEF ExpireKey, ExpireBatch, PushStep, TakePush, RenameKey, EndScan, DeleteKey,
       BulkUpsertHistory, FailPush, FailDelete
  <2>7. ASSUME NEW c \in charges, ChargeStep(c) \/ FailCharge(c)
        PROVE  UNCHANGED maintenance
    BY <2>7 DEF ChargeStep, TakeCharge, IncrementUsedTraffic, FireFirstConnected, FailCharge
  <2>8. CASE \/ \E n \in Nodes, u \in Users, units \in Amounts : Carry(n, u, units)
             \/ \E n \in Nodes, us \in SUBSET Users : FailBatch(n, us)
             \/ UNCHANGED vars
    BY <2>1, <2>8 DEF Carry, FailBatch, vars, maintenance
  <2>9. QED
    BY <2>1, <2>2, <2>3, <2>4, <2>5, <2>6, <2>7, <2>8 DEF Next, Failure
<1>3. Inv => PauseHasOwner
  OBVIOUS
<1>4. QED
  BY <1>1, <1>2, <1>3, PTL DEF Spec

(***************************************************************************)
(* Sums                                                                    *)
(***************************************************************************)

\* The units a sum counts.
Units(f) == UNION {{x} \X (1..f[x]) : x \in DOMAIN f}

\* A unit is a place and a number at it.
LEMMA UnitsOf ==
  ASSUME NEW S, NEW f \in [S -> Nat]
  PROVE  /\ \A x, i : <<x, i>> \in Units(f) <=> x \in S /\ i \in 1..f[x]
         /\ \A p \in Units(f) : p = <<p[1], p[2]>>
BY DEF Units

\* The units at one place.
LEMMA UnitsAt ==
  ASSUME NEW x, NEW k \in Nat
  PROVE  IsFiniteSet({x} \X (1..k)) /\ Cardinality({x} \X (1..k)) = k
<1>1. IsFiniteSet(1..k) /\ Cardinality(1..k) = k
  BY FS_Interval
<1>2. IsFiniteSet({x}) /\ Cardinality({x}) = 1
  BY FS_Singleton
<1>3. QED
  BY <1>1, <1>2, FS_Product

LEMMA UnitsFinite ==
  ASSUME NEW S, IsFiniteSet(S), NEW f \in [S -> Nat]
  PROVE  IsFiniteSet(Units(f)) /\ Total(f) \in Nat
<1> DEFINE parts == {{x} \X (1..f[x]) : x \in S}
           part  == [x \in S |-> {x} \X (1..f[x])]
<1>1. part \in Surjection(S, parts)
  BY DEF Surjection
<1>2. IsFiniteSet(parts)
  BY <1>1, FS_Surjection
<1>3. \A p \in parts : IsFiniteSet(p)
  <2>1. ASSUME NEW x \in S PROVE IsFiniteSet({x} \X (1..f[x]))
    BY UnitsAt
  <2>2. QED
    BY <2>1
<1>4. Units(f) = UNION parts
  BY DEF Units
<1>5. IsFiniteSet(Units(f))
  BY <1>2, <1>3, <1>4, FS_UNION
<1>6. QED
  BY <1>5, FS_CardinalityType DEF Total, Units

\* One summand apart from the others.
LEMMA TotalApart ==
  ASSUME NEW S, IsFiniteSet(S), NEW f \in [S -> Nat], NEW x \in S
  PROVE  Total(f) = f[x] + Total([y \in S \ {x} |-> f[y]])
<1> DEFINE g == [y \in S \ {x} |-> f[y]]
           here == {x} \X (1..f[x])
<1>1. g \in [S \ {x} -> Nat] /\ IsFiniteSet(S \ {x})
  BY FS_RemoveElement
<1>2. IsFiniteSet(here) /\ Cardinality(here) = f[x]
  BY UnitsAt
<1>3. IsFiniteSet(Units(g)) /\ Total(g) \in Nat
  BY <1>1, UnitsFinite
<1>4. Units(f) = here \cup Units(g)
  BY DEF Units
<1>5. here \cap Units(g) = {}
  BY DEF Units
<1> HIDE DEF here, g
<1>6. Cardinality(Units(f)) = Cardinality(here) + Cardinality(Units(g)) - Cardinality({})
  BY <1>2, <1>3, <1>4, <1>5, FS_Union
<1>7. Cardinality({}) = 0
  BY FS_EmptySet
<1>8. QED
  BY <1>2, <1>3, <1>6, <1>7 DEF Total, Units, g

\* One summand changes.
LEMMA TotalChange ==
  ASSUME NEW S, IsFiniteSet(S), NEW f \in [S -> Nat], NEW g \in [S -> Nat], NEW x \in S,
         \A y \in S \ {x} : f[y] = g[y]
  PROVE  Total(f) + g[x] = Total(g) + f[x]
<1>1. [y \in S \ {x} |-> f[y]] = [y \in S \ {x} |-> g[y]]
  OBVIOUS
<1>2. /\ Total(f) = f[x] + Total([y \in S \ {x} |-> f[y]])
      /\ Total(g) = g[x] + Total([y \in S \ {x} |-> g[y]])
  BY TotalApart
<1>3. Total([y \in S \ {x} |-> f[y]]) \in Nat
  BY UnitsFinite, FS_RemoveElement
<1>4. QED
  BY <1>1, <1>2, <1>3

\* One summand more.
LEMMA TotalMore ==
  ASSUME NEW S, IsFiniteSet(S), NEW f \in [S -> Nat], NEW x, x \notin S,
         NEW g \in [S \cup {x} -> Nat], \A y \in S : f[y] = g[y]
  PROVE  Total(g) = Total(f) + g[x]
<1>1. f = [y \in (S \cup {x}) \ {x} |-> g[y]]
  OBVIOUS
<1> DEFINE all == S \cup {x}
<1>2. IsFiniteSet(all) /\ g \in [all -> Nat] /\ x \in all
  BY FS_AddElement
<1> HIDE DEF all
<1>3. Total(g) = g[x] + Total([y \in all \ {x} |-> g[y]])
  BY <1>2, TotalApart
<1>4. QED
  BY <1>1, <1>2, <1>3, UnitsFinite DEF all

\* Nothing to sum.
LEMMA TotalZero ==
  ASSUME NEW S, NEW f \in [S -> Nat], \A x \in S : f[x] = 0
  PROVE  Total(f) = 0
<1>1. Units(f) = {}
  BY DEF Units
<1>2. QED
  BY <1>1, FS_EmptySet DEF Total, Units

\* Larger summands, or more of them, make a larger sum.
LEMMA TotalInto ==
  ASSUME NEW S, NEW T, IsFiniteSet(T), NEW f \in [S -> Nat], NEW g \in [T -> Nat],
         NEW h \in Injection(S, T), \A x \in S : f[x] <= g[h[x]]
  PROVE  Total(f) <= Total(g)
<1> DEFINE into == [p \in Units(f) |-> <<h[p[1]], p[2]>>]
<1>1. h \in [S -> T] /\ \A x, y \in S : h[x] = h[y] => x = y
  BY DEF Injection, IsInjective
<1>2. \A p \in Units(f) : p[1] \in S /\ p[2] \in 1..f[p[1]] /\ p = <<p[1], p[2]>>
  BY UnitsOf
<1>3. \A p \in Units(f) : into[p] \in Units(g)
  <2> SUFFICES ASSUME NEW p \in Units(f) PROVE <<h[p[1]], p[2]>> \in Units(g)
    OBVIOUS
  <2>1. h[p[1]] \in T /\ p[2] \in 1..g[h[p[1]]]
    BY <1>1, <1>2
  <2>2. QED
    BY <2>1, UnitsOf
<1>4. ASSUME NEW p \in Units(f), NEW q \in Units(f), into[p] = into[q]
      PROVE  p = q
  BY <1>1, <1>2, <1>4
<1>5. into \in Injection(Units(f), Units(g))
  BY <1>3, <1>4 DEF Injection, IsInjective
<1>6. QED
  BY <1>5, UnitsFinite, FS_Injection DEF Total, Units

(***************************************************************************)
(* Types                                                                   *)
(***************************************************************************)

Jobs == [id : Nat, users : SUBSET Users, bytes : Usage, pc : {"waiting", "active", "committed"},
         first : SUBSET Users]

\* The jobs that charge are few, well typed, and told apart by their ids.
ChargesOK ==
  /\ IsFiniteSet(charges)
  /\ charges \subseteq Jobs
  /\ \A c, d \in charges : c.id = d.id => c = d

\* What the rest of the pipeline keeps.
AccountsOK ==
  /\ used \in Usage /\ lifetime \in Usage /\ online \subseteq Users
  /\ paused \subseteq {"usage", "push"} /\ stuck \subseteq paused
  /\ reset \in {"idle", "waiting", "draining", "resetting", "resuming"}
  /\ clean \in {"idle", "waiting", "truncating", "resuming"}
  /\ faults \in 0..MaxFaults /\ crashed \in BOOLEAN

TypeInv == WayOK /\ ChargesOK /\ AccountsOK

\* Among the first numbers one more than there are jobs, one is no job's id.
LEMMA FreshId ==
  ASSUME ChargesOK
  PROVE  NewId \in Nat /\ \A c \in charges : c.id # NewId
<1> DEFINE k   == Cardinality(charges)
           ids == {c.id : c \in charges}
           idOf == [c \in charges |-> c.id]
<1>1. k \in Nat
  BY FS_CardinalityType DEF ChargesOK
<1>2. \E id \in 0..k : \A c \in charges : c.id # id
  <2> SUFFICES ASSUME \A id \in 0..k : \E c \in charges : c.id = id
               PROVE  FALSE
    OBVIOUS
  <2>1. idOf \in Surjection(charges, ids)
    BY DEF Surjection
  <2>2. IsFiniteSet(ids) /\ Cardinality(ids) <= k
    BY <2>1, FS_Surjection DEF ChargesOK
  <2>3. 0..k \in SUBSET ids
    OBVIOUS
  <2> HIDE DEF ids, k
  <2>4. Cardinality(0..k) <= Cardinality(ids)
    BY <2>2, <2>3, FS_Subset
  <2>5. Cardinality(0..k) = k + 1
    BY <1>1, FS_Interval
  <2>6. Cardinality(ids) \in Nat
    BY <2>2, FS_CardinalityType
  <2>7. QED
    BY <1>1, <2>2, <2>4, <2>5, <2>6
<1>3. QED
  BY <1>1, <1>2 DEF NewId

\* A job is added, goes on, or ends.
LEMMA ChargesChange ==
  ASSUME ChargesOK
  PROVE  /\ \A d \in Jobs : (\A c \in charges : c.id # d.id) /\ charges' = charges \cup {d}
                              => ChargesOK'
         /\ \A c \in charges, d \in Jobs : Advance(c, {d}) /\ d.id = c.id => ChargesOK'
         /\ \A c \in charges : Advance(c, {}) => ChargesOK'
<1>1. ASSUME NEW d \in Jobs, \A c \in charges : c.id # d.id, charges' = charges \cup {d}
      PROVE  ChargesOK'
  <2>1. IsFiniteSet(charges')
    BY <1>1, FS_AddElement DEF ChargesOK
  <2>2. QED
    BY <1>1, <2>1 DEF ChargesOK, Jobs, Usage
<1>2. ASSUME NEW c \in charges, charges' = charges \ {c}
      PROVE  ChargesOK'
  <2>1. IsFiniteSet(charges')
    BY <1>2, FS_RemoveElement DEF ChargesOK
  <2>2. QED
    BY <1>2, <2>1 DEF ChargesOK, Jobs, Usage
<1>3. ASSUME NEW c \in charges, NEW d \in Jobs, d.id = c.id, charges' = (charges \ {c}) \cup {d}
      PROVE  ChargesOK'
  <2>1. IsFiniteSet(charges \ {c})
    BY FS_RemoveElement DEF ChargesOK
  <2>2. IsFiniteSet(charges')
    BY <1>3, <2>1, FS_AddElement
  <2>3. QED
    BY <1>3, <2>2 DEF ChargesOK, Jobs, Usage
<1>4. QED
  BY <1>1, <1>2, <1>3 DEF Advance

\* The jobs that charge stay well typed.
LEMMA ChargesStep ==
  ASSUME TypeInv, [Next]_vars
  PROVE  ChargesOK'
<1>1. CASE charges' = charges
  BY <1>1 DEF TypeInv, ChargesOK, Jobs, Usage
<1>2. ASSUME NEW n \in Nodes, UpdateUserUsage(n), record[n].usage # Zero
      PROVE  ChargesOK'
  <2> DEFINE d == Charge(NewId, Listed(record[n].usage), record[n].bytes)
  <2>1. d \in Jobs
    BY FreshId DEF TypeInv, WayOK, Records, Charge, Listed, Jobs
  <2>2. charges' = charges \cup {d}
    BY <1>2 DEF UpdateUserUsage, AddCharge
  <2>3. \A c \in charges : c.id # d.id
    BY FreshId DEF TypeInv, Charge
  <2> HIDE DEF d
  <2>4. QED
    BY <2>1, <2>2, <2>3, ChargesChange DEF TypeInv
<1>3. ASSUME NEW c \in charges, ChargeStep(c) \/ FailCharge(c)
      PROVE  ChargesOK'
  <2>1. c \in Jobs
    BY DEF TypeInv, ChargesOK
  <2>2. CASE TakeCharge(c)
    <3>1. [c EXCEPT !.pc = "active"] \in Jobs /\ [c EXCEPT !.pc = "active"].id = c.id
      BY <2>1 DEF Jobs
    <3>2. QED
      BY <2>2, <3>1, ChargesChange DEF TakeCharge, TypeInv
  <2>3. CASE IncrementUsedTraffic(c)
    <3> DEFINE d == [c EXCEPT !.pc = "committed", !.first = c.users \ online]
    <3>1. d \in Jobs /\ d.id = c.id
      BY <2>1 DEF Jobs
    <3>2. Advance(c, {d})
      BY <2>3 DEF IncrementUsedTraffic
    <3> HIDE DEF d
    <3>3. QED
      BY <3>1, <3>2, ChargesChange DEF TypeInv
  <2>4. CASE FireFirstConnected(c) \/ FailCharge(c)
    BY <2>4, ChargesChange DEF FireFirstConnected, FailCharge, TypeInv
  <2>5. QED
    BY <1>3, <2>2, <2>3, <2>4 DEF ChargeStep
<1>4. CASE Crash
  <2> DEFINE stall == [c \in charges |-> Stalled(c)]
  <2>1. charges' = {Stalled(c) : c \in charges}
    BY <1>4 DEF Crash
  <2>2. stall \in Surjection(charges, charges')
    BY <2>1 DEF Surjection
  <2>3. IsFiniteSet(charges')
    BY <2>2, FS_Surjection DEF TypeInv, ChargesOK
  <2>4. \A c \in charges : Stalled(c) \in Jobs /\ Stalled(c).id = c.id
    BY DEF TypeInv, ChargesOK, Stalled, Jobs
  <2>5. QED
    BY <2>1, <2>3, <2>4 DEF TypeInv, ChargesOK, Jobs, Usage
<1>5. ASSUME NEW n \in Nodes, RecordStep(n)
      PROVE  ChargesOK'
  BY <1>1, <1>2, <1>5 DEF RecordStep, GetUsersStats, CountUsage, UpdateUserUsage, AddCharge,
     RecordUserUsageDelayed
<1>6. ASSUME NEW n \in Nodes, ExpireKey(n) \/ ExpireBatch(n) \/ PushStep(n)
      PROVE  charges' = charges
  BY <1>6 DEF ExpireKey, ExpireBatch, PushStep, TakePush, RenameKey, EndScan, DeleteKey,
     BulkUpsertHistory, work
<1>7. ASSUME NEW n \in Nodes, \/ LoseUsersStats(n) \/ LoseCommands(n) \/ FailRecord(n)
                              \/ FailPush(n) \/ FailDelete(n)
      PROVE  charges' = charges
  BY <1>7 DEF LoseUsersStats, LoseCommands, FailRecord, FailPush, FailDelete, work
<1>8. CASE \/ \E n \in Nodes, u \in Users, units \in Amounts : Carry(n, u, units)
           \/ \E n \in Nodes, us \in SUBSET Users : FailBatch(n, us)
           \/ AddReset \/ ResetStep \/ AddClean \/ CleanStep \/ UNCHANGED vars
  <2>1. charges' = charges
    BY <1>8 DEF Carry, FailBatch, AddReset, ResetStep, PauseQueues, Drain, ResetTraffic,
       ActivateQueues, AddClean, CleanStep, PauseUsage, TruncateHistory, ResumeUsage, vars, work
  <2>2. QED
    BY <1>1, <2>1
<1>9. QED
  BY <1>1, <1>3, <1>4, <1>5, <1>6, <1>7, <1>8 DEF Next, Failure

LEMMA AccountsStep ==
  ASSUME TypeInv, [Next]_vars
  PROVE  AccountsOK'
<1>1. Fails => faults' \in 0..MaxFaults
  BY UsageConstants DEF Fails, TypeInv, AccountsOK
<1> DEFINE Same == /\ UNCHANGED <<used, lifetime, online, maintenance>>
                   /\ UNCHANGED environment \/ Fault
<1>2. CASE Same
  BY <1>1, <1>2 DEF TypeInv, AccountsOK, maintenance, environment, Fault
<1>3. ASSUME NEW c \in charges, IncrementUsedTraffic(c)
      PROVE  AccountsOK'
  <2>1. c.bytes \in Usage /\ c.users \subseteq Users
    BY DEF TypeInv, ChargesOK, Jobs
  <2>2. used' = Plus(used, c.bytes) /\ lifetime' = Plus(lifetime, c.bytes)
    BY <1>3 DEF IncrementUsedTraffic
  <2>3. used' \in Usage /\ lifetime' \in Usage
    BY <2>1, <2>2, UsageTypes DEF TypeInv, AccountsOK
  <2>4. QED
    BY <1>3, <2>1, <2>3 DEF IncrementUsedTraffic, TypeInv, AccountsOK, maintenance, environment
<1>4. CASE AddReset \/ ResetStep
  BY <1>1, <1>4, UsageTypes DEF AddReset, ResetStep, AbandonQueues, PauseQueues, Drain, ResetTraffic,
     ActivateQueues, tables, environment, Fault, TypeInv, AccountsOK
<1>5. CASE AddClean \/ CleanStep
  BY <1>1, <1>5 DEF AddClean, CleanStep, PauseUsage, TruncateHistory, ResumeUsage, tables,
     environment, Fault, TypeInv, AccountsOK
<1>6. CASE Crash
  BY <1>1, <1>6 DEF Crash, tables, TypeInv, AccountsOK
<1>7. ASSUME NEW n \in Nodes, RecordStep(n) \/ ExpireKey(n) \/ ExpireBatch(n)
      PROVE  Same
  BY <1>7 DEF RecordStep, GetUsersStats, CountUsage, UpdateUserUsage, RecordUserUsageDelayed,
     ExpireKey, ExpireBatch, tables
<1>8. ASSUME NEW n \in Nodes, PushStep(n)
      PROVE  Same
  BY <1>8 DEF PushStep, TakePush, RenameKey, EndScan, DeleteKey, BulkUpsertHistory, tables
<1>9. ASSUME NEW n \in Nodes, \/ LoseUsersStats(n) \/ LoseCommands(n) \/ FailRecord(n)
                              \/ FailPush(n) \/ FailDelete(n)
      PROVE  Same
  BY <1>9 DEF LoseUsersStats, LoseCommands, FailRecord, FailPush, FailDelete, tables
<1>10. ASSUME NEW c \in charges, TakeCharge(c) \/ FireFirstConnected(c) \/ FailCharge(c)
       PROVE  Same
  BY <1>10 DEF TakeCharge, FireFirstConnected, FailCharge, tables
<1>11. CASE \/ \E n \in Nodes, u \in Users, units \in Amounts : Carry(n, u, units)
            \/ \E n \in Nodes, us \in SUBSET Users : FailBatch(n, us)
            \/ UNCHANGED vars
  <2>1. Same
    BY <1>11 DEF Carry, FailBatch, vars, tables, maintenance, environment
  <2>2. QED
    BY <1>2, <2>1
<1> HIDE DEF Same
<1>12. QED
  BY <1>2, <1>3, <1>4, <1>5, <1>6, <1>7, <1>8, <1>9, <1>10, <1>11 DEF Next, ChargeStep, Failure

LEMMA TypeInit == Init => TypeInv
<1> SUFFICES ASSUME Init PROVE TypeInv
  OBVIOUS
<1>1. ChargesOK
  BY FS_EmptySet DEF Init, ChargesOK
<1>2. AccountsOK
  <2>1. used \in Usage /\ lifetime \in Usage
    BY UsageTypes DEF Init
  <2>2. faults \in 0..MaxFaults
    BY UsageConstants DEF Init
  <2>3. QED
    BY <2>1, <2>2 DEF Init, AccountsOK
<1>3. QED
  BY <1>1, <1>2, WayInit DEF TypeInv

LEMMA TypeStep == TypeInv /\ [Next]_vars => TypeInv'
<1> SUFFICES ASSUME TypeInv, [Next]_vars PROVE TypeInv'
  OBVIOUS
<1>1. WayOK'
  BY WayStep DEF TypeInv
<1>2. QED
  BY <1>1, ChargesStep, AccountsStep DEF TypeInv

\* Usage, jobs, queues and books stay well typed.
THEOREM PipelineTypeCorrect == Spec => []TypeOK
<1>1. TypeInv => TypeOK
  BY DEF TypeInv, WayOK, ChargesOK, AccountsOK, TypeOK, Jobs, Records, Pushes, Ledger
<1>2. QED
  BY <1>1, TypeInit, TypeStep, PTL DEF Spec

(***************************************************************************)
(* Charges                                                                 *)
(***************************************************************************)

\* ChargedOnce for one user.
Balanced(u) == /\ ~ledger.twice => 10 * Charged(u) <= Owed(u)
               /\ ~ledger.free => Owed(u) <= 10 * (Charged(u) + ledger.rounded[u])

\* The summands of Owed and Charged.
OwedBy(u) == [n \in Nodes |-> OwedAt(n, u)]
RecordedBy(u) == [n \in Nodes |-> Recorded(n, u)]
PendingIn(S, u) == Total([c \in S |-> Pending(c, u)])

\* Nobody to charge, nothing to charge.
ListsOK == \A n \in Nodes : record[n].usage = Zero => record[n].bytes = Zero

\* What the balance rests on: types, that a node has been asked for no more than it
\* carried, and that a list nobody is on costs nothing.
BooksOK == TypeInv /\ ListsOK /\ \A n \in Nodes, v \in Users : Counted(n, v)

LEMMA ListsStep ==
  ASSUME TypeInv, ListsOK, [Next]_vars
  PROVE  ListsOK'
<1> SUFFICES ASSUME NEW m \in Nodes
             PROVE  record'[m].usage = Zero => record'[m].bytes = Zero
  BY DEF ListsOK
<1>1. CASE record'[m].usage = record[m].usage /\ record'[m].bytes = record[m].bytes
  BY <1>1 DEF ListsOK
<1>2. CASE record'[m] = Idle
  BY <1>2 DEF Idle
<1>3. CASE GetUsersStats(m)
  <2> DEFINE usage == On(Above(meter[m]), meter[m])
  <2>1. PICK bytes \in Usage :
          /\ \A u \in Users : bytes[u] \in MultiplyConsumption(m, usage[u])
          /\ record' = [record EXCEPT ![m] = [pc |-> "collected", usage |-> usage,
                                             bytes |-> bytes]]
    BY <1>3, AnswerTypes DEF TypeInv
  <2>2. record'[m].usage = usage /\ record'[m].bytes = bytes
    BY <2>1 DEF TypeInv, WayOK
  <2> HIDE DEF usage
  <2>3. ASSUME usage = Zero, NEW u \in Users
        PROVE  bytes[u] = 0
    <3>1. usage[u] = 0 /\ bytes[u] \in MultiplyConsumption(m, 0)
      BY <2>1, <2>3 DEF Zero
    <3>2. bytes[u] \in Nat /\ 10 * bytes[u] <= Multiplier[m] * 0
      BY <3>1, Rounding
    <3>3. QED
      BY <3>2, UsageConstants
  <2>4. usage = Zero => bytes = Zero
    BY <2>3 DEF Usage, Zero
  <2>5. QED
    BY <2>2, <2>4
<1>4. CASE record' = record
  BY <1>1, <1>4
<1>6. ASSUME NEW n \in Nodes, RecordStep(n) \/ LoseCommands(n) \/ FailRecord(n)
      PROVE  record'[m].usage = Zero => record'[m].bytes = Zero
  <2>1. CASE n # m
    BY <1>1, <1>6, <2>1 DEF RecordStep, GetUsersStats, CountUsage, UpdateUserUsage,
       RecordUserUsageDelayed, LoseCommands, FailRecord, TypeInv, WayOK
  <2>2. CASE n = m
    BY <1>1, <1>2, <1>3, <1>6, <2>2 DEF RecordStep, CountUsage, UpdateUserUsage,
       RecordUserUsageDelayed, LoseCommands, FailRecord, TypeInv, WayOK, Records
  <2>3. QED
    BY <2>1, <2>2
<1>7. CASE Crash
  BY <1>2, <1>7 DEF Crash
<1>8. ASSUME NEW n \in Nodes, \/ ExpireKey(n) \/ ExpireBatch(n) \/ PushStep(n)
                              \/ LoseUsersStats(n) \/ FailPush(n) \/ FailDelete(n)
      PROVE  record' = record
  BY <1>8 DEF ExpireKey, ExpireBatch, PushStep, TakePush, RenameKey, EndScan, DeleteKey,
     BulkUpsertHistory, LoseUsersStats, FailPush, FailDelete, work
<1>9. ASSUME NEW n \in Nodes, NEW u \in Users, NEW units \in Amounts, Carry(n, u, units)
      PROVE  record' = record
  BY <1>9 DEF Carry, work
<1>10. ASSUME NEW n \in Nodes, NEW us \in SUBSET Users, FailBatch(n, us)
       PROVE  record' = record
  BY <1>10 DEF FailBatch
<1>11. CASE TruncateHistory
  BY <1>4, <1>11 DEF TruncateHistory, work
<1>12. CASE Aside
  BY <1>4, <1>12, AsideSteps DEF TypeInv
<1>13. QED
  BY <1>4, <1>6, <1>7, <1>8, <1>9, <1>10, <1>11, <1>12 DEF Next, Failure, CleanStep, Aside

LEMMA Multiply ==
  /\ \A m, a \in Nat : m * a \in Nat
  /\ \A m \in Nat : m * 0 = 0
  /\ \A m, a, b \in Nat : m * (a + b) = m * a + m * b
  /\ \A m, a, b \in Nat : a <= b => m * a <= m * b
<1>1. \A m, a \in Nat : m * a \in Nat
  OBVIOUS
<1>2. \A m, a, b \in Nat : m * (a + b) = m * a + m * b
  OBVIOUS
<1>3. ASSUME NEW m \in Nat, NEW a \in Nat, NEW b \in Nat, a <= b
      PROVE  m * a <= m * b
  <2> DEFINE d == b - a
  <2>1. d \in Nat /\ b = a + d
    BY <1>3
  <2>2. m * b = m * a + m * d
    BY <2>1, <1>2
  <2>3. m * a \in Nat /\ m * d \in Nat
    BY <2>1, <1>1
  <2>4. QED
    BY <2>2, <2>3
<1>4. QED
  BY <1>1, <1>2, <1>3

\* What jobs have yet to charge, one job apart or one more.
LEMMA PendingTypes ==
  ASSUME NEW u \in Users, NEW S, IsFiniteSet(S), S \subseteq Jobs
  PROVE  /\ \A c \in Jobs : Pending(c, u) \in Nat
         /\ PendingIn(S, u) \in Nat
         /\ \A c \in S : PendingIn(S, u) = Pending(c, u) + PendingIn(S \ {c}, u)
         /\ \A d \in Jobs \ S : PendingIn(S \cup {d}, u) = PendingIn(S, u) + Pending(d, u)
<1>1. \A c \in Jobs : Pending(c, u) \in Nat
  BY DEF Jobs, Usage, Pending
<1> DEFINE f == [c \in S |-> Pending(c, u)]
<1>2. f \in [S -> Nat]
  BY <1>1
<1>3. PendingIn(S, u) \in Nat
  BY <1>2, UnitsFinite DEF PendingIn
<1>4. ASSUME NEW c \in S
      PROVE  PendingIn(S, u) = Pending(c, u) + PendingIn(S \ {c}, u)
  <2>1. [y \in S \ {c} |-> f[y]] = [y \in S \ {c} |-> Pending(y, u)] /\ f[c] = Pending(c, u)
    OBVIOUS
  <2> HIDE DEF f
  <2>2. Total(f) = f[c] + Total([y \in S \ {c} |-> f[y]])
    BY <1>2, TotalApart
  <2>3. QED
    BY <2>1, <2>2 DEF PendingIn, f
<1>5. ASSUME NEW d \in Jobs \ S
      PROVE  PendingIn(S \cup {d}, u) = PendingIn(S, u) + Pending(d, u)
  <2> DEFINE g == [c \in S \cup {d} |-> Pending(c, u)]
  <2>1. g \in [S \cup {d} -> Nat] /\ g[d] = Pending(d, u) /\ \A c \in S : f[c] = g[c]
    BY <1>1
  <2> HIDE DEF f, g
  <2>2. Total(g) = Total(f) + g[d]
    BY <1>2, <2>1, TotalMore
  <2>3. QED
    BY <2>1, <2>2 DEF PendingIn, f, g
<1>6. QED
  BY <1>1, <1>3, <1>4, <1>5

\* The summands are numbers.
Summands(u) ==
  /\ OwedBy(u) \in [Nodes -> Nat] /\ RecordedBy(u) \in [Nodes -> Nat]
  /\ Owed(u) = Total(OwedBy(u))
  /\ Charged(u) = lifetime[u] + Total(RecordedBy(u)) + PendingIn(charges, u)
  /\ lifetime[u] \in Nat /\ Owed(u) \in Nat /\ ledger.rounded[u] \in Nat
  /\ Total(RecordedBy(u)) \in Nat /\ PendingIn(charges, u) \in Nat

LEMMA SummandTypes == BooksOK => \A u \in Users : Summands(u)
<1> SUFFICES ASSUME BooksOK, NEW u \in Users PROVE Summands(u)
  OBVIOUS
<1>1. ASSUME NEW n \in Nodes
      PROVE  OwedAt(n, u) \in Nat /\ Recorded(n, u) \in Nat
  <2>1. AmountsOf(n, u) /\ Counted(n, u)
    BY AmountsOK DEF BooksOK, TypeInv
  <2>2. ledger.carried[n][u] - (meter[n][u] + ledger.ignored[n][u]) \in Nat
    BY <2>1 DEF AmountsOf, Counted, Whereabouts
  <2>3. Multiplier[n] \in Nat /\ record[n].bytes[u] \in Nat
    BY UsageConstants DEF BooksOK, TypeInv, WayOK, Records, Usage
  <2>4. QED
    BY <2>2, <2>3, Multiply DEF OwedAt, Recorded
<1>2. OwedBy(u) \in [Nodes -> Nat] /\ RecordedBy(u) \in [Nodes -> Nat]
  BY <1>1 DEF OwedBy, RecordedBy
<1>3. lifetime[u] \in Nat /\ ledger.rounded[u] \in Nat
  BY DEF BooksOK, TypeInv, AccountsOK, WayOK, Ledger, Usage
<1>4. Total(OwedBy(u)) \in Nat /\ Total(RecordedBy(u)) \in Nat
  BY <1>2, UnitsFinite, UsageConstants
<1>5. PendingIn(charges, u) \in Nat
  BY PendingTypes DEF BooksOK, TypeInv, ChargesOK
<1>6. QED
  BY <1>2, <1>3, <1>4, <1>5 DEF Summands, Owed, Charged, OwedBy, RecordedBy, PendingIn

LEMMA SummandTypesNext == BooksOK' => (\A u \in Users : Summands(u))'
BY SummandTypes, PTL

\* How the sums move when one summand does.
LEMMA OwedChange ==
  ASSUME BooksOK, BooksOK', NEW u \in Users, NEW n \in Nodes,
         \A m \in Nodes \ {n} : OwedAt(m, u)' = OwedAt(m, u)
  PROVE  Owed(u)' + OwedAt(n, u) = Owed(u) + OwedAt(n, u)'
<1> DEFINE f == OwedBy(u)
           g == OwedBy(u)'
<1>1. f \in [Nodes -> Nat] /\ Owed(u) = Total(f)
  BY SummandTypes DEF Summands
<1>2. g \in [Nodes -> Nat] /\ Owed(u)' = Total(g)
  BY SummandTypesNext DEF Summands, Total
<1>3. /\ f[n] = OwedAt(n, u) /\ g[n] = OwedAt(n, u)'
      /\ \A m \in Nodes \ {n} : g[m] = f[m]
  BY DEF OwedBy
<1> HIDE DEF f, g
<1>4. Total(g) + f[n] = Total(f) + g[n]
  BY <1>1, <1>2, <1>3, TotalChange, UsageConstants
<1>5. QED
  BY <1>1, <1>2, <1>3, <1>4

LEMMA RecordedChange ==
  ASSUME BooksOK, BooksOK', NEW u \in Users, NEW n \in Nodes,
         \A m \in Nodes \ {n} : record'[m] = record[m]
  PROVE  Total(RecordedBy(u))' + Recorded(n, u) = Total(RecordedBy(u)) + Recorded(n, u)'
<1> DEFINE f == RecordedBy(u)
           g == RecordedBy(u)'
<1>1. f \in [Nodes -> Nat]
  BY SummandTypes DEF Summands
<1>2. g \in [Nodes -> Nat] /\ Total(RecordedBy(u))' = Total(g)
  BY SummandTypesNext DEF Summands, Total
<1>3. /\ f[n] = Recorded(n, u) /\ g[n] = Recorded(n, u)'
      /\ \A m \in Nodes \ {n} : g[m] = f[m]
  BY DEF RecordedBy, Recorded
<1> HIDE DEF g
<1>4. Total(RecordedBy(u)) = Total(f)
  OBVIOUS
<1> HIDE DEF f
<1>5. Total(g) + f[n] = Total(f) + g[n]
  BY <1>1, <1>2, <1>3, TotalChange, UsageConstants
<1>6. QED
  BY <1>2, <1>3, <1>4, <1>5

\* More is owed, and charged but for what is rounded.
LEMMA BalancedMore ==
  ASSUME BooksOK, BooksOK', NEW u \in Users, Balanced(u),
         ledger'.twice = ledger.twice, ledger'.free = ledger.free,
         NEW x \in Nat, NEW r \in Nat, NEW k \in Nat, 10 * r <= x, x <= 10 * (r + k),
         ledger'.rounded[u] = ledger.rounded[u] + k,
         Owed(u)' = Owed(u) + x,
         lifetime'[u] + Total(RecordedBy(u))' + PendingIn(charges, u)'
           = lifetime[u] + Total(RecordedBy(u)) + PendingIn(charges, u) + r
  PROVE  Balanced(u)'
<1>1. Summands(u) /\ Summands(u)'
  BY SummandTypes, SummandTypesNext
<1>2. /\ Charged(u)' = lifetime'[u] + Total(RecordedBy(u))' + PendingIn(charges, u)'
      /\ Charged(u) = lifetime[u] + Total(RecordedBy(u)) + PendingIn(charges, u)
      /\ Charged(u) \in Nat /\ Owed(u) \in Nat /\ ledger.rounded[u] \in Nat
  BY <1>1 DEF Summands
<1>3. Charged(u)' = Charged(u) + r
  BY <1>2
<1>4. QED
  BY <1>2, <1>3 DEF Balanced

\* Nothing the balance is made of moves, or it moves from one place to another.
LEMMA BalancedSame ==
  ASSUME BooksOK, BooksOK', NEW u \in Users, Balanced(u),
         ledger'.twice = ledger.twice, ledger'.free = ledger.free,
         ledger'.rounded = ledger.rounded,
         Owed(u)' = Owed(u),
         lifetime'[u] + Total(RecordedBy(u))' + PendingIn(charges, u)'
           = lifetime[u] + Total(RecordedBy(u)) + PendingIn(charges, u)
  PROVE  Balanced(u)'
<1>1. /\ Owed(u)' = Owed(u) + 0 /\ ledger'.rounded[u] = ledger.rounded[u] + 0
      /\ lifetime'[u] + Total(RecordedBy(u))' + PendingIn(charges, u)'
           = lifetime[u] + Total(RecordedBy(u)) + PendingIn(charges, u) + 0
  BY SummandTypes DEF Summands
<1>2. 0 \in Nat /\ 10 * 0 <= 0 /\ 0 <= 10 * (0 + 0)
  OBVIOUS
<1>3. QED
  BY <1>1, <1>2, BalancedMore

\* The record job collects what is owed, and hands it to a job that charges.
LEMMA BalancedRecord ==
  ASSUME BooksOK, BooksOK', NEW u \in Users, Balanced(u), NEW n \in Nodes, RecordStep(n)
  PROVE  Balanced(u)'
<1>0. Summands(u) /\ Summands(u)'
  BY SummandTypes, SummandTypesNext
<1>1. CASE GetUsersStats(n)
  <2> DEFINE above == On(Above(meter[n]), meter[n])
             below == On(Users \ Above(meter[n]), meter[n])
             x     == Multiplier[n] * above[u]
             k     == IF Whole(n) THEN 0 ELSE IF above[u] # 0 THEN 1 ELSE 0
             owed  == ledger.carried[n][u] - (meter[n][u] + ledger.ignored[n][u])
  <2>1. AmountsOf(n, u) /\ Counted(n, u)
    BY AmountsOK DEF BooksOK, TypeInv
  <2>2. above[u] + below[u] = meter[n][u] /\ above[u] \in Nat /\ below[u] \in Nat
    BY <2>1, Amount DEF BooksOK, TypeInv, WayOK, AmountsOf, On
  <2>3. owed \in Nat /\ Multiplier[n] \in Nat
    BY <2>1, UsageConstants DEF AmountsOf, Counted, Whereabouts
  <2>4. /\ meter'[n][u] = 0 /\ ledger'.carried = ledger.carried
        /\ ledger'.ignored[n][u] = ledger.ignored[n][u] + below[u]
        /\ ledger'.twice = ledger.twice /\ ledger'.free = ledger.free
        /\ \A m \in Nodes \ {n} : /\ meter'[m] = meter[m] /\ ledger'.ignored[m] = ledger.ignored[m]
                                  /\ record'[m] = record[m]
    <3> DEFINE rest == IF Whole(n) THEN ledger.rounded
                       ELSE Plus(ledger.rounded, On(Listed(above), One))
    <3>1. meter'[n][u] = 0 /\ \A m \in Nodes \ {n} : meter'[m] = meter[m]
      BY <1>1 DEF GetUsersStats, BooksOK, TypeInv, WayOK, Zero
    <3>2. \A m \in Nodes \ {n} : record'[m] = record[m]
      BY <1>1 DEF GetUsersStats, BooksOK, TypeInv, WayOK
    <3>3. ledger' = [ledger EXCEPT !.ignored[n] = Plus(@, below), !.rounded = rest]
      BY <1>1 DEF GetUsersStats
    <3> HIDE DEF above, below, rest
    <3>4. /\ ledger'.carried = ledger.carried /\ ledger'.twice = ledger.twice
          /\ ledger'.free = ledger.free
          /\ ledger'.ignored = [ledger.ignored EXCEPT ![n] = Plus(@, below)]
      BY <3>3 DEF BooksOK, TypeInv, WayOK, Ledger
    <3>5. /\ ledger'.ignored[n][u] = ledger.ignored[n][u] + below[u]
          /\ \A m \in Nodes \ {n} : ledger'.ignored[m] = ledger.ignored[m]
      BY <3>4 DEF BooksOK, TypeInv, WayOK, Ledger, Plus
    <3>6. QED
      BY <3>1, <3>2, <3>4, <3>5
  <2>14. PICK bytes \in Usage :
           /\ bytes[u] \in MultiplyConsumption(n, above[u])
           /\ record' = [record EXCEPT ![n] = [pc |-> "collected", usage |-> above,
                                              bytes |-> bytes]]
    BY <1>1, AnswerTypes DEF BooksOK, TypeInv
  <2>5. record[n].pc = "idle" /\ record'[n].pc = "collected" /\ record'[n].bytes = bytes
    BY <1>1, <2>14 DEF GetUsersStats, BooksOK, TypeInv, WayOK
  <2>6. UNCHANGED <<charges, lifetime>>
    BY <1>1 DEF GetUsersStats, tables
  <2> DEFINE r == bytes[u]
  <2>7. Recorded(n, u) = 0 /\ Recorded(n, u)' = r
    BY <2>5 DEF Recorded
  <2>15. /\ r \in Nat /\ 10 * r <= x /\ x <= 10 * (r + IF Whole(n) THEN 0 ELSE 1)
         /\ above[u] = 0 => x = 0
    BY <2>2, <2>14, Rounding, UsageConstants, Multiply
  <2>16. ledger'.rounded[u] = ledger.rounded[u] + k /\ k \in Nat
    <3>1. ledger' = [ledger EXCEPT !.ignored[n] = Plus(@, below),
                                   !.rounded = IF Whole(n) THEN @ ELSE Plus(@, On(Listed(above), One))]
      BY <1>1 DEF GetUsersStats
    <3>2. /\ Plus(ledger.rounded, On(Listed(above), One))[u]
               = ledger.rounded[u] + IF above[u] # 0 THEN 1 ELSE 0
      BY DEF Plus, On, Listed, One
    <3> HIDE DEF above, below
    <3>3. ledger'.rounded = IF Whole(n) THEN ledger.rounded
                            ELSE Plus(ledger.rounded, On(Listed(above), One))
      BY <3>1 DEF BooksOK, TypeInv, WayOK, Ledger
    <3>4. QED
      BY <1>0, <3>2, <3>3 DEF Summands
  <2>8. ledger'.carried[n][u] - (meter'[n][u] + ledger'.ignored[n][u]) = owed + above[u]
    BY <2>1, <2>2, <2>4 DEF AmountsOf
  <2> HIDE DEF above, below, owed
  <2>9. OwedAt(n, u)' = OwedAt(n, u) + x /\ x \in Nat /\ OwedAt(n, u) \in Nat
    BY <2>2, <2>3, <2>8, Multiply DEF OwedAt, owed
  <2>17. x <= 10 * (r + k)
    BY <2>9, <2>15
  <2> HIDE DEF x, r, k
  <2>10. Owed(u)' = Owed(u) + x
    <3>1. \A m \in Nodes \ {n} : OwedAt(m, u)' = OwedAt(m, u)
      BY <2>4 DEF OwedAt
    <3>2. Owed(u)' + OwedAt(n, u) = Owed(u) + OwedAt(n, u)'
      BY <3>1, OwedChange
    <3>3. QED
      BY <1>0, <2>9, <3>2 DEF Summands
  <2>11. Total(RecordedBy(u))' = Total(RecordedBy(u)) + r
    <3>1. Total(RecordedBy(u))' + Recorded(n, u) = Total(RecordedBy(u)) + Recorded(n, u)'
      BY <2>4, RecordedChange
    <3>2. QED
      BY <1>0, <2>7, <2>15, <3>1 DEF Summands
  <2>12. PendingIn(charges, u)' = PendingIn(charges, u)
    BY <2>6 DEF PendingIn, Total
  <2>18. lifetime'[u] + Total(RecordedBy(u))' + PendingIn(charges, u)'
           = lifetime[u] + Total(RecordedBy(u)) + PendingIn(charges, u) + r
    BY <1>0, <2>6, <2>11, <2>12, <2>15 DEF Summands
  <2>13. QED
    BY <2>4, <2>9, <2>10, <2>15, <2>16, <2>17, <2>18, BalancedMore
<1>2. CASE CountUsage(n) \/ RecordUserUsageDelayed(n) \/ UpdateUserUsage(n)
  <2>1. /\ UNCHANGED <<meter, lifetime>>
        /\ ledger'.carried = ledger.carried /\ ledger'.ignored = ledger.ignored
        /\ ledger'.twice = ledger.twice /\ ledger'.free = ledger.free
        /\ ledger'.rounded = ledger.rounded
        /\ \A m \in Nodes \ {n} : record'[m] = record[m]
    BY <1>2 DEF CountUsage, RecordUserUsageDelayed, UpdateUserUsage, tables, BooksOK, TypeInv,
       WayOK, Ledger
  <2>2. Owed(u)' = Owed(u)
    BY <1>0, <2>1 DEF Owed, OwedAt, Total, Summands
  <2>3. Total(RecordedBy(u))' + Recorded(n, u) = Total(RecordedBy(u)) + Recorded(n, u)'
    BY <2>1, RecordedChange
  <2>4. Recorded(n, u) \in Nat /\ Recorded(n, u)' \in Nat
    BY <1>0 DEF Summands, RecordedBy
  <2>5. CASE CountUsage(n) \/ RecordUserUsageDelayed(n)
    <3>1. charges' = charges /\ Recorded(n, u)' = Recorded(n, u)
      BY <2>5 DEF CountUsage, RecordUserUsageDelayed, Recorded, Idle, BooksOK, TypeInv, WayOK, Records
    <3>2. PendingIn(charges, u)' = PendingIn(charges, u)
      BY <3>1 DEF PendingIn, Total
    <3>3. QED
      BY <1>0, <2>1, <2>2, <2>3, <2>4, <3>1, <3>2, BalancedSame DEF Summands
  <2>6. CASE UpdateUserUsage(n)
    <3> DEFINE d == Charge(NewId, Listed(record[n].usage), record[n].bytes)
    <3>1. /\ Recorded(n, u) = record[n].bytes[u] /\ Recorded(n, u)' = 0
          /\ charges' = IF record[n].usage = Zero THEN charges ELSE charges \cup {d}
      BY <2>6 DEF UpdateUserUsage, AddCharge, Recorded, BooksOK, TypeInv, WayOK
    <3>2. d \in Jobs /\ d \notin charges
      BY FreshId DEF BooksOK, TypeInv, WayOK, Records, Charge, Listed, Jobs
    <3>3. Pending(d, u) = Recorded(n, u)
      BY <3>1 DEF Charge, Pending
    <3>4. IsFiniteSet(charges) /\ charges \subseteq Jobs
      BY DEF BooksOK, TypeInv, ChargesOK
    <3> HIDE DEF d
    <3>5. record[n].usage = Zero => Recorded(n, u) = 0
      BY <3>1 DEF BooksOK, ListsOK, Zero
    <3>6. PendingIn(charges, u)' = PendingIn(charges, u) + Recorded(n, u)
      <4>1. CASE record[n].usage = Zero
        BY <1>0, <3>1, <3>5, <4>1 DEF PendingIn, Total, Summands
      <4>2. CASE record[n].usage # Zero
        <5>1. PendingIn(charges \cup {d}, u) = PendingIn(charges, u) + Pending(d, u)
          BY <3>2, <3>4, PendingTypes
        <5>2. PendingIn(charges, u)' = PendingIn(charges \cup {d}, u)
          BY <3>1, <4>2 DEF PendingIn, Total
        <5>3. QED
          BY <3>3, <5>1, <5>2
      <4>3. QED
        BY <4>1, <4>2
    <3>7. lifetime'[u] + Total(RecordedBy(u))' + PendingIn(charges, u)'
            = lifetime[u] + Total(RecordedBy(u)) + PendingIn(charges, u)
      BY <1>0, <2>1, <2>3, <2>4, <3>1, <3>6 DEF Summands
    <3>8. QED
      BY <2>1, <2>2, <3>7, BalancedSame
  <2>7. QED
    BY <1>2, <2>5, <2>6
<1>3. QED
  BY <1>1, <1>2 DEF RecordStep

\* What no node has been asked for stays as it was.
LEMMA OwedSame ==
  ASSUME NEW u \in Users, meter' = meter, ledger'.carried = ledger.carried,
         ledger'.ignored = ledger.ignored
  PROVE  Owed(u)' = Owed(u)
BY DEF Owed, OwedAt, Total

\* A job that charges goes on, ends, or fails.
LEMMA BalancedCharge ==
  ASSUME BooksOK, BooksOK', NEW u \in Users, Balanced(u), NEW c \in charges,
         ChargeStep(c) \/ FailCharge(c)
  PROVE  Balanced(u)'
<1>0. Summands(u) /\ Summands(u)'
  BY SummandTypes, SummandTypesNext
<1>1. /\ UNCHANGED <<meter, record>>
      /\ ledger'.carried = ledger.carried /\ ledger'.ignored = ledger.ignored
      /\ ledger'.twice = ledger.twice /\ ledger'.rounded = ledger.rounded
  BY DEF ChargeStep, TakeCharge, IncrementUsedTraffic, FireFirstConnected, FailCharge, BooksOK,
     TypeInv, WayOK, Ledger
<1>2. Owed(u)' = Owed(u)
  BY <1>1, OwedSame
<1>3. Total(RecordedBy(u))' = Total(RecordedBy(u))
  BY <1>1 DEF RecordedBy, Recorded, Total
<1>4. /\ IsFiniteSet(charges \ {c}) /\ charges \ {c} \subseteq Jobs /\ c \in Jobs
      /\ IsFiniteSet(charges) /\ charges \subseteq Jobs
  BY FS_RemoveElement DEF BooksOK, TypeInv, ChargesOK
<1>5. /\ PendingIn(charges, u) = Pending(c, u) + PendingIn(charges \ {c}, u)
      /\ PendingIn(charges \ {c}, u) \in Nat /\ Pending(c, u) \in Nat
  BY <1>4, PendingTypes
<1>6. ASSUME NEW d \in Jobs, d.id = c.id, charges' = (charges \ {c}) \cup {d}
      PROVE  /\ PendingIn(charges, u)' = PendingIn(charges \ {c}, u) + Pending(d, u)
             /\ Pending(d, u) \in Nat
  <2>1. d \in Jobs \ (charges \ {c})
    BY <1>6 DEF BooksOK, TypeInv, ChargesOK
  <2>2. /\ PendingIn((charges \ {c}) \cup {d}, u) = PendingIn(charges \ {c}, u) + Pending(d, u)
        /\ Pending(d, u) \in Nat
    BY <1>4, <2>1, PendingTypes
  <2>3. QED
    BY <1>6, <2>2 DEF PendingIn, Total
<1>7. CASE TakeCharge(c)
  <2> DEFINE d == [c EXCEPT !.pc = "active"]
  <2>1. d \in Jobs /\ d.id = c.id /\ Pending(d, u) = Pending(c, u)
    BY <1>4, <1>7 DEF TakeCharge, Jobs, Pending
  <2>2. charges' = (charges \ {c}) \cup {d} /\ lifetime' = lifetime /\ ledger' = ledger
    BY <1>7 DEF TakeCharge, Advance, tables
  <2> HIDE DEF d
  <2>3. PendingIn(charges, u)' = PendingIn(charges, u)
    <3>1. PendingIn(charges, u)' = PendingIn(charges \ {c}, u) + Pending(d, u)
      BY <1>6, <2>1, <2>2
    <3>2. QED
      BY <1>5, <2>1, <3>1
  <2>4. lifetime'[u] + Total(RecordedBy(u))' + PendingIn(charges, u)'
          = lifetime[u] + Total(RecordedBy(u)) + PendingIn(charges, u)
    BY <1>0, <1>3, <2>2, <2>3 DEF Summands
  <2>5. QED
    BY <1>2, <2>2, <2>4, BalancedSame
<1>8. CASE IncrementUsedTraffic(c)
  <2> DEFINE d == [c EXCEPT !.pc = "committed", !.first = c.users \ online]
  <2>1. d \in Jobs /\ d.id = c.id /\ Pending(d, u) = 0
    BY <1>4 DEF Jobs, Pending
  <2>2. charges' = (charges \ {c}) \cup {d} /\ ledger' = ledger
    BY <1>8 DEF IncrementUsedTraffic, Advance
  <2> HIDE DEF d
  <2>3. lifetime'[u] = lifetime[u] + c.bytes[u]
    BY <1>8 DEF IncrementUsedTraffic, Plus
  <2>4. Pending(c, u) = c.bytes[u]
    BY <1>8 DEF IncrementUsedTraffic, Pending
  <2>5. lifetime'[u] = lifetime[u] + Pending(c, u)
    BY <2>3, <2>4
  <2>6. PendingIn(charges, u)' = PendingIn(charges \ {c}, u)
    BY <1>5, <1>6, <2>1, <2>2
  <2>7. lifetime'[u] + Total(RecordedBy(u))' + PendingIn(charges, u)'
          = lifetime[u] + Total(RecordedBy(u)) + PendingIn(charges, u)
    BY <1>0, <1>3, <1>5, <2>5, <2>6 DEF Summands
  <2>8. QED
    BY <1>2, <2>2, <2>7, BalancedSame
<1>9. CASE FireFirstConnected(c) \/ FailCharge(c)
  <2>1. charges' = charges \ {c} /\ lifetime' = lifetime
    BY <1>9 DEF FireFirstConnected, FailCharge, Advance, tables
  <2>2. PendingIn(charges, u)' = PendingIn(charges \ {c}, u)
    BY <2>1 DEF PendingIn, Total
  <2>3. CASE FireFirstConnected(c)
    <3>1. Pending(c, u) = 0 /\ ledger'.free = ledger.free
      BY <2>3 DEF FireFirstConnected, Pending, BooksOK, TypeInv, WayOK, Ledger
    <3>2. lifetime'[u] + Total(RecordedBy(u))' + PendingIn(charges, u)'
            = lifetime[u] + Total(RecordedBy(u)) + PendingIn(charges, u)
      BY <1>0, <1>3, <1>5, <2>1, <2>2, <3>1 DEF Summands
    <3>3. QED
      BY <1>1, <1>2, <3>1, <3>2, BalancedSame
  <2>4. CASE FailCharge(c)
    <3>1. ledger'.free
      BY <2>4 DEF FailCharge, BooksOK, TypeInv, WayOK, Ledger
    <3>2. Charged(u)' <= Charged(u) /\ Charged(u)' \in Nat /\ Charged(u) \in Nat
      BY <1>0, <1>3, <1>5, <2>1, <2>2 DEF Summands
    <3>3. QED
      BY <1>0, <1>1, <1>2, <3>1, <3>2 DEF Balanced, Summands
  <2>5. QED
    BY <1>9, <2>3, <2>4
<1>10. QED
  BY <1>7, <1>8, <1>9 DEF ChargeStep

\* What a failure or a crash forgets before it is charged is free.
LEMMA BalancedFailure ==
  ASSUME BooksOK, BooksOK', NEW u \in Users, Balanced(u), NEW n \in Nodes,
         LoseUsersStats(n) \/ FailRecord(n)
  PROVE  Balanced(u)'
<1>0. Summands(u) /\ Summands(u)'
  BY SummandTypes, SummandTypesNext
<1>1. /\ UNCHANGED <<charges, lifetime>>
      /\ ledger'.twice = ledger.twice /\ ledger'.rounded = ledger.rounded
  <2>1. CASE LoseUsersStats(n)
    BY <2>1 DEF LoseUsersStats, tables, work, BooksOK, TypeInv, WayOK, Ledger
  <2>2. CASE FailRecord(n)
    BY <2>2, UnrecordedTypes DEF FailRecord, tables, BooksOK, TypeInv
  <2>3. QED
    BY <2>1, <2>2
<1>2. PendingIn(charges, u)' = PendingIn(charges, u)
  BY <1>1 DEF PendingIn, Total
<1>3. CASE LoseUsersStats(n)
  <2>1. /\ ledger'.free /\ record' = record /\ ledger'.carried = ledger.carried
        /\ ledger'.ignored = ledger.ignored /\ meter'[n][u] = 0
        /\ \A m \in Nodes \ {n} : meter'[m] = meter[m]
    BY <1>3 DEF LoseUsersStats, work, BooksOK, TypeInv, WayOK, Ledger, Zero
  <2>2. AmountsOf(n, u) /\ Counted(n, u)
    BY AmountsOK DEF BooksOK, TypeInv
  <2> DEFINE a == ledger.carried[n][u] - (meter[n][u] + ledger.ignored[n][u])
             b == ledger.carried[n][u] - (0 + ledger.ignored[n][u])
  <2>3. a \in Nat /\ b \in Nat /\ a <= b /\ Multiplier[n] \in Nat
    BY <2>2, UsageConstants DEF AmountsOf, Counted, Whereabouts
  <2>4. OwedAt(n, u) = Multiplier[n] * a /\ OwedAt(n, u)' = Multiplier[n] * b
    BY <2>1 DEF OwedAt
  <2> HIDE DEF a, b
  <2>5. OwedAt(n, u) <= OwedAt(n, u)' /\ OwedAt(n, u) \in Nat /\ OwedAt(n, u)' \in Nat
    BY <2>3, <2>4, Multiply
  <2>6. \A m \in Nodes \ {n} : OwedAt(m, u)' = OwedAt(m, u)
    BY <2>1 DEF OwedAt
  <2>7. Owed(u)' + OwedAt(n, u) = Owed(u) + OwedAt(n, u)'
    BY <2>6, OwedChange
  <2>8. Owed(u) <= Owed(u)'
    BY <1>0, <2>5, <2>7 DEF Summands
  <2>9. Total(RecordedBy(u))' = Total(RecordedBy(u))
    BY <2>1 DEF RecordedBy, Recorded, Total
  <2>10. Charged(u)' = Charged(u) /\ Charged(u) \in Nat
    BY <1>0, <1>1, <1>2, <2>9 DEF Summands
  <2>11. QED
    BY <1>0, <1>1, <2>1, <2>8, <2>10 DEF Balanced, Summands
<1>4. CASE FailRecord(n)
  <2>1. /\ ledger'.free = (ledger.free \/ record[n].pc \in {"collected", "counted"})
        /\ ledger'.carried = ledger.carried /\ ledger'.ignored = ledger.ignored
        /\ meter' = meter /\ record'[n].pc = "idle"
        /\ \A m \in Nodes \ {n} : record'[m] = record[m]
    BY <1>4, UnrecordedTypes DEF FailRecord, Idle, BooksOK, TypeInv, WayOK
  <2>2. Owed(u)' = Owed(u)
    BY <2>1, OwedSame
  <2>3. Recorded(n, u)' = 0 /\ Recorded(n, u) \in Nat
    BY <1>0, <2>1 DEF Recorded, Summands, RecordedBy
  <2>4. Total(RecordedBy(u))' + Recorded(n, u) = Total(RecordedBy(u)) + Recorded(n, u)'
    BY <2>1, RecordedChange
  <2>5. Total(RecordedBy(u))' <= Total(RecordedBy(u))
    BY <1>0, <2>3, <2>4 DEF Summands
  <2>6. ~ledger'.free => Recorded(n, u) = 0 /\ ~ledger.free
    BY <2>1 DEF Recorded
  <2>7. ~ledger'.free => Total(RecordedBy(u))' = Total(RecordedBy(u))
    BY <1>0, <2>3, <2>4, <2>6 DEF Summands
  <2>8. /\ Charged(u)' <= Charged(u) /\ Charged(u)' \in Nat /\ Charged(u) \in Nat
        /\ ~ledger'.free => Charged(u)' = Charged(u)
    BY <1>0, <1>1, <1>2, <2>5, <2>7 DEF Summands
  <2>9. QED
    BY <1>0, <1>1, <2>2, <2>6, <2>8 DEF Balanced, Summands
<1>5. QED
  BY <1>3, <1>4

\* A job that dies after its statement charges twice; what was not yet a job is free.
LEMMA BalancedCrash ==
  ASSUME BooksOK, BooksOK', NEW u \in Users, Balanced(u), Crash
  PROVE  Balanced(u)'
<1>0. Summands(u) /\ Summands(u)'
  BY SummandTypes, SummandTypesNext
<1>1. /\ ledger'.twice = (ledger.twice \/ \E c \in charges : c.pc = "committed")
      /\ ledger'.rounded = ledger.rounded
      /\ ledger'.free = (ledger.free \/ \E n \in Nodes : record[n].pc \in {"collected", "counted"})
      /\ ledger'.carried = ledger.carried /\ ledger'.ignored = ledger.ignored
      /\ UNCHANGED <<meter, lifetime>> /\ charges' = {Stalled(c) : c \in charges}
      /\ record' = [n \in Nodes |-> Idle]
  <2>1. Unrecorded(Nodes) \in Ledger
    BY UnrecordedTypes DEF BooksOK, TypeInv
  <2>2. /\ ledger'.twice = (Unrecorded(Nodes).twice \/ \E c \in charges : c.pc = "committed")
        /\ ledger'.free = Unrecorded(Nodes).free /\ ledger'.rounded = Unrecorded(Nodes).rounded
        /\ ledger'.carried = Unrecorded(Nodes).carried
        /\ ledger'.ignored = Unrecorded(Nodes).ignored
    BY <2>1 DEF Crash, Ledger
  <2>3. QED
    BY <2>2, UnrecordedTypes DEF Crash, tables, BooksOK, TypeInv
<1>2. Owed(u)' = Owed(u)
  BY <1>1, OwedSame
<1>3. Total(RecordedBy(u))' = 0
  <2> DEFINE g == RecordedBy(u)'
  <2>1. g \in [Nodes -> Nat] /\ \A n \in Nodes : g[n] = 0
    BY <1>1 DEF RecordedBy, Recorded, Idle
  <2>2. Total(RecordedBy(u))' = Total(g)
    BY DEF Total
  <2> HIDE DEF g
  <2>3. QED
    BY <2>1, <2>2, TotalZero
<1>4. ~ledger'.free => Total(RecordedBy(u)) = 0
  <2> SUFFICES ASSUME ~ledger'.free PROVE Total(RecordedBy(u)) = 0
    OBVIOUS
  <2>1. \A n \in Nodes : RecordedBy(u)[n] = 0
    BY <1>1 DEF RecordedBy, Recorded
  <2>2. QED
    BY <1>0, <2>1, TotalZero DEF Summands
<1> DEFINE f == [c \in charges |-> Pending(c, u)]
           g == [c \in charges' |-> Pending(c, u)]
           h == [c \in charges |-> Stalled(c)]
<1>5. PendingIn(charges, u) = Total(f) /\ PendingIn(charges, u)' = Total(g)
  BY DEF PendingIn, Total
<1>6. /\ charges \subseteq Jobs /\ IsFiniteSet(charges) /\ charges' \subseteq Jobs /\ IsFiniteSet(charges')
      /\ \A c, d \in charges : c.id = d.id => c = d
  BY DEF BooksOK, TypeInv, ChargesOK, Jobs, Usage
<1>7. f \in [charges -> Nat] /\ g \in [charges' -> Nat]
  BY <1>6, PendingTypes
<1>8. h \in [charges -> charges'] /\ \A c, d \in charges : h[c] = h[d] => c = d
  <2>1. \A c \in charges : Stalled(c).id = c.id
    BY <1>6 DEF Stalled, Jobs
  <2>2. QED
    BY <1>1, <1>6, <2>1
<1>9. \A c \in charges : /\ f[c] <= g[h[c]]
                         /\ c.pc # "committed" => f[c] = g[h[c]]
  <2>1. \A c \in charges : Pending(Stalled(c), u) = c.bytes[u]
    BY <1>6 DEF Stalled, Pending, Jobs
  <2>2. \A c \in charges : Pending(c, u) = c.bytes[u] \/ Pending(c, u) = 0
    BY DEF Pending
  <2>3. \A c \in charges : c.pc # "committed" => Pending(c, u) = c.bytes[u]
    BY DEF Pending
  <2>4. \A c \in charges : g[h[c]] = Pending(Stalled(c), u) /\ f[c] = Pending(c, u)
    BY <1>1
  <2>5. \A c \in charges : g[h[c]] \in Nat
    BY <1>7, <1>8
  <2> HIDE DEF f, g, h
  <2>6. QED
    BY <2>1, <2>2, <2>3, <2>4, <2>5
<1> HIDE DEF f, g
<1>10. Total(f) <= Total(g)
  <2>1. h \in Injection(charges, charges')
    BY <1>8 DEF Injection, IsInjective
  <2> HIDE DEF h
  <2>2. QED
    BY <1>6, <1>7, <1>9, <2>1, TotalInto
<1>11. ~ledger'.twice => Total(g) <= Total(f)
  <2> SUFFICES ASSUME ~ledger'.twice PROVE Total(g) <= Total(f)
    OBVIOUS
  <2> DEFINE k == [d \in charges' |-> CHOOSE c \in charges : h[c] = d]
  <2>1. \A d \in charges' : \E c \in charges : h[c] = d
    BY <1>1
  <2> HIDE DEF h
  <2>2. k \in [charges' -> charges] /\ \A d \in charges' : h[k[d]] = d
    BY <2>1
  <2> HIDE DEF k
  <2>3. k \in Injection(charges', charges)
    BY <2>2 DEF Injection, IsInjective
  <2>4. \A d \in charges' : g[d] <= f[k[d]]
    <3> SUFFICES ASSUME NEW d \in charges' PROVE g[d] <= f[k[d]]
      OBVIOUS
    <3>1. k[d] \in charges /\ h[k[d]] = d /\ g[d] \in Nat
      BY <1>7, <2>2
    <3>2. k[d].pc # "committed"
      BY <1>1, <3>1
    <3>3. f[k[d]] = g[d]
      BY <1>9, <3>1, <3>2
    <3>4. QED
      BY <3>1, <3>3
  <2>5. QED
    BY <1>6, <1>7, <2>3, <2>4, TotalInto
<1>12. Total(f) \in Nat /\ Total(g) \in Nat
  BY <1>0, <1>5 DEF Summands
<1>13. /\ ~ledger'.twice => Charged(u)' <= Charged(u)
       /\ ~ledger'.free => Charged(u) <= Charged(u)'
       /\ Charged(u)' \in Nat /\ Charged(u) \in Nat
  BY <1>0, <1>1, <1>3, <1>4, <1>5, <1>10, <1>11, <1>12 DEF Summands
<1>14. (ledger.twice => ledger'.twice) /\ (ledger.free => ledger'.free)
  BY <1>1
<1>15. Owed(u) \in Nat /\ ledger.rounded[u] \in Nat /\ ledger'.rounded[u] = ledger.rounded[u]
  BY <1>0, <1>1 DEF Summands
<1>16. QED
  BY <1>2, <1>13, <1>14, <1>15 DEF Balanced

\* Users are charged what the nodes counted at the nodes' rates: not less unless a
\* failure or a crash is on record, not more unless a job died after its statement.
THEOREM UsersChargedOnce == Spec => []ChargedOnce
<1> DEFINE Inv == BooksOK /\ \A u \in Users : Balanced(u)
<1>1. Init => Inv
  <2> SUFFICES ASSUME Init PROVE Inv
    OBVIOUS
  <2>1. BooksOK
    <3>1. \A m \in Nodes, v \in Users : Counted(m, v)
      BY DEF Init, Counted, Whereabouts, Collected, Idle, Zero
    <3>2. ListsOK
      BY DEF Init, ListsOK, Idle
    <3>3. QED
      BY <3>1, <3>2, TypeInit DEF BooksOK
  <2>2. ASSUME NEW u \in Users PROVE Balanced(u)
    <3>1. Summands(u)
      BY <2>1, SummandTypes
    <3>2. \A n \in Nodes : OwedBy(u)[n] = 0 /\ RecordedBy(u)[n] = 0
      BY UsageConstants DEF Init, OwedBy, OwedAt, RecordedBy, Recorded, Idle, Zero
    <3>3. Owed(u) = 0 /\ Total(RecordedBy(u)) = 0
      BY <3>1, <3>2, TotalZero DEF Summands
    <3> DEFINE f == [c \in charges |-> Pending(c, u)]
    <3>4. f \in [charges -> Nat] /\ \A c \in charges : f[c] = 0
      BY DEF Init
    <3>5. PendingIn(charges, u) = Total(f)
      BY DEF PendingIn
    <3> HIDE DEF f
    <3>6. PendingIn(charges, u) = 0
      BY <3>4, <3>5, TotalZero
    <3>7. lifetime[u] = 0 /\ ledger.rounded[u] = 0
      BY DEF Init, Zero
    <3>8. QED
      BY <3>1, <3>3, <3>6, <3>7 DEF Balanced, Summands
  <2>3. QED
    BY <2>1, <2>2
<1>2. Inv /\ [Next]_vars => Inv'
  <2> SUFFICES ASSUME Inv, [Next]_vars PROVE Inv'
    OBVIOUS
  <2>1. BooksOK'
    BY TypeStep, CountedStep, ListsStep DEF BooksOK, TypeInv
  <2>2. ASSUME NEW u \in Users PROVE Balanced(u)'
    <3>0. Balanced(u) /\ Summands(u)
      BY SummandTypes
    <3>1. ASSUME NEW n \in Nodes, NEW v \in Users, NEW units \in Amounts, Carry(n, v, units)
          PROVE  Balanced(u)'
      <4>1. /\ UNCHANGED <<record, charges, lifetime>>
            /\ ledger'.ignored = ledger.ignored /\ ledger'.rounded = ledger.rounded
            /\ ledger'.twice = ledger.twice /\ ledger'.free = ledger.free
        BY <3>1 DEF Carry, work, tables, BooksOK, TypeInv, WayOK, Ledger
      <4>2. ASSUME NEW m \in Nodes PROVE OwedAt(m, u)' = OwedAt(m, u)
        <5>1. AmountsOf(m, u)
          BY AmountsOK DEF BooksOK, TypeInv
        <5> DEFINE more == IF m = n /\ u = v THEN units ELSE 0
        <5>2. /\ meter'[m][u] = meter[m][u] + more
              /\ ledger'.carried[m][u] = ledger.carried[m][u] + more /\ more \in Nat
          BY <3>1, <5>1, UsageConstants DEF Carry, BooksOK, TypeInv, WayOK, Usage, Ledger, AmountsOf
        <5> HIDE DEF more
        <5>3. ledger'.carried[m][u] - (meter'[m][u] + ledger'.ignored[m][u])
                = ledger.carried[m][u] - (meter[m][u] + ledger.ignored[m][u])
          BY <4>1, <5>1, <5>2 DEF AmountsOf
        <5>4. QED
          BY <5>3 DEF OwedAt
      <4>3. Owed(u)' = Owed(u)
        <5>1. [m \in Nodes |-> OwedAt(m, u)]' = [m \in Nodes |-> OwedAt(m, u)]
          BY <4>2
        <5>2. QED
          BY <5>1 DEF Owed, Total
      <4>4. Total(RecordedBy(u))' = Total(RecordedBy(u))
        BY <4>1 DEF RecordedBy, Recorded, Total
      <4>5. PendingIn(charges, u)' = PendingIn(charges, u)
        BY <4>1 DEF PendingIn, Total
      <4>6. lifetime'[u] + Total(RecordedBy(u))' + PendingIn(charges, u)'
              = lifetime[u] + Total(RecordedBy(u)) + PendingIn(charges, u)
        BY <3>0, <4>1, <4>4, <4>5 DEF Summands
      <4>7. QED
        BY <2>1, <3>0, <4>1, <4>3, <4>6, BalancedSame
    <3>2. CASE \/ \E n \in Nodes : \/ ExpireKey(n) \/ ExpireBatch(n) \/ PushStep(n)
                                   \/ LoseCommands(n) \/ FailPush(n) \/ FailDelete(n)
               \/ \E n \in Nodes, us \in SUBSET Users : FailBatch(n, us)
               \/ AddReset \/ ResetStep \/ AddClean \/ CleanStep
               \/ UNCHANGED vars
      <4>1. /\ UNCHANGED <<meter, charges, lifetime>>
            /\ ledger'.carried = ledger.carried /\ ledger'.ignored = ledger.ignored
            /\ ledger'.rounded = ledger.rounded
            /\ ledger'.twice = ledger.twice /\ ledger'.free = ledger.free
        <5> DEFINE Same == /\ UNCHANGED <<meter, charges, lifetime>>
                           /\ ledger'.carried = ledger.carried /\ ledger'.ignored = ledger.ignored
                           /\ ledger'.rounded = ledger.rounded
                           /\ ledger'.twice = ledger.twice /\ ledger'.free = ledger.free
        <5>1. ASSUME NEW n \in Nodes, ExpireKey(n) \/ ExpireBatch(n) \/ LoseCommands(n)
              PROVE  Same
          BY <5>1 DEF ExpireKey, ExpireBatch, LoseCommands, work, tables, BooksOK, TypeInv, WayOK, Ledger
        <5>2. ASSUME NEW n \in Nodes, PushStep(n) \/ FailPush(n) \/ FailDelete(n)
              PROVE  Same
          BY <5>2 DEF PushStep, TakePush, RenameKey, EndScan, DeleteKey, BulkUpsertHistory,
             FailPush, FailDelete, tables, BooksOK, TypeInv, WayOK, Ledger
        <5>3. CASE AddReset \/ ResetStep
          BY <5>3 DEF AddReset, ResetStep, PauseQueues, Drain, ResetTraffic, ActivateQueues, work, tables
        <5>4. CASE AddClean \/ CleanStep
          BY <5>4 DEF AddClean, CleanStep, PauseUsage, TruncateHistory, ResumeUsage, work, tables,
             BooksOK, TypeInv, WayOK, Ledger
        <5>5. CASE \/ \E n \in Nodes, us \in SUBSET Users : FailBatch(n, us)
                   \/ UNCHANGED vars
          BY <5>5 DEF FailBatch, vars, tables
        <5>6. QED
          BY <3>2, <5>1, <5>2, <5>3, <5>4, <5>5
      <4>2. Owed(u)' = Owed(u)
        BY <4>1, OwedSame
      <4>3. Total(RecordedBy(u))' = Total(RecordedBy(u))
        <5> DEFINE Same == \A m \in Nodes : Recorded(m, u)' = Recorded(m, u)
        <5>1. record' = record => Same
          BY DEF Recorded
        <5>2. ASSUME NEW n \in Nodes, LoseCommands(n)
              PROVE  Same
          BY <5>2 DEF LoseCommands, Recorded, BooksOK, TypeInv, WayOK, Records
        <5>3. ASSUME NEW n \in Nodes, \/ ExpireKey(n) \/ ExpireBatch(n) \/ PushStep(n)
                                      \/ FailPush(n) \/ FailDelete(n)
              PROVE  record' = record
          BY <5>3 DEF ExpireKey, ExpireBatch, PushStep, TakePush, RenameKey, EndScan, DeleteKey,
             BulkUpsertHistory, FailPush, FailDelete, work
        <5>4. ASSUME \/ \E n \in Nodes, us \in SUBSET Users : FailBatch(n, us)
                     \/ AddReset \/ ResetStep \/ UNCHANGED vars
              PROVE  record' = record
          BY <5>4 DEF FailBatch, AddReset, ResetStep, PauseQueues, Drain, ResetTraffic,
             ActivateQueues, vars, work
        <5>5. ASSUME AddClean \/ CleanStep
              PROVE  record' = record
          BY <5>5 DEF AddClean, CleanStep, PauseUsage, TruncateHistory, ResumeUsage, work
        <5>6. Same
          BY <3>2, <5>1, <5>2, <5>3, <5>4, <5>5
        <5>7. [m \in Nodes |-> Recorded(m, u)]' = [m \in Nodes |-> Recorded(m, u)]
          BY <5>6
        <5>8. QED
          BY <5>7 DEF RecordedBy, Total
      <4>4. PendingIn(charges, u)' = PendingIn(charges, u)
        BY <4>1 DEF PendingIn, Total
      <4>5. lifetime'[u] + Total(RecordedBy(u))' + PendingIn(charges, u)'
              = lifetime[u] + Total(RecordedBy(u)) + PendingIn(charges, u)
        BY <3>0, <4>1, <4>3, <4>4 DEF Summands
      <4>6. QED
        BY <2>1, <3>0, <4>1, <4>2, <4>5, BalancedSame
    <3>3. QED
      BY <2>1, <3>0, <3>1, <3>2, BalancedRecord, BalancedCharge, BalancedFailure, BalancedCrash
         DEF Next, Failure
  <2>3. QED
    BY <2>1, <2>2
<1>3. Inv => ChargedOnce
  BY DEF Balanced, ChargedOnce
<1>4. QED
  BY <1>1, <1>2, <1>3, PTL DEF Spec

(***************************************************************************)
(* First connections                                                       *)
(***************************************************************************)

\* The jobs that will greet u.
Greeters(u) == {c \in charges : u \in c.first}

\* Only a job whose statement is done greets, and only users who have been online.
GreetOK ==
  /\ \A c \in charges : c.pc # "committed" => c.first = {}
  /\ \A u \in Users : /\ ledger.greeted[u] + Cardinality(Greeters(u)) <= 1
                      /\ u \notin online => ledger.greeted[u] = 0 /\ Greeters(u) = {}

LEMMA GreetTypes ==
  ASSUME TypeInv, NEW u \in Users
  PROVE  /\ ledger.greeted[u] \in Nat /\ IsFiniteSet(Greeters(u))
         /\ Cardinality(Greeters(u)) \in Nat
<1>1. IsFiniteSet(Greeters(u))
  BY FS_Subset DEF Greeters, TypeInv, ChargesOK
<1>2. QED
  BY <1>1, FS_CardinalityType DEF TypeInv, WayOK, Ledger, Usage

\* Every step leaves at most one to greet a user who has not been greeted.
LEMMA GreetStep ==
  ASSUME TypeInv, GreetOK, [Next]_vars
  PROVE  GreetOK'
<1>1. CASE UNCHANGED <<charges, online>> /\ ledger'.greeted = ledger.greeted
  BY <1>1 DEF GreetOK, Greeters
<1>2. ASSUME NEW n \in Nodes, UpdateUserUsage(n)
      PROVE  GreetOK'
  <2>1. \A c \in charges' : c \in charges \/ (c.pc = "waiting" /\ c.first = {})
    BY <1>2 DEF UpdateUserUsage, AddCharge, Charge
  <2>2. charges \subseteq charges' /\ online' = online /\ ledger' = ledger
    BY <1>2 DEF UpdateUserUsage, AddCharge, tables
  <2>3. \A u \in Users : Greeters(u)' = Greeters(u)
    BY <2>1, <2>2 DEF Greeters
  <2>4. QED
    BY <2>1, <2>2, <2>3 DEF GreetOK
<1>3. ASSUME NEW c \in charges, TakeCharge(c) \/ FailCharge(c)
      PROVE  GreetOK'
  <2>1. c.pc # "committed" /\ c.first = {} /\ c \in Jobs
    BY <1>3 DEF TakeCharge, FailCharge, GreetOK, TypeInv, ChargesOK
  <2>2. \A d \in charges' : d \in charges \/ d.first = {}
    BY <1>3, <2>1 DEF TakeCharge, FailCharge, Advance, Jobs
  <2>3. /\ \A d \in charges : d = c \/ d \in charges'
        /\ online' = online /\ ledger'.greeted = ledger.greeted
    BY <1>3 DEF TakeCharge, FailCharge, Advance, tables, TypeInv, WayOK, Ledger
  <2>4. \A u \in Users : Greeters(u)' = Greeters(u)
    BY <2>1, <2>2, <2>3 DEF Greeters
  <2>5. QED
    BY <2>2, <2>3, <2>4 DEF GreetOK
<1>4. ASSUME NEW c \in charges, IncrementUsedTraffic(c)
      PROVE  GreetOK'
  <2> DEFINE seen == c.users
             d    == [c EXCEPT !.pc = "committed", !.first = seen \ online]
  <2>1. c.first = {} /\ c \in Jobs
    BY <1>4 DEF IncrementUsedTraffic, GreetOK, TypeInv, ChargesOK
  <2>2. /\ charges' = (charges \ {c}) \cup {d} /\ online' = online \cup seen /\ ledger' = ledger
    BY <1>4 DEF IncrementUsedTraffic, Advance
  <2>3. d.pc = "committed" /\ d.first = seen \ online
    BY <2>1 DEF Jobs
  <2> HIDE DEF d
  <2>4. ASSUME NEW u \in Users
        PROVE  /\ ledger'.greeted[u] + Cardinality(Greeters(u))' <= 1
               /\ u \notin online' => ledger'.greeted[u] = 0 /\ Greeters(u)' = {}
    <3>1. CASE u \in seen \ online
      <4>1. Greeters(u) = {} /\ ledger.greeted[u] = 0
        BY <3>1 DEF GreetOK
      <4>2. Greeters(u)' = {d}
        BY <2>2, <2>3, <3>1, <4>1 DEF Greeters
      <4>3. Cardinality(Greeters(u)') = 1
        BY <4>2, FS_Singleton
      <4>4. QED
        BY <2>2, <3>1, <4>1, <4>3
    <3>2. CASE u \notin seen \ online
      <4>1. Greeters(u)' = Greeters(u)
        BY <2>1, <2>2, <2>3, <3>2 DEF Greeters
      <4>2. QED
        BY <2>2, <4>1 DEF GreetOK
    <3>3. QED
      BY <3>1, <3>2
  <2>5. \A b \in charges' : b.pc # "committed" => b.first = {}
    BY <2>2, <2>3 DEF GreetOK
  <2>6. QED
    BY <2>4, <2>5 DEF GreetOK
<1>5. ASSUME NEW c \in charges, FireFirstConnected(c)
      PROVE  GreetOK'
  <2>1. charges' = charges \ {c} /\ online' = online
    BY <1>5 DEF FireFirstConnected, Advance, tables
  <2>2. \A u \in Users : ledger'.greeted[u] = ledger.greeted[u] + IF u \in c.first THEN 1 ELSE 0
    BY <1>5 DEF FireFirstConnected, Plus, On, One, TypeInv, WayOK, Ledger
  <2>3. ASSUME NEW u \in Users
        PROVE  /\ ledger'.greeted[u] + Cardinality(Greeters(u))' <= 1
               /\ u \notin online' => ledger'.greeted[u] = 0 /\ Greeters(u)' = {}
    <3>1. Greeters(u)' = Greeters(u) \ {c}
      BY <2>1 DEF Greeters
    <3>2. CASE u \in c.first
      <4>1. c \in Greeters(u)
        BY <3>2 DEF Greeters
      <4>2. Cardinality(Greeters(u) \ {c}) = Cardinality(Greeters(u)) - 1
        BY <4>1, GreetTypes, FS_RemoveElement
      <4>3. Cardinality(Greeters(u)') = Cardinality(Greeters(u)) - 1
        BY <3>1, <4>2
      <4>4. u \in online
        BY <4>1 DEF GreetOK
      <4>5. QED
        BY <2>1, <2>2, <3>2, <4>3, <4>4, GreetTypes DEF GreetOK
    <3>3. CASE u \notin c.first
      <4>1. Greeters(u)' = Greeters(u)
        BY <3>1, <3>3 DEF Greeters
      <4>2. ledger'.greeted[u] = ledger.greeted[u]
        BY <2>2, <3>3, GreetTypes
      <4>3. QED
        BY <2>1, <4>1, <4>2 DEF GreetOK
    <3>4. QED
      BY <3>2, <3>3
  <2>4. \A b \in charges' : b.pc # "committed" => b.first = {}
    BY <2>1 DEF GreetOK
  <2>5. QED
    BY <2>3, <2>4 DEF GreetOK
<1>6. CASE Crash
  <2>1. /\ charges' = {Stalled(c) : c \in charges} /\ online' = online
        /\ ledger'.greeted = ledger.greeted
    <3>1. Unrecorded(Nodes) \in Ledger /\ Unrecorded(Nodes).greeted = ledger.greeted
      BY UnrecordedTypes DEF TypeInv
    <3>2. QED
      BY <1>6, <3>1 DEF Crash, tables, Ledger
  <2>2. \A c \in charges : Stalled(c).first = {}
    BY DEF Stalled, TypeInv, ChargesOK, Jobs
  <2>3. ASSUME NEW u \in Users
        PROVE  /\ ledger'.greeted[u] + Cardinality(Greeters(u))' <= 1
               /\ u \notin online' => ledger'.greeted[u] = 0 /\ Greeters(u)' = {}
    <3>1. Greeters(u)' = {}
      BY <2>1, <2>2 DEF Greeters
    <3>2. Cardinality(Greeters(u)') = 0
      BY <3>1, FS_EmptySet
    <3>3. ledger.greeted[u] <= 1
      BY GreetTypes DEF GreetOK
    <3>4. QED
      BY <2>1, <3>1, <3>2, <3>3, GreetTypes DEF GreetOK
  <2>4. QED
    BY <2>1, <2>2, <2>3 DEF GreetOK
<1>7. QED
  <2> DEFINE Same == UNCHANGED <<charges, online>> /\ ledger'.greeted = ledger.greeted
  <2>1. ASSUME NEW n \in Nodes, \/ LoseUsersStats(n) \/ RecordUserUsageDelayed(n) \/ GetUsersStats(n)
                                \/ CountUsage(n) \/ ExpireKey(n) \/ ExpireBatch(n) \/ LoseCommands(n)
        PROVE  Same
    BY <2>1 DEF LoseUsersStats, RecordUserUsageDelayed, GetUsersStats, CountUsage, ExpireKey,
       ExpireBatch, LoseCommands, tables, work, TypeInv, WayOK, Ledger
  <2>2. ASSUME NEW n \in Nodes, FailRecord(n)
        PROVE  Same
    BY <2>2, UnrecordedTypes DEF FailRecord, tables, TypeInv
  <2>3. ASSUME NEW n \in Nodes, PushStep(n) \/ FailPush(n) \/ FailDelete(n)
        PROVE  Same
    BY <2>3 DEF PushStep, TakePush, RenameKey, EndScan, DeleteKey, BulkUpsertHistory, FailPush,
       FailDelete, tables, TypeInv, WayOK, Ledger
  <2>4. ASSUME NEW n \in Nodes, NEW u \in Users, NEW units \in Amounts, Carry(n, u, units)
        PROVE  Same
    BY <2>4 DEF Carry, work, tables, TypeInv, WayOK, Ledger
  <2>5. CASE \/ \E n \in Nodes, us \in SUBSET Users : FailBatch(n, us)
             \/ UNCHANGED vars
    BY <1>1, <2>5 DEF FailBatch, vars, tables
  <2>6. CASE AddReset \/ ResetStep \/ AddClean \/ CleanStep
    <3>1. Same
      BY <2>6 DEF AddReset, ResetStep, PauseQueues, Drain, ResetTraffic, ActivateQueues, AddClean,
         CleanStep, PauseUsage, TruncateHistory, ResumeUsage, work, tables, TypeInv, WayOK, Ledger
    <3>2. QED
      BY <1>1, <3>1
  <2> HIDE DEF Same
  <2>7. Same => GreetOK'
    BY <1>1 DEF Same
  <2>8. QED
    BY <1>2, <1>3, <1>4, <1>5, <1>6, <2>1, <2>2, <2>3, <2>4, <2>5, <2>6, <2>7
       DEF Next, RecordStep, ChargeStep, Failure

\* FIRST_CONNECTED is fired at most once for a user, whatever nodes report him.
THEOREM UsersGreetedOnce == Spec => []GreetedOnce
<1> DEFINE Inv == TypeInv /\ GreetOK
<1>1. Init => Inv
  <2> SUFFICES ASSUME Init PROVE GreetOK
    BY TypeInit
  <2>1. \A u \in Users : Greeters(u) = {} /\ ledger.greeted[u] = 0
    BY DEF Init, Greeters, Zero
  <2>2. \A u \in Users : Cardinality(Greeters(u)) = 0
    BY <2>1, FS_EmptySet
  <2>3. QED
    BY <2>1, <2>2 DEF GreetOK, Init
<1>2. Inv /\ [Next]_vars => Inv'
  BY TypeStep, GreetStep
<1>3. Inv => GreetedOnce
  BY DEF GreetOK, Greeters, GreetedOnce
<1>4. QED
  BY <1>1, <1>2, <1>3, PTL DEF Spec

=============================================================================
