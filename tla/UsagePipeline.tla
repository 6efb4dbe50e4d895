----------------------------- MODULE UsagePipeline -----------------------------
(***************************************************************************)
(* From the traffic a node has counted to the tables.  A job per node asks *)
(* it for its counters, which the node then resets; it adds them to a hash *)
(* in Redis, from where a delayed job moves them to the history of the     *)
(* node's users, and adds a job that charges the users.  Two maintenance   *)
(* jobs pause those queues: one resets the users' traffic, one empties the *)
(* history.                                                                *)
(*                                                                         *)
(* One action is the code from one await to the next.                      *)
(***************************************************************************)
EXTENDS Naturals, FiniteSets

CONSTANTS
  Nodes, Users,
  Multiplier,    \* consumptionMultiplier of each node, in tenths
  IgnoreBelow,   \* USER_USAGE_IGNORE_BELOW_BYTES
  Amounts,       \* units of traffic a user causes at a time
  MaxTraffic,    \* bound on the units a node carries for a user
  MaxFaults      \* bound on calls and statements that fail, and on deaths of the process

ASSUME UsageConstants ==
  /\ Multiplier \in [Nodes -> Nat] /\ IgnoreBelow \in Nat /\ Amounts \subseteq Nat
  /\ MaxTraffic \in Nat /\ MaxFaults \in Nat
  /\ IsFiniteSet(Nodes)

VARIABLES
  meter,      \* meter[n][u]: what node n has counted since it was last asked
  record,     \* record[n]: the RECORD_USER_USAGE job of n, at most one
  buffer,     \* buffer[n]: the hash node_user_usage:n
  batch,      \* batch[n]: of the hash being moved, what has not reached the history
  push,       \* push[n]: the PUSH_TO_DB job of n, at most one until it completes
  history,    \* history[n][u]: nodes_user_usage_history
  charges,    \* the UPDATE_USERS_USAGE jobs, told apart by their ids
  used,       \* used[u]: usedTrafficBytes
  lifetime,   \* lifetime[u]: lifetimeUsedTrafficBytes
  online,     \* users with a firstConnectedAt
  paused,     \* queues that hand out no jobs
  stuck,      \* of them, those a job left behind that failed
  reset,      \* the RESET_USER_TRAFFIC job
  clean,      \* the CLEAN_OLD_USAGE_RECORDS job
  faults,     \* failures so far
  crashed,    \* whether the process that runs the jobs has died
  ledger      \* history variables, see below

work == <<record, push, charges>>
tables == <<history, used, lifetime, online>>
maintenance == <<paused, stuck, reset, clean>>
environment == <<faults, crashed>>
vars == <<meter, record, buffer, batch, push, history, charges, used, lifetime, online,
          paused, stuck, reset, clean, faults, crashed, ledger>>

Zero == [u \in Users |-> 0]
Plus(f, g) == [u \in Users |-> f[u] + g[u]]
On(us, f) == [u \in Users |-> IF u \in us THEN f[u] ELSE 0]
One == [u \in Users |-> 1]
Listed(f) == {u \in Users : f[u] # 0}

\* A RECORD_USER_USAGE job that does nothing.
Idle == [pc |-> "idle", usage |-> Zero, bytes |-> Zero]

\* History: carried, all traffic; ignored, what was too little to be counted; wiped,
\* history emptied by maintenance; lossy, nodes whose usage a failure has kept from
\* the history; free, whether one has kept any from the accounts; missed, nodes whose
\* hash no job may move, since its add was ignored or failed, or its job did; twice,
\* whether users were charged twice; rounded, how often a user's bytes were rounded;
\* greeted, how often FIRST_CONNECTED was fired.
Init ==
  /\ meter = [n \in Nodes |-> Zero]
  /\ record = [n \in Nodes |-> Idle]
  /\ buffer = [n \in Nodes |-> Zero]
  /\ batch = [n \in Nodes |-> Zero]
  /\ push = [n \in Nodes |-> [pc |-> "none", todo |-> {}]]
  /\ history = [n \in Nodes |-> Zero]
  /\ charges = {}
  /\ used = Zero /\ lifetime = Zero /\ online = {}
  /\ paused = {} /\ stuck = {} /\ reset = "idle" /\ clean = "idle"
  /\ faults = 0 /\ crashed = FALSE
  /\ ledger = [carried |-> [n \in Nodes |-> Zero], ignored |-> [n \in Nodes |-> Zero],
               wiped |-> [n \in Nodes |-> Zero], lossy |-> {}, free |-> FALSE, missed |-> {},
               twice |-> FALSE, rounded |-> Zero, greeted |-> Zero]

Fails == faults < MaxFaults /\ faults' = faults + 1
Fault == Fails /\ UNCHANGED crashed

(***************************************************************************)
(* RECORD_USER_USAGE                                                       *)
(***************************************************************************)

Carry(n, u, units) ==
  /\ ledger.carried[n][u] + units <= MaxTraffic
  /\ meter' = [meter EXCEPT ![n][u] = @ + units]
  /\ ledger' = [ledger EXCEPT !.carried[n][u] = @ + units]
  /\ UNCHANGED <<work, buffer, batch, tables, maintenance, environment>>

Above(f) == {u \in Users : f[u] >= IgnoreBelow}

Whole(n) == Multiplier[n] % 10 = 0

\* Mutant: the rate loses its fraction before it is applied.
MultiplyWhole(n, units) == {(Multiplier[n] \div 10) * units}

\* multiplyConsumption: what units at the node's rate may come to, in whole bytes.  A
\* rate with a fraction is applied in floating point and rounded down, so that an
\* exact result may come out one too small.
MultiplyConsumption(n, units) ==
  LET tenths == Multiplier[n] * units IN
  {r \in 0..tenths : /\ 10 * r <= tenths
                     /\ tenths <= 10 * r + (IF Whole(n) THEN 0 ELSE 10)}

\* getUsersStats with reset: the node starts to count from zero.
GetUsersStats(n) ==
  LET usage == On(Above(meter[n]), meter[n])
      most  == UNION {MultiplyConsumption(n, usage[u]) : u \in Users}
  IN
  /\ record[n].pc = "idle" /\ meter[n] # Zero
  /\ \E bytes \in [Users -> most] :
       /\ \A u \in Users : bytes[u] \in MultiplyConsumption(n, usage[u])
       /\ record' = [record EXCEPT ![n] = [pc |-> "collected", usage |-> usage, bytes |-> bytes]]
  /\ meter' = [meter EXCEPT ![n] = Zero]
  /\ ledger' = [ledger EXCEPT
       !.ignored[n] = Plus(@, On(Users \ Above(meter[n]), meter[n])),
       !.rounded = IF Whole(n) THEN @ ELSE Plus(@, On(Listed(usage), One))]
  /\ UNCHANGED <<buffer, batch, push, charges, tables, maintenance, environment>>

\* The answer is lost.
LoseUsersStats(n) ==
  /\ Fault
  /\ record[n].pc = "idle" /\ meter[n] # Zero
  /\ meter' = [meter EXCEPT ![n] = Zero]
  /\ ledger' = [ledger EXCEPT !.lossy = @ \cup {n}, !.free = TRUE]
  /\ UNCHANGED <<work, buffer, batch, tables, maintenance>>

\* The pipeline of HINCRBYs.
CountUsage(n) ==
  /\ record[n].pc = "collected"
  /\ buffer' = [buffer EXCEPT ![n] = Plus(@, record[n].usage)]
  /\ record' = [record EXCEPT ![n].pc = "counted"]
  /\ UNCHANGED <<meter, batch, push, charges, tables, maintenance, environment, ledger>>

\* Redis executes some of the commands only: exec does not throw, and the job goes on.
LoseCommands(n) ==
  /\ Fault
  /\ record[n].pc = "collected"
  /\ \E us \in SUBSET Users :
       /\ On(us, record[n].usage) # record[n].usage
       /\ buffer' = [buffer EXCEPT ![n] = Plus(@, On(us, record[n].usage))]
  /\ record' = [record EXCEPT ![n].pc = "counted"]
  /\ ledger' = [ledger EXCEPT !.lossy = @ \cup {n}]
  /\ UNCHANGED <<meter, batch, push, charges, tables, maintenance>>

\* An id that no other job has.
NewId == CHOOSE id \in 0..Cardinality(charges) : \A c \in charges : c.id # id

Charge(id, users, bytes) ==
  [id |-> id, users |-> users, bytes |-> bytes, pc |-> "waiting", first |-> {}]

\* Nobody to charge, no job.  A user whose bytes are rounded to nothing is listed.
AddCharge(n) ==
  LET job == Charge(NewId, Listed(record[n].usage), record[n].bytes)
  IN  charges' = IF record[n].usage = Zero THEN charges ELSE charges \cup {job}

\* Mutant: the job ends once the users are charged.
UpdateUserUsageOnly(n) ==
  /\ record[n].pc = "counted"
  /\ AddCharge(n)
  /\ record' = [record EXCEPT ![n] = Idle]
  /\ UNCHANGED <<meter, buffer, batch, push, tables, maintenance, environment, ledger>>

\* updateUserUsage.
UpdateUserUsage(n) ==
  /\ record[n].pc = "counted"
  /\ AddCharge(n)
  /\ record' = [record EXCEPT ![n].pc = "charged"]
  /\ UNCHANGED <<meter, buffer, batch, push, tables, maintenance, environment, ledger>>

\* Mutant: completed jobs stay, and no other is added for the node.
RecordUserUsageDelayedKept(n) ==
  /\ record[n].pc = "charged"
  /\ push' = IF push[n].pc = "none" THEN [push EXCEPT ![n].pc = "waiting"] ELSE push
  /\ record' = [record EXCEPT ![n] = [Idle EXCEPT !.pc = "completed"]]
  /\ ledger' = [ledger EXCEPT !.missed = IF push[n].pc \in {"flushing", "ending"}
                                           THEN @ \cup {n} ELSE @ \ {n}]
  /\ UNCHANGED <<meter, buffer, batch, charges, tables, maintenance, environment>>

\* recordUserUsageDelayed: the queue ignores it while a job for the key is not complete.
RecordUserUsageDelayed(n) ==
  /\ record[n].pc = "charged"
  /\ push' = IF push[n].pc = "none" THEN [push EXCEPT ![n].pc = "waiting"] ELSE push
  /\ record' = [record EXCEPT ![n] = Idle]
  /\ ledger' = [ledger EXCEPT !.missed = IF push[n].pc \in {"flushing", "ending"}
                                           THEN @ \cup {n} ELSE @ \ {n}]
  /\ UNCHANGED <<meter, buffer, batch, charges, tables, maintenance, environment>>

\* What is lost when the job ends early.
Unrecorded(ns) ==
  [ledger EXCEPT
     !.lossy  = @ \cup {n \in ns : record[n].pc = "collected"},
     !.free   = @ \/ \E n \in ns : record[n].pc \in {"collected", "counted"},
     !.missed = @ \cup {n \in ns : record[n].pc \in {"counted", "charged"}}]

\* A call to Redis or to the queue throws: the job logs it and ends.
FailRecord(n) ==
  /\ Fault
  /\ record[n].pc # "idle"
  /\ ledger' = Unrecorded({n})
  /\ record' = [record EXCEPT ![n] = Idle]
  /\ UNCHANGED <<meter, buffer, batch, push, charges, tables, maintenance>>

\* No job runs that would read the keys of node n.
Unread(n) == push[n].pc = "none" \/ (push[n].pc = "waiting" /\ "push" \in paused)

\* Nobody has recorded for three hours: the key's time is over.
ExpireKey(n) ==
  /\ record[n].pc = "idle" /\ Unread(n) /\ buffer[n] # Zero
  /\ buffer' = [buffer EXCEPT ![n] = Zero]
  /\ ledger' = [ledger EXCEPT !.lossy = @ \cup {n}]
  /\ UNCHANGED <<meter, work, batch, tables, maintenance, environment>>

\* RENAME keeps the time, which ends for a processing key that was not deleted.
ExpireBatch(n) ==
  /\ Unread(n) /\ batch[n] # Zero
  /\ batch' = [batch EXCEPT ![n] = Zero]
  /\ ledger' = [ledger EXCEPT !.lossy = @ \cup {n}]
  /\ UNCHANGED <<meter, work, buffer, tables, maintenance, environment>>

(***************************************************************************)
(* PUSH_TO_DB                                                              *)
(***************************************************************************)

\* exists; the job ends if there is no key.
TakePush(n) ==
  /\ push[n].pc = "waiting" /\ "push" \notin paused
  /\ push' = [push EXCEPT ![n].pc = IF buffer[n] = Zero THEN "ending" ELSE "found"]
  /\ UNCHANGED <<meter, record, buffer, batch, charges, tables, maintenance, environment, ledger>>

\* Mutant: COPY in place of RENAME.
CopyKey(n) ==
  /\ push[n].pc = "found"
  /\ batch' = [batch EXCEPT ![n] = buffer[n]]
  /\ push' = [push EXCEPT ![n] = [pc |-> "flushing", todo |-> Listed(buffer[n])]]
  /\ ledger' = [ledger EXCEPT !.lossy = IF batch[n] = Zero THEN @ ELSE @ \cup {n},
                              !.missed = @ \ {n}]
  /\ UNCHANGED <<meter, record, buffer, charges, tables, maintenance, environment>>

\* RENAME replaces the key that an interrupted job has left.
RenameKey(n) ==
  /\ push[n].pc = "found"
  /\ batch' = [batch EXCEPT ![n] = buffer[n]]
  /\ buffer' = [buffer EXCEPT ![n] = Zero]
  /\ push' = [push EXCEPT ![n] = [pc |-> "flushing", todo |-> Listed(buffer[n])]]
  /\ ledger' = [ledger EXCEPT !.lossy = IF batch[n] = Zero THEN @ ELSE @ \cup {n},
                              !.missed = @ \ {n}]
  /\ UNCHANGED <<meter, record, charges, tables, maintenance, environment>>

\* One batch of the scan is added to the history.
BulkUpsertHistory(n, us) ==
  /\ push[n].pc = "flushing" /\ us # {} /\ us \subseteq push[n].todo
  /\ history' = [history EXCEPT ![n] = Plus(@, On(us, batch[n]))]
  /\ batch' = [batch EXCEPT ![n] = On(Users \ us, @)]
  /\ push' = [push EXCEPT ![n].todo = @ \ us]
  /\ UNCHANGED <<meter, record, buffer, charges, used, lifetime, online, maintenance,
                 environment, ledger>>

\* The handler swallows the error, and the scan goes on.
FailBatch(n, us) ==
  /\ Fault
  /\ push[n].pc = "flushing" /\ us # {} /\ us \subseteq push[n].todo
  /\ push' = [push EXCEPT ![n].todo = @ \ us]
  /\ UNCHANGED <<meter, record, buffer, batch, charges, tables, maintenance, ledger>>

\* exists, RENAME or the scan throws.  The catch swallows it, so the job completes: a
\* key it has not renamed stays without a job.
FailPush(n) ==
  /\ Fault
  /\ \/ push[n].pc = "waiting" /\ "push" \notin paused
     \/ push[n].pc \in {"found", "flushing"}
  /\ push' = [push EXCEPT ![n] = [pc |-> "ending", todo |-> {}]]
  /\ ledger' = [ledger EXCEPT !.missed = IF push[n].pc = "flushing" \/ buffer[n] = Zero
                                           THEN @ ELSE @ \cup {n}]
  /\ UNCHANGED <<meter, record, buffer, batch, charges, tables, maintenance>>

EndScan(n) ==
  /\ push[n].pc = "flushing" /\ push[n].todo = {}
  /\ push' = [push EXCEPT ![n].pc = "ending"]
  /\ UNCHANGED <<meter, record, buffer, batch, charges, tables, maintenance, environment, ledger>>

\* finally: DEL of the processing key, whatever became of the batches.
DeleteKey(n) ==
  /\ push[n].pc = "ending"
  /\ batch' = [batch EXCEPT ![n] = Zero]
  /\ push' = [push EXCEPT ![n].pc = "none"]
  /\ ledger' = [ledger EXCEPT !.lossy = IF batch[n] = Zero THEN @ ELSE @ \cup {n}]
  /\ UNCHANGED <<meter, record, buffer, charges, tables, maintenance, environment>>

\* DEL throws: the job fails, and has no other attempt.
FailDelete(n) ==
  /\ Fault
  /\ push[n].pc = "ending"
  /\ push' = [push EXCEPT ![n].pc = "none"]
  /\ UNCHANGED <<meter, record, buffer, batch, charges, tables, maintenance, ledger>>

(***************************************************************************)
(* UPDATE_USERS_USAGE                                                      *)
(***************************************************************************)

\* Job c goes on as next, or ends.
Advance(c, next) == charges' = (charges \ {c}) \cup next

TakeCharge(c) ==
  /\ c.pc = "waiting" /\ "usage" \notin paused
  /\ Advance(c, {[c EXCEPT !.pc = "active"]})
  /\ UNCHANGED <<meter, record, buffer, batch, push, tables, maintenance, environment, ledger>>

\* Mutant: every report is a first connection.
IncrementGreeting(c) ==
  /\ c.pc = "active"
  /\ used' = Plus(used, c.bytes)
  /\ lifetime' = Plus(lifetime, c.bytes)
  /\ online' = online \cup c.users
  /\ Advance(c, {[c EXCEPT !.pc = "committed", !.first = c.users]})
  /\ UNCHANGED <<meter, record, buffer, batch, push, history, maintenance, environment, ledger>>

\* One statement: the traffic, and who is online for the first time.
IncrementUsedTraffic(c) ==
  /\ c.pc = "active"
  /\ used' = Plus(used, c.bytes)
  /\ lifetime' = Plus(lifetime, c.bytes)
  /\ online' = online \cup c.users
  /\ Advance(c, {[c EXCEPT !.pc = "committed", !.first = c.users \ online]})
  /\ UNCHANGED <<meter, record, buffer, batch, push, history, maintenance, environment, ledger>>

\* fireUserEventBulk, and the job is complete.
FireFirstConnected(c) ==
  /\ c.pc = "committed"
  /\ Advance(c, {})
  /\ ledger' = [ledger EXCEPT !.greeted = Plus(@, On(c.first, One))]
  /\ UNCHANGED <<meter, record, buffer, batch, push, tables, maintenance, environment>>

\* The statement fails.  The handler swallows the error, so the job is complete and
\* its other attempts are not made.
FailCharge(c) ==
  /\ Fault
  /\ c.pc = "active"
  /\ Advance(c, {})
  /\ ledger' = [ledger EXCEPT !.free = TRUE]
  /\ UNCHANGED <<meter, record, buffer, batch, push, tables, maintenance>>

(***************************************************************************)
(* Maintenance                                                             *)
(***************************************************************************)

AddReset ==
  /\ reset = "idle" /\ reset' = "waiting"
  /\ UNCHANGED <<meter, work, buffer, batch, tables, paused, stuck, clean, environment, ledger>>

\* The job fails, as the calls outside its try do, and is not tried again: the
\* queues in qs stay paused.
AbandonQueues(qs) == Fault /\ reset' = "idle" /\ paused' = qs /\ stuck' = qs

\* throttleQueues pauses both queues, or one of the two calls throws ...
PauseQueues ==
  /\ reset = "waiting"
  /\ \/ /\ reset' = "draining"
        /\ paused' = {"usage", "push"} /\ stuck' = {}
        /\ UNCHANGED environment
     \/ \E qs \in SUBSET {"usage", "push"} : AbandonQueues(paused \cup qs)
  /\ UNCHANGED <<meter, work, buffer, batch, tables, clean, ledger>>

\* ... and waits for the jobs that run, but not for long: it may go on any time.
Drain ==
  /\ reset = "draining"
  /\ \/ reset' = "resetting" /\ UNCHANGED <<paused, stuck, environment>>
     \/ AbandonQueues(paused)
  /\ UNCHANGED <<meter, work, buffer, batch, tables, clean, ledger>>

\* Mutant: the queues are resumed after a success only.
ResetTrafficOnly ==
  /\ reset = "resetting"
  /\ \/ used' = Zero /\ reset' = "resuming" /\ UNCHANGED environment
     \/ Fault /\ reset' = "idle" /\ UNCHANGED used
  /\ UNCHANGED <<meter, work, buffer, batch, history, lifetime, online, paused, stuck, clean,
                 ledger>>

\* The reset itself, which may fail: the handlers swallow the errors.
ResetTraffic ==
  /\ reset = "resetting" /\ reset' = "resuming"
  /\ \/ used' = Zero /\ UNCHANGED environment
     \/ Fault /\ UNCHANGED used
  /\ UNCHANGED <<meter, work, buffer, batch, history, lifetime, online, paused, stuck, clean,
                 ledger>>

\* Mutant: one of the queues is forgotten.
ActivateUsage ==
  /\ reset = "resuming" /\ reset' = "idle"
  /\ paused' = paused \ {"usage"} /\ stuck' = stuck \ {"usage"}
  /\ UNCHANGED <<meter, work, buffer, batch, tables, clean, environment, ledger>>

\* finally: both queues are resumed, or one of the two calls throws.
ActivateQueues ==
  /\ reset = "resuming"
  /\ \/ /\ reset' = "idle"
        /\ paused' = {} /\ stuck' = {}
        /\ UNCHANGED environment
     \/ \E qs \in SUBSET paused : AbandonQueues(qs)
  /\ UNCHANGED <<meter, work, buffer, batch, tables, clean, ledger>>

AddClean ==
  /\ clean = "idle" /\ clean' = "waiting"
  /\ UNCHANGED <<meter, work, buffer, batch, tables, paused, stuck, reset, environment, ledger>>

\* In the try: a call that throws ends in the resume.
PauseUsage ==
  /\ clean = "waiting"
  /\ \/ /\ clean' = "truncating"
        /\ paused' = paused \cup {"usage"} /\ stuck' = stuck \ {"usage"}
        /\ UNCHANGED environment
     \/ Fault /\ clean' = "resuming" /\ UNCHANGED <<paused, stuck>>
  /\ UNCHANGED <<meter, work, buffer, batch, tables, reset, ledger>>

\* Jobs that push to the history go on meanwhile.
TruncateHistory ==
  /\ clean = "truncating" /\ clean' = "resuming"
  /\ \/ /\ history' = [n \in Nodes |-> Zero]
        /\ ledger' = [ledger EXCEPT !.wiped = [n \in Nodes |-> Plus(@[n], history[n])]]
        /\ UNCHANGED environment
     \/ Fault /\ UNCHANGED <<history, ledger>>
  /\ UNCHANGED <<meter, work, buffer, batch, used, lifetime, online, paused, stuck, reset>>

\* finally: whoever has paused the queue, a reset that is under way loses its pause.
\* The call may throw, and the job is not tried again.
ResumeUsage ==
  /\ clean = "resuming" /\ clean' = "idle"
  /\ \/ /\ paused' = paused \ {"usage"} /\ stuck' = stuck \ {"usage"}
        /\ UNCHANGED environment
     \/ Fault /\ stuck' = stuck \cup (paused \cap {"usage"}) /\ UNCHANGED paused
  /\ UNCHANGED <<meter, work, buffer, batch, tables, reset, ledger>>

(***************************************************************************)
(* The process dies                                                        *)
(***************************************************************************)

Stalled(c) == [c EXCEPT !.pc = "waiting", !.first = {}]

\* Jobs that ran are found stalled and run again from the start, a
\* RECORD_USER_USAGE job as the next one of its node.  Once: a job that stalls a
\* second time fails, which is not modelled.
Crash ==
  /\ Fails
  /\ ~crashed /\ crashed' = TRUE
  /\ record' = [n \in Nodes |-> Idle]
  /\ push' = [n \in Nodes |-> [pc   |-> IF push[n].pc = "none" THEN "none" ELSE "waiting",
                               todo |-> {}]]
  /\ charges' = {Stalled(c) : c \in charges}
  /\ reset' = IF reset = "idle" THEN "idle" ELSE "waiting"
  /\ clean' = IF clean = "idle" THEN "idle" ELSE "waiting"
  /\ ledger' = [Unrecorded(Nodes) EXCEPT
                  !.twice = @ \/ \E c \in charges : c.pc = "committed"]
  /\ UNCHANGED <<meter, buffer, batch, tables, paused, stuck>>

(***************************************************************************)
(* Specification                                                           *)
(***************************************************************************)

RecordStep(n) ==
  GetUsersStats(n) \/ CountUsage(n) \/ UpdateUserUsage(n) \/ RecordUserUsageDelayed(n)

PushStep(n) ==
  \/ TakePush(n) \/ RenameKey(n) \/ EndScan(n) \/ DeleteKey(n)
  \/ \E us \in SUBSET Users : BulkUpsertHistory(n, us)

ChargeStep(c) == TakeCharge(c) \/ IncrementUsedTraffic(c) \/ FireFirstConnected(c)

ResetStep == PauseQueues \/ Drain \/ ResetTraffic \/ ActivateQueues
CleanStep == PauseUsage \/ TruncateHistory \/ ResumeUsage

Failure ==
  \/ \E n \in Nodes : LoseUsersStats(n) \/ LoseCommands(n) \/ FailRecord(n)
                       \/ FailPush(n) \/ FailDelete(n)
  \/ \E n \in Nodes, us \in SUBSET Users : FailBatch(n, us)
  \/ \E c \in charges : FailCharge(c)
  \/ Crash

Next ==
  \/ \E n \in Nodes, u \in Users, units \in Amounts : Carry(n, u, units)
  \/ \E n \in Nodes : RecordStep(n) \/ ExpireKey(n) \/ ExpireBatch(n) \/ PushStep(n)
  \/ \E c \in charges : ChargeStep(c)
  \/ AddReset \/ ResetStep \/ AddClean \/ CleanStep
  \/ Failure

Spec == Init /\ [][Next]_vars

\* The crons come round, that of the reset every day, workers take the jobs, and
\* times run out; maintenance, once a day at most, leaves its queues open often
\* enough to take a job from them.
FairSpec ==
  /\ Spec
  /\ \A n \in Nodes : WF_vars(RecordStep(n)) /\ SF_vars(PushStep(n)) /\ WF_vars(ExpireBatch(n))
  /\ SF_vars(\E c \in charges : ChargeStep(c))
  /\ WF_vars(AddReset) /\ WF_vars(ResetStep) /\ WF_vars(CleanStep)

(***************************************************************************)
(* Properties                                                              *)
(***************************************************************************)

Usage == [Users -> Nat]

TypeOK ==
  /\ meter \in [Nodes -> Usage] /\ buffer \in [Nodes -> Usage]
  /\ batch \in [Nodes -> Usage] /\ history \in [Nodes -> Usage]
  /\ record \in [Nodes -> [pc : {"idle", "collected", "counted", "charged"},
                           usage : Usage, bytes : Usage]]
  /\ push \in [Nodes -> [pc : {"none", "waiting", "found", "flushing", "ending"},
                         todo : SUBSET Users]]
  /\ charges \subseteq [id : Nat, users : SUBSET Users, bytes : Usage,
                        pc : {"waiting", "active", "committed"}, first : SUBSET Users]
  /\ used \in Usage /\ lifetime \in Usage /\ online \subseteq Users
  /\ paused \subseteq {"usage", "push"} /\ stuck \subseteq paused
  /\ reset \in {"idle", "waiting", "draining", "resetting", "resuming"}
  /\ clean \in {"idle", "waiting", "truncating", "resuming"}
  /\ faults \in 0..MaxFaults /\ crashed \in BOOLEAN
  /\ ledger \in [carried : [Nodes -> Usage], ignored : [Nodes -> Usage],
                 wiped : [Nodes -> Usage], lossy : SUBSET Nodes, free : BOOLEAN,
                 missed : SUBSET Nodes, twice : BOOLEAN, rounded : Usage,
                 greeted : Usage]

\* What has left the node and is yet to enter the hash.
Collected(n) == IF record[n].pc = "collected" THEN record[n].usage ELSE Zero

\* Every unit of traffic is in one place at a time, and reaches the history at
\* most once; and none is lost, but to a failed call, a crash, or a key whose
\* push was never scheduled: whatever the jobs, RENAMEs and maintenance overlap.
Whereabouts(n, u) == meter[n][u] + Collected(n)[u] + buffer[n][u] + batch[n][u]
                       + history[n][u] + ledger.wiped[n][u] + ledger.ignored[n][u]

CountedOnce ==
  \A n \in Nodes, u \in Users :
    /\ Whereabouts(n, u) <= ledger.carried[n][u]
    /\ n \notin ledger.lossy => Whereabouts(n, u) = ledger.carried[n][u]

\* A hash that holds usage has a job that will move it: except when its last
\* job was added while the one before was past its RENAME, was not added, or failed.
BufferIsCovered ==
  \A n \in Nodes :
    buffer[n] # Zero /\ n \notin ledger.missed =>
      \/ record[n].pc \in {"counted", "charged"}
      \/ push[n].pc \in {"waiting", "found"}

\* The sum of the values of f, counted unit by unit.
Total(f) == Cardinality(UNION {{x} \X (1..f[x]) : x \in DOMAIN f})

\* What user u owes for what was collected from n, in tenths of a byte, what is being
\* recorded and has no job yet, and what job c will charge him.
OwedAt(n, u) == Multiplier[n] * (ledger.carried[n][u] - (meter[n][u] + ledger.ignored[n][u]))
Recorded(n, u) == IF record[n].pc \in {"collected", "counted"} THEN record[n].bytes[u] ELSE 0
Pending(c, u) == IF c.pc # "committed" THEN c.bytes[u] ELSE 0

Owed(u) == Total([n \in Nodes |-> OwedAt(n, u)])

\* What has been charged, and what will be.
Charged(u) == lifetime[u] + Total([n \in Nodes |-> Recorded(n, u)])
                          + Total([c \in charges |-> Pending(c, u)])

\* Users are charged at the node's rate for what it counted, exactly once: not less
\* unless a call failed, but for a byte each time the rate had to be rounded, and not
\* more unless a job died after its statement.
ChargedOnce ==
  \A u \in Users : /\ ~ledger.twice => 10 * Charged(u) <= Owed(u)
                   /\ ~ledger.free => Owed(u) <= 10 * (Charged(u) + ledger.rounded[u])

\* FIRST_CONNECTED is fired once for a user, however many nodes report him at once.
GreetedOnce ==
  \A u \in Users : ledger.greeted[u] + Cardinality({c \in charges : u \in c.first}) <= 1

\* A paused queue has a job that will resume it, also after a crash, unless that
\* job failed on a call outside its try.
PauseHasOwner ==
  /\ "push" \in paused \ stuck => reset # "idle"
  /\ "usage" \in paused \ stuck => reset # "idle" \/ clean # "idle"

\* When no more traffic comes and calls succeed, what was collected ends up in the
\* tables: also when a queue was left paused, which the reset of the next day ends.
EverythingArrives ==
  /\ <>[](\A n \in Nodes : n \notin ledger.missed => buffer[n] = Zero /\ batch[n] = Zero)
  /\ <>[](charges = {})
=============================================================================
