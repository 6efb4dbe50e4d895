------------------------- MODULE NodeLifecycleProofs -------------------------
(***************************************************************************)
(* Proofs about NodeLifecycle for every set of nodes and profiles, every   *)
(* number of requests and every mix of failures: a connecting node has a   *)
(* job that will reset it, and a paused queue one that will resume it.     *)
(***************************************************************************)
EXTENDS NodeLifecycle, TLAPS

(***************************************************************************)
(* Types                                                                   *)
(***************************************************************************)

\* Updating a row keeps the rows well typed.
LEMMA UpdateTypes ==
  ASSUME row \in [Nodes -> Row \cup {Null}], NEW n \in Nodes, NEW new,
         Exists(n) => new \in Row, Update(n, new)
  PROVE  row' \in [Nodes -> Row \cup {Null}]
BY DEF Update

\* The flags that jobs write keep the rows well typed.
LEMMA FlagTypes ==
  ASSUME TypeOK, NEW n \in Nodes, NEW connected \in BOOLEAN
  PROVE  /\ Exists(n) => row[n] \in Row
         /\ Settle(n, connected) => row' \in [Nodes -> Row \cup {Null}]
         /\ MarkConnecting(n) => row' \in [Nodes -> Row \cup {Null}]
         /\ Clear(n) => row' \in [Nodes -> Row \cup {Null}]
         /\ Report(n, connected) => row' \in [Nodes -> Row \cup {Null}]
<1>1. Exists(n) => row[n] \in Row
  BY DEF TypeOK, Exists
<1>2. Exists(n) => /\ [row[n] EXCEPT !.connected = connected, !.connecting = FALSE] \in Row
                   /\ [row[n] EXCEPT !.connecting = TRUE] \in Row
                   /\ [row[n] EXCEPT !.connected = connected] \in Row
  BY <1>1 DEF Row
<1>3. [disabled |-> TRUE, connected |-> FALSE, connecting |-> FALSE, configured |-> FALSE] \in Row
  BY DEF Row
<1> QED
  BY <1>1, <1>2, <1>3, UpdateTypes DEF TypeOK, Settle, MarkConnecting, Clear, Report

\* The histories of rows stay well typed.
LEMMA AbandonedTypes ==
  ASSUME TypeOK, NEW n \in Nodes, NEW connected \in BOOLEAN
  PROVE  /\ Settle(n, connected) => abandoned' \subseteq Nodes
         /\ MarkConnecting(n) => abandoned' \subseteq Nodes
         /\ Clear(n) => abandoned' \subseteq Nodes
BY DEF TypeOK, Settle, MarkConnecting, Clear

\* A job that gives up leaves the rows as they are.
LEMMA AbandonTypes ==
  ASSUME TypeOK, NEW ns \in SUBSET Nodes, Abandon(ns)
  PROVE  row' = row /\ abandoned' \subseteq Nodes
BY DEF TypeOK, Abandon

\* Jobs to be added.
LEMMA DueTypes ==
  ASSUME TypeOK
  PROVE  /\ \A n \in Nodes, job \in {"start", "stop", "delete"} :
              due \cup {Add(job, n)} \subseteq Jobs
         /\ \A p \in Profiles :
              due \cup {Add("restart", p)} \subseteq Jobs
         /\ \A job : due \ {job} \subseteq Jobs
BY DEF TypeOK, Add, Jobs

\* The states in which no job is there, and a stalled one.
LEMMA NoJobTypes ==
  /\ NoStart \in StartState
  /\ [pc |-> "waiting", stalled |-> TRUE] \in StartState
  /\ NoRestart \in RestartState
  /\ [NoRestart EXCEPT !.pc = "waiting", !.stalled = TRUE] \in RestartState
BY DEF NoStart, StartState, NoRestart, RestartState

\* The initial state is well typed.
LEMMA InitTypes == Init => TypeOK
<1> SUFFICES ASSUME Init PROVE TypeOK
  OBVIOUS
<1>1. row \in [Nodes -> Row \cup {Null}]
  <2>1. \A c \in BOOLEAN : [disabled |-> FALSE, connected |-> c, connecting |-> FALSE,
                           configured |-> TRUE] \in Row
    BY DEF Row
  <2> QED
    BY <2>1 DEF Init
<1>2. start \in [Nodes -> StartState]
  BY DEF Init, StartState, NoStart
<1>3. restart \in [Profiles -> RestartState]
  BY DEF Init, RestartState, NoRestart
<1>4. /\ health \in [Nodes -> BOOLEAN \cup {Null}]
      /\ stop \in [Nodes -> {"none", "waiting", "stopping"}]
      /\ unseen \in [Profiles -> BOOLEAN]
      /\ requests \in 0..MaxRequests
  BY NodeConstants DEF Init
<1>5. /\ paused \in BOOLEAN /\ stuck \in BOOLEAN
      /\ retry \subseteq Profiles /\ due \subseteq Jobs
      /\ abandoned \subseteq Nodes /\ dropped \subseteq Profiles
  BY DEF Init
<1> QED
  BY <1>1, <1>2, <1>3, <1>4, <1>5 DEF TypeOK

\* The nodes a restart has marked.
LEMMA MarkedTypes ==
  ASSUME TypeOK, NEW p \in Profiles
  PROVE  Marked(p) \in SUBSET Nodes
BY DEF TypeOK, Marked, RestartState

\* A request, with the job it wants added.
LEMMA RequestTypes ==
  ASSUME TypeOK, Request
  PROVE  requests' \in 0..MaxRequests
BY NodeConstants DEF TypeOK, Request

\* Administrators' requests preserve the types.
LEMMA AdminTypes == TypeOK /\ AdminRequest => TypeOK'
<1> SUFFICES ASSUME TypeOK, AdminRequest PROVE TypeOK'
  OBVIOUS
<1> USE RequestTypes, DueTypes
<1>1. ASSUME NEW n \in Nodes, RestartNode(n) PROVE TypeOK'
  BY <1>1 DEF RestartNode, TypeOK, rows, pause, seen
<1>2. ASSUME NEW n \in Nodes, NEW configured \in BOOLEAN, UpdateNode(n, configured) PROVE TypeOK'
  <2>1. row' \in [Nodes -> Row \cup {Null}]
    <3>1. Exists(n) => [row[n] EXCEPT !.configured = configured] \in Row
      BY FlagTypes DEF Row
    <3> QED
      BY <1>2, <3>1, UpdateTypes DEF UpdateNode, TypeOK
  <2> QED
    BY <1>2, <2>1 DEF UpdateNode, TypeOK, pause, seen
<1>3. ASSUME NEW n \in Nodes, EnableNode(n) PROVE TypeOK'
  <2>1. row' \in [Nodes -> Row \cup {Null}] /\ abandoned' \subseteq Nodes
    <3>1. Exists(n) => [row[n] EXCEPT !.disabled = FALSE] \in Row
      BY FlagTypes DEF Row
    <3> QED
      BY <1>3, <3>1, UpdateTypes, FlagTypes, AbandonedTypes DEF EnableNode, TypeOK
  <2> QED
    BY <1>3, <2>1 DEF EnableNode, TypeOK, pause, seen
<1>4. ASSUME NEW n \in Nodes, DisableNode(n) PROVE TypeOK'
  <2>1. row' \in [Nodes -> Row \cup {Null}]
    <3>1. Exists(n) => [row[n] EXCEPT !.disabled = TRUE, !.connected = FALSE,
                                      !.connecting = FALSE] \in Row
      BY FlagTypes DEF Row
    <3> QED
      BY <1>4, <3>1, UpdateTypes DEF DisableNode, TypeOK
  <2> QED
    BY <1>4, <2>1 DEF DisableNode, TypeOK, pause, seen
<1>5. ASSUME NEW n \in Nodes, DeleteNode(n) PROVE TypeOK'
  BY <1>5 DEF DeleteNode, TypeOK, rows, pause, seen
<1>6. ASSUME NEW p \in Profiles, ChangeProfile(p) PROVE TypeOK'
  BY <1>6 DEF ChangeProfile, TypeOK, rows, pause
<1> QED
  BY <1>1, <1>2, <1>3, <1>4, <1>5, <1>6 DEF AdminRequest

\* The jobs of one node preserve the types.
LEMMA NodeJobTypes ==
  ASSUME TypeOK, NEW n \in Nodes, NodeJob(n)
  PROVE  TypeOK'
<1> USE DueTypes, NoJobTypes DEF EndStart
<1>1. CASE AddStart(n)
  <2>1. start' \in [Nodes -> StartState]
    BY <1>1 DEF AddStart, TypeOK, StartState
  <2> QED
    BY <1>1, <2>1 DEF AddStart, TypeOK, rows, pause, seen
<1>2. CASE AddStop(n)
  BY <1>2 DEF AddStop, TypeOK, rows, pause, seen
<1>3. CASE BeginStart(n)
  <2>1. start' \in [Nodes -> StartState]
    <3>1. CASE ~Exists(n) \/ row[n].connecting
      BY <1>3, <3>1 DEF BeginStart, TypeOK
    <3>2. CASE Exists(n) /\ ~row[n].connecting
      <4> DEFINE pc == IF row[n].configured THEN "checked" ELSE "clearing"
      <4>1. [start[n] EXCEPT !.pc = pc] \in StartState
        BY DEF TypeOK, StartState
      <4>2. start' = [start EXCEPT ![n] = [start[n] EXCEPT !.pc = pc]]
        BY <1>3, <3>2 DEF BeginStart
      <4> QED
        BY <4>1, <4>2 DEF TypeOK
    <3> QED
      BY <3>1, <3>2
  <2> QED
    BY <1>3, <2>1 DEF BeginStart, TypeOK, rows, pause, seen
<1>4. CASE ClearNode(n)
  <2>1. start' \in [Nodes -> StartState]
    BY <1>4 DEF ClearNode, TypeOK, StartState
  <2> QED
    BY <1>4, <2>1, FlagTypes, AbandonedTypes DEF ClearNode, TypeOK, pause, seen
<1>5. CASE SetConnecting(n)
  <2>1. start' \in [Nodes -> StartState]
    BY <1>5 DEF SetConnecting, TypeOK, StartState
  <2> QED
    BY <1>5, <2>1, FlagTypes, AbandonedTypes DEF SetConnecting, TypeOK, pause, seen
<1>6. CASE FinishStart(n)
  <2>1. start' \in [Nodes -> StartState]
    BY <1>6 DEF FinishStart, TypeOK, StartState
  <2> QED
    BY <1>6, <2>1, FlagTypes, AbandonedTypes DEF FinishStart, TypeOK, pause, seen
<1>7. CASE BeginStop(n)
  BY <1>7 DEF BeginStop, TypeOK, rows, pause, seen
<1>8. CASE FinishStop(n)
  <2>1. row' \in [Nodes -> Row \cup {Null}]
    <3>1. Exists(n) => [row[n] EXCEPT !.disabled = TRUE, !.connected = FALSE,
                                      !.connecting = FALSE] \in Row
      BY FlagTypes DEF Row
    <3> QED
      BY <1>8, <3>1, UpdateTypes DEF FinishStop, TypeOK
  <2> QED
    BY <1>8, <2>1 DEF FinishStop, TypeOK, pause, seen
<1>9. CASE DeleteRow(n)
  BY <1>9 DEF DeleteRow, TypeOK, pause, seen
<1> QED
  BY <1>1, <1>2, <1>3, <1>4, <1>5, <1>6, <1>7, <1>8, <1>9 DEF NodeJob

\* Health checks preserve the types.
LEMMA HealthTypes ==
  ASSUME TypeOK, CheckNodeHealthBulk \/ \E n \in Nodes : HealthCheck(n)
  PROVE  TypeOK'
<1>1. CASE CheckNodeHealthBulk
  <2>1. \A n \in Nodes : Exists(n) => Payload(n) \in BOOLEAN
    BY FlagTypes DEF Payload, Row
  <2>2. health' \in [Nodes -> BOOLEAN \cup {Null}]
    BY <1>1, <2>1 DEF CheckNodeHealthBulk, TypeOK
  <2> QED
    BY <1>1, <2>2 DEF CheckNodeHealthBulk, TypeOK, rows, pause, seen
<1>2. ASSUME NEW n \in Nodes, HealthCheck(n) PROVE TypeOK'
  <2>1. row' \in [Nodes -> Row \cup {Null}]
    BY <1>2, FlagTypes DEF HealthCheck, TypeOK
  <2> QED
    BY <1>2, <2>1, DueTypes DEF HealthCheck, TypeOK, pause, seen
<1> QED
  BY <1>1, <1>2

\* The steps of a restart preserve the types.
LEMMA RestartTypes ==
  ASSUME TypeOK, NEW p \in Profiles, RestartJob(p)
  PROVE  TypeOK'
<1> USE DueTypes, NoJobTypes DEF EndRestart, Resume
<1>1. CASE AddRestart(p)
  <2>1. restart' \in [Profiles -> RestartState]
    BY <1>1 DEF AddRestart, TypeOK, RestartState
  <2> QED
    BY <1>1, <2>1 DEF AddRestart, TypeOK, rows, pause, seen
<1>2. CASE Retry(p)
  BY <1>2 DEF Retry, TypeOK, rows, pause, seen
<1>3. CASE BeginRestart(p)
  <2>1. restart' \in [Profiles -> RestartState]
    BY <1>3 DEF BeginRestart, TypeOK, RestartState
  <2> QED
    BY <1>3, <2>1 DEF BeginRestart, TypeOK, rows, seen
<1>4. CASE FindNodes(p)
  <2>1. restart' \in [Profiles -> RestartState]
    <3> DEFINE found == {n \in Nodes : Exists(n) /\ ~row[n].disabled /\ ProfileOf[n] = p}
               new == [restart[p] EXCEPT !.pc = "marking", !.todo = found, !.left = found,
                                         !.inbounds = {n \in found : row[n].configured}]
    <3>1. new \in RestartState
      <4>1. found \in SUBSET Nodes /\ {n \in found : row[n].configured} \in SUBSET Nodes
        OBVIOUS
      <4> HIDE DEF found
      <4> QED
        BY <4>1 DEF TypeOK, RestartState
    <3>2. restart' = [restart EXCEPT ![p] = new]
      BY <1>4 DEF FindNodes, TypeOK
    <3> QED
      BY <3>1, <3>2 DEF TypeOK
  <2> QED
    BY <1>4, <2>1 DEF FindNodes, TypeOK, rows, pause
<1>5. CASE EndMarking(p)
  <2>1. restart' \in [Profiles -> RestartState]
    <3>1. CASE restart[p].inbounds = {}
      BY <1>5, <3>1 DEF EndMarking, TypeOK
    <3>2. CASE restart[p].inbounds # {}
      <4>1. [restart[p] EXCEPT !.pc = "reading"] \in RestartState
        BY DEF TypeOK, RestartState
      <4>2. restart' = [restart EXCEPT ![p] = [restart[p] EXCEPT !.pc = "reading"]]
        BY <1>5, <3>2 DEF EndMarking
      <4> QED
        BY <4>1, <4>2 DEF TypeOK
    <3> QED
      BY <3>1, <3>2
  <2> QED
    BY <1>5, <2>1 DEF EndMarking, TypeOK, rows, pause, seen
<1>6. CASE ReadConfig(p)
  <2>1. restart' \in [Profiles -> RestartState]
    BY <1>6 DEF ReadConfig, TypeOK, RestartState
  <2> QED
    BY <1>6, <2>1 DEF ReadConfig, TypeOK, rows, pause, seen
<1>7. CASE FinishRestart(p)
  <2>1. restart' \in [Profiles -> RestartState]
    BY <1>7 DEF FinishRestart, TypeOK, RestartState
  <2> QED
    BY <1>7, <2>1 DEF FinishRestart, TypeOK, rows, seen
<1>8. ASSUME NEW n \in Nodes, MarkNode(p, n) PROVE TypeOK'
  <2>1. restart' \in [Profiles -> RestartState]
    BY <1>8 DEF MarkNode, TypeOK, RestartState
  <2> QED
    BY <1>8, <2>1, FlagTypes, AbandonedTypes DEF MarkNode, TypeOK, pause, seen
<1>9. ASSUME NEW n \in Nodes, StartNodeOfProfile(p, n) PROVE TypeOK'
  <2>1. restart' \in [Profiles -> RestartState]
    BY <1>9 DEF StartNodeOfProfile, TypeOK, RestartState
  <2> QED
    BY <1>9, <2>1, FlagTypes, AbandonedTypes DEF StartNodeOfProfile, TypeOK, pause, seen
<1> QED
  BY <1>1, <1>2, <1>3, <1>4, <1>5, <1>6, <1>7, <1>8, <1>9 DEF RestartJob

\* Failures preserve the types.
LEMMA FailureTypes == TypeOK /\ Failure => TypeOK'
<1> SUFFICES ASSUME TypeOK, Failure PROVE TypeOK'
  OBVIOUS
<1> USE DueTypes, NoJobTypes DEF Drop, EndStart, EndRestart, Resume
<1>1. ASSUME NEW job \in due, LoseAdd(job) PROVE TypeOK'
  <2>1. job.job = "restart" => job.of \in Profiles
    BY <1>1 DEF TypeOK, Jobs
  <2> QED
    BY <1>1, <2>1 DEF LoseAdd, TypeOK, rows, pause, seen
<1>2. ASSUME NEW n \in Nodes, GiveUpStart(n) PROVE TypeOK'
  <2>1. start' \in [Nodes -> StartState]
    BY <1>2 DEF GiveUpStart, TypeOK, StartState
  <2> QED
    BY <1>2, <2>1, AbandonTypes DEF GiveUpStart, TypeOK, pause, seen
<1>3. ASSUME NEW n \in Nodes, StallStart(n) PROVE TypeOK'
  <2>1. start' \in [Nodes -> StartState]
    <3>1. CASE start[n].stalled
      BY <1>3, <3>1 DEF StallStart, TypeOK
    <3>2. CASE ~start[n].stalled
      BY <1>3, <3>2 DEF StallStart, TypeOK
    <3> QED
      BY <3>1, <3>2
  <2> QED
    BY <1>3, <2>1, AbandonTypes DEF StallStart, TypeOK, rows, pause, seen
<1>4. ASSUME NEW p \in Profiles, LoseRetry(p) PROVE TypeOK'
  BY <1>4 DEF LoseRetry, TypeOK, rows, pause
<1>5. ASSUME NEW p \in Profiles, GiveUpRestart(p) PROVE TypeOK'
  <2>1. restart' \in [Profiles -> RestartState]
    BY <1>5 DEF GiveUpRestart, TypeOK, RestartState
  <2> QED
    BY <1>5, <2>1, AbandonTypes, MarkedTypes DEF GiveUpRestart, TypeOK
<1>6. ASSUME NEW p \in Profiles, StallRestart(p) PROVE TypeOK'
  <2>1. restart' \in [Profiles -> RestartState]
    <3>1. CASE restart[p].stalled
      BY <1>6, <3>1 DEF StallRestart, TypeOK
    <3>2. CASE ~restart[p].stalled
      BY <1>6, <3>2 DEF StallRestart, TypeOK
    <3> QED
      BY <3>1, <3>2
  <2> QED
    BY <1>6, <2>1, AbandonTypes, MarkedTypes DEF StallRestart, TypeOK, seen
<1>7. ASSUME NEW p \in Profiles, NEW n \in Nodes, SkipNodeOfProfile(p, n) PROVE TypeOK'
  <2>1. restart' \in [Profiles -> RestartState]
    BY <1>7 DEF SkipNodeOfProfile, TypeOK, RestartState
  <2> QED
    BY <1>7, <2>1, AbandonTypes DEF SkipNodeOfProfile, TypeOK, pause, seen
<1> QED
  BY <1>1, <1>2, <1>3, <1>4, <1>5, <1>6, <1>7 DEF Failure

\* Every step preserves the types.
LEMMA NextTypes == TypeOK /\ [Next]_vars => TypeOK'
<1> SUFFICES ASSUME TypeOK, [Next]_vars PROVE TypeOK'
  OBVIOUS
<1>1. CASE UNCHANGED vars
  BY <1>1 DEF vars, TypeOK
<1> QED
  BY <1>1, AdminTypes, NodeJobTypes, HealthTypes, RestartTypes, FailureTypes DEF Next

\* The rows, the queues and their jobs stay well typed.
THEOREM NodesTypeCorrect == Spec => []TypeOK
BY InitTypes, NextTypes, PTL DEF Spec

(***************************************************************************)
(* Effects of single steps                                                 *)
(***************************************************************************)

\* FindNodes remembers the nodes it found.
LEMMA FindNodesEffect ==
  ASSUME TypeOK, NEW p \in Profiles, FindNodes(p)
  PROVE  /\ restart'[p].pc = "marking"
         /\ restart'[p].inbounds \subseteq restart'[p].left
         /\ \A q \in Profiles \ {p} : restart'[q] = restart[q]
<1> DEFINE found == {n \in Nodes : Exists(n) /\ ~row[n].disabled /\ ProfileOf[n] = p}
           inbounds == {n \in found : row[n].configured}
           new == [restart[p] EXCEPT !.pc = "marking", !.todo = found, !.left = found,
                                     !.inbounds = inbounds]
<1>1. restart' = [restart EXCEPT ![p] = new]
  BY DEF FindNodes, TypeOK
<1>2. inbounds \subseteq found
  OBVIOUS
<1> HIDE DEF found, inbounds
<1>3. new.pc = "marking" /\ new.inbounds = inbounds /\ new.left = found
  BY DEF TypeOK, RestartState
<1> HIDE DEF new
<1> QED
  BY <1>1, <1>2, <1>3 DEF TypeOK

(***************************************************************************)
(* The paused queue                                                        *)
(***************************************************************************)

\* Every step of a restart that has begun keeps the queue's owner, resumes it
\* or gives up.
LEMMA NextPausedHasOwner ==
  ASSUME TypeOK, PausedHasOwner, [Next]_vars
  PROVE  PausedHasOwner'
<1> USE DEF PausedHasOwner, pause
<1>1. CASE UNCHANGED <<restart, paused, stuck>>
  BY <1>1
<1>2. ASSUME NEW p \in Profiles, restart'[p].pc # "none" PROVE PausedHasOwner'
  BY <1>2
<1>3. ASSUME NEW p \in Profiles, Resume(p) PROVE PausedHasOwner'
  BY <1>3 DEF Resume
<1>4. ASSUME NEW p \in Profiles, RestartJob(p) PROVE PausedHasOwner'
  <2>1. CASE AddRestart(p)
    BY <2>1, <1>2 DEF AddRestart, TypeOK, RestartState
  <2>2. CASE Retry(p)
    BY <2>2, <1>1 DEF Retry
  <2>3. CASE BeginRestart(p)
    BY <2>3, <1>2 DEF BeginRestart, TypeOK, RestartState
  <2>4. CASE FindNodes(p)
    BY <2>4, <1>2, FindNodesEffect
  <2>5. CASE EndMarking(p)
    <3>1. CASE restart[p].inbounds = {}
      BY <2>5, <3>1, <1>3 DEF EndMarking
    <3>2. CASE restart[p].inbounds # {}
      BY <2>5, <3>2, <1>2 DEF EndMarking, TypeOK, RestartState
    <3> QED
      BY <3>1, <3>2
  <2>6. CASE ReadConfig(p)
    BY <2>6, <1>2 DEF ReadConfig, TypeOK, RestartState
  <2>7. CASE FinishRestart(p)
    BY <2>7, <1>3 DEF FinishRestart
  <2>8. ASSUME NEW n \in Nodes, MarkNode(p, n) PROVE PausedHasOwner'
    BY <2>8, <1>2 DEF MarkNode, TypeOK, RestartState
  <2>9. ASSUME NEW n \in Nodes, StartNodeOfProfile(p, n) PROVE PausedHasOwner'
    BY <2>9, <1>2 DEF StartNodeOfProfile, TypeOK, RestartState
  <2> QED
    BY <1>4, <2>1, <2>2, <2>3, <2>4, <2>5, <2>6, <2>7, <2>8, <2>9 DEF RestartJob
<1>5. CASE AdminRequest
  BY <1>5, <1>1 DEF AdminRequest, RestartNode, UpdateNode, EnableNode, DisableNode, DeleteNode,
                    ChangeProfile
<1>6. ASSUME NEW n \in Nodes, NodeJob(n) \/ HealthCheck(n) PROVE PausedHasOwner'
  BY <1>6, <1>1 DEF NodeJob, AddStart, AddStop, BeginStart, ClearNode, SetConnecting, FinishStart,
                    BeginStop, FinishStop, DeleteRow, HealthCheck
<1>7. CASE CheckNodeHealthBulk
  BY <1>7, <1>1 DEF CheckNodeHealthBulk
<1>8. CASE Failure
  <2>1. ASSUME NEW job \in due, LoseAdd(job) PROVE PausedHasOwner'
    BY <2>1, <1>1 DEF LoseAdd
  <2>2. ASSUME NEW n \in Nodes, GiveUpStart(n) \/ StallStart(n) PROVE PausedHasOwner'
    BY <2>2, <1>1 DEF GiveUpStart, StallStart
  <2>3. ASSUME NEW p \in Profiles, LoseRetry(p) PROVE PausedHasOwner'
    BY <2>3, <1>1 DEF LoseRetry
  <2>4. ASSUME NEW p \in Profiles, GiveUpRestart(p) PROVE PausedHasOwner'
    BY <2>4, <1>3 DEF GiveUpRestart
  <2>5. ASSUME NEW p \in Profiles, StallRestart(p) PROVE PausedHasOwner'
    <3>1. CASE restart[p].stalled
      BY <2>5, <3>1 DEF StallRestart
    <3>2. CASE ~restart[p].stalled
      BY <2>5, <3>2, <1>2 DEF StallRestart, TypeOK, NoRestart
    <3> QED
      BY <3>1, <3>2
  <2>6. ASSUME NEW p \in Profiles, NEW n \in Nodes, SkipNodeOfProfile(p, n) PROVE PausedHasOwner'
    BY <2>6, <1>2 DEF SkipNodeOfProfile, TypeOK, RestartState
  <2> QED
    BY <1>8, <2>1, <2>2, <2>3, <2>4, <2>5, <2>6 DEF Failure
<1>9. CASE UNCHANGED vars
  BY <1>9, <1>1 DEF vars
<1> QED
  BY <1>4, <1>5, <1>6, <1>7, <1>8, <1>9 DEF Next

(***************************************************************************)
(* Connecting nodes                                                        *)
(***************************************************************************)

\* What a job writes to one row leaves the others and their history alone.
LEMMA RowEffects ==
  ASSUME TypeOK, NEW n \in Nodes, NEW connected \in BOOLEAN
  PROVE  /\ Settle(n, connected) \/ Clear(n) =>
              /\ ~Connecting(n)'
              /\ \A m \in Nodes \ {n} : /\ Connecting(m)' => Connecting(m)
                                        /\ m \in abandoned => m \in abandoned'
         /\ MarkConnecting(n) =>
              \A m \in Nodes \ {n} : /\ Connecting(m)' => Connecting(m)
                                     /\ m \in abandoned => m \in abandoned'
         /\ Report(n, connected) =>
              \A m \in Nodes : Connecting(m)' => Connecting(m)
<1>1. Exists(n) => row[n] \in Row
  BY FlagTypes
<1>2. ASSUME Settle(n, connected)
      PROVE  row' = [row EXCEPT ![n] = IF Exists(n)
                       THEN [row[n] EXCEPT !.connected = connected, !.connecting = FALSE]
                       ELSE Null]
  BY <1>2 DEF Settle, Update
<1>3. Settle(n, connected) => ~Connecting(n)'
  BY <1>1, <1>2 DEF Connecting, Exists, TypeOK, Row
<1>4. Clear(n) => ~Connecting(n)'
  BY <1>1 DEF Clear, Update, Connecting, Exists, TypeOK, Row
<1>5. ASSUME Settle(n, connected) \/ Clear(n) \/ MarkConnecting(n), NEW m \in Nodes \ {n}
      PROVE  (Connecting(m)' => Connecting(m)) /\ (m \in abandoned => m \in abandoned')
  BY <1>5 DEF Settle, Clear, MarkConnecting, Update, Connecting, Exists, TypeOK
<1>6. ASSUME Report(n, connected), NEW m \in Nodes, Connecting(m)'
      PROVE  Connecting(m)
  <2>1. CASE m = n
    BY <1>1, <1>6, <2>1 DEF Report, Update, Connecting, Exists, TypeOK, Row
  <2>2. CASE m # n
    BY <1>6, <2>2 DEF Report, Update, Connecting, Exists, TypeOK
  <2> QED
    BY <2>1, <2>2
<1> QED
  BY <1>3, <1>4, <1>5, <1>6

\* If every connecting node was connecting and stays owned, or is owned anew,
\* connecting nodes have owners.
LEMMA StaysOwned ==
  ASSUME ConnectingHasOwner,
         \A n \in Nodes : Connecting(n)' => Owned(n)' \/ (Connecting(n) /\ (Owned(n) => Owned(n)'))
  PROVE  ConnectingHasOwner'
BY DEF ConnectingHasOwner

\* A step that leaves the restarts alone leaves what they have marked alone.
LEMMA OwnedFrame ==
  ASSUME UNCHANGED restart, NEW n \in Nodes, Owned(n),
         start[n].pc = "calling" => start'[n].pc = "calling",
         n \in abandoned => n \in abandoned'
  PROVE  Owned(n)'
BY DEF Owned, Marked

\* Administrators' requests mark no node as connecting.
LEMMA AdminOwned ==
  ASSUME TypeOK, ConnectingHasOwner, AdminRequest
  PROVE  ConnectingHasOwner'
<1> USE StaysOwned, OwnedFrame
<1>1. ASSUME NEW n \in Nodes, RestartNode(n) \/ DeleteNode(n) PROVE ConnectingHasOwner'
  BY <1>1 DEF RestartNode, DeleteNode, rows, Connecting, Exists
<1>2. ASSUME NEW p \in Profiles, ChangeProfile(p) PROVE ConnectingHasOwner'
  BY <1>2 DEF ChangeProfile, rows, Connecting, Exists
<1>3. ASSUME NEW n \in Nodes, NEW configured \in BOOLEAN, UpdateNode(n, configured)
      PROVE  ConnectingHasOwner'
  <2>1. \A m \in Nodes : Connecting(m)' => Connecting(m)
    BY <1>3, FlagTypes DEF UpdateNode, Update, Connecting, Exists, TypeOK, Row
  <2> QED
    BY <1>3, <2>1 DEF UpdateNode
<1>4. ASSUME NEW n \in Nodes, EnableNode(n) PROVE ConnectingHasOwner'
  <2>1. CASE row[n].configured
    <3>1. \A m \in Nodes : Connecting(m)' => Connecting(m)
      BY <1>4, <2>1, FlagTypes DEF EnableNode, Update, Connecting, Exists, TypeOK, Row
    <3> QED
      BY <1>4, <2>1, <3>1 DEF EnableNode
  <2>2. CASE ~row[n].configured
    BY <1>4, <2>2, RowEffects DEF EnableNode
  <2> QED
    BY <2>1, <2>2
<1>5. ASSUME NEW n \in Nodes, DisableNode(n) PROVE ConnectingHasOwner'
  <2>1. ~Connecting(n)' /\ \A m \in Nodes \ {n} : Connecting(m)' => Connecting(m)
    BY <1>5, FlagTypes DEF DisableNode, Update, Connecting, Exists, TypeOK, Row
  <2> QED
    BY <1>5, <2>1 DEF DisableNode
<1> QED
  BY <1>1, <1>2, <1>3, <1>4, <1>5 DEF AdminRequest

\* START_NODE owns the node from setting isConnecting to its last update.
LEMMA NodeJobOwned ==
  ASSUME TypeOK, ConnectingHasOwner, NEW n \in Nodes, NodeJob(n)
  PROVE  ConnectingHasOwner'
<1> USE StaysOwned, OwnedFrame
<1>1. CASE AddStart(n)
  BY <1>1 DEF AddStart, rows, Connecting, Exists, TypeOK, StartState
<1>2. CASE AddStop(n)
  BY <1>2 DEF AddStop, rows, Connecting, Exists
<1>3. CASE BeginStart(n)
  <2>1. \A m \in Nodes : start[m].pc = "calling" => start'[m].pc = "calling"
    BY <1>3 DEF BeginStart, EndStart, TypeOK, StartState
  <2> QED
    BY <1>3, <2>1 DEF BeginStart, rows, Connecting, Exists
<1>4. CASE ClearNode(n)
  <2>1. \A m \in Nodes \ {n} : start'[m] = start[m]
    BY <1>4 DEF ClearNode, EndStart, TypeOK
  <2> QED
    BY <1>4, <2>1, RowEffects DEF ClearNode
<1>5. CASE SetConnecting(n)
  <2>1. Owned(n)' /\ \A m \in Nodes \ {n} : start'[m] = start[m]
    BY <1>5 DEF SetConnecting, TypeOK, StartState, Owned
  <2> QED
    BY <1>5, <2>1, RowEffects DEF SetConnecting
<1>6. CASE FinishStart(n)
  <2>1. \A m \in Nodes \ {n} : start'[m] = start[m]
    BY <1>6 DEF FinishStart, EndStart, TypeOK
  <2> QED
    BY <1>6, <2>1, RowEffects DEF FinishStart
<1>7. CASE BeginStop(n)
  BY <1>7 DEF BeginStop, rows, Connecting, Exists
<1>8. CASE FinishStop(n)
  <2>1. ~Connecting(n)' /\ \A m \in Nodes \ {n} : Connecting(m)' => Connecting(m)
    BY <1>8, FlagTypes DEF FinishStop, Update, Connecting, Exists, TypeOK, Row
  <2> QED
    BY <1>8, <2>1 DEF FinishStop
<1>9. CASE DeleteRow(n)
  <2>1. ~Connecting(n)' /\ \A m \in Nodes \ {n} : Connecting(m)' => Connecting(m)
    BY <1>9 DEF DeleteRow, Connecting, Exists, TypeOK
  <2> QED
    BY <1>9, <2>1 DEF DeleteRow
<1> QED
  BY <1>1, <1>2, <1>3, <1>4, <1>5, <1>6, <1>7, <1>8, <1>9 DEF NodeJob

\* A health check leaves isConnecting alone.
LEMMA HealthOwned ==
  ASSUME TypeOK, ConnectingHasOwner, CheckNodeHealthBulk \/ \E n \in Nodes : HealthCheck(n)
  PROVE  ConnectingHasOwner'
<1> USE StaysOwned, OwnedFrame
<1>1. CASE CheckNodeHealthBulk
  BY <1>1 DEF CheckNodeHealthBulk, rows, Connecting, Exists
<1>2. ASSUME NEW n \in Nodes, HealthCheck(n) PROVE ConnectingHasOwner'
  <2>1. \A m \in Nodes : Connecting(m)' => Connecting(m)
    <3>1. UNCHANGED row \/ \E connected \in BOOLEAN : Report(n, connected)
      BY <1>2 DEF HealthCheck
    <3>2. CASE UNCHANGED row
      BY <3>2 DEF Connecting, Exists
    <3> QED
      BY <3>1, <3>2, RowEffects
  <2> QED
    BY <1>2, <2>1 DEF HealthCheck
<1> QED
  BY <1>1, <1>2

\* A step of one restart keeps a node owned if what the restart has marked
\* stays marked or is abandoned.
LEMMA RestartOwnedFrame ==
  ASSUME NEW p \in Profiles, NEW n \in Nodes, Owned(n), UNCHANGED start,
         \A q \in Profiles \ {p} : restart'[q] = restart[q],
         n \in abandoned => n \in abandoned',
         n \in Marked(p) => n \in Marked(p)' \/ n \in abandoned'
  PROVE  Owned(n)'
<1>1. \A q \in Profiles \ {p} : Marked(q)' = Marked(q)
  BY DEF Marked
<1> QED
  BY <1>1 DEF Owned

\* A restart owns a node from marking it to starting it.
LEMMA RestartOwned ==
  ASSUME TypeOK, MarkedAreLeft, ConnectingHasOwner, NEW p \in Profiles, RestartJob(p)
  PROVE  ConnectingHasOwner'
<1> USE StaysOwned, RestartOwnedFrame DEF rows
<1>1. CASE AddRestart(p)
  <2>1. /\ \A q \in Profiles \ {p} : restart'[q] = restart[q]
        /\ Marked(p) \subseteq Marked(p)'
    BY <1>1 DEF AddRestart, Marked, TypeOK, RestartState
  <2> QED
    BY <1>1, <2>1 DEF AddRestart, Connecting, Exists
<1>2. CASE Retry(p)
  BY <1>2, OwnedFrame DEF Retry, Connecting, Exists
<1>3. CASE BeginRestart(p)
  <2>1. /\ \A q \in Profiles \ {p} : restart'[q] = restart[q]
        /\ Marked(p) = {}
    BY <1>3 DEF BeginRestart, Marked, TypeOK, RestartState
  <2> QED
    BY <1>3, <2>1 DEF BeginRestart, Connecting, Exists
<1>4. CASE FindNodes(p)
  <2>1. Marked(p) = {}
    BY <1>4 DEF FindNodes, Marked
  <2> QED
    BY <1>4, <2>1, FindNodesEffect DEF FindNodes, Connecting, Exists
<1>5. CASE EndMarking(p)
  <2>1. \A q \in Profiles \ {p} : restart'[q] = restart[q]
    <3>1. CASE restart[p].inbounds = {}
      BY <1>5, <3>1 DEF EndMarking, Resume, EndRestart, TypeOK
    <3>2. CASE restart[p].inbounds # {}
      BY <1>5, <3>2 DEF EndMarking, TypeOK
    <3> QED
      BY <3>1, <3>2
  <2>2. Marked(p) \subseteq Marked(p)'
    <3>1. CASE restart[p].inbounds = {}
      BY <1>5, <3>1 DEF EndMarking, Marked
    <3>2. CASE restart[p].inbounds # {}
      <4>1. /\ restart'[p].pc = "reading"
            /\ restart'[p].inbounds = restart[p].inbounds
            /\ restart'[p].left = restart[p].left
        BY <1>5, <3>2 DEF EndMarking, TypeOK, RestartState
      <4> QED
        BY <1>5, <4>1 DEF EndMarking, Marked, MarkedAreLeft
    <3> QED
      BY <3>1, <3>2
  <2> QED
    BY <1>5, <2>1, <2>2 DEF EndMarking, Connecting, Exists
<1>6. CASE ReadConfig(p)
  <2>1. /\ \A q \in Profiles \ {p} : restart'[q] = restart[q]
        /\ Marked(p) \subseteq Marked(p)'
    BY <1>6 DEF ReadConfig, Marked, TypeOK, RestartState
  <2> QED
    BY <1>6, <2>1 DEF ReadConfig, Connecting, Exists
<1>7. CASE FinishRestart(p)
  <2>1. /\ \A q \in Profiles \ {p} : restart'[q] = restart[q]
        /\ Marked(p) = {}
    BY <1>7 DEF FinishRestart, Resume, EndRestart, Marked, TypeOK
  <2> QED
    BY <1>7, <2>1 DEF FinishRestart, Connecting, Exists
<1>8. ASSUME NEW n \in Nodes, MarkNode(p, n) PROVE ConnectingHasOwner'
  <2>1. /\ \A q \in Profiles \ {p} : restart'[q] = restart[q]
        /\ Marked(p) \subseteq Marked(p)'
        /\ n \in restart[p].inbounds => n \in Marked(p)'
    BY <1>8 DEF MarkNode, Marked, TypeOK, RestartState
  <2>2. CASE n \in restart[p].inbounds
    <3>1. Owned(n)'
      BY <2>1, <2>2 DEF Owned
    <3> QED
      BY <1>8, <2>1, <2>2, <3>1, RowEffects DEF MarkNode
  <2>3. CASE n \notin restart[p].inbounds
    BY <1>8, <2>1, <2>3, RowEffects DEF MarkNode
  <2> QED
    BY <2>2, <2>3
<1>9. ASSUME NEW n \in Nodes, StartNodeOfProfile(p, n) PROVE ConnectingHasOwner'
  <2>1. /\ \A q \in Profiles \ {p} : restart'[q] = restart[q]
        /\ Marked(p) \ {n} \subseteq Marked(p)'
    BY <1>9 DEF StartNodeOfProfile, Marked, TypeOK, RestartState
  <2> QED
    BY <1>9, <2>1, RowEffects DEF StartNodeOfProfile
<1> QED
  BY <1>1, <1>2, <1>3, <1>4, <1>5, <1>6, <1>7, <1>8, <1>9 DEF RestartJob

\* A job that gives up leaves its nodes among the abandoned.
LEMMA FailureOwned ==
  ASSUME TypeOK, ConnectingHasOwner, Failure
  PROVE  ConnectingHasOwner'
<1> USE StaysOwned DEF rows
<1>1. ASSUME NEW job \in due, LoseAdd(job) PROVE ConnectingHasOwner'
  BY <1>1, OwnedFrame DEF LoseAdd, Connecting, Exists
<1>2. ASSUME NEW n \in Nodes, GiveUpStart(n) PROVE ConnectingHasOwner'
  <2>1. \A m \in Nodes \ {n} : start'[m] = start[m]
    BY <1>2 DEF GiveUpStart, EndStart, TypeOK
  <2>2. Connecting(n) => n \in abandoned'
    BY <1>2 DEF GiveUpStart, Abandon, Connecting
  <2> QED
    BY <1>2, <2>1, <2>2, OwnedFrame DEF GiveUpStart, Abandon, Connecting, Exists, Owned
<1>3. ASSUME NEW n \in Nodes, StallStart(n) PROVE ConnectingHasOwner'
  <2>1. \A m \in Nodes \ {n} : start'[m] = start[m]
    <3>1. CASE start[n].stalled
      BY <1>3, <3>1 DEF StallStart, EndStart, TypeOK
    <3>2. CASE ~start[n].stalled
      BY <1>3, <3>2 DEF StallStart, TypeOK
    <3> QED
      BY <3>1, <3>2
  <2>2. CASE start[n].pc = "calling"
    <3>1. Connecting(n) => n \in abandoned'
      BY <1>3, <2>2 DEF StallStart, Abandon, Connecting
    <3> QED
      BY <1>3, <2>1, <2>2, <3>1, OwnedFrame DEF StallStart, Abandon, Connecting, Exists, Owned
  <2>3. CASE start[n].pc # "calling"
    BY <1>3, <2>1, <2>3, OwnedFrame DEF StallStart, Connecting, Exists
  <2> QED
    BY <2>2, <2>3
<1>4. ASSUME NEW p \in Profiles, LoseRetry(p) PROVE ConnectingHasOwner'
  BY <1>4, OwnedFrame DEF LoseRetry, Connecting, Exists
<1>5. ASSUME NEW p \in Profiles, GiveUpRestart(p) PROVE ConnectingHasOwner'
  <2>1. \A q \in Profiles \ {p} : restart'[q] = restart[q]
    BY <1>5 DEF GiveUpRestart, Resume, EndRestart, TypeOK
  <2> QED
    BY <1>5, <2>1, MarkedTypes, RestartOwnedFrame DEF GiveUpRestart, Abandon, Connecting, Exists
<1>6. ASSUME NEW p \in Profiles, StallRestart(p) PROVE ConnectingHasOwner'
  <2>1. \A q \in Profiles \ {p} : restart'[q] = restart[q]
    <3>1. CASE restart[p].stalled
      BY <1>6, <3>1 DEF StallRestart, EndRestart, TypeOK
    <3>2. CASE ~restart[p].stalled
      BY <1>6, <3>2 DEF StallRestart, TypeOK
    <3> QED
      BY <3>1, <3>2
  <2> QED
    BY <1>6, <2>1, MarkedTypes, RestartOwnedFrame DEF StallRestart, Abandon, Connecting, Exists
<1>7. ASSUME NEW p \in Profiles, NEW n \in Nodes, SkipNodeOfProfile(p, n)
      PROVE  ConnectingHasOwner'
  <2>1. /\ \A q \in Profiles \ {p} : restart'[q] = restart[q]
        /\ Marked(p) \ {n} \subseteq Marked(p)'
    BY <1>7 DEF SkipNodeOfProfile, Marked, TypeOK, RestartState
  <2> QED
    BY <1>7, <2>1, RestartOwnedFrame DEF SkipNodeOfProfile, Abandon, Connecting, Exists
<1> QED
  BY <1>1, <1>2, <1>3, <1>4, <1>5, <1>6, <1>7 DEF Failure

\* The nodes to be marked stay among those to be started.
LEMMA NextMarkedAreLeft ==
  ASSUME TypeOK, MarkedAreLeft, [Next]_vars
  PROVE  MarkedAreLeft'
<1> USE DEF MarkedAreLeft
<1>1. CASE UNCHANGED restart
  BY <1>1
<1>2. ASSUME NEW p \in Profiles, \A q \in Profiles \ {p} : restart'[q] = restart[q],
             restart'[p].pc \in {"marking", "reading"} =>
               restart'[p].inbounds \subseteq restart'[p].left
      PROVE  MarkedAreLeft'
  BY <1>2
<1>3. ASSUME NEW p \in Profiles, EndRestart(p) PROVE MarkedAreLeft'
  BY <1>3, <1>2 DEF EndRestart, NoRestart, TypeOK
<1>4. ASSUME NEW p \in Profiles, RestartJob(p) PROVE MarkedAreLeft'
  <2>1. CASE AddRestart(p)
    BY <2>1, <1>2 DEF AddRestart, TypeOK, RestartState
  <2>2. CASE Retry(p)
    BY <2>2, <1>1 DEF Retry
  <2>3. CASE BeginRestart(p)
    BY <2>3, <1>2 DEF BeginRestart, TypeOK, RestartState
  <2>4. CASE FindNodes(p)
    BY <2>4, <1>2, FindNodesEffect
  <2>5. CASE EndMarking(p)
    <3>1. CASE restart[p].inbounds = {}
      BY <2>5, <3>1, <1>3 DEF EndMarking, Resume
    <3>2. CASE restart[p].inbounds # {}
      BY <2>5, <3>2, <1>2 DEF EndMarking, TypeOK, RestartState
    <3> QED
      BY <3>1, <3>2
  <2>6. CASE ReadConfig(p)
    BY <2>6, <1>2 DEF ReadConfig, TypeOK, RestartState
  <2>7. CASE FinishRestart(p)
    BY <2>7, <1>3 DEF FinishRestart, Resume
  <2>8. ASSUME NEW n \in Nodes, MarkNode(p, n) PROVE MarkedAreLeft'
    BY <2>8, <1>2 DEF MarkNode, TypeOK, RestartState
  <2>9. ASSUME NEW n \in Nodes, StartNodeOfProfile(p, n) PROVE MarkedAreLeft'
    BY <2>9, <1>2 DEF StartNodeOfProfile, TypeOK, RestartState
  <2> QED
    BY <1>4, <2>1, <2>2, <2>3, <2>4, <2>5, <2>6, <2>7, <2>8, <2>9 DEF RestartJob
<1>5. CASE AdminRequest
  BY <1>5, <1>1 DEF AdminRequest, RestartNode, UpdateNode, EnableNode, DisableNode, DeleteNode,
                    ChangeProfile
<1>6. ASSUME NEW n \in Nodes, NodeJob(n) \/ HealthCheck(n) PROVE MarkedAreLeft'
  BY <1>6, <1>1 DEF NodeJob, AddStart, AddStop, BeginStart, ClearNode, SetConnecting, FinishStart,
                    BeginStop, FinishStop, DeleteRow, HealthCheck
<1>7. CASE CheckNodeHealthBulk \/ UNCHANGED vars
  BY <1>7, <1>1 DEF CheckNodeHealthBulk, vars
<1>8. CASE Failure
  <2>1. ASSUME NEW job \in due, LoseAdd(job) PROVE MarkedAreLeft'
    BY <2>1, <1>1 DEF LoseAdd
  <2>2. ASSUME NEW n \in Nodes, GiveUpStart(n) \/ StallStart(n) PROVE MarkedAreLeft'
    BY <2>2, <1>1 DEF GiveUpStart, StallStart
  <2>3. ASSUME NEW p \in Profiles, LoseRetry(p) PROVE MarkedAreLeft'
    BY <2>3, <1>1 DEF LoseRetry
  <2>4. ASSUME NEW p \in Profiles, GiveUpRestart(p) PROVE MarkedAreLeft'
    BY <2>4, <1>3 DEF GiveUpRestart, Resume
  <2>5. ASSUME NEW p \in Profiles, StallRestart(p) PROVE MarkedAreLeft'
    <3>1. CASE restart[p].stalled
      BY <2>5, <3>1, <1>3 DEF StallRestart
    <3>2. CASE ~restart[p].stalled
      BY <2>5, <3>2, <1>2 DEF StallRestart, TypeOK, NoRestart
    <3> QED
      BY <3>1, <3>2
  <2>6. ASSUME NEW p \in Profiles, NEW n \in Nodes, SkipNodeOfProfile(p, n) PROVE MarkedAreLeft'
    BY <2>6, <1>2 DEF SkipNodeOfProfile, TypeOK, RestartState
  <2> QED
    BY <1>8, <2>1, <2>2, <2>3, <2>4, <2>5, <2>6 DEF Failure
<1> QED
  BY <1>4, <1>5, <1>6, <1>7, <1>8 DEF Next

\* The inductive invariant holds initially.
LEMMA InitIInv == Init => IInv
<1> SUFFICES ASSUME Init PROVE IInv
  OBVIOUS
<1>1. TypeOK
  BY InitTypes
<1>2. \A n \in Nodes : ~Connecting(n)
  BY DEF Init, Connecting, Exists
<1>3. MarkedAreLeft /\ PausedHasOwner
  BY DEF Init, NoRestart, MarkedAreLeft, PausedHasOwner
<1> QED
  BY <1>1, <1>2, <1>3 DEF IInv, ConnectingHasOwner

\* Every step preserves it.
LEMMA NextIInv == IInv /\ [Next]_vars => IInv'
<1> SUFFICES ASSUME IInv, [Next]_vars PROVE IInv'
  OBVIOUS
<1> USE DEF IInv
<1>1. TypeOK' /\ MarkedAreLeft' /\ PausedHasOwner'
  BY NextTypes, NextMarkedAreLeft, NextPausedHasOwner
<1>2. ConnectingHasOwner'
  <2>1. CASE UNCHANGED vars
    BY <2>1, StaysOwned, OwnedFrame DEF vars, Connecting, Exists
  <2> QED
    BY <2>1, AdminOwned, NodeJobOwned, HealthOwned, RestartOwned, FailureOwned DEF Next
<1> QED
  BY <1>1, <1>2

\* A connecting node always has a job that will reset it, or one that gave up.
THEOREM ConnectingNodesHaveOwners == Spec => []ConnectingHasOwner
<1>1. IInv => ConnectingHasOwner
  BY DEF IInv
<1> QED
  BY InitIInv, NextIInv, <1>1, PTL DEF Spec

\* A paused queue always has a restart that will resume it, or one that stalled
\* for good.
THEOREM PausedQueueHasOwner == Spec => []PausedHasOwner
<1>1. IInv => PausedHasOwner
  BY DEF IInv
<1> QED
  BY InitIInv, NextIInv, <1>1, PTL DEF Spec
=============================================================================
