------------------------- MODULE HostBalancerProofs -------------------------
(***************************************************************************)
(* Proofs about HostBalancer, for every instance of its constants: types,  *)
(* the integrity of the assignments, that the tables implement the seat    *)
(* book of Assignments, and what the answers of a refresh say about the    *)
(* decisions and the assignments on file.                                  *)
(***************************************************************************)
EXTENDS HostBalancer, FiniteSetTheorems, TLAPS

(***************************************************************************)
(* Target selection                                                        *)
(***************************************************************************)

\* Whatever the strategy, the pick is one of the candidates.
LEMMA SelectionIsCandidate ==
  ASSUME NEW settings, NEW ts, NEW number, NEW traffic
  PROVE  SelectTarget(settings, ts, number, traffic) \subseteq ts
<1>1. SelectByScore(ts, number) \subseteq ts
  BY DEF SelectByScore, LowestScore, FirstInOrder
<1>2. SelectByTraffic(settings, ts, number, traffic) \subseteq ts
  BY <1>1 DEF SelectByTraffic, LowestScore, FirstInOrder
<1>3. FirstInOrder(ts) \subseteq ts
  BY DEF FirstInOrder
<1> QED
  BY <1>1, <1>2, <1>3 DEF SelectTarget

\* What is kept, and what is chosen from, is one of the host's targets in the
\* snapshot.
LEMMA ChoicesAreTargets ==
  ASSUME NEW w \in Workers, NEW h \in Hosts
  PROVE  /\ CandidatesFor(w, h) \subseteq OfHost(req[w].targets, h)
         /\ StickyFor(w, h) \subseteq OfHost(req[w].targets, h)
         /\ LastFor(w, h) \subseteq OfHost(req[w].targets, h)
BY DEF CandidatesFor, Candidates, StickyFor, ReusableSticky, StickyTarget,
       LastFor, LastAssignment

(***************************************************************************)
(* Types                                                                   *)
(***************************************************************************)

LEMMA NoRequestType == /\ NoRequest \in Request
                       /\ NoCounts({}) \in [Ids({}) -> Nat]
                       /\ NoRequest.targets = {}
BY DEF NoRequest, Request, NoCounts, Answer, Ids

LEMMA InitTypes == ASSUME Init PROVE TInv
<1>1. TablesTyped
  BY TypedConstants DEF Init, TablesTyped
<1>2. RefreshesTyped
  BY NoRequestType DEF Init, RefreshesTyped, Labels
<1>3. saves \in [Admins -> Save] /\ SavesHaveBodies
  BY DEF Init, NoSave, Save, SavesHaveBodies
<1>4. RefreshesHaveUsers
  BY DEF Init, RefreshesHaveUsers
<1> QED
  BY <1>1, <1>2, <1>3, <1>4 DEF TInv, TypeOK

RTInv == RefreshesTyped /\ RefreshesHaveUsers

\* An administrator's request, or a row that goes, leaves the refreshes alone.
LEMMA RefreshesUnchanged ==
  ASSUME TInv, UNCHANGED refreshes
  PROVE  RTInv'
BY DEF TInv, TypeOK, RTInv, RefreshesTyped, RefreshesHaveUsers, refreshes

\* A refresh that goes to `label` with the request r and the counts c.
LEMMA RefreshTyped ==
  ASSUME TInv, NEW w \in Workers, NEW label \in Labels,
         NEW r \in Request, NEW c \in [Ids(r.targets) -> Nat],
         label # "idle" => r.user \in Users,
         Goto(w, label),
         req' = [req EXCEPT ![w] = r],
         counts' = [counts EXCEPT ![w] = c]
  PROVE  RTInv'
<1> USE DEF TInv, TypeOK, RefreshesTyped
<1>1. pc' \in [Workers -> Labels] /\ req' \in [Workers -> Request]
  BY DEF Goto
<1>2. counts' = [v \in Workers |-> counts'[v]]
  OBVIOUS
<1>3. ASSUME NEW v \in Workers
      PROVE  counts'[v] \in [Ids(req'[v].targets) -> Nat]
  BY <1>3
<1>4. RefreshesHaveUsers'
  BY DEF RefreshesHaveUsers, Goto
<1> QED
  BY <1>1, <1>2, <1>3, <1>4 DEF RTInv

LEMMA StartRefreshTypes ==
  ASSUME TInv, NEW w \in Workers, NEW u \in Users, NEW input \in SUBSET Hosts,
         StartRefresh(w, u, input)
  PROVE  RTInv'
<1> DEFINE settings == [h \in Hosts |-> IF h \in input THEN balancers[h] ELSE Null]
           answer == [h \in Hosts |-> IF h \in input THEN Pending ELSE Null]
           r == [req[w] EXCEPT !.user = u, !.settings = settings, !.answer = answer]
<1>1. settings \in [Hosts -> Settings \cup {Null}]
  BY DEF TInv, TypeOK, TablesTyped
<1>2. answer \in [Hosts -> Answer]
  BY DEF Answer
<1>3. req' = [req EXCEPT ![w] = r] /\ Goto(w, "targets") /\ counts' = counts
  BY DEF StartRefresh, TInv, TypeOK, RefreshesTyped, Request
<1> HIDE DEF settings, answer
<1>4. r \in Request /\ r.targets = req[w].targets /\ r.user = u
  BY <1>1, <1>2 DEF TInv, TypeOK, RefreshesTyped, Request
<1>5. counts[w] \in [Ids(r.targets) -> Nat] /\ counts' = [counts EXCEPT ![w] = counts[w]]
  BY <1>3, <1>4 DEF TInv, TypeOK, RefreshesTyped
<1> HIDE DEF r
<1> QED
  BY <1>3, <1>4, <1>5, RefreshTyped DEF Labels

LEMMA ReadTargetsTypes ==
  ASSUME TInv, NEW w \in Workers, ReadTargets(w)
  PROVE  RTInv'
<1> DEFINE enabled == {h \in Todo(req[w]) : /\ req[w].settings[h] # Null
                                            /\ req[w].settings[h].enabled}
           snapshot == {t \in targets : t.host \in enabled}
           answer == [h \in Hosts |->
                       IF h \in Todo(req[w]) \ enabled THEN Original ELSE req[w].answer[h]]
           r == [req[w] EXCEPT !.targets = snapshot, !.answer = answer]
<1>1. snapshot \in SUBSET Target
  BY DEF TInv, TypeOK, TablesTyped
<1>2. answer \in [Hosts -> Answer]
  BY DEF TInv, TypeOK, RefreshesTyped, Request, Answer
<1>3. /\ req' = [req EXCEPT ![w] = r]
      /\ counts' = [counts EXCEPT ![w] = NoCounts(snapshot)]
      /\ \E label \in Labels : Goto(w, label)
      /\ req[w].user \in Users
  BY DEF ReadTargets, TInv, TypeOK, RefreshesTyped, RefreshesHaveUsers, Request, Labels
<1> HIDE DEF snapshot, answer
<1>4. r \in Request /\ r.targets = snapshot /\ r.user = req[w].user
  BY <1>1, <1>2 DEF TInv, TypeOK, RefreshesTyped, Request
<1>5. NoCounts(snapshot) \in [Ids(r.targets) -> Nat]
  BY <1>4 DEF NoCounts
<1> HIDE DEF r
<1> QED
  BY <1>3, <1>4, <1>5, RefreshTyped

LEMMA ReadAssignmentsTypes ==
  ASSUME TInv, NEW w \in Workers, ReadAssignments(w)
  PROVE  RTInv'
<1> DEFINE assigned == [h \in Hosts |->
                         IF h \in Todo(req[w]) THEN assignments[h][req[w].user] ELSE Null]
           r == [req[w] EXCEPT !.assigned = assigned]
<1>1. /\ req' = [req EXCEPT ![w] = r]
      /\ counts' = [counts EXCEPT ![w] = counts[w]]
      /\ Goto(w, "counts")
      /\ req[w].user \in Users
  BY DEF ReadAssignments, TInv, TypeOK, RefreshesTyped, RefreshesHaveUsers, Request
<1>2. assigned \in [Hosts -> TargetId \cup {Null}]
  BY <1>1 DEF TInv, TypeOK, TablesTyped
<1> HIDE DEF assigned
<1>3. r \in Request /\ r.targets = req[w].targets /\ r.user = req[w].user
  BY <1>2 DEF TInv, TypeOK, RefreshesTyped, Request
<1>4. counts[w] \in [Ids(r.targets) -> Nat]
  BY <1>3 DEF TInv, TypeOK, RefreshesTyped
<1> HIDE DEF r
<1> QED
  BY <1>1, <1>3, <1>4, RefreshTyped DEF Labels

LEMMA HoldersFinite ==
  ASSUME NEW id
  PROVE  IsFiniteSet(Holders(id)) /\ Cardinality(Holders(id)) \in Nat
<1>1. IsFiniteSet(Hosts \X Users)
  BY FiniteInstance, FS_Product
<1>2. Holders(id) \in SUBSET (Hosts \X Users)
  BY DEF Holders
<1>3. IsFiniteSet(Holders(id))
  BY <1>1, <1>2, FS_Subset
<1> QED
  BY <1>3, FS_CardinalityType

LEMMA ReadCountsTypes ==
  ASSUME TInv, NEW w \in Workers, ReadCounts(w)
  PROVE  RTInv'
<1> DEFINE c == [i \in Ids(req[w].targets) |-> Cardinality(Holders(i))]
<1>1. /\ req' = [req EXCEPT ![w] = req[w]]
      /\ counts' = [counts EXCEPT ![w] = c]
      /\ Goto(w, "nodes")
      /\ req[w].user \in Users
      /\ req[w] \in Request
  BY DEF ReadCounts, TInv, TypeOK, RefreshesTyped, RefreshesHaveUsers
<1>2. c \in [Ids(req[w].targets) -> Nat]
  BY HoldersFinite
<1> HIDE DEF c
<1> QED
  BY <1>1, <1>2, RefreshTyped DEF Labels

LEMMA ReadNodesTypes ==
  ASSUME TInv, NEW w \in Workers, ReadNodes(w)
  PROVE  RTInv'
<1> DEFINE states == [n \in Nodes |->
                       IF \E t \in req[w].targets : t.node = n THEN nodes[n] ELSE Null]
           r == [req[w] EXCEPT !.nodes = states]
<1>1. /\ req' = [req EXCEPT ![w] = r]
      /\ counts' = [counts EXCEPT ![w] = counts[w]]
      /\ Goto(w, "resolve")
      /\ req[w].user \in Users
  BY DEF ReadNodes, TInv, TypeOK, RefreshesTyped, RefreshesHaveUsers, Request
<1>2. states \in [Nodes -> NodeState \cup {Null}]
  BY DEF TInv, TypeOK, TablesTyped
<1> HIDE DEF states
<1>3. r \in Request /\ r.targets = req[w].targets /\ r.user = req[w].user
  BY <1>2 DEF TInv, TypeOK, RefreshesTyped, Request
<1>4. counts[w] \in [Ids(r.targets) -> Nat]
  BY <1>3 DEF TInv, TypeOK, RefreshesTyped
<1> HIDE DEF r
<1> QED
  BY <1>1, <1>3, <1>4, RefreshTyped DEF Labels

LEMMA PushTypes ==
  ASSUME TInv, NEW w \in Workers, NEW h \in Hosts, NEW answer \in Answer,
         pc[w] = "resolve", Push(w, h, answer)
  PROVE  RTInv'
<1> DEFINE r == [req[w] EXCEPT !.answer = [req[w].answer EXCEPT ![h] = answer],
                               !.auditing = IF AuditEnabled THEN h ELSE Null]
<1>1. /\ req' = [req EXCEPT ![w] = r]
      /\ counts' = [counts EXCEPT ![w] = counts[w]]
      /\ req[w].user \in Users
  BY DEF Push, TInv, TypeOK, RefreshesTyped, RefreshesHaveUsers, Request
<1>2. \E label \in Labels : Goto(w, label)
  BY DEF Push, Labels
<1>3. r \in Request /\ r.targets = req[w].targets /\ r.user = req[w].user
  BY DEF TInv, TypeOK, RefreshesTyped, Request
<1>4. counts[w] \in [Ids(r.targets) -> Nat]
  BY <1>3 DEF TInv, TypeOK, RefreshesTyped
<1> HIDE DEF r
<1> QED
  BY <1>1, <1>2, <1>3, <1>4, RefreshTyped

LEMMA FailOpenTypes ==
  ASSUME TInv, NEW w \in Workers, pc[w] # "idle", FailOpen(w)
  PROVE  RTInv'
<1> DEFINE answer == [h \in Hosts |-> IF h \in Input(req[w]) THEN Original ELSE Null]
           r == [NoRequest EXCEPT !.user = req[w].user, !.answer = answer]
<1>1. answer \in [Hosts -> Answer]
  BY DEF Answer
<1>2. /\ req' = [req EXCEPT ![w] = r]
      /\ counts' = [counts EXCEPT ![w] = NoCounts({})]
      /\ Goto(w, "done")
      /\ req[w].user \in Users
  BY DEF FailOpen, TInv, TypeOK, RefreshesTyped, RefreshesHaveUsers, Request
<1> HIDE DEF answer
<1>3. r \in Request /\ r.targets = {} /\ r.user = req[w].user
  BY <1>1, <1>2, NoRequestType DEF Request
<1>4. NoCounts({}) \in [Ids(r.targets) -> Nat]
  BY <1>3, NoRequestType
<1> HIDE DEF r
<1> QED
  BY <1>2, <1>3, <1>4, RefreshTyped DEF Labels

LEMMA EndRefreshTypes ==
  ASSUME TInv, NEW w \in Workers, EndRefresh(w)
  PROVE  RTInv'
<1>1. /\ req' = [req EXCEPT ![w] = NoRequest]
      /\ counts' = [counts EXCEPT ![w] = NoCounts({})]
      /\ Goto(w, "idle")
  BY DEF EndRefresh
<1>2. NoCounts({}) \in [Ids(NoRequest.targets) -> Nat]
  BY NoRequestType
<1> QED
  BY <1>1, <1>2, NoRequestType, RefreshTyped DEF Labels

LEMMA DropTargetsTypes ==
  ASSUME TInv, NEW gone, NEW dead, DropTargets(gone, dead)
  PROVE  /\ targets' \subseteq Target
         /\ assignments' \in [Hosts -> [Users -> TargetId \cup {Null}]]
BY DEF TInv, TypeOK, TablesTyped, DropTargets

LEMMA DecisionsWithoutTypes ==
  ASSUME NEW ds \in SUBSET Decision, NEW gone
  PROVE  DecisionsWithout(ds, gone) \subseteq Decision
BY DEF DecisionsWithout, Decision

LEMMA SavesUnchanged ==
  ASSUME TInv, UNCHANGED saves
  PROVE  (saves \in [Admins -> Save] /\ SavesHaveBodies)'
BY DEF TInv, TypeOK, SavesHaveBodies

LEMMA TablesUnchanged ==
  ASSUME TInv, UNCHANGED tables
  PROVE  TablesTyped'
BY DEF TInv, TypeOK, TablesTyped, tables

LEMMA EnvironmentTypes ==
  ASSUME TInv, Environment
  PROVE  TInv'
<1>1. UNCHANGED refreshes /\ UNCHANGED saves
  BY DEF Environment, NodeChanges, DeleteNode, DeleteUser, DeleteHost
<1> USE DEF TInv, TypeOK, TablesTyped
<1>2. ASSUME NEW n \in Nodes, NodeChanges(n)
      PROVE  TablesTyped'
  BY <1>2, TypedConstants DEF NodeChanges
<1>3. ASSUME NEW n \in Nodes, DeleteNode(n)
      PROVE  TablesTyped'
  <2>1. targets' \subseteq Target
    BY <1>3 DEF DeleteNode, Target
  <2> QED
    BY <1>3, <2>1 DEF DeleteNode
<1>4. ASSUME NEW u \in Users, DeleteUser(u)
      PROVE  TablesTyped'
  BY <1>4 DEF DeleteUser
<1>5. ASSUME NEW h \in Hosts, DeleteHost(h)
      PROVE  TablesTyped'
  <2>1. DecisionsWithout({d \in decisions : d.host # h}, OfHost(targets, h)) \subseteq Decision
    BY DecisionsWithoutTypes
  <2>2. balancers' \in [Hosts -> Settings \cup {Null}]
    BY <1>5 DEF DeleteHost
  <2> QED
    BY <1>5, <2>1, <2>2, DropTargetsTypes DEF DeleteHost
<1> QED
  BY <1>1, <1>2, <1>3, <1>4, <1>5, RefreshesUnchanged, SavesUnchanged
     DEF Environment, RTInv

LEMMA AssignTargetTypes ==
  ASSUME TInv, NEW w \in Workers, NEW h \in Hosts, AssignTarget(w, h)
  PROVE  TInv'
<1>1. PICK t : IF h \in hosts /\ req[w].user \in users /\ t.id \in Ids(targets)
                 THEN /\ assignments' = [assignments EXCEPT ![h][req[w].user] = t.id]
                      /\ Push(w, h, t.id)
                 ELSE FailOpen(w) /\ UNCHANGED assignments
  BY DEF AssignTarget
<1>2. /\ pc[w] = "resolve"
      /\ UNCHANGED <<hosts, users, nodes, balancers, targets, decisions, created, saves>>
  BY DEF AssignTarget
<1>3. CASE h \in hosts /\ req[w].user \in users /\ t.id \in Ids(targets)
  <2>1. t.id \in TargetId
    BY <1>3 DEF TInv, TypeOK, TablesTyped, Ids, Target
  <2>2. RTInv'
    BY <1>1, <1>2, <1>3, <2>1, PushTypes DEF Answer
  <2>3. TablesTyped'
    BY <1>1, <1>2, <1>3, <2>1 DEF TInv, TypeOK, TablesTyped
  <2> QED
    BY <1>2, <2>2, <2>3, SavesUnchanged DEF RTInv, TInv, TypeOK
<1>4. CASE ~(h \in hosts /\ req[w].user \in users /\ t.id \in Ids(targets))
  <2>1. RTInv'
    BY <1>1, <1>2, <1>4, FailOpenTypes
  <2>2. TablesTyped'
    BY <1>1, <1>2, <1>4 DEF TInv, TypeOK, TablesTyped
  <2> QED
    BY <1>2, <2>1, <2>2, SavesUnchanged DEF RTInv, TInv, TypeOK
<1> QED
  BY <1>3, <1>4

LEMMA WriteDecisionTypes ==
  ASSUME TInv, NEW w \in Workers, WriteDecision(w)
  PROVE  TInv'
<1> DEFINE d == DecisionOf(req[w])
           r == [req[w] EXCEPT !.auditing = Null]
<1>1. /\ req' = [req EXCEPT ![w] = r]
      /\ counts' = [counts EXCEPT ![w] = counts[w]]
      /\ \E label \in Labels : Goto(w, label)
      /\ req[w].user \in Users
  BY DEF WriteDecision, TInv, TypeOK, RefreshesTyped, RefreshesHaveUsers, Request, Labels
<1>2. r \in Request /\ r.targets = req[w].targets /\ r.user = req[w].user
  BY DEF TInv, TypeOK, RefreshesTyped, Request
<1>3. counts[w] \in [Ids(r.targets) -> Nat]
  BY <1>2 DEF TInv, TypeOK, RefreshesTyped
<1>4. RTInv'
  <2> HIDE DEF r
  <2> QED
    BY <1>1, <1>2, <1>3, RefreshTyped
<1>5. ASSUME d.host \in hosts, d.user \in users, d.target = Null \/ d.target \in Ids(targets)
      PROVE  d \in Decision
  <2>1. d = [host |-> d.host, user |-> d.user, target |-> d.target, reason |-> d.reason]
    BY DEF DecisionOf
  <2>2. d.reason \in {"selected", Original, Hidden}
    BY DEF DecisionOf
  <2>3. d.host \in Hosts /\ d.user \in Users /\ d.target \in TargetId \cup {Null}
    BY <1>5 DEF TInv, TypeOK, TablesTyped, Ids, Target
  <2> HIDE DEF d
  <2> QED
    BY <2>1, <2>2, <2>3 DEF Decision
<1>6. TablesTyped'
  <2>1. decisions' \subseteq Decision
    BY <1>5 DEF WriteDecision, TInv, TypeOK, TablesTyped
  <2> QED
    BY <2>1 DEF WriteDecision, TInv, TypeOK, TablesTyped
<1> QED
  BY <1>4, <1>6, SavesUnchanged DEF WriteDecision, RTInv, TInv, TypeOK

LEMMA RefreshStepTypes ==
  ASSUME TInv, NEW w \in Workers,
         RefreshStep(w) \/ DatabaseFails(w) \/ RefreshCrash(w)
  PROVE  TInv'
<1> USE DEF RTInv, TInv, TypeOK
<1>1. CASE ReadTargets(w)
  BY <1>1, ReadTargetsTypes, TablesUnchanged, SavesUnchanged DEF ReadTargets
<1>2. CASE ReadAssignments(w)
  BY <1>2, ReadAssignmentsTypes, TablesUnchanged, SavesUnchanged DEF ReadAssignments
<1>3. CASE ReadCounts(w)
  BY <1>3, ReadCountsTypes, TablesUnchanged, SavesUnchanged DEF ReadCounts
<1>4. CASE ReadNodes(w)
  BY <1>4, ReadNodesTypes, TablesUnchanged, SavesUnchanged DEF ReadNodes
<1>5. ASSUME NEW h \in Hosts, ReuseSticky(w, h)
      PROVE  TInv'
  <2>1. PICK t \in StickyFor(w, h) :
          IF assignments[h][req[w].user] # Null THEN Push(w, h, t.id) ELSE FailOpen(w)
    BY <1>5 DEF ReuseSticky
  <2>2. t.id \in Answer
    BY ChoicesAreTargets DEF OfHost, RefreshesTyped, Request, Target, Answer
  <2>3. RTInv'
    BY <1>5, <2>1, <2>2, PushTypes, FailOpenTypes DEF ReuseSticky
  <2> QED
    BY <1>5, <2>3, TablesUnchanged, SavesUnchanged DEF ReuseSticky
<1>6. ASSUME NEW h \in Hosts, NoTarget(w, h)
      PROVE  TInv'
  <2>1. \A t \in LastFor(w, h) : t.id \in Answer
    BY ChoicesAreTargets DEF OfHost, RefreshesTyped, Request, Target, Answer
  <2>2. \E answer \in Answer : Push(w, h, answer)
    BY <1>6, <2>1 DEF NoTarget, Answer
  <2>3. RTInv'
    BY <1>6, <2>2, PushTypes DEF NoTarget
  <2> QED
    BY <1>6, <2>3, TablesUnchanged, SavesUnchanged DEF NoTarget
<1>7. CASE Deliver(w)
  BY <1>7, EndRefreshTypes, TablesUnchanged, SavesUnchanged DEF Deliver
<1>8. CASE DatabaseFails(w)
  BY <1>8, FailOpenTypes, TablesUnchanged, SavesUnchanged DEF DatabaseFails
<1>9. CASE RefreshCrash(w)
  BY <1>9, EndRefreshTypes, TablesUnchanged, SavesUnchanged DEF RefreshCrash
<1> QED
  BY <1>1, <1>2, <1>3, <1>4, <1>5, <1>6, <1>7, <1>8, <1>9,
     AssignTargetTypes, WriteDecisionTypes
     DEF RefreshStep

LEMMA NewRowsTypes ==
  ASSUME NEW h \in Hosts, NEW number \in Nat \ {0}, NEW ds \in Seq(Draft)
  PROVE  NewRows(h, number, ds) \subseteq Target
<1> SUFFICES ASSUME NEW i \in DOMAIN ds
             PROVE  Row(h, number, i, ds[i]) \in Target
  BY DEF NewRows
<1>1. ds[i] \in Draft /\ <<number, i>> \in TargetId
  BY DEF TargetId
<1> QED
  BY <1>1 DEF Row, Target, Draft

LEMMA DefaultSettingsType == DefaultSettings \in Settings
BY DEF DefaultSettings, Settings, Strategies, Policies

LEMMA PatchedType ==
  ASSUME NEW old \in Settings, NEW patch \in Patch
  PROVE  Patched(old, patch) \in Settings
BY DEF Patched, Field, Settings, Patch

LEMMA SaveStepTypes ==
  ASSUME TInv, NEW a \in Admins, SaveStep(a) \/ SaveCrash(a)
  PROVE  TInv'
<1> USE DEF TInv, TypeOK, TablesTyped
<1>1. NoSave \in Save
  BY DEF NoSave, Save
<1>2. ASSUME EndSave(a)
      PROVE  (saves \in [Admins -> Save] /\ SavesHaveBodies)'
  BY <1>1, <1>2 DEF EndSave, SavesHaveBodies, NoSave
<1>3. CASE DeleteTargets(a)
  <2>1. TablesTyped'
    BY <1>3, DropTargetsTypes, DecisionsWithoutTypes DEF DeleteTargets
  <2>2. CASE EndSave(a)
    BY <1>2, <1>3, <2>1, <2>2, RefreshesUnchanged DEF DeleteTargets, RTInv
  <2>3. CASE saves' = [saves EXCEPT ![a].pc = "deleted"]
    <3>1. saves' \in [Admins -> Save]
      BY <2>3 DEF Save
    <3>2. SavesHaveBodies'
      BY <1>3, <2>3 DEF SavesHaveBodies, DeleteTargets, Save
    <3> QED
      BY <1>3, <2>1, <3>1, <3>2, RefreshesUnchanged DEF DeleteTargets, RTInv
  <2> QED
    BY <1>3, <2>2, <2>3 DEF DeleteTargets
<1>4. CASE CreateTargets(a)
  <2>1. /\ saves[a].host \in Hosts
        /\ saves[a].drafts \in Seq(Draft)
        /\ created' \in Nat \ {0}
    BY <1>4 DEF CreateTargets, SavesHaveBodies, Save
  <2>2. targets' \subseteq Target
    BY <1>4, <2>1, NewRowsTypes DEF CreateTargets
  <2>3. TablesTyped'
    BY <1>4, <2>1, <2>2 DEF CreateTargets
  <2> QED
    BY <1>2, <1>4, <2>3, RefreshesUnchanged DEF CreateTargets, RTInv
<1>5. CASE UpsertSettings(a)
  <2>1. saves[a].host \in Hosts /\ saves[a].patch \in Patch
    BY <1>5 DEF UpsertSettings, SavesHaveBodies
  <2>2. balancers' \in [Hosts -> Settings \cup {Null}]
    BY <1>5, <2>1, DefaultSettingsType, PatchedType DEF UpsertSettings
  <2>3. TablesTyped'
    BY <1>5, <2>2 DEF UpsertSettings
  <2> QED
    BY <1>2, <1>5, <2>3, RefreshesUnchanged DEF UpsertSettings, RTInv
<1>6. CASE SaveCrash(a)
  BY <1>2, <1>6, TablesUnchanged, RefreshesUnchanged DEF SaveCrash, RTInv
<1> QED
  BY <1>3, <1>4, <1>5, <1>6 DEF SaveStep

LEMMA StartSaveTypes ==
  ASSUME TInv, NEW a \in Admins, NEW save \in Save, StartSave(a, save),
         save.host \in Hosts,
         save.pc = "checked" => save.patch \in Patch
  PROVE  (saves \in [Admins -> Save] /\ SavesHaveBodies)'
BY DEF TInv, TypeOK, StartSave, SavesHaveBodies

LEMMA UpdateTargetsTypes ==
  ASSUME TInv, NEW a \in Admins, NEW h \in Hosts, NEW ds \in Drafts,
         UpdateTargets(a, h, ds)
  PROVE  TInv'
<1> DEFINE save == [pc |-> "ensured", host |-> h, drafts |-> ds, patch |-> Null]
<1>1. save \in Save
  BY TypedConstants DEF Save
<1>2. (saves \in [Admins -> Save] /\ SavesHaveBodies)'
  BY <1>1, StartSaveTypes DEF UpdateTargets
<1>3. TablesTyped'
  BY DefaultSettingsType DEF UpdateTargets, TInv, TypeOK, TablesTyped
<1> QED
  BY <1>2, <1>3, RefreshesUnchanged DEF UpdateTargets, RTInv, TInv, TypeOK

LEMMA UpdateSettingsTypes ==
  ASSUME TInv, NEW a \in Admins, NEW h \in Hosts, NEW p \in Patches,
         UpdateSettings(a, h, p)
  PROVE  TInv'
<1> DEFINE save == [pc |-> "checked", host |-> h, drafts |-> <<>>, patch |-> p]
<1>1. save \in Save
  BY TypedConstants DEF Save
<1>2. (saves \in [Admins -> Save] /\ SavesHaveBodies)'
  BY <1>1, StartSaveTypes, TypedConstants DEF UpdateSettings
<1> QED
  BY <1>2, TablesUnchanged, RefreshesUnchanged DEF UpdateSettings, RTInv, TInv, TypeOK

LEMMA NextTypes ==
  ASSUME TInv, [Next]_vars
  PROVE  TInv'
<1>1. ASSUME NEW w \in Workers, NEW u \in Users, NEW input \in SUBSET Hosts,
             StartRefresh(w, u, input)
      PROVE  TInv'
  BY <1>1, StartRefreshTypes, TablesUnchanged, SavesUnchanged
     DEF StartRefresh, RTInv, TInv, TypeOK
<1>2. CASE UNCHANGED vars
  BY <1>2, TablesUnchanged, RefreshesUnchanged, SavesUnchanged
     DEF vars, tables, refreshes, RTInv, TInv, TypeOK
<1> QED
  BY <1>1, <1>2, RefreshStepTypes, UpdateTargetsTypes, UpdateSettingsTypes,
     SaveStepTypes, EnvironmentTypes
     DEF Next

\* The tables, the refreshes and the administrators' requests keep their types:
\* in particular a refresh never looks up a count it did not load.
THEOREM TypeCorrect == Spec => []TypeOK
<1>1. TInv => TypeOK
  BY DEF TInv
<1> QED
  BY <1>1, InitTypes, NextTypes, PTL DEF Spec

(***************************************************************************)
(* Rows and snapshots                                                      *)
(***************************************************************************)

\* Rest hides the node and nothing else.
LEMMA RestFields ==
  ASSUME NEW t \in Target, NEW o \in Target, Rest(t) = Rest(o)
  PROVE  /\ t.id = o.id /\ t.host = o.host /\ t.enabled = o.enabled
         /\ t.status = o.status /\ t.maxAssignedUsers = o.maxAssignedUsers
BY DEF Rest, Target

\* How a step may change the table: rows keep all but their node, and a row
\* that was not there has a fresh id.
LEMMA RowsStep ==
  ASSUME IInv, [Next]_vars
  PROVE  /\ \/ created' = created
            \/ created' = created + 1 /\ UNCHANGED <<req, assignments>>
         /\ \A t \in targets' :
              \/ \E o \in targets : Rest(t) = Rest(o)
              \/ t.id[1] = created' /\ created' = created + 1
         /\ \A t, o \in targets' : o.id = t.id => o = t
<1> DEFINE Q == /\ \/ created' = created
                   \/ created' = created + 1 /\ UNCHANGED <<req, assignments>>
                /\ \A t \in targets' :
                     \/ \E o \in targets : Rest(t) = Rest(o)
                     \/ t.id[1] = created' /\ created' = created + 1
                /\ \A t, o \in targets' : o.id = t.id => o = t
<1> SUFFICES Q
  OBVIOUS
<1>0. /\ targets \subseteq Target /\ created \in Nat
      /\ \A t, o \in targets : o.id = t.id => o = t
      /\ \A t \in targets : t.id[1] <= created
  BY DEF IInv, TInv, TypeOK, TablesTyped, RowsAreImmutable, IdsWereCreated
<1>1. ASSUME targets' \subseteq targets, created' = created
      PROVE  Q
  BY <1>0, <1>1
<1>2. ASSUME NEW n \in Nodes, DeleteNode(n)
      PROVE  Q
  <2>1. created' = created
    BY <1>2 DEF DeleteNode
  <2>2. \A t \in targets' : \E o \in targets :
          t = IF o.node = n THEN [o EXCEPT !.node = Null] ELSE o
    BY <1>2 DEF DeleteNode
  <2>3. \A t \in targets' : \E o \in targets : Rest(t) = Rest(o)
    BY <1>0, <2>2 DEF Rest, Target
  <2>4. \A o \in targets : [o EXCEPT !.node = Null].id = o.id
    BY <1>0 DEF Target
  <2>5. ASSUME NEW t \in targets', NEW o \in targets', o.id = t.id
        PROVE  o = t
    <3>1. PICK t0 \in targets : t = IF t0.node = n THEN [t0 EXCEPT !.node = Null] ELSE t0
      BY <2>2
    <3>2. PICK o0 \in targets : o = IF o0.node = n THEN [o0 EXCEPT !.node = Null] ELSE o0
      BY <2>2
    <3>3. o0.id = t0.id
      BY <2>4, <2>5, <3>1, <3>2
    <3> QED
      BY <1>0, <3>1, <3>2, <3>3
  <2> QED
    BY <2>1, <2>3, <2>5
<1>3. ASSUME NEW a \in Admins, CreateTargets(a)
      PROVE  Q
  <2> DEFINE rows == NewRows(saves[a].host, created', saves[a].drafts)
  <2>1. /\ created' = created + 1 /\ UNCHANGED <<req, assignments>>
        /\ targets' \subseteq targets \cup rows
    BY <1>3 DEF CreateTargets, refreshes
  <2>2. \A t \in rows : t.id[1] = created'
    BY DEF NewRows, Row
  <2>3. \A t, o \in rows : o.id = t.id => o = t
    BY DEF NewRows, Row
  <2>4. \A t \in targets, o \in rows : t.id # o.id
    BY <1>0, <2>1, <2>2
  <2> HIDE DEF rows
  <2>5. \A t \in targets' :
          \/ \E o \in targets : Rest(t) = Rest(o)
          \/ t.id[1] = created' /\ created' = created + 1
    BY <2>1, <2>2
  <2> QED
    BY <1>0, <2>1, <2>3, <2>4, <2>5
<1>4. ASSUME NEW w \in Workers, RefreshStep(w) \/ DatabaseFails(w) \/ RefreshCrash(w)
      PROVE  UNCHANGED <<targets, created>>
  BY <1>4 DEF RefreshStep, ReadTargets, ReadAssignments, ReadCounts, ReadNodes,
       ReuseSticky, AssignTarget, NoTarget, WriteDecision, Deliver, DatabaseFails,
       RefreshCrash, tables
<1> HIDE DEF Q
<1>5. CASE \E w \in Workers : RefreshStep(w) \/ DatabaseFails(w) \/ RefreshCrash(w)
  BY <1>1, <1>4, <1>5
<1>6. CASE \E w \in Workers, u \in Users, input \in SUBSET Hosts : StartRefresh(w, u, input)
  BY <1>1, <1>6 DEF StartRefresh, tables
<1>7. CASE \E a \in Admins, h \in Hosts : \/ \E ds \in Drafts : UpdateTargets(a, h, ds)
                                         \/ \E p \in Patches : UpdateSettings(a, h, p)
  BY <1>1, <1>7 DEF UpdateTargets, UpdateSettings, tables
<1>8. CASE \E a \in Admins : SaveStep(a) \/ SaveCrash(a)
  BY <1>1, <1>3, <1>8 DEF SaveStep, DeleteTargets, DropTargets, UpsertSettings, SaveCrash, tables
<1>9. CASE Environment
  BY <1>1, <1>2, <1>9 DEF Environment, NodeChanges, DeleteUser, DeleteHost, DropTargets
<1>10. CASE UNCHANGED vars
  BY <1>1, <1>10 DEF vars
<1> QED
  BY <1>5, <1>6, <1>7, <1>8, <1>9, <1>10 DEF Next, Q

\* A snapshot only gains rows that stand in the table.
LEMMA SnapshotsStep ==
  ASSUME TInv, [Next]_vars, NEW w \in Workers, NEW t \in req'[w].targets
  PROVE  \/ t \in req[w].targets
         \/ t \in targets /\ UNCHANGED <<targets, created>>
<1>0. req \in [Workers -> Request]
  BY DEF TInv, TypeOK, RefreshesTyped
<1>1. ASSUME NEW v \in Workers, NEW h \in Hosts, NEW answer, Push(v, h, answer)
      PROVE  req'[w].targets = req[w].targets
  BY <1>0, <1>1 DEF Push, Request
<1>2. ASSUME NEW v \in Workers, FailOpen(v) \/ EndRefresh(v)
      PROVE  req'[w].targets = {} \/ req'[w] = req[w]
  <2>1. NoRequest.targets = {} /\ NoRequest \in Request
    BY NoRequestType
  <2>2. CASE EndRefresh(v)
    BY <1>0, <2>1, <2>2 DEF EndRefresh
  <2>3. CASE FailOpen(v)
    <3> DEFINE answer == [h \in Hosts |-> IF h \in Input(req[v]) THEN Original ELSE Null]
               r == [NoRequest EXCEPT !.user = req[v].user, !.answer = answer]
    <3>1. req' = [req EXCEPT ![v] = r]
      BY <2>3 DEF FailOpen
    <3> HIDE DEF answer
    <3>2. r.targets = {}
      BY <2>1 DEF Request
    <3> HIDE DEF r
    <3> QED
      BY <1>0, <3>1, <3>2
  <2> QED
    BY <1>2, <2>2, <2>3
<1>3. ASSUME NEW v \in Workers, ReadTargets(v)
      PROVE  /\ req'[w].targets \subseteq targets \/ req'[w] = req[w]
             /\ UNCHANGED <<targets, created>>
  BY <1>0, <1>3 DEF ReadTargets, Request, tables
<1>4. ASSUME NEW v \in Workers, ReadAssignments(v) \/ ReadNodes(v) \/ WriteDecision(v)
      PROVE  req'[w].targets = req[w].targets
  <2>1. CASE ReadAssignments(v)
    BY <1>0, <2>1 DEF ReadAssignments, Request
  <2>2. CASE ReadNodes(v)
    BY <1>0, <2>2 DEF ReadNodes, Request
  <2>3. CASE WriteDecision(v)
    BY <1>0, <2>3 DEF WriteDecision, Request
  <2> QED
    BY <1>4, <2>1, <2>2, <2>3
<1>5. CASE \E v \in Workers : RefreshStep(v) \/ DatabaseFails(v) \/ RefreshCrash(v)
  BY <1>1, <1>2, <1>3, <1>4, <1>5
     DEF RefreshStep, ReadCounts, ReuseSticky, AssignTarget, NoTarget, Deliver,
         DatabaseFails, RefreshCrash
<1>6. ASSUME NEW v \in Workers, NEW u \in Users, NEW input \in SUBSET Hosts,
             StartRefresh(v, u, input)
      PROVE  req'[w].targets = req[w].targets
  <2> DEFINE settings == [h \in Hosts |-> IF h \in input THEN balancers[h] ELSE Null]
             answer == [h \in Hosts |-> IF h \in input THEN Pending ELSE Null]
             r == [req[v] EXCEPT !.user = u, !.settings = settings, !.answer = answer]
  <2>1. req' = [req EXCEPT ![v] = r]
    BY <1>0, <1>6 DEF StartRefresh, Request
  <2> HIDE DEF settings, answer
  <2>2. r.targets = req[v].targets
    BY <1>0 DEF Request
  <2> HIDE DEF r
  <2> QED
    BY <1>0, <2>1, <2>2
<1>7. CASE UNCHANGED req
  BY <1>7
<1>8. ASSUME ~(\E v \in Workers : RefreshStep(v) \/ DatabaseFails(v) \/ RefreshCrash(v)),
             ~(\E v \in Workers, u \in Users, input \in SUBSET Hosts : StartRefresh(v, u, input))
      PROVE  UNCHANGED req
  BY <1>8 DEF Next, SaveStep, DeleteTargets, CreateTargets, UpsertSettings, SaveCrash,
       UpdateTargets, UpdateSettings, Environment, NodeChanges, DeleteNode, DeleteUser,
       DeleteHost, refreshes, vars
<1> QED
  BY <1>5, <1>6, <1>7, <1>8

LEMMA RowsInvariant ==
  ASSUME IInv, [Next]_vars
  PROVE  IdsWereCreated' /\ RowsAreImmutable'
<1>1. targets \subseteq Target /\ targets' \subseteq Target /\ created \in Nat
  BY NextTypes DEF IInv, TInv, TypeOK, TablesTyped
<1>2. \A w \in Workers : req[w].targets \subseteq Target /\ req'[w].targets \subseteq Target
  BY NextTypes DEF IInv, TInv, TypeOK, RefreshesTyped, Request
<1>3. \A t \in Target : t.id[1] \in Nat
  BY DEF Target, TargetId
<1>4. created <= created'
  BY <1>1, RowsStep
<1>5. ASSUME NEW t \in targets'
      PROVE  t.id[1] <= created'
  <2>1. CASE \E o \in targets : Rest(t) = Rest(o)
    BY <1>1, <1>3, <1>4, <2>1, RestFields, RowsStep DEF IInv, IdsWereCreated
  <2>2. CASE t.id[1] = created' /\ created' = created + 1
    BY <1>1, <2>2
  <2> QED
    BY <2>1, <2>2, RowsStep
<1>6. ASSUME NEW w \in Workers, NEW o \in req'[w].targets
      PROVE  o.id[1] <= created'
  <2>1. o.id[1] <= created
    BY <1>6, SnapshotsStep DEF IInv, IdsWereCreated
  <2> QED
    BY <1>1, <1>2, <1>3, <1>4, <2>1, RowsStep
<1>7. ASSUME NEW t \in targets', NEW w \in Workers, NEW o \in req'[w].targets, o.id = t.id
      PROVE  Rest(o) = Rest(t)
  <2>1. CASE o \in targets /\ UNCHANGED <<targets, created>>
    BY <1>7, <2>1 DEF IInv, RowsAreImmutable
  <2>2. CASE o \in req[w].targets
    <3>1. o.id[1] <= created /\ o.id[1] \in Nat
      BY <1>2, <1>3, <2>2 DEF IInv, IdsWereCreated
    <3>2. ~(t.id[1] = created' /\ created' = created + 1)
      BY <1>1, <1>7, <3>1
    <3>3. PICK s \in targets : Rest(t) = Rest(s)
      BY <3>2, RowsStep
    <3>4. s.id = o.id
      BY <1>1, <1>7, <3>3, RestFields
    <3>5. Rest(o) = Rest(s)
      BY <2>2, <3>4 DEF IInv, RowsAreImmutable
    <3> QED
      BY <3>3, <3>5
  <2> QED
    BY <2>1, <2>2, SnapshotsStep DEF IInv
<1> QED
  BY <1>5, <1>6, <1>7, RowsStep DEF IdsWereCreated, RowsAreImmutable

(***************************************************************************)
(* Assignments                                                             *)
(***************************************************************************)

\* The row an assignment is written with: a candidate of the snapshot, and
\* still in the table as it was then, up to its node.
LEMMA AssignedRow ==
  ASSUME IInv, NEW w \in Workers, NEW h \in Hosts, AssignTarget(w, h),
         assignments' # assignments
  PROVE  \E s \in CandidatesFor(w, h), t \in targets :
           /\ h \in hosts /\ req[w].user \in users
           /\ t.id = s.id /\ t.host = h
           /\ t.enabled /\ t.status = "ACTIVE" /\ t.maxAssignedUsers = s.maxAssignedUsers
           /\ assignments' = [assignments EXCEPT ![h][req[w].user] = t.id]
           /\ Push(w, h, t.id)
           /\ UNCHANGED <<hosts, users, targets>>
<1>0. PICK traffic \in [Nodes -> TrafficLevels \cup {Null}] :
        \E s \in PicksFor(w, h, traffic) :
          IF h \in hosts /\ req[w].user \in users /\ s.id \in Ids(targets)
            THEN /\ assignments' = [assignments EXCEPT ![h][req[w].user] = s.id]
                 /\ Push(w, h, s.id)
            ELSE UNCHANGED assignments
  BY DEF AssignTarget
<1>1. PICK s \in PicksFor(w, h, traffic) :
        /\ h \in hosts /\ req[w].user \in users /\ s.id \in Ids(targets)
        /\ assignments' = [assignments EXCEPT ![h][req[w].user] = s.id]
        /\ Push(w, h, s.id)
  BY <1>0
<1>2. s \in CandidatesFor(w, h)
  BY <1>1, SelectionIsCandidate DEF PicksFor
<1>3. PICK t \in targets : t.id = s.id
  BY <1>1 DEF Ids
<1>4. s \in req[w].targets /\ s.host = h
  BY <1>2, ChoicesAreTargets DEF OfHost
<1>5. s \in Target /\ t \in Target
  BY <1>3, <1>4 DEF IInv, TInv, TypeOK, TablesTyped, RefreshesTyped, Request
<1>6. Rest(s) = Rest(t)
  BY <1>3, <1>4 DEF IInv, RowsAreImmutable
<1>7. s.enabled /\ s.status = "ACTIVE"
  <2>1. ValidateTargetForHost(s, RequiredInbound[h], req[w].nodes, FALSE)
    BY <1>2 DEF CandidatesFor, Candidates
  <2>2. s.enabled /\ s.status \notin {"DISABLED", "DEAD", "DRAINING"}
    BY <2>1 DEF ValidateTargetForHost
  <2> QED
    BY <1>5, <2>2 DEF Target, Statuses
<1>8. UNCHANGED <<hosts, users, targets>>
  BY DEF AssignTarget
<1>9. /\ t.host = h /\ t.enabled /\ t.status = "ACTIVE"
      /\ t.maxAssignedUsers = s.maxAssignedUsers
  BY <1>4, <1>5, <1>6, <1>7, RestFields
<1>10. Push(w, h, t.id)
  BY <1>1, <1>3
<1> QED
  BY <1>1, <1>2, <1>3, <1>8, <1>9, <1>10

\* Only AssignTarget, the deletions and the saves write what integrity is about.
LEMMA QuietSteps ==
  ASSUME [Next]_vars,
         ~(\E w \in Workers, h \in Hosts : AssignTarget(w, h)),
         ~Environment,
         ~(\E a \in Admins : DeleteTargets(a) \/ CreateTargets(a))
  PROVE  UNCHANGED <<hosts, users, targets, assignments>>
<1>1. CASE \E w \in Workers : RefreshStep(w) \/ DatabaseFails(w) \/ RefreshCrash(w)
  BY <1>1 DEF RefreshStep, ReadTargets, ReadAssignments, ReadCounts, ReadNodes, ReuseSticky,
       NoTarget, WriteDecision, Deliver, DatabaseFails, RefreshCrash, tables
<1>2. CASE \E w \in Workers, u \in Users, input \in SUBSET Hosts : StartRefresh(w, u, input)
  BY <1>2 DEF StartRefresh, tables
<1>3. CASE \E a \in Admins, h \in Hosts : \/ \E ds \in Drafts : UpdateTargets(a, h, ds)
                                         \/ \E p \in Patches : UpdateSettings(a, h, p)
  BY <1>3 DEF UpdateTargets, UpdateSettings, tables
<1>4. CASE \E a \in Admins : SaveStep(a) \/ SaveCrash(a)
  BY <1>4 DEF SaveStep, UpsertSettings, SaveCrash, tables
<1>5. CASE UNCHANGED vars
  BY <1>5 DEF vars
<1> QED
  BY <1>1, <1>2, <1>3, <1>4, <1>5 DEF Next

LEMMA IntegrityInvariant ==
  ASSUME IInv, [Next]_vars
  PROVE  AssignmentIntegrity'
<1> USE DEF AssignmentIntegrity, OfHost
<1>0. /\ assignments \in [Hosts -> [Users -> TargetId \cup {Null}]]
      /\ targets \subseteq Target
      /\ AssignmentIntegrity
  BY DEF IInv, TInv, TypeOK, TablesTyped
<1>1. ASSUME UNCHANGED <<hosts, users, targets, assignments>>
      PROVE  AssignmentIntegrity'
  BY <1>0, <1>1
<1>2. ASSUME NEW w \in Workers, NEW h \in Hosts, AssignTarget(w, h)
      PROVE  AssignmentIntegrity'
  <2>1. CASE assignments' = assignments
    BY <1>1, <1>2, <2>1 DEF AssignTarget
  <2>2. CASE assignments' # assignments
    <3>1. PICK t \in targets :
            /\ h \in hosts /\ req[w].user \in users /\ t.host = h
            /\ assignments' = [assignments EXCEPT ![h][req[w].user] = t.id]
            /\ UNCHANGED <<hosts, users, targets>>
      BY <1>2, <2>2, AssignedRow
    <3> QED
      BY <1>0, <3>1
  <2> QED
    BY <2>1, <2>2
<1>3. ASSUME NEW n \in Nodes, DeleteNode(n)
      PROVE  AssignmentIntegrity'
  <2>1. UNCHANGED <<hosts, users, assignments>>
    BY <1>3 DEF DeleteNode
  <2>2. \A t \in targets : \E o \in targets' : o.id = t.id /\ o.host = t.host
    <3> SUFFICES ASSUME NEW t \in targets
                 PROVE  \E o \in targets' : o.id = t.id /\ o.host = t.host
      OBVIOUS
    <3> DEFINE o == IF t.node = n THEN [t EXCEPT !.node = Null] ELSE t
    <3>1. o \in targets'
      BY <1>3 DEF DeleteNode
    <3>2. o.id = t.id /\ o.host = t.host
      BY <1>0 DEF Target
    <3> QED
      BY <3>1, <3>2
  <2> QED
    BY <1>0, <2>1, <2>2
<1>4. ASSUME NEW u \in Users, DeleteUser(u)
      PROVE  AssignmentIntegrity'
  BY <1>0, <1>4 DEF DeleteUser
\* Targets go together with the assignments that name them.
<1>5. ASSUME NEW gone \in SUBSET targets, NEW dead, DropTargets(gone, dead), users' = users,
             NEW h \in Hosts, hosts' \in {hosts, hosts \ {h}},
             hosts' = hosts \/ OfHost(targets, h) \subseteq gone
      PROVE  AssignmentIntegrity'
  <2> SUFFICES ASSUME NEW g \in Hosts, NEW u \in Users, assignments'[g][u] # Null
               PROVE  /\ g \in hosts' /\ u \in users'
                      /\ \E t \in targets' : t.host = g /\ t.id = assignments'[g][u]
    OBVIOUS
  <2>1. assignments'[g][u] = assignments[g][u] /\ assignments[g][u] \notin Ids(gone)
    BY <1>5 DEF DropTargets
  <2>2. PICK t \in targets : t.host = g /\ t.id = assignments[g][u]
    BY <1>0, <2>1
  <2>3. t \notin gone
    BY <2>1, <2>2 DEF Ids
  <2>4. t \in targets'
    BY <1>5, <2>2, <2>3 DEF DropTargets
  <2> QED
    BY <1>0, <1>5, <2>1, <2>2, <2>3, <2>4
<1>6. ASSUME NEW h \in Hosts, DeleteHost(h)
      PROVE  AssignmentIntegrity'
  BY <1>5, <1>6 DEF DeleteHost
<1>7. ASSUME NEW a \in Admins, DeleteTargets(a)
      PROVE  AssignmentIntegrity'
  <2>1. saves[a].host \in Hosts
    BY <1>7 DEF DeleteTargets, IInv, TInv, SavesHaveBodies
  <2> QED
    BY <1>5, <1>7, <2>1 DEF DeleteTargets
<1>8. ASSUME NEW a \in Admins, CreateTargets(a)
      PROVE  AssignmentIntegrity'
  <2>1. UNCHANGED <<hosts, users, assignments>> /\ targets \subseteq targets'
    BY <1>8 DEF CreateTargets
  <2> QED
    BY <1>0, <2>1
<1>9. ASSUME NEW n \in Nodes, NodeChanges(n)
      PROVE  AssignmentIntegrity'
  BY <1>1, <1>9 DEF NodeChanges
<1> QED
  BY <1>1, <1>2, <1>3, <1>4, <1>6, <1>7, <1>8, <1>9, QuietSteps DEF Environment

LEMMA InitIInv == Init => IInv
BY InitTypes, NoRequestType
   DEF Init, IInv, IdsWereCreated, RowsAreImmutable, AssignmentIntegrity

LEMMA NextIInv == IInv /\ [Next]_vars => IInv'
BY NextTypes, RowsInvariant, IntegrityInvariant DEF IInv

\* Ids are never handed out twice, and the rows that share one, in the table or
\* in the snapshot of any refresh, agree in all but the node SetNull may clear:
\* what every check against a stale snapshot relies on.
THEOREM RowsAndSnapshotsAgree == Spec => []IInv
BY InitIInv, NextIInv, PTL DEF Spec

\* Whatever races, an assignment names a live target of its own host.
THEOREM AssignmentsAreSound == Spec => []AssignmentIntegrity
<1>1. IInv => AssignmentIntegrity
  BY DEF IInv
<1> QED
  BY <1>1, InitIInv, NextIInv, PTL DEF Spec

\* However old the snapshot a target was chosen from, the row a user is moved
\* to is enabled and ACTIVE when the move is written.
THEOREM MovesAreToActiveTargets == Spec => NewAssignmentsAreActive
<1> DEFINE Active == \A h \in Hosts, u \in Users :
                      assignments'[h][u] \notin {Null, assignments[h][u]} =>
                        \E t \in OfHost(targets, h) : /\ t.id = assignments'[h][u]
                                                      /\ t.enabled /\ t.status = "ACTIVE"
<1>1. ASSUME IInv, [Next]_vars
      PROVE  Active
  <2>0. assignments \in [Hosts -> [Users -> TargetId \cup {Null}]]
    BY <1>1 DEF IInv, TInv, TypeOK, TablesTyped
  <2>1. ASSUME NEW w \in Workers, NEW g \in Hosts, AssignTarget(w, g)
        PROVE  Active
    <3>1. CASE assignments' = assignments
      BY <3>1
    <3>2. CASE assignments' # assignments
      <4>1. PICK t \in targets :
              /\ t.host = g /\ t.enabled /\ t.status = "ACTIVE"
              /\ assignments' = [assignments EXCEPT ![g][req[w].user] = t.id]
        BY <1>1, <2>1, <3>2, AssignedRow
      <4> QED
        BY <2>0, <4>1 DEF OfHost
    <3> QED
      BY <3>1, <3>2
  <2>2. ASSUME NEW gone, NEW dead, DropTargets(gone, dead)
        PROVE  Active
    BY <2>0, <2>2 DEF DropTargets
  <2>3. ASSUME NEW u \in Users, DeleteUser(u)
        PROVE  Active
    BY <2>0, <2>3 DEF DeleteUser
  <2>4. CASE UNCHANGED assignments
    BY <2>4
  <2> HIDE DEF Active
  <2>5. CASE Environment
    BY <2>2, <2>3, <2>4, <2>5 DEF Environment, NodeChanges, DeleteNode, DeleteHost
  <2>6. CASE \E a \in Admins : DeleteTargets(a) \/ CreateTargets(a)
    BY <2>2, <2>4, <2>6 DEF DeleteTargets, CreateTargets
  <2> QED
    BY <1>1, <2>1, <2>4, <2>5, <2>6, QuietSteps
<1>2. Spec => [][Active]_vars
  BY <1>1, InitIInv, NextIInv, PTL DEF Spec
<1> QED
  BY <1>2 DEF NewAssignmentsAreActive

(***************************************************************************)
(* The balancer implements the seat book                                   *)
(***************************************************************************)

\* The book's targets as functions of the table.
Open(ts) == [h \in Hosts |-> Ids(OfHost(ts, h))]
Taking(ts) == [h \in Hosts |-> Ids(Accepting(OfHost(ts, h)))]

\* The facts of the inductive invariant that the book needs.
LEMMA BookFacts ==
  ASSUME IInv
  PROVE  /\ targets \subseteq Target /\ created \in Nat
         /\ assignments \in [Hosts -> [Users -> TargetId \cup {Null}]]
         /\ \A t, o \in targets : o.id = t.id => o = t
         /\ \A t \in targets : t.id[1] <= created
         /\ \A h \in Hosts, u \in Users : assignments[h][u] # Null =>
              \E t \in targets : t.host = h /\ t.id = assignments[h][u]
         /\ \A a \in Admins : saves[a].pc # "idle" => saves[a].host \in Hosts
BY DEF IInv, TInv, TypeOK, TablesTyped, RowsAreImmutable, IdsWereCreated,
       AssignmentIntegrity, OfHost, SavesHaveBodies

\* The tables start empty, and so does the book.
LEMMA InitBook == Init => Book!Init
BY DEF Init, Book!Init, Ids, OfHost, Accepting

\* Only createMany issues a list.
LEMMA CreatedStep ==
  ASSUME [Next]_vars, ~(\E a \in Admins : CreateTargets(a))
  PROVE  UNCHANGED created
<1>1. CASE \E w \in Workers : RefreshStep(w) \/ DatabaseFails(w) \/ RefreshCrash(w)
  BY <1>1 DEF RefreshStep, ReadTargets, ReadAssignments, ReadCounts, ReadNodes, ReuseSticky,
       AssignTarget, NoTarget, WriteDecision, Deliver, DatabaseFails, RefreshCrash, tables
<1>2. CASE \E w \in Workers, u \in Users, input \in SUBSET Hosts : StartRefresh(w, u, input)
  BY <1>2 DEF StartRefresh, tables
<1>3. CASE \E a \in Admins, h \in Hosts : \/ \E ds \in Drafts : UpdateTargets(a, h, ds)
                                         \/ \E p \in Patches : UpdateSettings(a, h, p)
  BY <1>3 DEF UpdateTargets, UpdateSettings, tables
<1>4. CASE \E a \in Admins : SaveStep(a) \/ SaveCrash(a)
  BY <1>4 DEF SaveStep, DeleteTargets, UpsertSettings, SaveCrash, tables
<1>5. CASE Environment
  BY <1>5 DEF Environment, NodeChanges, DeleteNode, DeleteUser, DeleteHost
<1>6. CASE UNCHANGED vars
  BY <1>6 DEF vars
<1> QED
  BY <1>1, <1>2, <1>3, <1>4, <1>5, <1>6 DEF Next

\* What the book reads of the tables.
LEMMA SameBook ==
  ASSUME UNCHANGED <<hosts, users, targets, assignments, created>>
  PROVE  UNCHANGED Book!book
BY DEF Book!book, Ids, OfHost, Accepting

\* A refresh's write is one atomic assignment to a target that accepts users.
LEMMA AssignIsAssign ==
  ASSUME IInv, NEW w \in Workers, NEW h \in Hosts, AssignTarget(w, h),
         assignments' # assignments
  PROVE  Book!Next
<1>1. PICK t \in targets :
        /\ h \in hosts /\ req[w].user \in users
        /\ t.host = h /\ t.enabled /\ t.status = "ACTIVE"
        /\ assignments' = [assignments EXCEPT ![h][req[w].user] = t.id]
        /\ UNCHANGED <<hosts, users, targets>>
  BY AssignedRow
<1>2. UNCHANGED created
  BY DEF AssignTarget
<1>3. req[w].user \in Users
  BY <1>1 DEF IInv, TInv, TypeOK, TablesTyped
<1>4. t.id \in Ids(Accepting(OfHost(targets, h)))
  BY <1>1 DEF Ids, Accepting, OfHost
<1>5. UNCHANGED <<Open(targets), Taking(targets)>>
  BY <1>1 DEF Open, Taking, Ids, Accepting, OfHost
<1>6. Book!Assign(h, req[w].user)
  BY <1>1, <1>2, <1>4, <1>5 DEF Book!Assign, Open, Taking
<1> QED
  BY <1>3, <1>6 DEF Book!Next

\* Without the rows of one host, the other hosts' targets are what they were.
LEMMA OpenWithout ==
  ASSUME NEW h \in Hosts, targets' = targets \ OfHost(targets, h)
  PROVE  /\ Open(targets') = [Open(targets) EXCEPT ![h] = {}]
         /\ Taking(targets') = [Taking(targets) EXCEPT ![h] = {}]
<1>1. OfHost(targets', h) = {}
  BY DEF OfHost
<1>2. \A g \in Hosts \ {h} : OfHost(targets', g) = OfHost(targets, g)
  BY DEF OfHost
<1>3. Ids({}) = {} /\ Accepting({}) = {}
  BY DEF Ids, Accepting
<1> QED
  BY <1>1, <1>2, <1>3 DEF Open, Taking

\* The cascade from a host's targets takes the host's assignments and no others.
LEMMA SeatsWithout ==
  ASSUME IInv, NEW h \in Hosts, NEW dead \in SUBSET {h},
         DropTargets(OfHost(targets, h), dead)
  PROVE  assignments' = [assignments EXCEPT ![h] = [u \in Users |-> Null]]
<1> DEFINE gone == OfHost(targets, h)
<1>1. \A u \in Users : assignments[h][u] # Null => assignments[h][u] \in Ids(gone)
  BY BookFacts DEF OfHost, Ids
<1>2. \A g \in Hosts \ {h}, u \in Users : assignments[g][u] \notin Ids(gone)
  <2> SUFFICES ASSUME NEW g \in Hosts \ {h}, NEW u \in Users, assignments[g][u] \in Ids(gone)
               PROVE  FALSE
    OBVIOUS
  <2>1. PICK t \in targets : t.host = h /\ t.id = assignments[g][u]
    BY DEF OfHost, Ids
  <2>2. assignments[g][u] # Null
    BY <2>1, BookFacts, NullIsNoValue DEF Target
  <2>3. PICK o \in targets : o.host = g /\ o.id = assignments[g][u]
    BY <2>2, BookFacts
  <2> QED
    BY <2>1, <2>3, BookFacts
<1>3. assignments' = [g \in Hosts |-> [u \in Users |->
        IF g \in dead \/ assignments[g][u] \in Ids(gone) THEN Null ELSE assignments[g][u]]]
  BY DEF DropTargets
<1> HIDE DEF gone
<1>4. \A u \in Users : assignments'[h][u] = Null
  BY <1>1, <1>3
<1>5. \A g \in Hosts \ {h} : assignments'[g] = assignments[g]
  BY <1>2, <1>3, BookFacts
<1>6. assignments'[h] = [u \in Users |-> Null]
  BY <1>3, <1>4
<1> QED
  BY <1>3, <1>5, <1>6, BookFacts

\* deleteMany withdraws the list of one host.
LEMMA DeleteIsWithdraw ==
  ASSUME IInv, NEW a \in Admins, DeleteTargets(a)
  PROVE  Book!Next
<1> DEFINE h == saves[a].host
<1>1. h \in Hosts
  BY BookFacts DEF DeleteTargets
<1>2. DropTargets(OfHost(targets, h), {}) /\ UNCHANGED <<hosts, users, created>>
  BY DEF DeleteTargets
<1> HIDE DEF h
<1>3. targets' = targets \ OfHost(targets, h)
  BY <1>2 DEF DropTargets
<1>4. assignments' = [assignments EXCEPT ![h] = [u \in Users |-> Null]]
  BY <1>1, <1>2, SeatsWithout
<1>5. Book!Withdraw(h)
  BY <1>1, <1>2, <1>3, <1>4, OpenWithout DEF Book!Withdraw, Book!SetTargets, Open, Taking
<1> QED
  BY <1>1, <1>5 DEF Book!Next

\* createMany adds a list with fresh ids to one host, or is refused whole.
LEMMA CreateIsIssue ==
  ASSUME IInv, NEW a \in Admins, CreateTargets(a)
  PROVE  Book!Next
<1> DEFINE h == saves[a].host
           rows == NewRows(h, created', saves[a].drafts)
<1>1. h \in Hosts
  BY BookFacts DEF CreateTargets
<1>2. /\ created' = created + 1 /\ UNCHANGED <<hosts, users, assignments>>
      /\ targets' = targets \/ targets' = targets \cup rows
  BY DEF CreateTargets
<1>3. \A t \in rows : t.host = h /\ t.id[1] = created'
  BY DEF NewRows, Row
<1> HIDE DEF h, rows
<1>4. \A t \in targets, o \in rows : t.id # o.id
  BY <1>2, <1>3, BookFacts DEF Target, TargetId
<1>5. \A g \in Hosts \ {h} : OfHost(targets', g) = OfHost(targets, g)
  BY <1>2, <1>3 DEF OfHost
<1>6. \A t \in OfHost(targets', h) :
        \/ t \in OfHost(targets, h)
        \/ t.id[1] = created' /\ t.id \notin Ids(OfHost(targets, h))
  <2>1. ASSUME NEW t \in OfHost(targets', h), t \notin OfHost(targets, h)
        PROVE  t.id[1] = created' /\ t.id \notin Ids(OfHost(targets, h))
    <3>1. t \in rows
      BY <1>2, <2>1 DEF OfHost
    <3>2. \A o \in OfHost(targets, h) : o.id # t.id
      BY <1>4, <3>1 DEF OfHost
    <3> QED
      BY <1>3, <3>1, <3>2 DEF Ids
  <2> QED
    BY <2>1
<1>7. OfHost(targets, h) \subseteq OfHost(targets', h)
  BY <1>2 DEF OfHost
<1>8. /\ Open(targets)[h] \subseteq Open(targets')[h]
      /\ \A i \in Open(targets')[h] \ Open(targets)[h] : i[1] = created'
  BY <1>1, <1>6, <1>7 DEF Open, Ids
<1>9. Taking(targets)[h] = Taking(targets')[h] \cap Open(targets)[h]
  <2>1. ASSUME NEW i \in Taking(targets)[h]
        PROVE  i \in Taking(targets')[h] /\ i \in Open(targets)[h]
    BY <1>1, <1>7, <2>1 DEF Taking, Open, Ids, Accepting
  <2>2. ASSUME NEW i \in Taking(targets')[h], i \in Open(targets)[h]
        PROVE  i \in Taking(targets)[h]
    <3>1. PICK t \in Accepting(OfHost(targets', h)) : t.id = i
      BY <1>1, <2>2 DEF Taking, Ids
    <3>2. t \in OfHost(targets, h)
      BY <1>1, <1>6, <2>2, <3>1 DEF Open, Accepting
    <3> QED
      BY <1>1, <3>1, <3>2 DEF Taking, Ids, Accepting
  <2> QED
    BY <2>1, <2>2
<1>10. Taking(targets')[h] \subseteq Open(targets')[h]
  BY <1>1 DEF Taking, Open, Ids, Accepting
<1>11. /\ Open(targets') = [Open(targets) EXCEPT ![h] = Open(targets')[h]]
       /\ Taking(targets') = [Taking(targets) EXCEPT ![h] = Taking(targets')[h]]
  BY <1>1, <1>5 DEF Open, Taking
<1>12. Book!Issue(h)
  BY <1>2, <1>8, <1>9, <1>10, <1>11 DEF Book!Issue, Book!SetTargets, Open, Taking
<1> QED
  BY <1>1, <1>12 DEF Book!Next

\* Clearing the node of a target changes neither its host nor what it accepts.
LEMMA DeleteNodeIsHidden ==
  ASSUME IInv, NEW n \in Nodes, DeleteNode(n)
  PROVE  UNCHANGED Book!book
<1> DEFINE Cleared(t) == IF t.node = n THEN [t EXCEPT !.node = Null] ELSE t
<1>1. targets' = {Cleared(t) : t \in targets}
  BY DEF DeleteNode
<1>2. \A t \in targets : /\ Cleared(t).id = t.id /\ Cleared(t).host = t.host
                         /\ Cleared(t).enabled = t.enabled /\ Cleared(t).status = t.status
  BY BookFacts DEF Target
<1> HIDE DEF Cleared
<1>3. ASSUME NEW h
      PROVE  Ids(OfHost(targets', h)) = Ids(OfHost(targets, h))
  BY <1>1, <1>2 DEF Ids, OfHost
<1>4. ASSUME NEW h
      PROVE  Ids(Accepting(OfHost(targets', h))) = Ids(Accepting(OfHost(targets, h)))
  <2>1. ASSUME NEW t \in targets
        PROVE  Cleared(t) \in Accepting(OfHost(targets', h)) <=> t \in Accepting(OfHost(targets, h))
    BY <1>1, <1>2 DEF OfHost, Accepting
  <2>2. ASSUME NEW i \in Ids(Accepting(OfHost(targets', h)))
        PROVE  i \in Ids(Accepting(OfHost(targets, h)))
    <3>1. PICK o \in Accepting(OfHost(targets', h)) : o.id = i
      BY DEF Ids
    <3>2. PICK t \in targets : o = Cleared(t)
      BY <1>1, <3>1 DEF Accepting, OfHost
    <3> QED
      BY <1>2, <2>1, <3>1, <3>2 DEF Ids
  <2>3. ASSUME NEW i \in Ids(Accepting(OfHost(targets, h)))
        PROVE  i \in Ids(Accepting(OfHost(targets', h)))
    <3>1. PICK t \in Accepting(OfHost(targets, h)) : t.id = i
      BY DEF Ids
    <3>2. t \in targets
      BY <3>1 DEF Accepting, OfHost
    <3> QED
      BY <1>2, <2>1, <3>1, <3>2 DEF Ids
  <2> QED
    BY <2>2, <2>3
<1>5. UNCHANGED <<hosts, users, assignments, created>>
  BY DEF DeleteNode
<1> QED
  BY <1>3, <1>4, <1>5 DEF Book!book

\* Deleting a user or a host is deleting it from the book.
LEMMA RemovalIsRemoval ==
  ASSUME IInv, \/ \E u \in Users : DeleteUser(u)
               \/ \E h \in Hosts : DeleteHost(h)
  PROVE  Book!Next
<1>1. ASSUME NEW u \in Users, DeleteUser(u)
      PROVE  Book!Next
  <2>1. UNCHANGED <<Open(targets), Taking(targets)>>
    BY <1>1 DEF DeleteUser, Open, Taking, Ids, Accepting, OfHost
  <2>2. Book!RemoveUser(u)
    BY <1>1, <2>1 DEF DeleteUser, Book!RemoveUser, Open, Taking
  <2> QED
    BY <2>2 DEF Book!Next
<1>2. ASSUME NEW h \in Hosts, DeleteHost(h)
      PROVE  Book!Next
  <2>1. DropTargets(OfHost(targets, h), {h}) /\ UNCHANGED <<users, created>>
    BY <1>2 DEF DeleteHost
  <2>2. targets' = targets \ OfHost(targets, h)
    BY <2>1 DEF DropTargets
  <2>3. assignments' = [assignments EXCEPT ![h] = [u \in Users |-> Null]]
    BY <2>1, SeatsWithout
  <2>4. h \in hosts /\ hosts' = hosts \ {h}
    BY <1>2 DEF DeleteHost
  <2>5. Book!RemoveHost(h)
    BY <2>1, <2>2, <2>3, <2>4, OpenWithout
       DEF Book!RemoveHost, Book!SetTargets, Open, Taking
  <2> QED
    BY <2>5 DEF Book!Next
<1> QED
  BY <1>1, <1>2

\* Every step of the balancer is a step of the book, or changes nothing in it.
LEMMA StepIsBookStep ==
  ASSUME IInv, [Next]_vars
  PROVE  [Book!Next]_(Book!book)
<1>1. ASSUME NEW w \in Workers, NEW h \in Hosts, AssignTarget(w, h)
      PROVE  [Book!Next]_(Book!book)
  <2>1. CASE assignments' = assignments
    BY <1>1, <2>1, SameBook DEF AssignTarget
  <2>2. CASE assignments' # assignments
    BY <1>1, <2>2, AssignIsAssign
  <2> QED
    BY <2>1, <2>2
<1>2. ASSUME NEW a \in Admins, DeleteTargets(a) \/ CreateTargets(a)
      PROVE  [Book!Next]_(Book!book)
  BY <1>2, DeleteIsWithdraw, CreateIsIssue
<1>3. CASE Environment
  <2>1. ASSUME NEW n \in Nodes, NodeChanges(n)
        PROVE  UNCHANGED Book!book
    BY <2>1, SameBook DEF NodeChanges
  <2> QED
    BY <1>3, <2>1, DeleteNodeIsHidden, RemovalIsRemoval DEF Environment
<1>4. CASE UNCHANGED <<hosts, users, targets, assignments>> /\
           ~(\E a \in Admins : CreateTargets(a))
  BY <1>4, CreatedStep, SameBook
<1> QED
  BY <1>1, <1>2, <1>3, <1>4, QuietSteps

\* However refreshes, saves, deletions, failures and crashes interleave, the
\* balancer's tables behave as a seat book that is changed one atomic step at
\* a time (upsertAssignment, the deleteMany and createMany of replaceTargets,
\* and the cascades of the schema).
THEOREM BalancerImplementsBook == Spec => ImplementsBook
<1>1. Init => Book!Init
  BY InitBook
<1>2. IInv /\ [Next]_vars => [Book!Next]_(Book!book)
  BY StepIsBookStep
<1> QED
  BY <1>1, <1>2, InitIInv, NextIInv, PTL DEF Spec, ImplementsBook, Book!Spec

(***************************************************************************)
(* Answers                                                                 *)
(***************************************************************************)

\* A step that leaves a refresh without answers: its start, failing open, its end.
Resets(w) == /\ pc'[w] \in {"idle", "targets", "done"}
             /\ \A h \in Hosts : req'[w].answer[h] \notin TargetId

\* A step that answers host h: by policy, with the assignment on file, or with
\* the one it writes.
AnswersHost(w, h, answer) ==
  /\ pc[w] = "resolve" /\ req[w].answer[h] = Pending
  /\ Push(w, h, answer)
  /\ UNCHANGED <<hosts, users, targets, decisions, created>>
  /\ \/ answer \in {Original, Hidden} /\ UNCHANGED assignments
     \/ /\ \E t \in OfHost(req[w].targets, h) : answer = t.id
        /\ answer = req[w].assigned[h]
        /\ UNCHANGED assignments
     \/ /\ \E t \in OfHost(req[w].targets, h) : answer = t.id
        /\ StickyFor(w, h) = {}
        /\ req[w].user \in users
        /\ assignments' = [assignments EXCEPT ![h][req[w].user] = answer]

LEMMA FailOpenResets ==
  ASSUME TInv, NEW w \in Workers, FailOpen(w)
  PROVE  Resets(w)
<1> DEFINE answer == [h \in Hosts |-> IF h \in Input(req[w]) THEN Original ELSE Null]
           r == [NoRequest EXCEPT !.user = req[w].user, !.answer = answer]
<1>1. /\ req \in [Workers -> Request] /\ pc \in [Workers -> Labels]
      /\ req' = [req EXCEPT ![w] = r]
      /\ pc' = [pc EXCEPT ![w] = "done"]
  BY DEF FailOpen, Goto, TInv, TypeOK, RefreshesTyped
<1>2. \A h \in Hosts : answer[h] \notin TargetId
  BY NullIsNoValue, AnswersAreDistinct
<1> HIDE DEF answer
<1>3. r.answer = answer
  BY NoRequestType DEF Request
<1> HIDE DEF r
<1> QED
  BY <1>1, <1>2, <1>3 DEF Resets

LEMMA EndResets ==
  ASSUME TInv, NEW w \in Workers, EndRefresh(w)
  PROVE  Resets(w)
<1>1. /\ req \in [Workers -> Request] /\ pc \in [Workers -> Labels]
      /\ req' = [req EXCEPT ![w] = NoRequest]
      /\ pc' = [pc EXCEPT ![w] = "idle"]
  BY DEF EndRefresh, Goto, TInv, TypeOK, RefreshesTyped
<1>2. \A h \in Hosts : NoRequest.answer[h] \notin TargetId
  BY NullIsNoValue DEF NoRequest
<1> QED
  BY <1>1, <1>2 DEF Resets

LEMMA StartResets ==
  ASSUME TInv, NEW w \in Workers, NEW u \in Users, NEW input \in SUBSET Hosts,
         StartRefresh(w, u, input)
  PROVE  Resets(w)
<1> DEFINE settings == [h \in Hosts |-> IF h \in input THEN balancers[h] ELSE Null]
           answer == [h \in Hosts |-> IF h \in input THEN Pending ELSE Null]
           r == [req[w] EXCEPT !.user = u, !.settings = settings, !.answer = answer]
<1>1. req \in [Workers -> Request] /\ pc \in [Workers -> Labels]
  BY DEF TInv, TypeOK, RefreshesTyped
<1>2. /\ req' = [req EXCEPT ![w] = r]
      /\ pc' = [pc EXCEPT ![w] = "targets"]
  BY <1>1 DEF StartRefresh, Goto, Request
<1>3. \A h \in Hosts : answer[h] \notin TargetId
  BY NullIsNoValue, AnswersAreDistinct
<1> HIDE DEF settings, answer
<1>4. r.answer = answer
  BY <1>1 DEF Request
<1> HIDE DEF r
<1> QED
  BY <1>1, <1>2, <1>3, <1>4 DEF Resets

\* What a step does to a refresh.
LEMMA WorkerStep ==
  ASSUME IInv, [Next]_vars, NEW w \in Workers
  PROVE  \/ pc'[w] = pc[w] /\ req'[w] = req[w]
         \/ Resets(w)
         \/ ReadTargets(w) \/ ReadAssignments(w) \/ ReadCounts(w) \/ ReadNodes(w)
         \/ WriteDecision(w)
         \/ \E h \in Hosts, answer \in Answer : AnswersHost(w, h, answer)
<1> DEFINE Q == \/ pc'[w] = pc[w] /\ req'[w] = req[w]
                \/ Resets(w)
                \/ ReadTargets(w) \/ ReadAssignments(w) \/ ReadCounts(w) \/ ReadNodes(w)
                \/ WriteDecision(w)
                \/ \E h \in Hosts, answer \in Answer : AnswersHost(w, h, answer)
<1> SUFFICES Q
  OBVIOUS
<1>0. /\ TInv /\ req \in [Workers -> Request] /\ pc \in [Workers -> Labels]
      /\ \A t \in req[w].targets : t.id \in Answer
      /\ Original \in Answer /\ Hidden \in Answer
  BY DEF IInv, TInv, TypeOK, RefreshesTyped, Request, Target, Answer
<1>1. ASSUME NEW h \in Hosts, ReuseSticky(w, h)
      PROVE  Q
  <2>1. PICK t \in StickyFor(w, h) :
          IF assignments[h][req[w].user] # Null THEN Push(w, h, t.id) ELSE FailOpen(w)
    BY <1>1 DEF ReuseSticky
  <2>2. t \in OfHost(req[w].targets, h) /\ t.id = req[w].assigned[h]
    BY <2>1, ChoicesAreTargets DEF StickyFor, ReusableSticky, StickyTarget
  <2>3. CASE Push(w, h, t.id)
    <3>1. AnswersHost(w, h, t.id)
      BY <1>1, <2>2, <2>3 DEF AnswersHost, ReuseSticky, Todo, tables
    <3> QED
      BY <1>0, <2>2, <3>1 DEF OfHost
  <2> QED
    BY <1>0, <2>1, <2>3, FailOpenResets
<1>2. ASSUME NEW h \in Hosts, AssignTarget(w, h)
      PROVE  Q
  <2>1. PICK traffic \in [Nodes -> TrafficLevels \cup {Null}] :
          \E t \in PicksFor(w, h, traffic) :
            IF h \in hosts /\ req[w].user \in users /\ t.id \in Ids(targets)
              THEN /\ assignments' = [assignments EXCEPT ![h][req[w].user] = t.id]
                   /\ Push(w, h, t.id)
              ELSE FailOpen(w) /\ UNCHANGED assignments
    BY <1>2 DEF AssignTarget
  <2>2. PICK t \in PicksFor(w, h, traffic) :
          IF h \in hosts /\ req[w].user \in users /\ t.id \in Ids(targets)
            THEN /\ assignments' = [assignments EXCEPT ![h][req[w].user] = t.id]
                 /\ Push(w, h, t.id)
            ELSE FailOpen(w) /\ UNCHANGED assignments
    BY <2>1
  <2>3. t \in OfHost(req[w].targets, h)
    BY <2>2, SelectionIsCandidate, ChoicesAreTargets DEF PicksFor
  <2>4. CASE h \in hosts /\ req[w].user \in users /\ t.id \in Ids(targets)
    <3>1. AnswersHost(w, h, t.id)
      BY <1>2, <2>2, <2>3, <2>4 DEF AnswersHost, AssignTarget, Todo
    <3> QED
      BY <1>0, <2>3, <3>1 DEF OfHost
  <2> QED
    BY <1>0, <2>2, <2>4, FailOpenResets
<1>3. ASSUME NEW h \in Hosts, NoTarget(w, h)
      PROVE  Q
  <2>1. \A t \in LastFor(w, h) : t \in OfHost(req[w].targets, h) /\ t.id = req[w].assigned[h]
    BY ChoicesAreTargets DEF LastFor, LastAssignment, StickyTarget
  <2>2. \A t \in LastFor(w, h) : t.id \in Answer
    BY <1>0, <2>1 DEF OfHost
  <2>3. \E answer \in Answer : AnswersHost(w, h, answer)
    BY <1>0, <1>3, <2>1, <2>2 DEF AnswersHost, NoTarget, Todo, tables
  <2> QED
    BY <2>3
<1>4. CASE RefreshStep(w) \/ DatabaseFails(w) \/ RefreshCrash(w)
  <2> HIDE DEF Q
  <2>1. CASE \E h \in Hosts : ReuseSticky(w, h) \/ AssignTarget(w, h) \/ NoTarget(w, h)
    BY <1>1, <1>2, <1>3, <2>1
  <2>2. CASE Deliver(w) \/ DatabaseFails(w) \/ RefreshCrash(w)
    BY <1>0, <2>2, FailOpenResets, EndResets DEF Deliver, DatabaseFails, RefreshCrash, Q
  <2> QED
    BY <1>4, <2>1, <2>2 DEF RefreshStep, Q
<1>5. ASSUME NEW v \in Workers, v # w, RefreshStep(v) \/ DatabaseFails(v) \/ RefreshCrash(v)
      PROVE  Q
  BY <1>0, <1>5 DEF RefreshStep, ReadTargets, ReadAssignments, ReadCounts, ReadNodes,
       ReuseSticky, AssignTarget, NoTarget, WriteDecision, Deliver, DatabaseFails,
       RefreshCrash, Push, FailOpen, EndRefresh, Goto
<1>6. ASSUME NEW v \in Workers, NEW u \in Users, NEW input \in SUBSET Hosts,
             StartRefresh(v, u, input)
      PROVE  Q
  <2>1. CASE v = w
    BY <1>0, <1>6, <2>1, StartResets
  <2>2. CASE v # w
    <3>1. req'[w] = req[w]
      BY <1>0, <1>6, <2>2 DEF StartRefresh
    <3>2. pc'[w] = pc[w]
      BY <1>0, <1>6, <2>2 DEF StartRefresh, Goto
    <3> QED
      BY <3>1, <3>2
  <2> QED
    BY <2>1, <2>2
<1>7. ASSUME ~(\E v \in Workers : RefreshStep(v) \/ DatabaseFails(v) \/ RefreshCrash(v)),
             ~(\E v \in Workers, u \in Users, input \in SUBSET Hosts : StartRefresh(v, u, input))
      PROVE  Q
  BY <1>7 DEF Next, SaveStep, DeleteTargets, CreateTargets, UpsertSettings, SaveCrash,
       UpdateTargets, UpdateSettings, Environment, NodeChanges, DeleteNode, DeleteUser,
       DeleteHost, refreshes, vars
<1> HIDE DEF Q
<1>8. CASE \E v \in Workers : RefreshStep(v) \/ DatabaseFails(v) \/ RefreshCrash(v)
  BY <1>4, <1>5, <1>8
<1> QED
  BY <1>6, <1>7, <1>8

\* Reads and audit records touch no answer that is given, and no table but the
\* decisions.
LEMMA ReadsKeepAnswers ==
  ASSUME IInv, NEW w \in Workers,
         ReadAssignments(w) \/ ReadCounts(w) \/ ReadNodes(w) \/ WriteDecision(w)
  PROVE  /\ req'[w].answer = req[w].answer /\ req'[w].user = req[w].user
         /\ req'[w].targets = req[w].targets
         /\ ReadAssignments(w) \/ req'[w].assigned = req[w].assigned
         /\ UNCHANGED <<hosts, users, targets, assignments, created>>
<1>0. req \in [Workers -> Request]
  BY DEF IInv, TInv, TypeOK, RefreshesTyped
<1>1. CASE ReadAssignments(w)
  BY <1>0, <1>1 DEF ReadAssignments, Request, tables
<1>2. CASE ReadCounts(w)
  BY <1>2 DEF ReadCounts, tables
<1>3. CASE ReadNodes(w)
  BY <1>0, <1>3 DEF ReadNodes, Request, tables
<1>4. CASE WriteDecision(w)
  BY <1>0, <1>4 DEF WriteDecision, Request
<1> QED
  BY <1>1, <1>2, <1>3, <1>4

LEMMA ReadTargetsAnswers ==
  ASSUME IInv, NEW w \in Workers, ReadTargets(w)
  PROVE  /\ pc[w] = "targets" /\ pc'[w] \in {"assignments", "done"}
         /\ \A h \in Hosts : req'[w].answer[h] \in {req[w].answer[h], Original}
<1>0. req \in [Workers -> Request] /\ pc \in [Workers -> Labels]
  BY DEF IInv, TInv, TypeOK, RefreshesTyped
<1> QED
  BY <1>0 DEF ReadTargets, Request, Goto

\* An answer changes the answered host's entry only.
LEMMA AnswersOneHost ==
  ASSUME IInv, NEW w \in Workers, NEW h \in Hosts, NEW answer, AnswersHost(w, h, answer)
  PROVE  /\ req'[w].user = req[w].user /\ req'[w].targets = req[w].targets
         /\ req'[w].assigned = req[w].assigned
         /\ req'[w].answer = [req[w].answer EXCEPT ![h] = answer]
         /\ req'[w].auditing = IF AuditEnabled THEN h ELSE Null
         /\ pc'[w] \in {"audit", "done", "resolve"}
         /\ AuditEnabled => pc'[w] = "audit"
<1>0. req \in [Workers -> Request] /\ pc \in [Workers -> Labels]
  BY DEF IInv, TInv, TypeOK, RefreshesTyped
<1> DEFINE r == [req[w] EXCEPT !.answer = [req[w].answer EXCEPT ![h] = answer],
                               !.auditing = IF AuditEnabled THEN h ELSE Null]
<1>1. req' = [req EXCEPT ![w] = r]
  BY <1>0 DEF AnswersHost, Push, Request
<1>2. /\ r.user = req[w].user /\ r.targets = req[w].targets
      /\ r.assigned = req[w].assigned
      /\ r.answer = [req[w].answer EXCEPT ![h] = answer]
      /\ r.auditing = IF AuditEnabled THEN h ELSE Null
  BY <1>0 DEF Request
<1>3. /\ pc'[w] \in {"audit", "done", "resolve"}
      /\ AuditEnabled => pc'[w] = "audit"
  BY <1>0, TypedConstants DEF AnswersHost, Push, Goto
<1> HIDE DEF r
<1> QED
  BY <1>0, <1>1, <1>2, <1>3

\* Nothing is created for a host that is gone.
LEMMA HostsInvariant ==
  ASSUME IInv, TargetsHaveHosts, [Next]_vars
  PROVE  TargetsHaveHosts'
<1> USE DEF TargetsHaveHosts
<1>0. targets \subseteq Target /\ balancers \in [Hosts -> Settings \cup {Null}]
  BY DEF IInv, TInv, TypeOK, TablesTyped
<1>1. CASE UNCHANGED <<hosts, balancers, targets>>
  BY <1>1
<1>2. CASE \E w \in Workers : RefreshStep(w) \/ DatabaseFails(w) \/ RefreshCrash(w)
  BY <1>1, <1>2 DEF RefreshStep, ReadTargets, ReadAssignments, ReadCounts, ReadNodes,
     ReuseSticky, AssignTarget, NoTarget, WriteDecision, Deliver, DatabaseFails,
     RefreshCrash, tables
<1>3. CASE \E w \in Workers, u \in Users, input \in SUBSET Hosts : StartRefresh(w, u, input)
  BY <1>1, <1>3 DEF StartRefresh, tables
<1>4. ASSUME NEW a \in Admins, NEW h \in Hosts, NEW ds \in Drafts, UpdateTargets(a, h, ds)
      PROVE  TargetsHaveHosts'
  BY <1>0, <1>4 DEF UpdateTargets
<1>5. ASSUME NEW a \in Admins, DeleteTargets(a)
      PROVE  TargetsHaveHosts'
  BY <1>5 DEF DeleteTargets, DropTargets
<1>6. ASSUME NEW a \in Admins, CreateTargets(a)
      PROVE  TargetsHaveHosts'
  <2>1. saves[a].host \in Hosts
    BY <1>6 DEF CreateTargets, IInv, TInv, SavesHaveBodies
  <2>2. \A t \in NewRows(saves[a].host, created', saves[a].drafts) : t.host = saves[a].host
    BY DEF NewRows, Row
  <2> QED
    BY <1>6, <2>1, <2>2 DEF CreateTargets
<1>7. ASSUME NEW a \in Admins, UpsertSettings(a)
      PROVE  TargetsHaveHosts'
  BY <1>0, <1>7 DEF UpsertSettings
<1>8. ASSUME NEW a \in Admins, NEW h \in Hosts, NEW p \in Patches, UpdateSettings(a, h, p)
      PROVE  TargetsHaveHosts'
  BY <1>8 DEF UpdateSettings, tables
<1>9. CASE \E a \in Admins : SaveCrash(a)
  BY <1>9 DEF SaveCrash, tables
<1>10. ASSUME NEW h \in Hosts, DeleteHost(h)
       PROVE  TargetsHaveHosts'
  BY <1>0, <1>10 DEF DeleteHost, DropTargets, OfHost
<1>11. ASSUME NEW n \in Nodes, DeleteNode(n)
       PROVE  TargetsHaveHosts'
  <2>1. \A t \in targets : [t EXCEPT !.node = Null].host = t.host
    BY <1>0 DEF Target
  <2> QED
    BY <1>11, <2>1 DEF DeleteNode
<1>12. CASE (\E n \in Nodes : NodeChanges(n)) \/ (\E u \in Users : DeleteUser(u))
  BY <1>12 DEF NodeChanges, DeleteUser
<1>13. CASE UNCHANGED vars
  BY <1>13 DEF vars
<1> QED
  BY <1>2, <1>3, <1>4, <1>5, <1>6, <1>7, <1>8, <1>9, <1>10, <1>11, <1>12, <1>13
     DEF Next, SaveStep, Environment

LEMMA ChosenInvariant ==
  ASSUME IInv, AnswersAreChosen, [Next]_vars
  PROVE  AnswersAreChosen'
<1> SUFFICES ASSUME NEW w \in Workers, NEW h \in Hosts, req'[w].answer[h] \in TargetId
             PROVE  /\ pc'[w] \in {"resolve", "audit", "done"}
                    /\ \E t \in OfHost(req'[w].targets, h) : t.id = req'[w].answer[h]
  BY DEF AnswersAreChosen, OfHost
<1>0. /\ req[w] \in Request
      /\ pc \in [Workers -> Labels]
      /\ Original \notin TargetId /\ Hidden \notin TargetId /\ Pending \notin TargetId
  BY AnswersAreDistinct DEF IInv, TInv, TypeOK, RefreshesTyped
<1>1. CASE pc'[w] = pc[w] /\ req'[w] = req[w]
  BY <1>1 DEF AnswersAreChosen
<1>2. CASE Resets(w)
  BY <1>2 DEF Resets
<1>3. CASE ReadTargets(w)
  BY <1>0, <1>3, ReadTargetsAnswers DEF AnswersAreChosen
<1>4. CASE ReadAssignments(w) \/ ReadCounts(w) \/ ReadNodes(w) \/ WriteDecision(w)
  <2>1. req'[w].answer = req[w].answer /\ req'[w].targets = req[w].targets
    BY <1>4, ReadsKeepAnswers
  <2>2. pc[w] \in {"resolve", "audit", "done"}
    BY <2>1 DEF AnswersAreChosen
  <2>3. WriteDecision(w)
    BY <1>4, <2>2 DEF ReadAssignments, ReadCounts, ReadNodes
  <2>4. pc'[w] \in {"resolve", "done"}
    BY <1>0, <2>3 DEF WriteDecision, Goto
  <2> QED
    BY <2>1, <2>4 DEF AnswersAreChosen
<1>5. ASSUME NEW g \in Hosts, NEW answer \in Answer, AnswersHost(w, g, answer)
      PROVE  /\ pc'[w] \in {"resolve", "audit", "done"}
             /\ \E t \in OfHost(req'[w].targets, h) : t.id = req'[w].answer[h]
  <2>1. /\ req'[w].targets = req[w].targets
        /\ req'[w].answer = [req[w].answer EXCEPT ![g] = answer]
        /\ pc'[w] \in {"resolve", "audit", "done"}
    BY <1>5, AnswersOneHost
  <2>2. CASE g = h
    <3>1. req'[w].answer[h] = answer
      BY <1>0, <2>1, <2>2 DEF Request
    <3>2. answer \notin {Original, Hidden}
      BY <1>0, <3>1
    <3>3. \E t \in OfHost(req[w].targets, h) : answer = t.id
      BY <1>5, <2>2, <3>2 DEF AnswersHost
    <3> QED
      BY <2>1, <3>1, <3>3
  <2>3. CASE g # h
    <3>1. req'[w].answer[h] = req[w].answer[h]
      BY <1>0, <2>1, <2>3 DEF Request
    <3> QED
      BY <2>1, <3>1 DEF AnswersAreChosen
  <2> QED
    BY <2>2, <2>3
<1> QED
  BY <1>1, <1>2, <1>3, <1>4, <1>5, WorkerStep

\* A target that stands after a step and has an old id stood before it.
LEMMA LiveStays ==
  ASSUME IInv, [Next]_vars, NEW i \in Ids(targets'), i[1] <= created
  PROVE  i \in Ids(targets)
<1>1. PICK t \in targets' : t.id = i
  BY DEF Ids
<1>2. created \in Nat /\ targets \subseteq Target /\ targets' \subseteq Target
  BY NextTypes DEF IInv, TInv, TypeOK, TablesTyped
<1>3. i[1] \in Nat
  BY <1>1, <1>2 DEF Target, TargetId
<1>4. PICK o \in targets : Rest(t) = Rest(o)
  BY <1>1, <1>2, <1>3, RowsStep
<1> QED
  BY <1>1, <1>2, <1>4, RestFields DEF Ids

\* A live answer is the id of one of the host's own targets.
LEMMA LiveAnswer ==
  IInv /\ TargetsHaveHosts /\ AnswersAreChosen =>
    \A w \in Workers, h \in Hosts : req[w].answer[h] \in Ids(targets) =>
      /\ req[w].answer[h] \in TargetId
      /\ req[w].answer[h][1] <= created
      /\ h \in hosts
      /\ pc[w] \in {"resolve", "audit", "done"}
      /\ \E t \in OfHost(targets, h) : t.id = req[w].answer[h]
<1> SUFFICES ASSUME IInv, TargetsHaveHosts, AnswersAreChosen,
                    NEW w \in Workers, NEW h \in Hosts, req[w].answer[h] \in Ids(targets)
             PROVE  /\ req[w].answer[h] \in TargetId
                    /\ req[w].answer[h][1] <= created
                    /\ h \in hosts
                    /\ pc[w] \in {"resolve", "audit", "done"}
                    /\ \E t \in OfHost(targets, h) : t.id = req[w].answer[h]
  OBVIOUS
<1>0. targets \subseteq Target /\ req[w].targets \subseteq Target
  BY DEF IInv, TInv, TypeOK, TablesTyped, RefreshesTyped, Request
<1>1. PICK t \in targets : t.id = req[w].answer[h]
  BY DEF Ids
<1>2. req[w].answer[h] \in TargetId /\ req[w].answer[h][1] <= created
  BY <1>0, <1>1 DEF Target, IInv, IdsWereCreated
<1>3. PICK o \in OfHost(req[w].targets, h) : o.id = req[w].answer[h]
  BY <1>2 DEF AnswersAreChosen
<1>4. t.host = h
  <2>1. o \in req[w].targets /\ o.host = h
    BY DEF OfHost
  <2>2. Rest(o) = Rest(t)
    BY <1>1, <1>3, <2>1 DEF IInv, RowsAreImmutable
  <2> QED
    BY <1>0, <2>1, <2>2, RestFields
<1> QED
  BY <1>1, <1>2, <1>4 DEF AnswersAreChosen, TargetsHaveHosts, OfHost

LEMMA LiveAnswerNext ==
  IInv' /\ TargetsHaveHosts' /\ AnswersAreChosen' =>
    (\A w \in Workers, h \in Hosts : req[w].answer[h] \in Ids(targets) =>
      /\ req[w].answer[h] \in TargetId
      /\ req[w].answer[h][1] <= created
      /\ h \in hosts
      /\ pc[w] \in {"resolve", "audit", "done"}
      /\ \E t \in OfHost(targets, h) : t.id = req[w].answer[h])'
BY LiveAnswer, PTL

\* A step keeps the decisions whose host, user and target it keeps.
LEMMA DecisionsStay ==
  ASSUME IInv, [Next]_vars, NEW d \in decisions,
         d.host \in hosts', d.user \in users', d.target \in Ids(targets')
  PROVE  d \in decisions'
<1>0. \A t, o \in targets : o.id = t.id => o = t
  BY DEF IInv, RowsAreImmutable
<1>1. ASSUME NEW gone \in SUBSET targets, NEW dead, DropTargets(gone, dead)
      PROVE  d.target \notin Ids(gone)
  BY <1>0, <1>1 DEF DropTargets, Ids
<1>2. ASSUME NEW ds, d \in ds, NEW gone, d.target \notin Ids(gone)
      PROVE  d \in DecisionsWithout(ds, gone)
  BY <1>2 DEF DecisionsWithout
<1>3. ASSUME NEW h \in Hosts, DeleteHost(h)
      PROVE  d \in decisions'
  <2>1. d \in {e \in decisions : e.host # h}
    BY <1>3 DEF DeleteHost
  <2>2. d.target \notin Ids(OfHost(targets, h))
    BY <1>1, <1>3 DEF DeleteHost, OfHost
  <2> QED
    BY <1>2, <1>3, <2>1, <2>2 DEF DeleteHost
<1>4. ASSUME NEW a \in Admins, DeleteTargets(a)
      PROVE  d \in decisions'
  <2>1. d.target \notin Ids(OfHost(targets, saves[a].host))
    BY <1>1, <1>4 DEF DeleteTargets, OfHost
  <2> QED
    BY <1>2, <1>4, <2>1 DEF DeleteTargets
<1>5. ASSUME NEW u \in Users, DeleteUser(u)
      PROVE  d \in decisions'
  BY <1>5 DEF DeleteUser
<1>6. ASSUME NEW w \in Workers, RefreshStep(w) \/ DatabaseFails(w) \/ RefreshCrash(w)
      PROVE  decisions \subseteq decisions'
  BY <1>6 DEF RefreshStep, ReadTargets, ReadAssignments, ReadCounts, ReadNodes,
     ReuseSticky, AssignTarget, NoTarget, WriteDecision, Deliver, DatabaseFails,
     RefreshCrash, tables
<1>7. CASE \E w \in Workers, u \in Users, input \in SUBSET Hosts : StartRefresh(w, u, input)
  BY <1>7 DEF StartRefresh, tables
<1>8. CASE \E a \in Admins, h \in Hosts : \/ \E ds \in Drafts : UpdateTargets(a, h, ds)
                                         \/ \E p \in Patches : UpdateSettings(a, h, p)
  BY <1>8 DEF UpdateTargets, UpdateSettings, tables
<1>9. CASE \E a \in Admins : CreateTargets(a) \/ UpsertSettings(a) \/ SaveCrash(a)
  BY <1>9 DEF CreateTargets, UpsertSettings, SaveCrash, tables
<1>10. CASE \E n \in Nodes : NodeChanges(n) \/ DeleteNode(n)
  BY <1>10 DEF NodeChanges, DeleteNode
<1>11. CASE UNCHANGED vars
  BY <1>11 DEF vars
<1> QED
  BY <1>3, <1>4, <1>5, <1>6, <1>7, <1>8, <1>9, <1>10, <1>11
     DEF Next, SaveStep, Environment

LEMMA UsersOnlyGo == ASSUME [Next]_vars PROVE users' \subseteq users
BY QuietSteps DEF Environment, NodeChanges, DeleteNode, DeleteUser, DeleteHost,
   DeleteTargets, CreateTargets, AssignTarget

\* What holds of the answers whatever overlaps.
AuditInv == IInv /\ TargetsHaveHosts /\ AnswersAreChosen /\ AnswersAreAudited

\* The decision is an INSERT of live rows: it is refused for none of the
\* answers the property is about, and without failures it is not lost.
LEMMA DecisionIsWritten ==
  ASSUME AuditInv, "db" \notin Events, NEW w \in Workers, WriteDecision(w),
         NEW h \in Hosts, req[w].auditing = h, req[w].answer[h] \in Ids(targets),
         req[w].user \in users
  PROVE  \E d \in decisions' : /\ d.host = h /\ d.user = req[w].user
                               /\ d.target = req[w].answer[h]
<1> DEFINE d == DecisionOf(req[w])
<1>1. req[w].answer[h] \in TargetId /\ h \in hosts
  BY LiveAnswer DEF AuditInv
<1>2. /\ d.host = h /\ d.user = req[w].user /\ d.target = req[w].answer[h]
  BY <1>1, AnswersAreDistinct DEF DecisionOf
<1> HIDE DEF d
<1>3. d \in decisions'
  BY <1>1, <1>2 DEF WriteDecision, d
<1> QED
  BY <1>2, <1>3

LEMMA AuditInvariant ==
  ASSUME AuditInv, AuditEnabled, "db" \notin Events, [Next]_vars
  PROVE  AuditInv'
<1>0. IInv' /\ TargetsHaveHosts' /\ AnswersAreChosen'
  BY NextIInv, HostsInvariant, ChosenInvariant DEF AuditInv
<1> SUFFICES ASSUME NEW w \in Workers, NEW h \in Hosts,
                    req'[w].answer[h] \in Ids(targets'), req'[w].user \in users'
             PROVE  \/ pc'[w] = "audit" /\ req'[w].auditing = h
                    \/ \E d \in decisions' : /\ d.host = h /\ d.user = req'[w].user
                                             /\ d.target = req'[w].answer[h]
  BY <1>0 DEF AuditInv, AnswersAreAudited, Ids
<1> DEFINE Recorded == \E d \in decisions' : /\ d.host = h /\ d.user = req'[w].user
                                             /\ d.target = req'[w].answer[h]
<1>1. /\ req'[w].answer[h] \in TargetId /\ h \in hosts'
      /\ pc'[w] \in {"resolve", "audit", "done"}
  BY <1>0, LiveAnswerNext
<1>2. /\ req[w] \in Request /\ pc \in [Workers -> Labels]
      /\ users' \subseteq users
      /\ Original \notin TargetId /\ Hidden \notin TargetId
  <2>1. users' \subseteq users
    BY UsersOnlyGo
  <2> QED
    BY <2>1, AnswersAreDistinct DEF AuditInv, IInv, TInv, TypeOK, RefreshesTyped
\* An answer that was given before the step, and its user, were live then.
<1>3. ASSUME req'[w].answer[h] = req[w].answer[h], req'[w].user = req[w].user
      PROVE  req[w].answer[h] \in Ids(targets) /\ req[w].user \in users
  <2>1. \E t \in req[w].targets : t.id = req[w].answer[h]
    BY <1>1, <1>3 DEF AuditInv, AnswersAreChosen, OfHost
  <2>2. req[w].answer[h][1] <= created
    BY <2>1 DEF AuditInv, IInv, IdsWereCreated
  <2> QED
    BY <1>2, <1>3, <2>2, LiveStays DEF AuditInv
<1>4. ASSUME req'[w].answer[h] = req[w].answer[h], req'[w].user = req[w].user,
             ~(pc[w] = "audit" /\ req[w].auditing = h)
      PROVE  Recorded
  <2>1. PICK d \in decisions : /\ d.host = h /\ d.user = req[w].user
                               /\ d.target = req[w].answer[h]
    BY <1>3, <1>4 DEF AuditInv, AnswersAreAudited
  <2>2. d \in decisions'
    BY <1>1, <1>4, <2>1, DecisionsStay DEF AuditInv
  <2> QED
    BY <1>4, <2>1, <2>2
<1> HIDE DEF Recorded
<1>5. CASE pc'[w] = pc[w] /\ req'[w] = req[w]
  BY <1>4, <1>5 DEF Recorded
<1>6. CASE Resets(w)
  BY <1>1, <1>6 DEF Resets
<1>7. CASE ReadTargets(w)
  BY <1>1, <1>2, <1>7, ReadTargetsAnswers DEF AuditInv, AnswersAreChosen
<1>8. CASE ReadAssignments(w) \/ ReadCounts(w) \/ ReadNodes(w)
  <2>1. req'[w].answer = req[w].answer
    BY <1>8, ReadsKeepAnswers DEF AuditInv
  <2>2. pc[w] \in {"assignments", "counts", "nodes"}
    BY <1>8 DEF ReadAssignments, ReadCounts, ReadNodes
  <2> QED
    BY <1>1, <2>1, <2>2 DEF AuditInv, AnswersAreChosen
<1>9. CASE WriteDecision(w)
  <2>1. req'[w].answer = req[w].answer /\ req'[w].user = req[w].user
    BY <1>9, ReadsKeepAnswers DEF AuditInv
  <2>2. CASE req[w].auditing = h
    BY <1>3, <1>9, <2>1, <2>2, DecisionIsWritten
  <2>3. CASE req[w].auditing # h
    BY <1>4, <2>1, <2>3 DEF Recorded
  <2> QED
    BY <2>2, <2>3
<1>10. ASSUME NEW g \in Hosts, NEW answer \in Answer, AnswersHost(w, g, answer)
       PROVE  (pc'[w] = "audit" /\ req'[w].auditing = h) \/ Recorded
  <2>1. /\ req'[w].user = req[w].user
        /\ req'[w].answer = [req[w].answer EXCEPT ![g] = answer]
        /\ req'[w].auditing = g /\ pc'[w] = "audit"
    BY <1>10, AnswersOneHost DEF AuditInv
  <2>2. CASE g = h
    BY <2>1, <2>2
  <2>3. CASE g # h
    <3>1. req'[w].answer[h] = req[w].answer[h]
      BY <1>2, <2>1, <2>3 DEF Request
    <3>2. pc[w] = "resolve"
      BY <1>10 DEF AnswersHost
    <3> QED
      BY <1>4, <2>1, <3>1, <3>2
  <2> QED
    BY <2>2, <2>3
<1> QED
  BY <1>5, <1>6, <1>7, <1>8, <1>9, <1>10, WorkerStep DEF AuditInv, Recorded

LEMMA InitAudit == Init => TargetsHaveHosts /\ AnswersAreChosen /\ AnswersAreAudited
BY NullIsNoValue DEF Init, TargetsHaveHosts, AnswersAreChosen, AnswersAreAudited, NoRequest, Ids

\* The audit log accounts for every live answer: with the log on, and unless a
\* statement of the database fails, whatever rows go and processes die, a
\* refresh is not done before its decisions are on record.
THEOREM AnswersAreAccountedFor == Spec => []AuditCoversAnswers
<1>1. Init => IInv /\ TargetsHaveHosts /\ AnswersAreChosen /\ AnswersAreAudited
  BY InitIInv, InitAudit
<1>2. CASE AuditEnabled /\ "db" \notin Events
  <2>1. AuditInv => AuditCoversAnswers
    BY DEF AuditInv, AnswersAreAudited, AuditCoversAnswers
  <2>2. Init => AuditInv
    BY <1>1 DEF AuditInv
  <2>3. AuditInv /\ [Next]_vars => AuditInv'
    BY <1>2, AuditInvariant
  <2> QED
    BY <2>1, <2>2, <2>3, PTL DEF Spec
<1>3. CASE ~(AuditEnabled /\ "db" \notin Events)
  <2>1. AuditCoversAnswers
    BY <1>3 DEF AuditCoversAnswers
  <2> QED
    BY <2>1, PTL
<1> QED
  BY <1>2, <1>3

(***************************************************************************)
(* What is on file                                                         *)
(***************************************************************************)

\* What holds as well while the refreshes of a user do not overlap.
TurnInv == IInv /\ TargetsHaveHosts /\ AnswersAreChosen /\ ReadIsCurrent

\* Only a refresh of the same user writes an assignment: any other step takes
\* it away, and then its target or its user is gone.
LEMMA SeatStays ==
  ASSUME IInv, [Next]_vars, NEW h \in Hosts, NEW u \in Users,
         ~(\E v \in Workers : AssignTarget(v, h) /\ assignments' # assignments /\ req[v].user = u)
  PROVE  /\ assignments'[h][u] \in {Null, assignments[h][u]}
         /\ u \in users' /\ assignments[h][u] \in Ids(targets') =>
              assignments'[h][u] = assignments[h][u]
<1> DEFINE Q == /\ assignments'[h][u] \in {Null, assignments[h][u]}
                /\ u \in users' /\ assignments[h][u] \in Ids(targets') =>
                     assignments'[h][u] = assignments[h][u]
<1> SUFFICES Q
  OBVIOUS
<1>0. /\ assignments \in [Hosts -> [Users -> TargetId \cup {Null}]]
      /\ \A t, o \in targets : o.id = t.id => o = t
      /\ targets \subseteq Target
  BY DEF IInv, TInv, TypeOK, TablesTyped, RowsAreImmutable
<1>1. CASE UNCHANGED assignments
  BY <1>1
<1>2. ASSUME NEW v \in Workers, NEW g \in Hosts, AssignTarget(v, g)
      PROVE  Q
  <2>1. CASE assignments' # assignments
    <3>1. assignments' = [assignments EXCEPT ![g][req[v].user] = assignments'[g][req[v].user]]
          /\ ~(g = h /\ req[v].user = u)
      BY <1>0, <1>2, <2>1, AssignedRow
    <3> QED
      BY <1>0, <3>1
  <2> QED
    BY <1>1, <2>1
<1>3. ASSUME NEW gone \in SUBSET targets, NEW dead \in SUBSET Hosts, DropTargets(gone, dead),
             h \notin dead \/ OfHost(targets, h) \subseteq gone
      PROVE  Q
  <2>1. CASE assignments[h][u] \in Ids(gone)
    <3>1. assignments[h][u] \notin Ids(targets')
      BY <1>0, <1>3, <2>1 DEF DropTargets, Ids
    <3> QED
      BY <1>3, <3>1 DEF DropTargets
  <2>2. CASE assignments[h][u] \notin Ids(gone)
    <3>1. h \in dead => assignments[h][u] = Null
      BY <1>3, <2>2 DEF IInv, AssignmentIntegrity, Ids
    <3> QED
      BY <1>3, <2>2, <3>1 DEF DropTargets
  <2> QED
    BY <2>1, <2>2
<1>4. ASSUME NEW g \in Hosts, DeleteHost(g)
      PROVE  Q
  <2>1. OfHost(targets, g) \in SUBSET targets /\ {g} \in SUBSET Hosts
        /\ (h \notin {g} \/ OfHost(targets, h) \subseteq OfHost(targets, g))
    BY DEF OfHost
  <2> HIDE DEF Q
  <2> QED
    BY <1>3, <1>4, <2>1 DEF DeleteHost
<1>5. ASSUME NEW a \in Admins, DeleteTargets(a)
      PROVE  Q
  <2>1. OfHost(targets, saves[a].host) \in SUBSET targets
    BY DEF OfHost
  <2> HIDE DEF Q
  <2> QED
    BY <1>3, <1>5, <2>1 DEF DeleteTargets
<1>6. ASSUME NEW v \in Users, DeleteUser(v)
      PROVE  Q
  BY <1>0, <1>6 DEF DeleteUser
<1> HIDE DEF Q
<1> QED
  BY <1>1, <1>2, <1>4, <1>5, <1>6, QuietSteps
     DEF Environment, NodeChanges, DeleteNode, CreateTargets

Reading == {"counts", "nodes", "resolve", "audit"}

\* While a refresh is under way nobody else moves its user.
LEMMA OwnSeatStays ==
  ASSUME IInv, UsersTakeTurns, [Next]_vars, NEW w \in Workers, NEW h \in Hosts, pc[w] # "idle",
         ~(AssignTarget(w, h) /\ assignments' # assignments)
  PROVE  LET u == req[w].user IN
         /\ assignments'[h][u] \in {Null, assignments[h][u]}
         /\ u \in users' /\ assignments[h][u] \in Ids(targets') =>
              assignments'[h][u] = assignments[h][u]
<1>1. req[w].user \in Users
  BY DEF IInv, TInv, RefreshesHaveUsers
<1>2. ASSUME NEW v \in Workers, AssignTarget(v, h), assignments' # assignments
      PROVE  req[v].user # req[w].user
  <2>1. v # w /\ pc[v] # "idle"
    BY <1>2 DEF AssignTarget
  <2> QED
    BY <2>1 DEF UsersTakeTurns
<1> QED
  BY <1>1, <1>2, SeatStays

\* A write of the refresh itself answers the host.
LEMMA WriteAnswers ==
  ASSUME IInv, NEW w \in Workers, NEW h \in Hosts, AssignTarget(w, h), assignments' # assignments
  PROVE  /\ req[w].answer[h] = Pending
         /\ req'[w].answer[h] \in TargetId
<1>1. PICK t \in targets : t.host = h /\ Push(w, h, t.id)
  BY AssignedRow
<1>2. t.id \in TargetId /\ req \in [Workers -> Request]
  BY DEF IInv, TInv, TypeOK, TablesTyped, RefreshesTyped, Target
<1>3. req'[w].answer[h] = t.id
  BY <1>1, <1>2 DEF Push, Request
<1> QED
  BY <1>2, <1>3 DEF AssignTarget, Todo

LEMMA CurrentInvariant ==
  ASSUME TurnInv, UsersTakeTurns, [Next]_vars
  PROVE  ReadIsCurrent'
<1> SUFFICES ASSUME NEW w \in Workers, NEW h \in Hosts, pc'[w] \in Reading,
                    req'[w].answer[h] = Pending
             PROVE  LET r == req'[w] IN
                    /\ r.assigned[h] # Null => r.assigned[h][1] <= created'
                    /\ r.user \in users' =>
                         /\ assignments'[h][r.user] \in {Null, r.assigned[h]}
                         /\ r.assigned[h] \in Ids(targets') =>
                              assignments'[h][r.user] = r.assigned[h]
  BY DEF ReadIsCurrent, Reading, Ids
<1>0. /\ IInv /\ req[w] \in Request /\ pc \in [Workers -> Labels]
      /\ assignments \in [Hosts -> [Users -> TargetId \cup {Null}]]
      /\ targets \subseteq Target /\ created \in Nat
      /\ created' \in Nat /\ created <= created' /\ users' \subseteq users
      /\ Pending \notin TargetId
  <2>1. users' \subseteq users
    BY UsersOnlyGo
  <2>2. IInv /\ targets \subseteq Target /\ created \in Nat
    BY DEF TurnInv, IInv, TInv, TypeOK, TablesTyped
  <2>3. created' \in Nat /\ created <= created'
    BY <2>2, RowsStep
  <2> QED
    BY <2>1, <2>2, <2>3, AnswersAreDistinct DEF IInv, TInv, TypeOK, TablesTyped, RefreshesTyped
\* What was current before the step is current after it.
<1>1. ASSUME pc[w] \in Reading, req[w].answer[h] = Pending,
             req'[w].user = req[w].user, req'[w].assigned = req[w].assigned
      PROVE  LET r == req'[w] IN
             /\ r.assigned[h] # Null => r.assigned[h][1] <= created'
             /\ r.user \in users' =>
                  /\ assignments'[h][r.user] \in {Null, r.assigned[h]}
                  /\ r.assigned[h] \in Ids(targets') => assignments'[h][r.user] = r.assigned[h]
  <2> DEFINE i == req[w].assigned[h]
             u == req[w].user
  <2>1. i \in TargetId \cup {Null}
    BY <1>0 DEF Request
  <2>2. /\ i # Null => i[1] <= created
        /\ u \in users => /\ assignments[h][u] \in {Null, i}
                          /\ i \in Ids(targets) => assignments[h][u] = i
    BY <1>1 DEF TurnInv, ReadIsCurrent, Reading
  <2>3. ~(AssignTarget(w, h) /\ assignments' # assignments)
    BY <1>0, WriteAnswers
  <2>4. /\ assignments'[h][u] \in {Null, assignments[h][u]}
        /\ u \in users' /\ assignments[h][u] \in Ids(targets') =>
             assignments'[h][u] = assignments[h][u]
    BY <1>0, <1>1, <2>3, OwnSeatStays DEF TurnInv, Reading
  <2>5. i \in Ids(targets') => i # Null /\ i \in Ids(targets)
    <3>1. Null \notin Ids(targets')
      BY <1>0, NextTypes, NullIsNoValue DEF Ids, Target, IInv, TInv, TypeOK, TablesTyped
    <3> QED
      BY <1>0, <2>2, <3>1, LiveStays
  <2>6. i # Null => i[1] <= created'
    <3>1. i \in TargetId => i[1] \in Nat
      BY DEF TargetId
    <3> HIDE DEF i
    <3> QED
      BY <1>0, <2>1, <2>2, <3>1
  <2> HIDE DEF i, u
  <2>7. u \in users' => /\ assignments'[h][u] \in {Null, i}
                        /\ i \in Ids(targets') => assignments'[h][u] = i
    BY <1>0, <2>2, <2>4, <2>5
  <2> QED
    BY <1>1, <2>6, <2>7 DEF i, u
<1>2. CASE pc'[w] = pc[w] /\ req'[w] = req[w]
  BY <1>1, <1>2
<1>3. CASE Resets(w)
  BY <1>3 DEF Resets, Reading
<1>4. CASE ReadTargets(w)
  BY <1>0, <1>4, ReadTargetsAnswers DEF Reading
<1>5. CASE ReadAssignments(w)
  <2>1. /\ req[w].answer[h] = Pending /\ req'[w].user = req[w].user
        /\ UNCHANGED <<users, targets, assignments, created>>
    BY <1>0, <1>5, ReadsKeepAnswers
  <2>2. req'[w].assigned[h] = assignments[h][req[w].user]
    BY <1>0, <1>5, <2>1 DEF ReadAssignments, Todo, Request, IInv, TInv, TypeOK, RefreshesTyped
  <2>3. req[w].user \in Users
    BY <1>0, <1>5 DEF ReadAssignments, IInv, TInv, RefreshesHaveUsers
  <2>4. assignments[h][req[w].user] # Null => assignments[h][req[w].user][1] <= created
    BY <1>0, <2>3 DEF IInv, AssignmentIntegrity, IdsWereCreated, OfHost
  <2> QED
    BY <2>1, <2>2, <2>4
<1>6. CASE ReadCounts(w) \/ ReadNodes(w) \/ WriteDecision(w)
  <2>1. pc[w] \in Reading
    BY <1>6 DEF ReadCounts, ReadNodes, WriteDecision, Reading
  <2>2. req'[w].assigned = req[w].assigned
    BY <1>0, <1>6, ReadsKeepAnswers DEF ReadCounts, ReadNodes, WriteDecision, ReadAssignments
  <2> QED
    BY <1>0, <1>1, <1>6, <2>1, <2>2, ReadsKeepAnswers
<1>7. ASSUME NEW g \in Hosts, NEW answer \in Answer, AnswersHost(w, g, answer)
      PROVE  pc[w] \in Reading /\ req[w].answer[h] = Pending
             /\ req'[w].user = req[w].user /\ req'[w].assigned = req[w].assigned
  <2>1. /\ req'[w].user = req[w].user /\ req'[w].assigned = req[w].assigned
        /\ req'[w].answer = [req[w].answer EXCEPT ![g] = answer]
    BY <1>0, <1>7, AnswersOneHost
  <2>2. pc[w] \in Reading /\ req[w].answer[g] = Pending
    BY <1>7 DEF AnswersHost, Reading
  <2> QED
    BY <1>0, <2>1, <2>2 DEF Request
<1> QED
  BY <1>0, <1>1, <1>2, <1>3, <1>4, <1>5, <1>6, <1>7, WorkerStep

LEMMA FiledInvariant ==
  ASSUME TurnInv, UsersTakeTurns, AnsweredIsAssigned, [Next]_vars
  PROVE  AnsweredIsAssigned'
<1>0. TurnInv'
  BY NextIInv, HostsInvariant, ChosenInvariant, CurrentInvariant DEF TurnInv
<1> SUFFICES ASSUME NEW w \in Workers, NEW h \in Hosts,
                    req'[w].answer[h] \in Ids(targets'), req'[w].user \in users'
             PROVE  assignments'[h][req'[w].user] = req'[w].answer[h]
  BY DEF AnsweredIsAssigned, Ids
<1>1. req'[w].answer[h] \in TargetId /\ pc'[w] \in {"resolve", "audit", "done"}
  BY <1>0, LiveAnswerNext DEF TurnInv
<1>2. /\ IInv /\ req[w] \in Request /\ pc \in [Workers -> Labels]
      /\ assignments \in [Hosts -> [Users -> TargetId \cup {Null}]]
      /\ users' \subseteq users
      /\ Original \notin TargetId /\ Hidden \notin TargetId /\ Pending \notin TargetId
  <2>1. users' \subseteq users
    BY UsersOnlyGo
  <2> QED
    BY <2>1, AnswersAreDistinct DEF TurnInv, IInv, TInv, TypeOK, TablesTyped, RefreshesTyped
<1>3. ASSUME req'[w].answer[h] = req[w].answer[h], req'[w].user = req[w].user
      PROVE  assignments'[h][req'[w].user] = req'[w].answer[h]
  <2>1. pc[w] # "idle" /\ \E t \in req[w].targets : t.id = req[w].answer[h]
    BY <1>1, <1>3 DEF TurnInv, AnswersAreChosen, OfHost
  <2>2. req[w].answer[h][1] <= created
    BY <2>1 DEF TurnInv, IInv, IdsWereCreated
  <2>3. req[w].answer[h] \in Ids(targets)
    BY <1>2, <1>3, <2>2, LiveStays
  <2>4. assignments[h][req[w].user] = req[w].answer[h]
    BY <1>2, <1>3, <2>3 DEF AnsweredIsAssigned
  <2>5. ~(AssignTarget(w, h) /\ assignments' # assignments)
    BY <1>1, <1>2, <1>3, WriteAnswers
  <2> QED
    BY <1>2, <1>3, <2>1, <2>4, <2>5, OwnSeatStays
<1>4. CASE pc'[w] = pc[w] /\ req'[w] = req[w]
  BY <1>3, <1>4
<1>5. CASE Resets(w)
  BY <1>1, <1>5 DEF Resets
<1>6. CASE ReadTargets(w)
  BY <1>1, <1>2, <1>6, ReadTargetsAnswers DEF TurnInv, AnswersAreChosen
<1>7. CASE ReadAssignments(w) \/ ReadCounts(w) \/ ReadNodes(w) \/ WriteDecision(w)
  BY <1>2, <1>3, <1>7, ReadsKeepAnswers
<1>8. ASSUME NEW g \in Hosts, NEW answer \in Answer, AnswersHost(w, g, answer)
      PROVE  assignments'[h][req'[w].user] = req'[w].answer[h]
  <2>1. /\ req'[w].user = req[w].user
        /\ req'[w].answer = [req[w].answer EXCEPT ![g] = answer]
    BY <1>2, <1>8, AnswersOneHost
  <2>2. CASE g # h
    <3>1. req'[w].answer[h] = req[w].answer[h]
      BY <1>2, <2>1, <2>2 DEF Request
    <3> QED
      BY <1>3, <2>1, <3>1
  <2>3. CASE g = h
    <3>1. req'[w].answer[h] = answer /\ answer \notin {Original, Hidden}
      BY <1>1, <1>2, <2>1, <2>3 DEF Request
    <3>2. UNCHANGED <<users, targets>> /\ pc[w] = "resolve" /\ req[w].answer[h] = Pending
      BY <1>8, <2>3 DEF AnswersHost
    <3>3. CASE answer = req[w].assigned[h] /\ UNCHANGED assignments
      BY <2>1, <3>1, <3>2, <3>3 DEF TurnInv, ReadIsCurrent
    <3>4. CASE assignments' = [assignments EXCEPT ![h][req[w].user] = answer]
      <4>1. req[w].user \in Users
        BY <1>2, <3>2 DEF IInv, TInv, RefreshesHaveUsers
      <4> QED
        BY <1>2, <2>1, <3>1, <3>4, <4>1
    <3> QED
      BY <1>8, <2>3, <3>1, <3>3, <3>4 DEF AnswersHost
  <2> QED
    BY <2>2, <2>3
<1> QED
  BY <1>2, <1>4, <1>5, <1>6, <1>7, <1>8, WorkerStep

LEMMA InitTurn == Init => TurnInv /\ AnsweredIsAssigned
BY InitIInv, InitAudit, NullIsNoValue, AnswersAreDistinct
   DEF Init, TurnInv, ReadIsCurrent, AnsweredIsAssigned, NoRequest, Ids

LEMMA NextTurn == TurnInv /\ UsersTakeTurns /\ [Next]_vars => TurnInv'
BY NextIInv, HostsInvariant, ChosenInvariant, CurrentInvariant DEF TurnInv

\* What a user's subscription names is what is on file for the user: however
\* many refreshes of other users, saves, deletions, failures and crashes come in
\* between, as long as the user's own refreshes do not overlap.
THEOREM AnswersAreOnFile == Spec /\ []UsersTakeTurns => []AnsweredIsAssigned
<1>1. TurnInv /\ AnsweredIsAssigned /\ UsersTakeTurns /\ [Next]_vars
        => (TurnInv /\ AnsweredIsAssigned)'
  BY NextTurn, FiledInvariant
<1> QED
  BY <1>1, InitTurn, PTL DEF Spec

\* A valid target is not taken from its user, under the same condition.
THEOREM ValidTargetsAreKept == Spec /\ []UsersTakeTurns => StickyStability
<1> DEFINE Kept ==
      \A w \in Workers, h \in Hosts : \A t \in OfHost(req[w].targets, h) :
        /\ Moves(w, h)
        /\ req[w].settings[h].stickyEnabled
        /\ ~ /\ IsTrafficAwareStrategy(req[w].settings[h].strategy)
             /\ req[w].settings[h].rebalanceExisting
        /\ t.id = assignments[h][req[w].user]
        => ~ValidateTargetForHost(t, RequiredInbound[h], req[w].nodes, TRUE)
<1>1. ASSUME TurnInv, [Next]_vars
      PROVE  Kept
  <2> SUFFICES ASSUME NEW w \in Workers, NEW h \in Hosts, NEW t \in OfHost(req[w].targets, h),
                      Moves(w, h), req[w].settings[h].stickyEnabled,
                      ~ /\ IsTrafficAwareStrategy(req[w].settings[h].strategy)
                        /\ req[w].settings[h].rebalanceExisting,
                      t.id = assignments[h][req[w].user]
               PROVE  ~ValidateTargetForHost(t, RequiredInbound[h], req[w].nodes, TRUE)
    OBVIOUS
  <2>0. /\ IInv /\ req[w] \in Request /\ pc \in [Workers -> Labels]
        /\ Original \notin TargetId /\ Pending \notin TargetId /\ Hidden \notin TargetId
        /\ t \in Target
    BY <1>1, AnswersAreDistinct DEF TurnInv, IInv, TInv, TypeOK, RefreshesTyped, Request, OfHost
  <2>1. PICK g \in Hosts, answer \in Answer : AnswersHost(w, g, answer)
    <3>1. ~(pc'[w] = pc[w] /\ req'[w] = req[w]) /\ ~Resets(w)
      BY <2>0 DEF Moves, Resets
    <3>2. ~ReadTargets(w)
      BY <2>0, ReadTargetsAnswers DEF Moves
    <3>3. ~(ReadAssignments(w) \/ ReadCounts(w) \/ ReadNodes(w) \/ WriteDecision(w))
      BY <2>0, ReadsKeepAnswers DEF Moves
    <3> QED
      BY <1>1, <2>0, <3>1, <3>2, <3>3, WorkerStep
  <2>2. req'[w].answer = [req[w].answer EXCEPT ![g] = answer]
    BY <2>0, <2>1, AnswersOneHost
  <2>3. g = h
    BY <2>0, <2>2 DEF Moves, Request
  <2>4. StickyFor(w, h) = {} /\ pc[w] = "resolve" /\ req[w].user \in users
    <3>1. req'[w].answer[h] = answer
      BY <2>0, <2>2, <2>3 DEF Request
    <3>2. answer \notin {Original, Hidden} /\ assignments' # assignments
      BY <2>0, <3>1 DEF Moves
    <3> QED
      BY <2>1, <2>3, <3>2 DEF AnswersHost
  <2>5. t.id = req[w].assigned[h]
    <3>1. t.id # Null
      BY <2>0, NullIsNoValue DEF Target
    <3> QED
      BY <1>1, <2>4, <3>1 DEF TurnInv, ReadIsCurrent, Moves
  <2> QED
    BY <2>4, <2>5 DEF StickyFor, ReusableSticky, StickyTarget
<1>2. TurnInv /\ [Next]_vars => Kept
  BY <1>1
<1> HIDE DEF Kept
<1>3. Spec /\ []UsersTakeTurns => [][Kept]_vars
  BY <1>2, InitTurn, NextTurn, PTL DEF Spec
<1> QED
  BY <1>3 DEF StickyStability, Kept
=============================================================================
