-------------------------- MODULE HostBalancerBounds --------------------------
(***************************************************************************)
(* Proofs about HostBalancer that rest on finiteness: how far overlapping  *)
(* refreshes overshoot a limit, and how many target lists overlapping      *)
(* saves leave behind.                                                     *)
(***************************************************************************)
EXTENDS HostBalancerProofs

(***************************************************************************)
(* Target lists                                                            *)
(***************************************************************************)

LEMMA CreatingFinite ==
  ASSUME NEW h
  PROVE  /\ IsFiniteSet(Creating(h)) /\ Cardinality(Creating(h)) \in Nat
         /\ Cardinality(Creating(h)) <= Cardinality(Admins)
         /\ Cardinality(Admins) \in Nat
<1>1. Creating(h) \in SUBSET Admins
  BY DEF Creating
<1>2. IsFiniteSet(Creating(h)) /\ Cardinality(Creating(h)) <= Cardinality(Admins)
  BY <1>1, FiniteInstance, FS_Subset
<1> QED
  BY <1>2, FiniteInstance, FS_CardinalityType

\* A step that adds neither a list nor a save that is about to add one.
LEMMA ListsShrink ==
  ASSUME ListsBounded, NEW h \in Hosts,
         Lists(h)' \subseteq Lists(h), Creating(h)' \subseteq Creating(h)
  PROVE  /\ IsFiniteSet(Lists(h)')
         /\ Cardinality(Lists(h)') + Cardinality(Creating(h)') <= Cardinality(Admins)
<1>1. IsFiniteSet(Lists(h)) /\ IsFiniteSet(Creating(h))
  BY CreatingFinite DEF ListsBounded
<1>2. /\ IsFiniteSet(Lists(h)') /\ Cardinality(Lists(h)') <= Cardinality(Lists(h))
      /\ IsFiniteSet(Creating(h)') /\ Cardinality(Creating(h)') <= Cardinality(Creating(h))
  BY <1>1, FS_Subset
<1>3. /\ Cardinality(Lists(h)) \in Nat /\ Cardinality(Lists(h)') \in Nat
      /\ Cardinality(Creating(h)) \in Nat /\ Cardinality(Creating(h)') \in Nat
      /\ Cardinality(Admins) \in Nat
  BY <1>1, <1>2, FiniteInstance, FS_CardinalityType
<1>4. Cardinality(Lists(h)) + Cardinality(Creating(h)) <= Cardinality(Admins)
  BY DEF ListsBounded
<1> QED
  BY <1>2, <1>3, <1>4

LEMMA ListsInvariant ==
  ASSUME IInv, ListsBounded, [Next]_vars
  PROVE  ListsBounded'
<1> SUFFICES ASSUME NEW h \in Hosts
             PROVE  /\ IsFiniteSet(Lists(h)')
                    /\ Cardinality(Lists(h)') + Cardinality(Creating(h)') <= Cardinality(Admins)
  BY DEF ListsBounded
<1>0. saves \in [Admins -> Save] /\ targets \subseteq Target
  BY DEF IInv, TInv, TypeOK, TablesTyped
<1>1. ASSUME NEW a \in Admins, EndSave(a)
      PROVE  Creating(h)' \subseteq Creating(h)
  BY <1>0, <1>1 DEF EndSave, Creating, NoSave
<1>2. ASSUME targets' \subseteq targets
      PROVE  Lists(h)' \subseteq Lists(h)
  BY <1>2 DEF Lists, OfHost
<1>3. CASE \E a \in Admins : CreateTargets(a)
  <2>1. PICK a \in Admins : CreateTargets(a)
    BY <1>3
  <2>2. CASE saves[a].host # h
    <3>1. Lists(h)' \subseteq Lists(h)
      BY <2>1, <2>2 DEF CreateTargets, NewRows, Row, Lists, OfHost
    <3> QED
      BY <1>1, <2>1, <3>1, ListsShrink DEF CreateTargets
  <2>3. CASE saves[a].host = h
    <3>1. Lists(h)' \subseteq Lists(h) \cup {created'}
      BY <2>1, <2>3 DEF CreateTargets, NewRows, Row, Lists, OfHost
    <3>2. a \in Creating(h) /\ Creating(h)' \subseteq Creating(h) \ {a}
      BY <1>0, <2>1, <2>3 DEF CreateTargets, EndSave, NoSave, Creating
    <3>3. IsFiniteSet(Lists(h)) /\ IsFiniteSet(Creating(h))
      BY CreatingFinite DEF ListsBounded
    <3>4. /\ IsFiniteSet(Lists(h) \cup {created'})
          /\ Cardinality(Lists(h) \cup {created'}) <= Cardinality(Lists(h)) + 1
      <4>1. /\ IsFiniteSet(Lists(h) \cup {created'})
            /\ Cardinality(Lists(h) \cup {created'}) =
                 IF created' \in Lists(h) THEN Cardinality(Lists(h)) ELSE Cardinality(Lists(h)) + 1
        BY <3>3, FS_AddElement
      <4>2. Cardinality(Lists(h)) \in Nat
        BY <3>3, FS_CardinalityType
      <4> QED
        BY <4>1, <4>2
    <3>5. /\ IsFiniteSet(Creating(h) \ {a})
          /\ Cardinality(Creating(h) \ {a}) = Cardinality(Creating(h)) - 1
      BY <3>2, <3>3, FS_RemoveElement
    <3>6. /\ IsFiniteSet(Lists(h)') /\ Cardinality(Lists(h)') <= Cardinality(Lists(h) \cup {created'})
          /\ IsFiniteSet(Creating(h)') /\ Cardinality(Creating(h)') <= Cardinality(Creating(h) \ {a})
      BY <3>1, <3>2, <3>4, <3>5, FS_Subset
    <3>7. /\ Cardinality(Lists(h)) \in Nat /\ Cardinality(Lists(h)') \in Nat
          /\ Cardinality(Lists(h) \cup {created'}) \in Nat
          /\ Cardinality(Creating(h)) \in Nat /\ Cardinality(Creating(h)') \in Nat
          /\ Cardinality(Creating(h) \ {a}) \in Nat
          /\ Cardinality(Admins) \in Nat
      BY <3>3, <3>4, <3>5, <3>6, FiniteInstance, FS_CardinalityType
    <3>8. Cardinality(Lists(h)) + Cardinality(Creating(h)) <= Cardinality(Admins)
      BY DEF ListsBounded
    <3> QED
      BY <3>4, <3>5, <3>6, <3>7, <3>8
  <2> QED
    BY <2>2, <2>3
<1>4. CASE \E a \in Admins : DeleteTargets(a)
  <2>1. PICK a \in Admins : DeleteTargets(a)
    BY <1>4
  <2>2. CASE saves[a].host = h
    <3>1. Lists(h)' = {}
      BY <2>1, <2>2 DEF DeleteTargets, DropTargets, Lists, OfHost
    <3>2. IsFiniteSet(Creating(h)') /\ Cardinality(Creating(h)') <= Cardinality(Admins)
      <4>1. Creating(h)' \in SUBSET Admins
        BY DEF Creating
      <4> QED
        BY <4>1, FiniteInstance, FS_Subset
    <3> QED
      BY <3>1, <3>2, FS_EmptySet, FS_CardinalityType
  <2>3. CASE saves[a].host # h
    <3>1. Creating(h)' \subseteq Creating(h)
      BY <1>0, <1>1, <2>1, <2>3 DEF DeleteTargets, Creating, Save
    <3> QED
      BY <1>2, <2>1, <3>1, ListsShrink DEF DeleteTargets, DropTargets
  <2> QED
    BY <2>2, <2>3
<1>5. CASE Environment
  <2>1. Creating(h)' = Creating(h)
    BY <1>5 DEF Environment, NodeChanges, DeleteNode, DeleteUser, DeleteHost, Creating
  <2>2. ASSUME NEW n \in Nodes, DeleteNode(n)
        PROVE  Lists(h)' \subseteq Lists(h)
    BY <1>0, <2>2 DEF DeleteNode, Lists, OfHost, Target
  <2>3. Lists(h)' \subseteq Lists(h)
    BY <1>2, <1>5, <2>2
       DEF Environment, NodeChanges, DeleteUser, DeleteHost, DropTargets
  <2> QED
    BY <2>1, <2>3, ListsShrink
<1>6. ASSUME ~(\E a \in Admins : DeleteTargets(a) \/ CreateTargets(a)), ~Environment
      PROVE  targets' = targets /\ Creating(h)' \subseteq Creating(h)
  <2>1. ASSUME NEW a \in Admins, NEW save, StartSave(a, save), save.pc # "deleted"
        PROVE  Creating(h)' \subseteq Creating(h)
    BY <1>0, <2>1 DEF StartSave, Creating
  <2>2. CASE \E w \in Workers : RefreshStep(w) \/ DatabaseFails(w) \/ RefreshCrash(w)
    BY <2>2 DEF RefreshStep, ReadTargets, ReadAssignments, ReadCounts, ReadNodes, ReuseSticky,
         AssignTarget, NoTarget, WriteDecision, Deliver, DatabaseFails, RefreshCrash, tables,
         Creating
  <2>3. CASE \E w \in Workers, u \in Users, input \in SUBSET Hosts : StartRefresh(w, u, input)
    BY <2>3 DEF StartRefresh, tables, Creating
  <2>4. CASE \E a \in Admins, g \in Hosts : \/ \E ds \in Drafts : UpdateTargets(a, g, ds)
                                           \/ \E p \in Patches : UpdateSettings(a, g, p)
    BY <2>1, <2>4 DEF UpdateTargets, UpdateSettings, tables
  <2>5. CASE \E a \in Admins : SaveStep(a) \/ SaveCrash(a)
    BY <1>1, <1>6, <2>5 DEF SaveStep, UpsertSettings, SaveCrash, tables
  <2>6. CASE UNCHANGED vars
    BY <2>6 DEF vars, Creating
  <2> QED
    BY <1>6, <2>2, <2>3, <2>4, <2>5, <2>6 DEF Next
<1> QED
  BY <1>2, <1>3, <1>4, <1>5, <1>6, ListsShrink

LEMMA InitLists == Init => ListsBounded
<1> SUFFICES ASSUME Init, NEW h \in Hosts
             PROVE  /\ IsFiniteSet(Lists(h))
                    /\ Cardinality(Lists(h)) + Cardinality(Creating(h)) <= Cardinality(Admins)
  BY DEF ListsBounded
<1>1. Lists(h) = {}
  BY DEF Init, Lists, OfHost
<1> QED
  BY <1>1, CreatingFinite, FS_EmptySet

\* Overlapping saves never leave more lists on one host than there are saves.
THEOREM SavesMergeBoundedly == Spec => []SavesMergedBounded
<1>1. ListsBounded => SavesMergedBounded
  <2> SUFFICES ASSUME ListsBounded, NEW h \in Hosts
               PROVE  Cardinality(Lists(h)) <= Cardinality(Admins)
    BY DEF SavesMergedBounded
  <2> QED
    BY CreatingFinite, FS_CardinalityType DEF ListsBounded
<1>2. IInv /\ ListsBounded /\ [Next]_vars => (IInv /\ ListsBounded)'
  BY NextIInv, ListsInvariant
<1> QED
  BY <1>1, <1>2, InitIInv, InitLists, PTL DEF Spec

(***************************************************************************)
(* Seats                                                                   *)
(***************************************************************************)

LEMMA PermitsFinite ==
  ASSUME NEW t
  PROVE  /\ IsFiniteSet(Permits(t)) /\ Cardinality(Permits(t)) \in Nat
         /\ Cardinality(Permits(t)) <= Cardinality(Workers)
         /\ Cardinality(Workers) \in Nat
<1>1. Permits(t) \in SUBSET Workers
  BY DEF Permits
<1>2. IsFiniteSet(Permits(t)) /\ Cardinality(Permits(t)) <= Cardinality(Workers)
  BY <1>1, FiniteInstance, FS_Subset
<1> QED
  BY <1>2, FiniteInstance, FS_CardinalityType

\* What refresh v holds for target t: it is past its count, still owes an
\* answer for t's host, and counted room.
Permit(v, t) ==
  /\ pc[v] \in {"nodes", "resolve", "audit"}
  /\ t.id \in Ids(req[v].targets)
  /\ req[v].answer[t.host] = Pending
  /\ counts[v][t.id] < t.maxAssignedUsers

LEMMA PermitOfPush ==
  ASSUME TInv, NEW v \in Workers, NEW h \in Hosts, NEW answer \in Answer \ {Pending},
         pc[v] = "resolve", Push(v, h, answer),
         NEW w \in Workers, NEW t \in Target, Permit(w, t)'
  PROVE  Permit(w, t) /\ ~(w = v /\ t.host = h)
<1> USE DEF TInv, TypeOK, RefreshesTyped, Request
<1>1. /\ req'[w].targets = req[w].targets
      /\ w # v => req'[w] = req[w] /\ pc'[w] = pc[w]
      /\ w = v => req'[w].answer = [req[w].answer EXCEPT ![h] = answer]
      /\ counts' = counts
  BY DEF Push, Goto
<1>2. t.host \in Hosts
  BY DEF Target
<1> QED
  BY <1>1, <1>2 DEF Permit

LEMMA PermitStep ==
  ASSUME TInv, [Next]_vars, NEW w \in Workers, NEW t \in Target, Permit(w, t)'
  PROVE  Permit(w, t) \/ ReadCounts(w)
<1> USE DEF TInv, TypeOK, RefreshesTyped
<1>0. req \in [Workers -> Request] /\ pc \in [Workers -> Labels]
  OBVIOUS
<1>1. ASSUME NEW v \in Workers, NEW label, Goto(v, label), label \notin {"nodes", "resolve", "audit"},
             NEW r, req' = [req EXCEPT ![v] = r], NEW c, counts' = [counts EXCEPT ![v] = c]
      PROVE  Permit(w, t)
  <2>1. w # v
    BY <1>0, <1>1 DEF Permit, Goto
  <2> QED
    BY <1>0, <1>1, <2>1 DEF Permit, Goto
<1>2. ASSUME NEW v \in Workers, FailOpen(v) \/ EndRefresh(v)
      PROVE  Permit(w, t)
  BY <1>1, <1>2 DEF FailOpen, EndRefresh
<1>3. ASSUME NEW v \in Workers, ReadTargets(v)
      PROVE  Permit(w, t)
  <2>1. w # v
    BY <1>0, <1>3 DEF ReadTargets, Permit, Goto
  <2> QED
    BY <1>0, <1>3, <2>1 DEF ReadTargets, Permit, Goto
<1>4. ASSUME NEW v \in Workers, ReadAssignments(v)
      PROVE  Permit(w, t)
  <2>1. w # v
    BY <1>0, <1>4 DEF ReadAssignments, Permit, Goto
  <2> QED
    BY <1>0, <1>4, <2>1 DEF ReadAssignments, Permit, Goto
<1>5. ASSUME NEW v \in Workers, ReadCounts(v), v # w
      PROVE  Permit(w, t)
  BY <1>0, <1>5 DEF ReadCounts, Permit, Goto
<1>6. ASSUME NEW v \in Workers, ReadNodes(v)
      PROVE  Permit(w, t)
  <2>1. /\ req'[w].targets = req[w].targets /\ req'[w].answer = req[w].answer
        /\ counts' = counts /\ pc'[w] = IF w = v THEN "resolve" ELSE pc[w]
    BY <1>0, <1>6 DEF ReadNodes, Goto, Request
  <2> QED
    BY <1>6, <2>1 DEF Permit, ReadNodes
<1>7. ASSUME NEW v \in Workers, WriteDecision(v)
      PROVE  Permit(w, t)
  <2>1. /\ req'[w].targets = req[w].targets /\ req'[w].answer = req[w].answer
        /\ counts' = counts /\ w # v => pc'[w] = pc[w]
    BY <1>0, <1>7 DEF WriteDecision, Goto, Request
  <2> QED
    BY <1>7, <2>1 DEF Permit, WriteDecision
<1>8. ASSUME NEW v \in Workers, NEW h \in Hosts,
             ReuseSticky(v, h) \/ AssignTarget(v, h) \/ NoTarget(v, h)
      PROVE  Permit(w, t)
  <2>1. \A o \in StickyFor(v, h) \cup CandidatesFor(v, h) \cup LastFor(v, h) :
          o.id \in Answer \ {Pending}
    BY ChoicesAreTargets, AnswersAreDistinct DEF OfHost, Request, Target, Answer
  <2>2. pc[v] = "resolve"
    BY <1>8 DEF ReuseSticky, AssignTarget, NoTarget
  <2>3. CASE ReuseSticky(v, h)
    BY <1>2, <2>1, <2>2, <2>3, PermitOfPush DEF ReuseSticky
  <2>4. CASE AssignTarget(v, h)
    <3>1. PICK o \in CandidatesFor(v, h) : Push(v, h, o.id) \/ FailOpen(v)
      BY <2>4, SelectionIsCandidate DEF AssignTarget, PicksFor
    <3> QED
      BY <1>2, <2>1, <2>2, <3>1, PermitOfPush
  <2>5. CASE NoTarget(v, h)
    <3>1. \E answer \in Answer \ {Pending} : Push(v, h, answer)
      BY <2>1, <2>5, AnswersAreDistinct DEF NoTarget, Answer
    <3> QED
      BY <2>2, <3>1, PermitOfPush
  <2> QED
    BY <1>8, <2>3, <2>4, <2>5
<1>9. ASSUME NEW v \in Workers, NEW u \in Users, NEW input \in SUBSET Hosts,
             StartRefresh(v, u, input)
      PROVE  Permit(w, t)
  <2>1. w # v
    BY <1>0, <1>9 DEF StartRefresh, Permit, Goto
  <2> QED
    BY <1>0, <1>9, <2>1 DEF StartRefresh, Permit, Goto
<1>10. CASE UNCHANGED refreshes
  BY <1>10 DEF refreshes, Permit
<1>11. CASE \E v \in Workers : RefreshStep(v) \/ DatabaseFails(v) \/ RefreshCrash(v)
  BY <1>2, <1>3, <1>4, <1>5, <1>6, <1>7, <1>8, <1>11
     DEF RefreshStep, Deliver, DatabaseFails, RefreshCrash
<1>12. ASSUME ~(\E v \in Workers : RefreshStep(v) \/ DatabaseFails(v) \/ RefreshCrash(v)),
              ~(\E v \in Workers, u \in Users, input \in SUBSET Hosts : StartRefresh(v, u, input))
       PROVE  UNCHANGED refreshes
  BY <1>12 DEF Next, SaveStep, DeleteTargets, CreateTargets, UpsertSettings, SaveCrash,
       UpdateTargets, UpdateSettings, Environment, NodeChanges, DeleteNode, DeleteUser,
       DeleteHost, refreshes, vars
<1> QED
  BY <1>9, <1>10, <1>11, <1>12

LEMMA PermitsArePermits ==
  ASSUME NEW t
  PROVE  /\ Permits(t) = {v \in Workers : Permit(v, t)}
         /\ Permits(t)' = {v \in Workers : Permit(v, t)'}
BY DEF Permits, Permit

\* Only AssignTarget adds a holder.
LEMMA HoldersStep ==
  ASSUME IInv, [Next]_vars,
         ~(\E w \in Workers, h \in Hosts : AssignTarget(w, h)),
         NEW id \in TargetId
  PROVE  Holders(id)' \subseteq Holders(id)
<1>0. /\ assignments \in [Hosts -> [Users -> TargetId \cup {Null}]]
      /\ id # Null
  BY NullIsNoValue DEF IInv, TInv, TypeOK, TablesTyped
<1>1. ASSUME \A h \in Hosts, u \in Users : assignments'[h][u] \in {Null, assignments[h][u]}
      PROVE  Holders(id)' \subseteq Holders(id)
  BY <1>0, <1>1 DEF Holders
<1>2. ASSUME NEW gone, NEW dead, DropTargets(gone, dead)
      PROVE  Holders(id)' \subseteq Holders(id)
  BY <1>1, <1>2 DEF DropTargets
<1>3. ASSUME NEW u \in Users, DeleteUser(u)
      PROVE  Holders(id)' \subseteq Holders(id)
  BY <1>0, <1>1, <1>3 DEF DeleteUser
<1>4. CASE UNCHANGED assignments
  BY <1>1, <1>4
<1>5. CASE Environment
  BY <1>2, <1>3, <1>4, <1>5 DEF Environment, NodeChanges, DeleteNode, DeleteHost
<1>6. CASE \E a \in Admins : DeleteTargets(a) \/ CreateTargets(a)
  BY <1>2, <1>4, <1>6 DEF DeleteTargets, CreateTargets
<1> QED
  BY <1>4, <1>5, <1>6, QuietSteps

\* Neither a seat is taken nor a permit gained.
LEMMA SeatsShrink ==
  ASSUME SeatsBounded, NEW t \in targets, targets \subseteq Target, t.maxAssignedUsers # Null,
         Holders(t.id)' \subseteq Holders(t.id), Permits(t)' \subseteq Permits(t)
  PROVE  Cardinality(Holders(t.id)') + Cardinality(Permits(t)')
           < t.maxAssignedUsers + Cardinality(Workers)
<1>1. /\ IsFiniteSet(Holders(t.id)) /\ Cardinality(Holders(t.id)) \in Nat
      /\ IsFiniteSet(Permits(t)) /\ Cardinality(Permits(t)) \in Nat
      /\ Cardinality(Workers) \in Nat /\ t.maxAssignedUsers \in Nat
  BY HoldersFinite, PermitsFinite DEF Target
<1>2. /\ IsFiniteSet(Holders(t.id)') /\ Cardinality(Holders(t.id)') <= Cardinality(Holders(t.id))
      /\ IsFiniteSet(Permits(t)') /\ Cardinality(Permits(t)') <= Cardinality(Permits(t))
  BY <1>1, FS_Subset
<1>3. Cardinality(Holders(t.id)') \in Nat /\ Cardinality(Permits(t)') \in Nat
  BY <1>2, FS_CardinalityType
<1>4. Cardinality(Holders(t.id)) + Cardinality(Permits(t))
        < t.maxAssignedUsers + Cardinality(Workers)
  BY DEF SeatsBounded
<1> QED
  BY <1>1, <1>2, <1>3, <1>4

\* A count below the limit: every refresh may hold a permit by now.
LEMMA SeatsOnCount ==
  ASSUME TInv, NEW t \in targets, t.maxAssignedUsers # Null,
         NEW w \in Workers, ReadCounts(w), Permit(w, t)'
  PROVE  Cardinality(Holders(t.id)') + Cardinality(Permits(t)')
           < t.maxAssignedUsers + Cardinality(Workers)
<1>1. Holders(t.id)' = Holders(t.id) /\ req' = req
  BY DEF ReadCounts, Holders, tables
<1>2. counts'[w][t.id] = Cardinality(Holders(t.id))
  <2>1. t.id \in Ids(req[w].targets)
    BY <1>1 DEF Permit
  <2>2. counts'[w] = [i \in Ids(req[w].targets) |-> Cardinality(Holders(i))]
    BY DEF ReadCounts, TInv, TypeOK, RefreshesTyped
  <2> QED
    BY <2>1, <2>2
<1>3. Cardinality(Holders(t.id)) < t.maxAssignedUsers
  BY <1>2 DEF Permit
<1>4. /\ Cardinality(Holders(t.id)) \in Nat /\ t.maxAssignedUsers \in Nat
      /\ Cardinality(Workers) \in Nat
  BY HoldersFinite, PermitsFinite DEF TInv, TypeOK, TablesTyped, Target
<1>5. Cardinality(Permits(t)') \in Nat /\ Cardinality(Permits(t)') <= Cardinality(Workers)
  <2>1. Permits(t)' \in SUBSET Workers
    BY DEF Permits
  <2>2. IsFiniteSet(Permits(t)') /\ Cardinality(Permits(t)') <= Cardinality(Workers)
    BY <2>1, FiniteInstance, FS_Subset
  <2> QED
    BY <2>2, FS_CardinalityType
<1> QED
  BY <1>1, <1>3, <1>4, <1>5

\* Taking a seat uses the permit up.
LEMMA SeatsOnAssign ==
  ASSUME IInv, SeatsBounded, NEW w \in Workers, NEW h \in Hosts, AssignTarget(w, h),
         assignments' # assignments,
         NEW t \in targets, t.maxAssignedUsers # Null
  PROVE  Cardinality(Holders(t.id)') + Cardinality(Permits(t)')
           < t.maxAssignedUsers + Cardinality(Workers)
<1>0. /\ targets \subseteq Target
      /\ assignments \in [Hosts -> [Users -> TargetId \cup {Null}]]
      /\ TInv
  BY DEF IInv, TInv, TypeOK, TablesTyped
<1>1. PICK s \in CandidatesFor(w, h), r \in targets :
        /\ req[w].user \in users
        /\ r.id = s.id /\ r.host = h /\ r.maxAssignedUsers = s.maxAssignedUsers
        /\ assignments' = [assignments EXCEPT ![h][req[w].user] = r.id]
        /\ Push(w, h, r.id)
  BY AssignedRow
<1>2. pc[w] = "resolve" /\ h \in Todo(req[w])
  BY DEF AssignTarget
<1>3. r.id \in Answer \ {Pending}
  BY <1>0, AnswersAreDistinct DEF Target, Answer
<1>4. Permits(t)' \subseteq Permits(t) /\ (t.host = h => w \notin Permits(t)')
  BY <1>0, <1>1, <1>2, <1>3, PermitOfPush, PermitsArePermits
<1>5. CASE r.id # t.id
  <2>1. Holders(t.id)' \subseteq Holders(t.id)
    BY <1>0, <1>1, <1>5 DEF Holders
  <2> QED
    BY <1>0, <1>4, <2>1, SeatsShrink
<1>6. CASE r.id = t.id
  <2>1. r = t
    BY <1>6 DEF IInv, RowsAreImmutable
  <2>2. Permit(w, t)
    <3>1. s \in req[w].targets /\ HasRoom(s, counts[w])
      BY <1>1 DEF CandidatesFor, Candidates, OfHost
    <3>2. counts[w][t.id] < t.maxAssignedUsers
      BY <1>1, <2>1, <3>1 DEF HasRoom
    <3>3. t.id \in Ids(req[w].targets)
      BY <1>1, <2>1, <3>1 DEF Ids
    <3> QED
      BY <1>1, <1>2, <2>1, <3>2, <3>3 DEF Permit, Todo
  <2>3. w \in Permits(t) /\ Permits(t)' \subseteq Permits(t) \ {w}
    BY <1>1, <1>4, <2>1, <2>2, PermitsArePermits
  <2>4. Holders(t.id)' \subseteq Holders(t.id) \cup {<<h, req[w].user>>}
    BY <1>0, <1>1, <2>1 DEF Holders
  <2>5. /\ IsFiniteSet(Holders(t.id)) /\ Cardinality(Holders(t.id)) \in Nat
        /\ IsFiniteSet(Permits(t)) /\ Cardinality(Permits(t)) \in Nat
        /\ Cardinality(Workers) \in Nat /\ t.maxAssignedUsers \in Nat
    BY <1>0, HoldersFinite, PermitsFinite DEF Target
  <2>6. /\ IsFiniteSet(Permits(t) \ {w})
        /\ Cardinality(Permits(t) \ {w}) = Cardinality(Permits(t)) - 1
    BY <2>3, <2>5, FS_RemoveElement
  <2>7. /\ IsFiniteSet(Holders(t.id) \cup {<<h, req[w].user>>})
        /\ Cardinality(Holders(t.id) \cup {<<h, req[w].user>>}) =
             IF <<h, req[w].user>> \in Holders(t.id) THEN Cardinality(Holders(t.id))
                                                     ELSE Cardinality(Holders(t.id)) + 1
    BY <2>5, FS_AddElement
  <2>8. /\ IsFiniteSet(Permits(t)') /\ Cardinality(Permits(t)') <= Cardinality(Permits(t) \ {w})
        /\ IsFiniteSet(Holders(t.id)')
        /\ Cardinality(Holders(t.id)') <= Cardinality(Holders(t.id) \cup {<<h, req[w].user>>})
    BY <2>3, <2>4, <2>6, <2>7, FS_Subset
  <2>9. Cardinality(Permits(t)') \in Nat /\ Cardinality(Holders(t.id)') \in Nat
    BY <2>8, FS_CardinalityType
  <2>10. Cardinality(Holders(t.id)) + Cardinality(Permits(t))
           < t.maxAssignedUsers + Cardinality(Workers)
    BY DEF SeatsBounded
  <2>11. Cardinality(Holders(t.id)') <= Cardinality(Holders(t.id)) + 1
    BY <2>5, <2>7, <2>8, <2>9
  <2> QED
    BY <2>5, <2>6, <2>8, <2>9, <2>10, <2>11
<1> QED
  BY <1>5, <1>6

LEMMA SeatsOfRow ==
  ASSUME IInv, SeatsBounded, [Next]_vars, NEW t \in targets, t.maxAssignedUsers # Null
  PROVE  Cardinality(Holders(t.id)') + Cardinality(Permits(t)')
           < t.maxAssignedUsers + Cardinality(Workers)
<1>0. TInv /\ targets \subseteq Target
  BY DEF IInv, TInv, TypeOK, TablesTyped
<1>1. CASE \E w \in Workers, h \in Hosts : AssignTarget(w, h) /\ assignments' # assignments
  BY <1>1, SeatsOnAssign
<1>2. CASE \E w \in Workers : ReadCounts(w) /\ Permit(w, t)'
  BY <1>0, <1>2, SeatsOnCount
<1>3. ASSUME ~(\E w \in Workers, h \in Hosts : AssignTarget(w, h) /\ assignments' # assignments),
             ~(\E w \in Workers : ReadCounts(w) /\ Permit(w, t)')
      PROVE  Cardinality(Holders(t.id)') + Cardinality(Permits(t)')
               < t.maxAssignedUsers + Cardinality(Workers)
  <2>1. Permits(t)' \subseteq Permits(t)
    BY <1>0, <1>3, PermitStep, PermitsArePermits
  <2>2. CASE assignments' = assignments
    <3>1. Holders(t.id)' = Holders(t.id)
      BY <2>2 DEF Holders
    <3> QED
      BY <1>0, <2>1, <3>1, SeatsShrink
  <2>3. CASE assignments' # assignments
    <3>1. Holders(t.id)' \subseteq Holders(t.id)
      BY <1>0, <1>3, <2>3, HoldersStep DEF Target
    <3> QED
      BY <1>0, <2>1, <3>1, SeatsShrink
  <2> QED
    BY <2>2, <2>3
<1> QED
  BY <1>1, <1>2, <1>3

LEMMA SeatsInvariant ==
  ASSUME IInv, SeatsBounded, [Next]_vars
  PROVE  SeatsBounded'
<1> SUFFICES ASSUME NEW o \in targets', o.maxAssignedUsers # Null
             PROVE  Cardinality(Holders(o.id)') + Cardinality(Permits(o)')
                      < o.maxAssignedUsers + Cardinality(Workers)
  BY DEF SeatsBounded
<1>0. targets \subseteq Target /\ targets' \subseteq Target /\ created \in Nat
  BY NextTypes DEF IInv, TInv, TypeOK, TablesTyped
<1>1. CASE \E t \in targets : Rest(o) = Rest(t)
  <2>1. PICK t \in targets : Rest(o) = Rest(t)
    BY <1>1
  <2>2. o.id = t.id /\ o.host = t.host /\ o.maxAssignedUsers = t.maxAssignedUsers
    BY <1>0, <2>1, RestFields
  <2>3. Permits(o)' = Permits(t)' /\ Holders(o.id)' = Holders(t.id)'
    BY <2>2 DEF Permits, Holders
  <2> QED
    BY <2>2, <2>3, SeatsOfRow
<1>2. CASE o.id[1] = created' /\ created' = created + 1
  <2>1. UNCHANGED <<req, assignments>>
    BY <1>0, <1>2, RowsStep
  <2>2. \A t \in targets : t.id # o.id
    BY <1>0, <1>2 DEF IInv, IdsWereCreated
  <2>3. Holders(o.id)' = {}
    <3>1. o.id # Null
      BY <1>0, NullIsNoValue DEF Target
    <3>2. \A h \in Hosts, u \in Users : assignments[h][u] # o.id
      BY <2>2, <3>1 DEF IInv, AssignmentIntegrity, OfHost
    <3> QED
      BY <2>1, <3>2 DEF Holders
  <2>4. Permits(o)' = {}
    <3>1. \A v \in Workers : o.id \notin Ids(req[v].targets)
      BY <1>0, <1>2 DEF IInv, IdsWereCreated, Ids
    <3> QED
      BY <2>1, <3>1 DEF Permits
  <2>5. o.maxAssignedUsers \in Nat \ {0} /\ Cardinality(Workers) \in Nat
    BY <1>0, PermitsFinite DEF Target
  <2> QED
    BY <2>3, <2>4, <2>5, FS_EmptySet
<1> QED
  BY <1>1, <1>2, RowsStep

LEMMA InitSeats == Init => SeatsBounded
BY DEF Init, SeatsBounded

LEMMA NextSeats == IInv /\ SeatsBounded /\ [Next]_vars => (IInv /\ SeatsBounded)'
BY NextIInv, SeatsInvariant

\* The seats taken, and the seats that refreshes may still take on the strength
\* of a count they read earlier, are together fewer than the limit plus the
\* refreshes.
THEOREM SeatsAndPermitsAreBounded == Spec => []SeatsBounded
BY InitIInv, InitSeats, NextSeats, PTL DEF Spec

\* Refreshes in flight together overshoot a limit by less than their number.
THEOREM OversubscriptionIsBounded == Spec => []OversubscriptionBounded
<1>1. IInv /\ SeatsBounded => OversubscriptionBounded
  <2> SUFFICES ASSUME IInv, SeatsBounded, NEW t \in targets, t.maxAssignedUsers # Null
               PROVE  Cardinality(Holders(t.id)) < t.maxAssignedUsers + Cardinality(Workers)
    BY DEF OversubscriptionBounded
  <2>1. t.maxAssignedUsers \in Nat
    BY DEF IInv, TInv, TypeOK, TablesTyped, Target
  <2> QED
    BY <2>1, HoldersFinite, PermitsFinite DEF SeatsBounded
<1> QED
  BY <1>1, SeatsAndPermitsAreBounded, RowsAndSnapshotsAgree, PTL
=============================================================================
