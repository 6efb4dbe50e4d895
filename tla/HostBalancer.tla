---------------------------- MODULE HostBalancer ----------------------------
(***************************************************************************)
(* The host balancer: subscription refreshes that read the balancer tables *)
(* and write assignments (HostBalancerService.applyToHostsForUser),        *)
(* administrators who change settings and replace target lists, and the    *)
(* rows that appear and disappear underneath (nodes, users, hosts).        *)
(*                                                                         *)
(* The API runs as a cluster and no repository call here opens a           *)
(* transaction, so one action is one awaited database statement (plus the  *)
(* code up to the next await), and refreshes and saves interleave freely.  *)
(***************************************************************************)
EXTENDS TargetSelection, FiniteSets, Sequences

CONSTANTS
  Hosts, Users, Nodes,  \* rows of the hosts, users and nodes tables
  Inbounds,             \* config profile inbounds
  RequiredInbound,      \* [Hosts -> Inbounds \cup {Null}] configProfileInboundUuid
  NodeStates,           \* the node states that occur in the instance
  TrafficLevels,        \* the byte counts a traffic query may return
  InitSettings,         \* [Hosts -> settings or Null] rows present at start
  Drafts,               \* the target lists administrators send
  Patches,              \* the settings bodies administrators send
  Workers,              \* concurrent subscription refreshes
  Admins,               \* concurrent administrator requests
  MaxSaves,             \* bound on the target lists ever created
  AuditEnabled,         \* HOST_BALANCER_DECISIONS_ENABLED
  Events,               \* which environment events and failures occur
  Pending, Original, Hidden   \* answers for a host that are not a target

Settings == [enabled : BOOLEAN, strategy : Strategies,
             unavailablePolicy : Policies, stickyEnabled : BOOLEAN,
             rebalanceExisting : BOOLEAN]

\* A PUT body: an absent field is Null and leaves the column alone.
Patch == [enabled : BOOLEAN \cup {Null}, strategy : Strategies \cup {Null},
          unavailablePolicy : Policies \cup {Null},
          stickyEnabled : BOOLEAN \cup {Null},
          rebalanceExisting : BOOLEAN \cup {Null}]

\* The column defaults of host_balancers.
DefaultSettings ==
  [enabled |-> FALSE, strategy |-> "LEAST_ASSIGNED",
   unavailablePolicy |-> "HIDE_HOST", stickyEnabled |-> TRUE,
   rebalanceExisting |-> FALSE]

NodeState == [isDisabled : BOOLEAN, isConnected : BOOLEAN,
              isConnecting : BOOLEAN, activeInbounds : SUBSET Inbounds]

Draft == [node : Nodes \cup {Null}, enabled : BOOLEAN, status : Statuses,
          weight : Nat \ {0}, priority : Nat,
          maxAssignedUsers : (Nat \ {0}) \cup {Null}]

\* A fresh uuid: the number of the createMany that made it, and its place there.
TargetId == (Nat \ {0}) \X (Nat \ {0})

Target == [id : TargetId, host : Hosts, node : Nodes \cup {Null},
           enabled : BOOLEAN, status : Statuses, weight : Nat \ {0},
           priority : Nat, maxAssignedUsers : (Nat \ {0}) \cup {Null}]

ASSUME FiniteInstance ==
  /\ IsFiniteSet(Hosts) /\ IsFiniteSet(Users)
  /\ IsFiniteSet(Workers) /\ IsFiniteSet(Admins)
ASSUME TypedConstants ==
  /\ RequiredInbound \in [Hosts -> Inbounds \cup {Null}]
  /\ NodeStates \subseteq NodeState
  /\ TrafficLevels \subseteq Nat
  /\ InitSettings \in [Hosts -> Settings \cup {Null}]
  /\ \A ds \in Drafts : ds \in Seq(Draft)
  /\ Patches \subseteq Patch
  /\ MaxSaves \in Nat
  /\ AuditEnabled \in BOOLEAN
ASSUME NullIsNoValue ==
  /\ Null \notin TargetId
  /\ Null \notin Settings
ASSUME AnswersAreDistinct ==
  /\ Pending \notin TargetId \cup {Null, Original, Hidden}
  /\ Original \notin TargetId \cup {Null, Hidden}
  /\ Hidden \notin TargetId \cup {Null}

VARIABLES
  hosts, users,  \* the rows that exist
  nodes,         \* nodes[n]: state of the row, Null once deleted
  balancers,     \* balancers[h]: settings of the host's balancer row, or Null
  targets,       \* the rows of host_balancer_targets
  assignments,   \* assignments[h][u]: target id, or Null (unique per host+user)
  decisions,     \* what host_balancer_decisions records, without timestamps
  created,       \* createMany statements executed so far
  pc, req,       \* control point and local variables of each refresh
  counts,        \* counts[w]: its assignmentCounts, zero until loaded
  saves          \* control point and local variables of each admin request

tables == <<hosts, users, nodes, balancers, targets, assignments, decisions, created>>
vars == <<hosts, users, nodes, balancers, targets, assignments, decisions, created,
          pc, req, counts, saves>>
refreshes == <<pc, req, counts>>

Ids(ts) == {t.id : t \in ts}
OfHost(ts, h) == {t \in ts : t.host = h}

NoRequest ==
  [user |-> Null, settings |-> [h \in Hosts |-> Null], targets |-> {},
   assigned |-> [h \in Hosts |-> Null], nodes |-> [n \in Nodes |-> Null],
   answer |-> [h \in Hosts |-> Null], auditing |-> Null]

NoCounts(ts) == [i \in Ids(ts) |-> 0]

NoSave == [pc |-> "idle", host |-> Null, drafts |-> <<>>, patch |-> Null]

Init ==
  /\ hosts = Hosts
  /\ users = Users
  /\ nodes \in [Nodes -> NodeStates]
  /\ balancers = InitSettings
  /\ targets = {}
  /\ assignments = [h \in Hosts |-> [u \in Users |-> Null]]
  /\ decisions = {}
  /\ created = 0
  /\ pc = [w \in Workers |-> "idle"]
  /\ req = [w \in Workers |-> NoRequest]
  /\ counts = [w \in Workers |-> NoCounts({})]
  /\ saves = [a \in Admins |-> NoSave]

(***************************************************************************)
(* Foreign keys.  Deleting targets or hosts deletes their assignments, and *)
(* nulls the target of the decisions that stay.                            *)
(***************************************************************************)

\* Mutation: the assignments of deleted targets are left behind.
DropTargetsOnly(gone, dead) ==
  /\ targets' = targets \ gone
  /\ UNCHANGED assignments

DropTargets(gone, dead) ==
  /\ targets' = targets \ gone
  /\ assignments' = [h \in Hosts |-> [u \in Users |->
       IF h \in dead \/ assignments[h][u] \in Ids(gone) THEN Null ELSE assignments[h][u]]]

DecisionsWithout(ds, gone) ==
  {IF d.target \in Ids(gone) THEN [d EXCEPT !.target = Null] ELSE d : d \in ds}

NodeChanges(n) ==
  /\ "nodeState" \in Events /\ nodes[n] # Null
  /\ \E s \in NodeStates \ {nodes[n]} : nodes' = [nodes EXCEPT ![n] = s]
  /\ UNCHANGED <<hosts, users, balancers, targets, assignments, decisions, created,
                 refreshes, saves>>

\* onDelete: SetNull - the node's targets live on as address-only targets.
DeleteNode(n) ==
  /\ "deleteNode" \in Events /\ nodes[n] # Null
  /\ nodes' = [nodes EXCEPT ![n] = Null]
  /\ targets' = {IF t.node = n THEN [t EXCEPT !.node = Null] ELSE t : t \in targets}
  /\ UNCHANGED <<hosts, users, balancers, assignments, decisions, created,
                 refreshes, saves>>

DeleteUser(u) ==
  /\ "deleteUser" \in Events /\ u \in users
  /\ users' = users \ {u}
  /\ assignments' = [h \in Hosts |-> [assignments[h] EXCEPT ![u] = Null]]
  /\ decisions' = {d \in decisions : d.user # u}
  /\ UNCHANGED <<hosts, nodes, balancers, targets, created, refreshes, saves>>

DeleteHost(h) ==
  /\ "deleteHost" \in Events /\ h \in hosts
  /\ hosts' = hosts \ {h}
  /\ balancers' = [balancers EXCEPT ![h] = Null]
  /\ DropTargets(OfHost(targets, h), {h})
  /\ decisions' = DecisionsWithout({d \in decisions : d.host # h}, OfHost(targets, h))
  /\ UNCHANGED <<users, nodes, created, refreshes, saves>>

Environment ==
  \/ \E n \in Nodes : NodeChanges(n) \/ DeleteNode(n)
  \/ \E u \in Users : DeleteUser(u)
  \/ \E h \in Hosts : DeleteHost(h)

(***************************************************************************)
(* A subscription refresh (applyToHostsForUser)                            *)
(***************************************************************************)

Todo(r) == {h \in Hosts : r.answer[h] = Pending}
Input(r) == {h \in Hosts : r.answer[h] # Null}

Goto(w, label) == pc' = [pc EXCEPT ![w] = label]

\* The catch block: whatever was decided or written, the caller gets the
\* hosts it passed in.
FailOpen(w) ==
  /\ Goto(w, "done")
  /\ req' = [req EXCEPT ![w] = [NoRequest EXCEPT
       !.user = req[w].user,
       !.answer = [h \in Hosts |-> IF h \in Input(req[w]) THEN Original ELSE Null]]]
  /\ counts' = [counts EXCEPT ![w] = NoCounts({})]

\* findManyByHostUuids, first statement: the balancer rows of the input hosts.
StartRefresh(w, u, input) ==
  /\ pc[w] = "idle"
  /\ u \in users
  /\ input \subseteq hosts /\ input # {}
  /\ Goto(w, "targets")
  /\ req' = [req EXCEPT ![w].user = u,
       ![w].settings = [h \in Hosts |-> IF h \in input THEN balancers[h] ELSE Null],
       ![w].answer   = [h \in Hosts |-> IF h \in input THEN Pending ELSE Null]]
  /\ UNCHANGED <<tables, counts, saves>>

\* Its second statement: their targets.  A host without an enabled balancer
\* is passed through; if none is enabled the refresh ends here.
ReadTargets(w) ==
  LET enabled == {h \in Todo(req[w]) : /\ req[w].settings[h] # Null
                                       /\ req[w].settings[h].enabled}
      snapshot == {t \in targets : t.host \in enabled}
  IN
  /\ pc[w] = "targets"
  /\ req' = [req EXCEPT
       ![w].targets = snapshot,
       ![w].answer = [h \in Hosts |->
          IF h \in Todo(req[w]) \ enabled THEN Original ELSE req[w].answer[h]]]
  /\ counts' = [counts EXCEPT ![w] = NoCounts(snapshot)]
  /\ Goto(w, IF enabled = {} THEN "done" ELSE "assignments")
  /\ UNCHANGED <<tables, saves>>

ReadAssignments(w) ==
  /\ pc[w] = "assignments"
  /\ req' = [req EXCEPT ![w].assigned = [h \in Hosts |->
       IF h \in Todo(req[w]) THEN assignments[h][req[w].user] ELSE Null]]
  /\ Goto(w, "counts")
  /\ UNCHANGED <<tables, counts, saves>>

Holders(id) == {p \in Hosts \X Users : assignments[p[1]][p[2]] = id}

\* countAssignmentsByTarget
ReadCounts(w) ==
  /\ pc[w] = "counts"
  /\ counts' = [counts EXCEPT ![w] =
       [i \in Ids(req[w].targets) |-> Cardinality(Holders(i))]]
  /\ Goto(w, "nodes")
  /\ UNCHANGED <<tables, req, saves>>

\* loadNodeStates: only the nodes the snapshot's targets name.
ReadNodes(w) ==
  /\ pc[w] = "nodes"
  /\ req' = [req EXCEPT ![w].nodes = [n \in Nodes |->
       IF \E t \in req[w].targets : t.node = n THEN nodes[n] ELSE Null]]
  /\ Goto(w, "resolve")
  /\ UNCHANGED <<tables, counts, saves>>

\* resolveHostTarget for host h in the refresh w.
StickyFor(w, h) ==
  ReusableSticky(req[w].settings[h], OfHost(req[w].targets, h), req[w].assigned[h],
                 RequiredInbound[h], req[w].nodes)
\* Mutation: every target of the refresh is a candidate for every host.
CandidatesOfAnyHost(w, h) ==
  Candidates(req[w].targets, RequiredInbound[h], req[w].nodes, counts[w])

CandidatesFor(w, h) ==
  Candidates(OfHost(req[w].targets, h), RequiredInbound[h], req[w].nodes, counts[w])

LastFor(w, h) ==
  LastAssignment(req[w].settings[h], OfHost(req[w].targets, h), req[w].assigned[h],
                 RequiredInbound[h], req[w].nodes)
PicksFor(w, h, traffic) ==
  SelectTarget(req[w].settings[h], CandidatesFor(w, h), counts[w], traffic)

\* Mutation: the last host of a refresh is not audited.
PushLastUnaudited(w, h, answer) ==
  LET last == Todo(req[w]) = {h} IN
  /\ req' = [req EXCEPT ![w].answer[h] = answer,
                        ![w].auditing = IF AuditEnabled /\ ~last THEN h ELSE Null]
  /\ Goto(w, CASE last                     -> "done"
               [] AuditEnabled /\ ~last    -> "audit"
               [] OTHER                    -> "resolve")
  /\ UNCHANGED counts

\* result.push, and on to the audit record, the next host or the end.
Push(w, h, answer) ==
  /\ req' = [req EXCEPT ![w].answer[h] = answer,
                        ![w].auditing = IF AuditEnabled THEN h ELSE Null]
  /\ Goto(w, CASE AuditEnabled                         -> "audit"
               [] ~AuditEnabled /\ Todo(req[w]) = {h}  -> "done"
               [] OTHER                                -> "resolve")
  /\ UNCHANGED counts

\* touchAssignment updates by host and user: it succeeds on any assignment
\* the user has by now, and throws if there is none.
ReuseSticky(w, h) ==
  /\ pc[w] = "resolve" /\ h \in Todo(req[w])
  /\ \E t \in StickyFor(w, h) :
       IF assignments[h][req[w].user] # Null THEN Push(w, h, t.id) ELSE FailOpen(w)
  /\ UNCHANGED <<tables, saves>>

\* Mutation: the refresh waits for a deleted target instead of failing open.
AssignTargetNoCatch(w, h) ==
  LET r == req[w] IN
  /\ pc[w] = "resolve" /\ h \in Todo(r)
  /\ StickyFor(w, h) = {}
  /\ \E traffic \in [Nodes -> TrafficLevels \cup {Null}] :
     \E t \in PicksFor(w, h, traffic) :
       /\ h \in hosts /\ r.user \in users /\ t.id \in Ids(targets)
       /\ assignments' = [assignments EXCEPT ![h][r.user] = t.id]
       /\ Push(w, h, t.id)
  /\ UNCHANGED <<hosts, users, nodes, balancers, targets, decisions, created, saves>>

\* Mutation: an upsert that creates and never updates.
AssignTargetCreateOnly(w, h) ==
  LET r == req[w] IN
  /\ pc[w] = "resolve" /\ h \in Todo(r)
  /\ StickyFor(w, h) = {}
  /\ \E traffic \in [Nodes -> TrafficLevels \cup {Null}] :
     \E t \in PicksFor(w, h, traffic) :
       IF h \in hosts /\ r.user \in users /\ t.id \in Ids(targets)
         THEN /\ assignments' = IF assignments[h][r.user] # Null THEN assignments
                                ELSE [assignments EXCEPT ![h][r.user] = t.id]
              /\ Push(w, h, t.id)
         ELSE FailOpen(w) /\ UNCHANGED assignments
  /\ UNCHANGED <<hosts, users, nodes, balancers, targets, decisions, created, saves>>

\* upsertAssignment: its foreign keys are the host, the user and the target.
AssignTarget(w, h) ==
  LET r == req[w] IN
  /\ pc[w] = "resolve" /\ h \in Todo(r)
  /\ StickyFor(w, h) = {}
  /\ \E traffic \in [Nodes -> TrafficLevels \cup {Null}] :
     \E t \in PicksFor(w, h, traffic) :
       IF h \in hosts /\ r.user \in users /\ t.id \in Ids(targets)
         THEN /\ assignments' = [assignments EXCEPT ![h][r.user] = t.id]
              /\ Push(w, h, t.id)
         ELSE FailOpen(w) /\ UNCHANGED assignments
  /\ UNCHANGED <<hosts, users, nodes, balancers, targets, decisions, created, saves>>

\* resolveUnavailablePolicy: nothing is written.
NoTarget(w, h) ==
  LET r == req[w] IN
  /\ pc[w] = "resolve" /\ h \in Todo(r)
  /\ StickyFor(w, h) = {}
  /\ CandidatesFor(w, h) = {}
  /\ \/ /\ r.settings[h].unavailablePolicy = "ORIGINAL_HOST"
        /\ Push(w, h, Original)
     \/ \E t \in LastFor(w, h) : Push(w, h, t.id)
     \/ /\ r.settings[h].unavailablePolicy # "ORIGINAL_HOST"
        /\ LastFor(w, h) = {}
        /\ Push(w, h, Hidden)
  /\ UNCHANGED <<tables, saves>>

DecisionOf(r) ==
  LET answer == r.answer[r.auditing] IN
  [host |-> r.auditing, user |-> r.user,
   target |-> IF answer \in {Original, Hidden} THEN Null ELSE answer,
   reason |-> IF answer \in {Original, Hidden} THEN answer ELSE "selected"]

\* writeDecisionIfEnabled: an insert that fails is logged and forgotten.
WriteDecision(w) ==
  LET r == req[w]
      d == DecisionOf(r)
      insertable == /\ d.host \in hosts /\ d.user \in users
                    /\ d.target = Null \/ d.target \in Ids(targets)
  IN
  /\ pc[w] = "audit"
  /\ \/ insertable /\ decisions' = decisions \cup {d}
     \/ (~insertable \/ "db" \in Events) /\ UNCHANGED decisions
  /\ req' = [req EXCEPT ![w].auditing = Null]
  /\ Goto(w, IF Todo(r) = {} THEN "done" ELSE "resolve")
  /\ UNCHANGED <<hosts, users, nodes, balancers, targets, assignments, created,
                 counts, saves>>

EndRefresh(w) ==
  /\ Goto(w, "idle")
  /\ req' = [req EXCEPT ![w] = NoRequest]
  /\ counts' = [counts EXCEPT ![w] = NoCounts({})]

\* The subscription is rendered from the answers and sent.
Deliver(w) ==
  /\ pc[w] = "done"
  /\ EndRefresh(w)
  /\ UNCHANGED <<tables, saves>>

RefreshStep(w) ==
  \/ ReadTargets(w) \/ ReadAssignments(w) \/ ReadCounts(w) \/ ReadNodes(w)
  \/ \E h \in Hosts : ReuseSticky(w, h) \/ AssignTarget(w, h) \/ NoTarget(w, h)
  \/ WriteDecision(w) \/ Deliver(w)

\* Any other awaited statement of the try block rejects.
DatabaseFails(w) ==
  /\ "db" \in Events
  /\ pc[w] \in {"targets", "assignments", "counts", "nodes", "resolve"}
  /\ FailOpen(w)
  /\ UNCHANGED <<tables, saves>>

\* The API process dies with the request.
RefreshCrash(w) ==
  /\ "crash" \in Events
  /\ pc[w] # "idle"
  /\ EndRefresh(w)
  /\ UNCHANGED <<tables, saves>>

(***************************************************************************)
(* Administrator requests                                                  *)
(***************************************************************************)

StartSave(a, save) == saves[a].pc = "idle" /\ saves' = [saves EXCEPT ![a] = save]
EndSave(a) == saves' = [saves EXCEPT ![a] = NoSave]

\* updateTargets up to its check: ensureBalancer creates a missing balancer
\* row, and a traffic-aware strategy wants a node in every target.
UpdateTargets(a, h, ds) ==
  LET settings == IF balancers[h] = Null THEN DefaultSettings ELSE balancers[h] IN
  /\ h \in hosts
  /\ created + Cardinality({b \in Admins : saves[b].pc \in {"ensured", "deleted"}})
       < MaxSaves
  /\ IsTrafficAwareStrategy(settings.strategy) =>
       \A i \in DOMAIN ds : ds[i].node # Null
  /\ StartSave(a, [pc |-> "ensured", host |-> h, drafts |-> ds, patch |-> Null])
  /\ balancers' = [balancers EXCEPT ![h] = settings]
  /\ UNCHANGED <<hosts, users, nodes, targets, assignments, decisions, created, refreshes>>

\* Mutation: the new list is appended to the old one.
AppendTargets(a) ==
  /\ saves[a].pc = "ensured"
  /\ IF saves[a].drafts = <<>>
       THEN EndSave(a)
       ELSE saves' = [saves EXCEPT ![a].pc = "deleted"]
  /\ UNCHANGED <<tables, refreshes>>

\* replaceTargets, deleteMany.  An empty list ends here.
DeleteTargets(a) ==
  LET gone == OfHost(targets, saves[a].host) IN
  /\ saves[a].pc = "ensured"
  /\ DropTargets(gone, {})
  /\ decisions' = DecisionsWithout(decisions, gone)
  /\ IF saves[a].drafts = <<>>
       THEN EndSave(a)
       ELSE saves' = [saves EXCEPT ![a].pc = "deleted"]
  /\ UNCHANGED <<hosts, users, nodes, balancers, created, refreshes>>

Row(h, number, i, d) ==
  [id |-> <<number, i>>, host |-> h, node |-> d.node, enabled |-> d.enabled,
   status |-> d.status, weight |-> d.weight, priority |-> d.priority,
   maxAssignedUsers |-> d.maxAssignedUsers]

NewRows(h, number, ds) == {Row(h, number, i, ds[i]) : i \in DOMAIN ds}

\* replaceTargets, createMany: one INSERT, refused whole by a foreign key if
\* the balancer or one of the nodes is gone.
CreateTargets(a) ==
  LET h == saves[a].host
      ds == saves[a].drafts
  IN
  /\ saves[a].pc = "deleted"
  /\ created' = created + 1
  /\ IF /\ balancers[h] # Null
        /\ \A i \in DOMAIN ds : ds[i].node # Null => nodes[ds[i].node] # Null
       THEN targets' = targets \cup NewRows(h, created', ds)
       ELSE UNCHANGED targets
  /\ EndSave(a)
  /\ UNCHANGED <<hosts, users, nodes, balancers, assignments, decisions, refreshes>>

\* updateSettings (and toggle) up to its check of the current targets, which
\* looks only at the strategy of the body.
UpdateSettings(a, h, patch) ==
  /\ h \in hosts
  /\ IsTrafficAwareStrategy(patch.strategy) =>
       \A t \in OfHost(targets, h) : t.node # Null
  /\ StartSave(a, [pc |-> "checked", host |-> h, drafts |-> <<>>, patch |-> patch])
  /\ UNCHANGED <<tables, refreshes>>

Field(new, old) == IF new = Null THEN old ELSE new

Patched(old, patch) ==
  [enabled           |-> Field(patch.enabled, old.enabled),
   strategy          |-> Field(patch.strategy, old.strategy),
   unavailablePolicy |-> Field(patch.unavailablePolicy, old.unavailablePolicy),
   stickyEnabled     |-> Field(patch.stickyEnabled, old.stickyEnabled),
   rebalanceExisting |-> Field(patch.rebalanceExisting, old.rebalanceExisting)]

\* upsertSettings: refused by the foreign key if the host is gone.
UpsertSettings(a) ==
  LET h == saves[a].host
      old == IF balancers[h] = Null THEN DefaultSettings ELSE balancers[h]
  IN
  /\ saves[a].pc = "checked"
  /\ balancers' = IF h \in hosts
                    THEN [balancers EXCEPT ![h] = Patched(old, saves[a].patch)]
                    ELSE balancers
  /\ EndSave(a)
  /\ UNCHANGED <<hosts, users, nodes, targets, assignments, decisions, created, refreshes>>

SaveStep(a) == DeleteTargets(a) \/ CreateTargets(a) \/ UpsertSettings(a)

\* The API process dies, or the database refuses the next statement.
SaveCrash(a) ==
  /\ "crash" \in Events
  /\ saves[a].pc # "idle"
  /\ EndSave(a)
  /\ UNCHANGED <<tables, refreshes>>

Next ==
  \/ \E w \in Workers, u \in Users, input \in SUBSET Hosts :
       StartRefresh(w, u, input)
  \/ \E w \in Workers : RefreshStep(w) \/ DatabaseFails(w) \/ RefreshCrash(w)
  \/ \E a \in Admins, h \in Hosts : \/ \E ds \in Drafts : UpdateTargets(a, h, ds)
                                    \/ \E p \in Patches : UpdateSettings(a, h, p)
  \/ \E a \in Admins : SaveStep(a) \/ SaveCrash(a)
  \/ Environment

Spec == Init /\ [][Next]_vars

(***************************************************************************)
(* Awaits settle: a request that has been started goes on.  Nothing says   *)
(* that a user refreshes or an administrator saves.                        *)
(***************************************************************************)
FairSpec == /\ Spec
            /\ \A w \in Workers : WF_vars(RefreshStep(w))
            /\ \A a \in Admins : WF_vars(SaveStep(a))

(***************************************************************************)
(* Types                                                                   *)
(***************************************************************************)

Answer == TargetId \cup {Null, Pending, Original, Hidden}

Labels == {"idle", "targets", "assignments", "counts", "nodes", "resolve",
           "audit", "done"}

Request ==
  [user : Users \cup {Null}, settings : [Hosts -> Settings \cup {Null}],
   targets : SUBSET Target, assigned : [Hosts -> TargetId \cup {Null}],
   nodes : [Nodes -> NodeState \cup {Null}], answer : [Hosts -> Answer],
   auditing : Hosts \cup {Null}]

Decision == [host : Hosts, user : Users, target : TargetId \cup {Null},
             reason : {"selected", Original, Hidden}]

Save == [pc : {"idle", "ensured", "deleted", "checked"}, host : Hosts \cup {Null},
         drafts : Seq(Draft), patch : Patch \cup {Null}]

TablesTyped ==
  /\ hosts \subseteq Hosts
  /\ users \subseteq Users
  /\ nodes \in [Nodes -> NodeState \cup {Null}]
  /\ balancers \in [Hosts -> Settings \cup {Null}]
  /\ targets \subseteq Target
  /\ assignments \in [Hosts -> [Users -> TargetId \cup {Null}]]
  /\ decisions \subseteq Decision
  /\ created \in Nat

\* A refresh has a count for exactly the targets of its snapshot.
RefreshesTyped ==
  /\ pc \in [Workers -> Labels]
  /\ req \in [Workers -> Request]
  /\ counts = [w \in Workers |-> counts[w]]
  /\ \A w \in Workers : counts[w] \in [Ids(req[w].targets) -> Nat]

TypeOK == TablesTyped /\ RefreshesTyped /\ saves \in [Admins -> Save]

(***************************************************************************)
(* Safety                                                                  *)
(***************************************************************************)

\* An assignment names an existing user, an existing host, and a live target
\* of that same host's balancer, whatever saves and deletions raced with the
\* refresh that wrote it.  The schema's foreign keys do not say the target is
\* the host's own.
AssignmentIntegrity ==
  \A h \in Hosts, u \in Users : assignments[h][u] # Null =>
    /\ h \in hosts
    /\ u \in users
    /\ \E t \in OfHost(targets, h) : t.id = assignments[h][u]

\* maxAssignedUsers is checked against a count read some statements earlier,
\* so refreshes in flight together can overshoot it: by one less than their
\* number, and never by more.
OversubscriptionBounded ==
  \A t \in targets : t.maxAssignedUsers # Null =>
    Cardinality(Holders(t.id)) < t.maxAssignedUsers + Cardinality(Workers)

\* replaceTargets deletes and creates in two statements, so saves that overlap
\* leave their lists side by side: never more lists than overlapping saves.
Lists(h) == {t.id[1] : t \in OfHost(targets, h)}
SavesMergedBounded ==
  \A h \in Hosts : Cardinality(Lists(h)) <= Cardinality(Admins)

\* A user is only ever moved to a row that is enabled and ACTIVE when the
\* move is written, however old the snapshot the choice was made from:
\* changing a status replaces the row, and the foreign key refuses the old id.
NewAssignmentsAreActive ==
  [][\A h \in Hosts, u \in Users :
       assignments'[h][u] \notin {Null, assignments[h][u]} =>
         \E t \in OfHost(targets, h) : /\ t.id = assignments'[h][u]
                                       /\ t.enabled /\ t.status = "ACTIVE"]_vars

\* With the audit on, a refresh that answers a host with a target leaves a
\* decision that says so, unless the target, the host or the user is gone.
AuditCoversAnswers ==
  AuditEnabled /\ "db" \notin Events =>
    \A w \in Workers, h \in Hosts :
      /\ pc[w] = "done"
      /\ req[w].answer[h] \in Ids(targets)
      /\ req[w].user \in users
      => \E d \in decisions : /\ d.host = h /\ d.user = req[w].user
                              /\ d.target = req[w].answer[h]

\* The step in which refresh w moves its user to a target of host h.
Moves(w, h) ==
  /\ req[w].answer[h] = Pending
  /\ req'[w].answer[h] \in TargetId
  /\ assignments'[h] # assignments[h]

\* Refreshes of one user do not overlap; those of different users may.
UsersTakeTurns ==
  \A v, w \in Workers :
    v # w /\ pc[v] # "idle" /\ pc[w] # "idle" => req[v].user # req[w].user

\* With sticky on, a user whose target the refresh found valid for an old user
\* is not moved off it, unless the settings ask for rebalancing by traffic.
StickyStability ==
  [][\A w \in Workers, h \in Hosts : \A t \in OfHost(req[w].targets, h) :
       /\ Moves(w, h)
       /\ req[w].settings[h].stickyEnabled
       /\ ~ /\ IsTrafficAwareStrategy(req[w].settings[h].strategy)
            /\ req[w].settings[h].rebalanceExisting
       /\ t.id = assignments[h][req[w].user]
       => ~ValidateTargetForHost(t, RequiredInbound[h], req[w].nodes, TRUE)]_vars

\* What a subscription was given is what is on file: while the refreshes of a
\* user do not overlap, a live target in an answer is its user's assignment
\* there, whatever was saved, deleted or failed since the refresh read its tables.
AnsweredIsAssigned ==
  \A w \in Workers, h \in Hosts :
    /\ req[w].answer[h] \in Ids(targets)
    /\ req[w].user \in users
    => assignments[h][req[w].user] = req[w].answer[h]

\* Refreshing stops moving people around: once administrators stop saving and
\* nodes keep their state, sticky assignments change only finitely often.
EventuallySettled == <>[][assignments' = assignments]_vars

\* Every refresh ends, with an answer for each host or by failing open.
RefreshCompletes == \A w \in Workers : pc[w] # "idle" ~> pc[w] = "idle"

(***************************************************************************)
(* The promise: the balancer implements a seat book changed atomically     *)
(***************************************************************************)

Accepting(ts) == {t \in ts : t.enabled /\ t.status = "ACTIVE"}

Book == INSTANCE Assignments WITH
  open      <- [h \in Hosts |-> Ids(OfHost(targets, h))],
  accepting <- [h \in Hosts |-> Ids(Accepting(OfHost(targets, h)))],
  seat      <- assignments,
  lists     <- created

\* Snapshots, overlapping saves, failures and crashes are invisible in the
\* assignments: whatever a refresh read before, its one write is an atomic
\* assignment to a target that accepts users then, every list appears as a
\* whole, and an assignment ends only with its target, its host or its user.
ImplementsBook == Book!Spec

(***************************************************************************)
(* The inductive invariants behind the safety properties                   *)
(***************************************************************************)

\* A refresh under way has its user.
RefreshesHaveUsers == \A w \in Workers : pc[w] # "idle" => req[w].user \in Users

\* A running admin request has a host, and its body once it needs one.
SavesHaveBodies ==
  \A a \in Admins : /\ saves[a].pc # "idle" => saves[a].host \in Hosts
                    /\ saves[a].pc = "checked" => saves[a].patch \in Patch

\* Ids are never handed out twice, so no snapshot is ahead of the tables.
IdsWereCreated ==
  /\ \A t \in targets : t.id[1] <= created
  /\ \A w \in Workers : \A t \in req[w].targets : t.id[1] <= created

\* What a row says apart from its node, which SetNull may clear.
Rest(t) == [t EXCEPT !.node = Null]

\* Rows with one id, in the table or in a snapshot, are the same row.
RowsAreImmutable ==
  \A t \in targets :
    /\ \A o \in targets : o.id = t.id => o = t
    /\ \A w \in Workers : \A o \in req[w].targets : o.id = t.id => Rest(o) = Rest(t)

TInv == TypeOK /\ RefreshesHaveUsers /\ SavesHaveBodies

IInv == TInv /\ IdsWereCreated /\ RowsAreImmutable /\ AssignmentIntegrity

\* Balancers and targets belong to hosts that exist.
TargetsHaveHosts ==
  /\ \A h \in Hosts : balancers[h] # Null => h \in hosts
  /\ \A t \in targets : t.host \in hosts

\* A host is answered with a target of its own, out of the refresh's snapshot.
AnswersAreChosen ==
  \A w \in Workers, h \in Hosts : req[w].answer[h] \in TargetId =>
    /\ pc[w] \in {"resolve", "audit", "done"}
    /\ \E t \in OfHost(req[w].targets, h) : t.id = req[w].answer[h]

\* The decision about a live answer is recorded, or is about to be.
AnswersAreAudited ==
  \A w \in Workers, h \in Hosts :
    /\ req[w].answer[h] \in Ids(targets)
    /\ req[w].user \in users
    => \/ pc[w] = "audit" /\ req[w].auditing = h
       \/ \E d \in decisions : /\ d.host = h /\ d.user = req[w].user
                               /\ d.target = req[w].answer[h]

\* The assignment a refresh has read for a host it has yet to answer still
\* stands, unless its target or its user is gone.
ReadIsCurrent ==
  \A w \in Workers, h \in Hosts :
    LET r == req[w] IN
    pc[w] \in {"counts", "nodes", "resolve", "audit"} /\ r.answer[h] = Pending =>
      /\ r.assigned[h] # Null => r.assigned[h][1] <= created
      /\ r.user \in users =>
           /\ assignments[h][r.user] \in {Null, r.assigned[h]}
           /\ r.assigned[h] \in Ids(targets) => assignments[h][r.user] = r.assigned[h]

\* The refreshes that may still seat a user on t because they counted room.
Permits(t) ==
  {w \in Workers : /\ pc[w] \in {"nodes", "resolve", "audit"}
                   /\ t.id \in Ids(req[w].targets)
                   /\ req[w].answer[t.host] = Pending
                   /\ counts[w][t.id] < t.maxAssignedUsers}

\* Taken seats plus seats that may be taken without a new look.
SeatsBounded ==
  \A t \in targets : t.maxAssignedUsers # Null =>
    Cardinality(Holders(t.id)) + Cardinality(Permits(t))
      < t.maxAssignedUsers + Cardinality(Workers)

\* Lists in the table plus lists about to be added to what was just emptied.
Creating(h) == {a \in Admins : saves[a].pc = "deleted" /\ saves[a].host = h}
ListsBounded ==
  \A h \in Hosts :
    /\ IsFiniteSet(Lists(h))
    /\ Cardinality(Lists(h)) + Cardinality(Creating(h)) <= Cardinality(Admins)

(***************************************************************************)
(* What the documentation says and the code does not do                    *)
(***************************************************************************)

\* TESTING_HOST_BALANCER.md: a target takes part while its maxAssignedUsers is
\* not exceeded, so no target holds more users than that.
MaxAssignedRespected ==
  \A t \in targets : t.maxAssignedUsers # Null =>
    Cardinality(Holders(t.id)) <= t.maxAssignedUsers
=============================================================================
