----------------------------- MODULE UserLifecycle -----------------------------
(***************************************************************************)
(* Users and what the nodes serve.  A row of the users table says who may  *)
(* connect; administrators, the watchdog and the traffic reset change it,  *)
(* and publish events whose handlers add jobs that add the user to a node  *)
(* or remove him from it.  A node that is started gets all active users.   *)
(*                                                                         *)
(* One action is one awaited statement, node call or enqueuing, plus the   *)
(* code up to the next await.  Nothing orders events, jobs and calls, so   *)
(* what is under way is a bag.                                             *)
(***************************************************************************)
EXTENDS Naturals, FiniteSets, Bags

CONSTANTS
  Null,
  Users,
  Nodes,         \* the nodes with a profile and active inbounds
  Squads,        \* internal squads
  Inbounds,
  SquadInbounds, \* [Squads -> SUBSET Inbounds]: what a squad gives access to
  NodeInbounds,  \* [Nodes -> SUBSET Inbounds]: the active inbounds of a node
  Admins,        \* concurrent requests: administrators, and jobs over many users
  InitRows,      \* set of [Users -> rows or Null]: the rows at start
  Bodies,        \* the bodies of updateUser
  NewRows,       \* the rows createUser makes
  MaxInputs,     \* bound on all that comes from outside, traffic and time included
  Events         \* which of it occurs

Statuses == {"ACTIVE", "DISABLED", "LIMITED", "EXPIRED"}

\* expired: expireAt has passed.  squads: the user's active internal squads.  key:
\* how often the credentials were replaced.
Row == [status : Statuses, used : Nat, limit : Nat, expired : BOOLEAN,
        squads : SUBSET Squads, key : Nat]

\* The inbounds of a user with these squads, and the nodes that have one of them.
InboundsOf(squads) == UNION {SquadInbounds[s] : s \in squads}
Reached(squads) == {n \in Nodes : NodeInbounds[n] \cap InboundsOf(squads) # {}}

\* An absent field is Null.  The contract takes no date that has passed.
Body == [status : {"ACTIVE", "DISABLED", Null}, limit : Nat \cup {Null},
         expireAt : {"future", Null}, squads : {Null} \cup SUBSET Squads]

Ops == {"create", "disable", "enable", "extend", "reset", "revoke", "delete", "update",
        "bulkExtend"}

ASSUME UserConstants ==
  /\ InitRows \subseteq [Users -> Row \cup {Null}]
  /\ Bodies \subseteq Body /\ NewRows \subseteq Row
  /\ SquadInbounds \in [Squads -> SUBSET Inbounds]
  /\ NodeInbounds \in [Nodes -> SUBSET Inbounds]
  /\ Null \notin Row /\ Null \notin Nat /\ \A squads \in SUBSET Squads : Null # squads
  /\ Null \notin {"ACTIVE", "DISABLED", "add", "remove", "check", "future"} \cup Ops
  /\ MaxInputs \in Nat

VARIABLES
  user,       \* user[u]: the row, Null if there is none
  created,    \* the users that were ever created: an id never returns
  link,       \* link[n]: isConnected and isConnecting of the node's row
  serves,     \* serves[n][u]: the key the node lets u connect with, or Null
  snapshot,   \* snapshot[n]: the users of the config a start of n has read
  work,       \* bag of events, jobs and half-run handlers
  req,        \* control point and local variables of each request
  sweep,      \* sweep[k]: users a watchdog job has changed and not yet announced
  reset,      \* control point and users of the job that resets traffic
  inputs,     \* what came from outside so far
  astray,     \* pairs <<u, n>> no longer promised to agree (history)
  raced       \* users whose status may have lost its reason (history)

vars == <<user, created, link, serves, snapshot, work, req, sweep, reset, inputs,
          astray, raced>>
nodes == <<link, serves, snapshot>>
jobs == <<sweep, reset>>

(***************************************************************************)
(* Work under way                                                          *)
(***************************************************************************)

\* An EventBus event whose handler has not run, a USER_EVENTS job, a handler of
\* AddUserToNodeEvent that has loaded the user, and a job for one node.
Event(kind, u) == [step |-> "event", kind |-> kind, user |-> u, key |-> Null, nodes |-> {}]
Fired(kind, u) == [step |-> "fired", kind |-> kind, user |-> u, key |-> Null, nodes |-> {}]
Loaded(u, key, ns) ==
  [step |-> "loaded", kind |-> "add", user |-> u, key |-> key, nodes |-> ns]
Job(kind, u, key, n) ==
  [step |-> "job", kind |-> kind, user |-> u, key |-> key, nodes |-> {n}]

Item == [step : {"event", "fired", "loaded", "job"}, kind : {"add", "remove", "check"},
         user : Users, key : Nat \cup {Null}, nodes : SUBSET Nodes]

\* One copy of i is done, and gives rise to the items of next.
Replace(i, next) == work' = (work (-) SetToBag({i})) (+) SetToBag(next)

NoRequest == [pc |-> "idle", op |-> Null, user |-> Null, read |-> Null, body |-> Null,
              event |-> Null]
NoReset == [pc |-> "idle", users |-> {}]

\* The row changed since r read it, apart from traffic and time.
Stale(r) == user[r.user] # Null /\ [user[r.user] EXCEPT !.used = 0, !.expired = FALSE]
                                     # [r.read EXCEPT !.used = 0, !.expired = FALSE]

\* resetUserTraffic publishes before it writes.
Early(a) == req[a].pc = "checked" /\ req[a].op = "reset" /\ req[a].read.status = "LIMITED"
Resets(u) == \E a \in Admins : req[a].user = u /\ Early(a)

\* What is yet to be published is under way as well.
InFlight(u) ==
  {i \in BagToSet(work) : i.user = u}
    \cup {Event(req[a].event, u) : a \in {b \in Admins : /\ req[b].user = u
                                                         /\ req[b].pc = "written"
                                                         /\ req[b].event # Null}}
    \cup (IF \E k \in DOMAIN sweep : u \in sweep[k] THEN {Fired("remove", u)} ELSE {})
    \cup (IF reset.pc = "firing" /\ u \in reset.users THEN {Fired("add", u)} ELSE {})

\* Nothing is under way about u.
Quiet(u) == InFlight(u) = {} /\ ~Resets(u)

\* What node n should serve for a row.
Wanted(row, n) ==
  IF row # Null /\ row.status = "ACTIVE" /\ n \in Reached(row.squads) THEN row.key ELSE Null

\* The row the nodes are to agree with: a reset that was announced counts.
Promised(u) ==
  IF user[u] # Null /\ Resets(u) THEN [user[u] EXCEPT !.status = "ACTIVE"] ELSE user[u]

\* What i will make of n is what the row says.
Agrees(i, n, row) ==
  CASE i.kind = "check"                                -> TRUE
    [] i.kind = "remove" /\ i.step = "job" /\ n \notin i.nodes -> TRUE
    [] i.kind = "remove" /\ (i.step # "job" \/ n \in i.nodes)  -> Wanted(row, n) = Null
    [] i.kind = "add" /\ i.step \in {"event", "fired"} -> row # Null => row.status = "ACTIVE"
    [] i.kind = "add" /\ i.step = "loaded"             ->
         Wanted(row, n) = IF n \in i.nodes THEN i.key ELSE Null
    [] i.kind = "add" /\ i.step = "job"                -> n \in i.nodes => Wanted(row, n) = i.key

\* Pairs for which something under way was decided, or announced, from another row.
Contradicted ==
  {p \in Users \X Nodes :
     \/ \E i \in InFlight(p[1]) : ~Agrees(i, p[2], Promised(p[1]))
     \/ /\ snapshot[p[2]] # Null
        /\ snapshot[p[2]][p[1]] # Wanted(Promised(p[1]), p[2])
     \/ \E a \in Admins : req[a].user = p[1] /\ Early(a) /\ Stale(req[a])}

\* History: once work under way contradicts the row, or is lost, the order of
\* events decides what the node serves, until it is started again.
Track(lost) == astray' = astray \cup Contradicted' \cup lost
Everywhere(us) == us \X Nodes

\* The reason of a status that locks a user out.
UsedUp(row) == row.limit # 0 /\ row.used >= row.limit
Founded(row) ==
  /\ row.status = "LIMITED" => UsedUp(row)
  /\ row.status = "EXPIRED" => row.expired

Init ==
  /\ user \in InitRows
  /\ created = {u \in Users : user[u] # Null}
  /\ link = [n \in Nodes |-> [connected |-> TRUE, connecting |-> FALSE]]
  /\ serves = [n \in Nodes |-> [u \in Users |-> Wanted(user[u], n)]]
  /\ snapshot = [n \in Nodes |-> Null]
  /\ work = EmptyBag
  /\ req = [a \in Admins |-> NoRequest]
  /\ sweep = [k \in {"expired", "limited"} |-> {}]
  /\ reset = NoReset
  /\ inputs = 0
  /\ astray = {}
  /\ raced = {u \in created : ~Founded(user[u])}

(***************************************************************************)
(* Requests: read the row, write, publish                                  *)
(***************************************************************************)

Input == inputs < MaxInputs /\ inputs' = inputs + 1

Begin(a, op, u, body) ==
  /\ op \in Events
  /\ req[a].pc = "idle"
  /\ Input
  /\ req' = [req EXCEPT ![a] = [pc |-> "checked", op |-> op, user |-> u, read |-> user[u],
                                body |-> body, event |-> Null]]

\* createUser has nothing to read.
CreateUser(a, u) == u \notin created /\ Begin(a, "create", u, Null) /\ UNCHANGED work

\* The guards are the early returns; resetUserTraffic publishes here.
ReadUser(a, u, op, body) ==
  /\ user[u] # Null
  /\ op = "disable" => user[u].status # "DISABLED"
  /\ op = "enable" => user[u].status # "ACTIVE"
  /\ Begin(a, op, u, body)
  /\ work' = IF op = "reset" /\ user[u].status = "LIMITED"
               THEN work (+) SetToBag({Event("add", u)}) ELSE work

StartRequest(a) ==
  /\ \E u \in Users :
       \/ CreateUser(a, u)
       \/ \E op \in Ops \ {"create", "update"} : ReadUser(a, u, op, Null)
       \/ \E body \in Bodies : ReadUser(a, u, "update", body)
  /\ UNCHANGED <<user, created, nodes, jobs, raced>>
  /\ Track({})

\* updateUser: the status it writes, Null to leave it.
BecomesActive(r, b) ==
  \/ r.status # "ACTIVE" /\ b.status = "ACTIVE"
  \/ r.status = "LIMITED" /\ b.limit # Null /\ (b.limit = 0 \/ b.limit > r.limit)
  \/ r.status = "EXPIRED" /\ b.expireAt = "future" /\ b.status = Null

BecomesDisabled(r, b) == r.status = "ACTIVE" /\ b.status = "DISABLED"

NewSquads(r, b) == b.squads # Null /\ b.squads # r.squads

\* Mutant: an absent field is written.
FieldRaw(new, old) == new

Field(new, old) == IF new = Null THEN old ELSE new

Updated(row, r, b) ==
  [row EXCEPT
     !.status  = IF BecomesActive(r, b) THEN "ACTIVE"
                 ELSE IF BecomesDisabled(r, b) THEN "DISABLED" ELSE @,
     !.limit   = Field(b.limit, @),
     !.expired = @ /\ b.expireAt = Null,
     !.squads  = IF NewSquads(r, b) THEN b.squads ELSE @]

\* The event updateUser publishes: a change of squads decides alone, by their number.
UpdateEvent(row, r, b) ==
  LET add    == IF NewSquads(r, b) THEN b.squads # {} ELSE BecomesActive(r, b)
      remove == IF NewSquads(r, b) THEN b.squads = {} ELSE BecomesDisabled(r, b)
  IN  CASE remove                                  -> "remove"
        [] ~remove /\ add /\ row.status = "ACTIVE" -> "add"
        [] OTHER                                   -> Null

\* The row after the write of request r, and the event it will publish.
Written(r, row) ==
  CASE r.op = "disable" -> [row EXCEPT !.status = "DISABLED"]
    [] r.op = "enable"  -> [row EXCEPT !.status = "ACTIVE"]
    [] r.op = "extend"  -> [row EXCEPT !.expired = FALSE,
         !.status = IF r.read.status = "EXPIRED" THEN "ACTIVE" ELSE r.read.status]
    [] r.op = "reset"   -> [row EXCEPT !.used = 0,
         !.status = IF r.read.status = "LIMITED" THEN "ACTIVE" ELSE @]
    [] r.op = "revoke"  -> [row EXCEPT !.key = @ + 1]
    [] r.op = "update"  -> Updated(row, r.read, r.body)
    [] r.op = "delete"  -> Null

\* Mutant: disableUser tells no node.
EventOfQuiet(r, row) == IF r.op = "delete" THEN "remove" ELSE Null

EventOf(r, row) ==
  CASE r.op \in {"disable", "delete"} -> "remove"
    [] r.op = "enable"                -> "add"
    [] r.op = "extend"                -> IF r.read.status = "EXPIRED" THEN "add" ELSE Null
    [] r.op = "reset"                 -> Null
    [] r.op = "revoke"                -> "check"
    [] r.op = "update"                -> UpdateEvent(Written(r, row), r.read, r.body)

\* updateUser: squads and a status that takes the access away, sent together,
\* publish nothing; squads without inbounds publish an event that removes nobody;
\* a status sent with a new date keeps EXPIRED.
Forgets(r) == /\ r.op = "update"
              /\ \/ /\ BecomesDisabled(r.read, r.body)
                    /\ EventOf(r, user[r.user]) = Null
                 \/ /\ NewSquads(r.read, r.body)
                    /\ r.body.squads # {} /\ InboundsOf(r.body.squads) = {}
Contradicts(r) == /\ r.op = "update"
                  /\ r.read.status = "EXPIRED"
                  /\ r.body.expireAt = "future" /\ r.body.status = "DISABLED"

\* A row that is gone makes the write fail.
WriteUser(a) ==
  LET r == req[a] IN
  /\ r.pc = "checked" /\ r.op \notin {"create", "bulkExtend"}
  /\ IF user[r.user] = Null
       THEN /\ req' = [req EXCEPT ![a] = NoRequest]
            /\ UNCHANGED <<user, raced>>
       ELSE /\ user' = [user EXCEPT ![r.user] = Written(r, user[r.user])]
            /\ req' = [req EXCEPT ![a].pc = "written", ![a].event = EventOf(r, user[r.user])]
            /\ raced' = IF Stale(r) \/ Contradicts(r) THEN raced \cup {r.user} ELSE raced
  /\ UNCHANGED <<created, nodes, work, jobs, inputs>>
  /\ Track(IF Stale(r) \/ (user[r.user] # Null /\ Forgets(r)) THEN Everywhere({r.user}) ELSE {})

InsertUser(a, row) ==
  LET u == req[a].user IN
  /\ req[a].pc = "checked" /\ req[a].op = "create"
  /\ IF u \in created
       THEN req' = [req EXCEPT ![a] = NoRequest] /\ UNCHANGED <<user, created, raced>>
       ELSE /\ user' = [user EXCEPT ![u] = row]
            /\ created' = created \cup {u}
            /\ req' = [req EXCEPT ![a].pc = "written", ![a].event = "check"]
            /\ raced' = IF Founded(row) THEN raced ELSE raced \cup {u}
  /\ UNCHANGED <<nodes, work, jobs, inputs>>
  /\ Track({})

\* bulkExtendExpirationDate: the dates, then the statuses, of one user.
ExtendDate(a) ==
  LET u == req[a].user IN
  /\ req[a].pc = "checked" /\ req[a].op = "bulkExtend"
  /\ IF user[u] = Null
       THEN req' = [req EXCEPT ![a] = NoRequest] /\ UNCHANGED user
       ELSE /\ \E expired \in {user[u].expired, FALSE} :
                 user' = [user EXCEPT ![u].expired = expired]
            /\ req' = [req EXCEPT ![a].pc = "extended"]
  /\ UNCHANGED <<created, nodes, work, jobs, inputs, raced>>
  /\ Track({})

SyncExpired(a) ==
  LET u == req[a].user IN
  /\ req[a].pc = "extended"
  /\ IF user[u] # Null /\ user[u].status = "EXPIRED" /\ ~user[u].expired
       THEN /\ user' = [user EXCEPT ![u].status = "ACTIVE"]
            /\ req' = [req EXCEPT ![a].pc = "written", ![a].event = "add"]
       ELSE req' = [req EXCEPT ![a] = NoRequest] /\ UNCHANGED user
  /\ UNCHANGED <<created, nodes, work, jobs, inputs, raced>>
  /\ Track({})

\* All but updateUser, deleteUser and bulkExtendExpirationDate read the row again,
\* and stop if it is gone; createUser and revokeUserSubscription add active users.
Gone(r) ==
  r.op \in {"create", "disable", "enable", "extend", "revoke"} /\ user[r.user] = Null

Publish(a) ==
  LET r == req[a]
      kind == IF r.event = "check" THEN "add" ELSE r.event
  IN
  /\ r.pc = "written"
  /\ work' = IF \/ r.event = Null \/ Gone(r)
                \/ r.event = "check" /\ user[r.user].status # "ACTIVE"
               THEN work ELSE work (+) SetToBag({Event(kind, r.user)})
  /\ req' = [req EXCEPT ![a] = NoRequest]
  /\ UNCHANGED <<user, created, nodes, jobs, inputs, raced>>
  /\ Track({})

\* The process dies or a statement fails.
LoseRequest(a) ==
  LET u == req[a].user IN
  /\ "crash" \in Events /\ Input
  /\ req[a].pc # "idle"
  /\ req' = [req EXCEPT ![a] = NoRequest]
  /\ raced' = IF req[a].pc = "extended" THEN raced \cup {u} ELSE raced
  /\ UNCHANGED <<user, created, nodes, work, jobs>>
  /\ Track(IF req[a].event # Null \/ Early(a) THEN Everywhere({u}) ELSE {})

\* The DELETE_BY_STATUS job: no event is published; nodes are restarted if the
\* users were active.
DeleteByStatus(status) ==
  LET gone == {u \in Users : user[u] # Null /\ user[u].status = status} IN
  /\ "deleteByStatus" \in Events /\ Input
  /\ gone # {}
  /\ user' = [u \in Users |-> IF u \in gone THEN Null ELSE user[u]]
  /\ UNCHANGED <<created, nodes, work, req, jobs, raced>>
  /\ Track(Everywhere({u \in gone : status = "ACTIVE" \/ ~Quiet(u)}))

(***************************************************************************)
(* Traffic, time, the watchdog and the reset of traffic                    *)
(***************************************************************************)

Use(u) ==
  /\ "traffic" \in Events /\ Input
  /\ user[u] # Null
  /\ user' = [user EXCEPT ![u].used = @ + 1]
  /\ UNCHANGED <<created, nodes, work, req, jobs, raced>>
  /\ Track({})

Expire(u) ==
  /\ "time" \in Events /\ Input
  /\ user[u] # Null /\ ~user[u].expired
  /\ user' = [user EXCEPT ![u].expired = TRUE]
  /\ UNCHANGED <<created, nodes, work, req, jobs, raced>>
  /\ Track({})

\* Mutant: users without a limit are limited.
ExceededUnlimited(row) == row.status = "ACTIVE" /\ row.used >= row.limit

Exceeded(row) == row.status = "ACTIVE" /\ UsedUp(row)

Overdue(row) == row.status \in {"ACTIVE", "LIMITED"} /\ row.expired

\* One UPDATE ... RETURNING.  The job has an id: one at a time.
Sweep(k, status, due) ==
  /\ sweep[k] = {} /\ due # {}
  /\ user' = [u \in Users |-> IF u \in due THEN [user[u] EXCEPT !.status = status] ELSE user[u]]
  /\ sweep' = [sweep EXCEPT ![k] = due]
  /\ UNCHANGED <<created, nodes, work, req, reset, inputs, raced>>
  /\ Track({})

FindExpiredUsers ==
  Sweep("expired", "EXPIRED", {u \in Users : user[u] # Null /\ Overdue(user[u])})

FindExceededUsers ==
  Sweep("limited", "LIMITED", {u \in Users : user[u] # Null /\ Exceeded(user[u])})

FireEvents(k) ==
  /\ sweep[k] # {}
  /\ work' = work (+) SetToBag({Fired("remove", u) : u \in sweep[k]})
  /\ sweep' = [sweep EXCEPT ![k] = {}]
  /\ UNCHANGED <<user, created, nodes, req, reset, inputs, raced>>
  /\ Track({})

\* The process dies, and the job that runs again finds nobody; or there are
\* 10 000 users or more, and the nodes are restarted instead.
LoseSweep(k) ==
  /\ "crash" \in Events /\ Input
  /\ sweep[k] # {}
  /\ sweep' = [sweep EXCEPT ![k] = {}]
  /\ UNCHANGED <<user, created, nodes, work, req, reset, raced>>
  /\ Track(Everywhere(sweep[k]))

\* RESET_..._USER_TRAFFIC of the users' strategy: the ids of those that are not
\* LIMITED, then their traffic, then those that are LIMITED by now.
SelectUsersToReset ==
  /\ "resetAll" \in Events /\ Input
  /\ reset.pc = "idle"
  /\ reset' = [pc |-> "selected",
               users |-> {u \in Users : user[u] # Null /\ user[u].status # "LIMITED"}]
  /\ UNCHANGED <<user, created, nodes, work, req, sweep, raced>>
  /\ Track({})

ResetUserTraffic ==
  /\ reset.pc = "selected"
  /\ user' = [u \in Users |-> IF u \in reset.users /\ user[u] # Null
                                THEN [user[u] EXCEPT !.used = 0] ELSE user[u]]
  /\ reset' = [reset EXCEPT !.pc = "batched"]
  /\ UNCHANGED <<created, nodes, work, req, sweep, inputs, raced>>
  /\ Track({})

ResetLimitedUserTraffic ==
  LET limited == {u \in Users : user[u] # Null /\ user[u].status = "LIMITED"} IN
  /\ reset.pc = "batched"
  /\ user' = [u \in Users |-> IF u \in limited
                                THEN [user[u] EXCEPT !.used = 0, !.status = "ACTIVE"]
                                ELSE user[u]]
  /\ reset' = [pc |-> "firing", users |-> limited]
  /\ UNCHANGED <<created, nodes, work, req, sweep, inputs, raced>>
  /\ Track({})

FireReset ==
  /\ reset.pc = "firing"
  /\ work' = work (+) SetToBag({Fired("add", u) : u \in reset.users})
  /\ reset' = NoReset
  /\ UNCHANGED <<user, created, nodes, req, sweep, inputs, raced>>
  /\ Track({})

\* The process dies, or a statement fails.
LoseReset ==
  /\ "crash" \in Events /\ Input
  /\ reset.pc # "idle"
  /\ reset' = NoReset
  /\ raced' = IF reset.pc = "batched" THEN raced \cup reset.users ELSE raced
  /\ UNCHANGED <<user, created, nodes, work, req, sweep>>
  /\ Track(IF reset.pc = "firing" THEN Everywhere(reset.users) ELSE {})

(***************************************************************************)
(* From events to nodes                                                    *)
(***************************************************************************)

Connected(n) == link[n].connected /\ ~link[n].connecting

\* Mutant: only users who are active are removed.
FireUserEventIfActive(i) ==
  /\ i.step = "fired"
  /\ Replace(i, IF user[i.user] = Null THEN {}
                ELSE IF user[i.user].status # "ACTIVE" THEN {} ELSE {Event(i.kind, i.user)})
  /\ UNCHANGED <<user, created, nodes, req, jobs, inputs, raced>>
  /\ Track({})

\* handleFireUserEvent: a user who is gone is left alone; nothing else is looked at.
FireUserEvent(i) ==
  /\ i.step = "fired"
  /\ Replace(i, IF user[i.user] = Null THEN {} ELSE {Event(i.kind, i.user)})
  /\ UNCHANGED <<user, created, nodes, req, jobs, inputs, raced>>
  /\ Track({})

\* AddUserToNodeHandler up to its user, whatever status he has: without inbounds
\* it returns and leaves the nodes as they are ...
LoadUser(i) ==
  LET row == user[i.user] IN
  /\ i.step = "event" /\ i.kind = "add"
  /\ Replace(i, IF row = Null THEN {}
                ELSE IF InboundsOf(row.squads) = {} THEN {}
                ELSE {Loaded(i.user, row.key, Reached(row.squads))})
  /\ UNCHANGED <<user, created, nodes, req, jobs, inputs, raced>>
  /\ Track({})

\* ... and up to the jobs for the nodes connected by now.
AddToNodes(i) ==
  /\ i.step = "loaded"
  /\ Replace(i, {IF n \in i.nodes THEN Job("add", i.user, i.key, n)
                                  ELSE Job("remove", i.user, Null, n) :
                 n \in {m \in Nodes : Connected(m)}})
  /\ UNCHANGED <<user, created, nodes, req, jobs, inputs, raced>>
  /\ Track({})

\* RemoveUserFromNodeHandler asks nodes that are connecting, too.
RemoveFromNodes(i) ==
  /\ i.step = "event" /\ i.kind = "remove"
  /\ Replace(i, {Job("remove", i.user, Null, n) : n \in {m \in Nodes : link[m].connected}})
  /\ UNCHANGED <<user, created, nodes, req, jobs, inputs, raced>>
  /\ Track({})

\* ADD_USER_TO_NODE and REMOVE_USER_FROM_NODE.
CallNode(i) ==
  /\ i.step = "job"
  /\ Replace(i, {})
  /\ \E n \in i.nodes : serves' = [serves EXCEPT ![n][i.user] = i.key]
  /\ UNCHANGED <<user, created, link, snapshot, req, jobs, inputs, raced>>
  /\ Track({})

WorkStep(i) ==
  FireUserEvent(i) \/ LoadUser(i) \/ AddToNodes(i) \/ RemoveFromNodes(i) \/ CallNode(i)

\* A call fails and is only logged, or the process dies.
LoseWork(i) ==
  /\ "crash" \in Events /\ Input
  /\ Replace(i, {})
  /\ UNCHANGED <<user, created, nodes, req, jobs, raced>>
  /\ Track({i.user} \X (IF i.step = "job" THEN i.nodes ELSE Nodes))

(***************************************************************************)
(* Starts of nodes, as far as users see them                               *)
(***************************************************************************)

StartNode(n) ==
  /\ Input
  /\ ~link[n].connecting
  /\ link' = [link EXCEPT ![n].connecting = TRUE]
  /\ UNCHANGED <<user, created, serves, snapshot, work, req, jobs, raced>>
  /\ Track({})

\* getUsersForConfigStream: the active users.  What was astray is put right.
ReadUsers(n) ==
  /\ link[n].connecting /\ snapshot[n] = Null
  /\ snapshot' = [snapshot EXCEPT ![n] = [u \in Users |-> Wanted(user[u], n)]]
  /\ UNCHANGED <<user, created, link, serves, work, req, jobs, inputs, raced>>
  /\ astray' = {p \in astray : p[2] # n} \cup Contradicted'

FinishStart(n) ==
  /\ link[n].connecting /\ snapshot[n] # Null
  /\ link' = [link EXCEPT ![n] = [connected |-> TRUE, connecting |-> FALSE]]
  /\ serves' = [serves EXCEPT ![n] = snapshot[n]]
  /\ snapshot' = [snapshot EXCEPT ![n] = Null]
  /\ UNCHANGED <<user, created, work, req, jobs, inputs, raced>>
  /\ Track({})

FailStart(n) ==
  /\ "nodes" \in Events /\ Input
  /\ link[n].connecting
  /\ link' = [link EXCEPT ![n] = [connected |-> FALSE, connecting |-> FALSE]]
  /\ snapshot' = [snapshot EXCEPT ![n] = Null]
  /\ UNCHANGED <<user, created, serves, work, req, jobs, raced>>
  /\ Track({})

\* The health check finds the node gone, with or without what it served ...
NodeDown(n) ==
  /\ "nodes" \in Events /\ Input
  /\ Connected(n)
  /\ link' = [link EXCEPT ![n].connected = FALSE]
  /\ \E lost \in BOOLEAN :
       serves' = [serves EXCEPT ![n] = IF lost THEN [u \in Users |-> Null] ELSE @]
  /\ UNCHANGED <<user, created, snapshot, work, req, jobs, raced>>
  /\ Track({})

\* ... or back: it counts as connected before it is started.
NodeBack(n) ==
  /\ "nodes" \in Events /\ Input
  /\ ~link[n].connected /\ ~link[n].connecting
  /\ link' = [link EXCEPT ![n].connected = TRUE]
  /\ UNCHANGED <<user, created, serves, snapshot, work, req, jobs, raced>>
  /\ Track(Users \X {n})

(***************************************************************************)
(* Specification                                                           *)
(***************************************************************************)

RequestStep(a) ==
  \/ WriteUser(a) \/ ExtendDate(a) \/ SyncExpired(a) \/ Publish(a)
  \/ \E row \in NewRows : InsertUser(a, row)

Watchdog == FindExpiredUsers \/ FindExceededUsers \/ \E k \in DOMAIN sweep : FireEvents(k)

ResetStep == ResetUserTraffic \/ ResetLimitedUserTraffic \/ FireReset

NodeStep(n) == ReadUsers(n) \/ FinishStart(n)

Failure ==
  \/ \E a \in Admins : LoseRequest(a)
  \/ \E k \in DOMAIN sweep : LoseSweep(k)
  \/ LoseReset
  \/ \E i \in BagToSet(work) : LoseWork(i)
  \/ \E n \in Nodes : FailStart(n) \/ NodeDown(n) \/ NodeBack(n)

Next ==
  \/ \E a \in Admins : StartRequest(a) \/ RequestStep(a)
  \/ \E status \in Statuses : DeleteByStatus(status)
  \/ \E u \in Users : Use(u) \/ Expire(u)
  \/ Watchdog
  \/ SelectUsersToReset \/ ResetStep
  \/ \E i \in BagToSet(work) : WorkStep(i)
  \/ \E n \in Nodes : StartNode(n) \/ NodeStep(n)
  \/ Failure

Spec == Init /\ [][Next]_vars

\* Awaits settle, the cron jobs come round, and workers take the jobs.  Nobody
\* has to ask for anything, to start a node or to fail.
FairSpec ==
  /\ Spec
  /\ WF_vars(FindExpiredUsers) /\ WF_vars(FireEvents("expired"))
  /\ WF_vars(\E i \in BagToSet(work) : WorkStep(i))
  /\ \A a \in Admins : WF_vars(RequestStep(a))

(***************************************************************************)
(* Properties                                                              *)
(***************************************************************************)

Request == [pc : {"idle", "checked", "extended", "written"},
            op : Ops \cup {Null},
            user : Users \cup {Null}, read : Row \cup {Null}, body : Body \cup {Null},
            event : {"add", "remove", "check", Null}]

TypeOK ==
  /\ user \in [Users -> Row \cup {Null}]
  /\ created \subseteq Users
  /\ link \in [Nodes -> [connected : BOOLEAN, connecting : BOOLEAN]]
  /\ serves \in [Nodes -> [Users -> Nat \cup {Null}]]
  /\ snapshot \in [Nodes -> [Users -> Nat \cup {Null}] \cup {Null}]
  /\ IsABag(work) /\ BagToSet(work) \subseteq Item
  /\ req \in [Admins -> Request]
  /\ sweep \in [{"expired", "limited"} -> SUBSET Users]
  /\ reset \in [pc : {"idle", "selected", "batched", "firing"}, users : SUBSET Users]
  /\ inputs \in 0..MaxInputs
  /\ astray \subseteq Users \X Nodes
  /\ raced \subseteq Users

\* Once nothing is under way about a user, a connected node lets exactly the
\* active users of its inbounds in, with their current credentials: unless work
\* under way contradicted the row at some time since the node was started, or a
\* write was made from a stale row, or an event, a job or a call was lost, or an
\* update took the access away in one of the two ways that tell no node (Forgets).
AccessConverges ==
  \A u \in Users, n \in Nodes :
    Connected(n) /\ <<u, n>> \notin astray /\ Quiet(u) => serves[n][u] = Wanted(user[u], n)

\* A status that locks a user out has its reason: LIMITED users have used up
\* their limit and EXPIRED ones are past their date, or a job is about to free
\* them; except after a write from a stale row or a job that was cut off.
StatusHasReason ==
  \A u \in Users : user[u] # Null /\ u \notin raced =>
    /\ user[u].status = "LIMITED" =>
         \/ UsedUp(user[u])
         \/ reset.pc = "batched" /\ u \in reset.users
    /\ user[u].status = "EXPIRED" =>
         \/ user[u].expired
         \/ \E a \in Admins : req[a].pc = "extended" /\ req[a].user = u

\* What i will make n serve, if the row stays.
Touches(i, n, row) ==
  CASE i.step = "job"    -> n \in i.nodes
    [] i.step = "loaded" -> TRUE
    [] i.step = "fired"  -> row # Null /\ (i.kind = "add" => InboundsOf(row.squads) # {})
    [] i.step = "event"  -> i.kind # "remove" =>
         /\ row # Null /\ InboundsOf(row.squads) # {}
         /\ i.kind = "check" => row.status = "ACTIVE"

\* Request a will publish an event about u.
Pending(a, u) == /\ req[a].user = u /\ req[a].pc = "written" /\ req[a].event # Null
                 /\ ~Gone(req[a])

\* Something under way will make n agree with u's row.
Touching(u, n) ==
  \/ \E i \in BagToSet(work) : i.user = u /\ Touches(i, n, user[u])
  \/ \E a \in Admins : Pending(a, u) /\ Touches(Event(req[a].event, u), n, user[u])
  \/ \E k \in DOMAIN sweep : u \in sweep[k] /\ Touches(Fired("remove", u), n, user[u])
  \/ /\ reset.pc = "firing" /\ u \in reset.users
     /\ Touches(Fired("add", u), n, user[u])

Served(u, n) == Connected(n) /\ <<u, n>> \notin astray =>
                  serves[n][u] = Wanted(Promised(u), n) \/ Touching(u, n)

\* What is under way is well formed.
ItemsInv ==
  /\ \A i \in BagToSet(work) :
       /\ i.kind # "check"
       /\ i.kind = "remove" => i.key = Null /\ i.step # "loaded"
       /\ i.step = "job" => \E n \in Nodes : i.nodes = {n}
  /\ \A a \in Admins : req[a].pc # "idle" =>
       /\ req[a].user \in Users /\ req[a].op # Null
       /\ req[a].op # "create" => req[a].read \in Row
       /\ req[a].op = "update" => req[a].body \in Body
  /\ \A u \in Users : user[u] # Null => u \in created
  /\ \A a \in Admins : req[a].pc = "checked" /\ req[a].op # "create" => req[a].user \in created

\* The induction: what contradicts the row is on record, and a node that does
\* not agree with the row has something coming that will make it agree.
IInv ==
  /\ ItemsInv
  /\ Contradicted \subseteq astray
  /\ \A u \in Users, n \in Nodes : Served(u, n)

\* A user whose date has passed ends up cut off from every connected node, or
\* is given a new date, whoever enables him in the meantime.
ExpiredIsCutOff ==
  \A u \in Users, n \in Nodes :
    user[u] # Null /\ user[u].expired
      ~> \/ user[u] = Null \/ ~user[u].expired
         \/ ~Connected(n) \/ <<u, n>> \in astray
         \/ serves[n][u] = Null
=============================================================================
