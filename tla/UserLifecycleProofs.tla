-------------------------- MODULE UserLifecycleProofs --------------------------
(***************************************************************************)
(* Proofs about UserLifecycle for any users, nodes, concurrent requests    *)
(* and failures: a status that locks out has its reason, and the nodes     *)
(* come to serve what the rows say.                                        *)
(***************************************************************************)
EXTENDS UserLifecycle, TLAPS

(***************************************************************************)
(* Work under way                                                          *)
(***************************************************************************)

\* Adding work.
LEMMA AddSteps ==
  ASSUME NEW b, IsABag(b), NEW next
  PROVE  /\ IsABag(b (+) SetToBag(next))
         /\ BagToSet(b (+) SetToBag(next)) = BagToSet(b) \cup next
<1>1. SetToBag(next) = [e \in next |-> 1]
  BY DEF SetToBag
<1>2. b \in [DOMAIN b -> {n \in Nat : n > 0}]
  BY DEF IsABag
<1> DEFINE sum == [e \in DOMAIN b \cup next |->
                     (IF e \in DOMAIN b THEN b[e] ELSE 0) + (IF e \in next THEN 1 ELSE 0)]
<1>3. b (+) SetToBag(next) = sum
  BY <1>1 DEF (+)
<1>4. \A e \in DOMAIN sum : sum[e] \in {n \in Nat : n > 0}
  BY <1>2
<1> HIDE DEF sum
<1>5. sum \in [DOMAIN sum -> {n \in Nat : n > 0}]
  BY <1>4 DEF sum
<1>6. DOMAIN sum = DOMAIN b \cup next
  BY DEF sum
<1>7. QED
  BY <1>3, <1>5, <1>6 DEF IsABag, BagToSet

\* Taking one copy away.
LEMMA RemoveSteps ==
  ASSUME NEW b, IsABag(b), NEW i \in BagToSet(b)
  PROVE  /\ IsABag(b (-) SetToBag({i}))
         /\ BagToSet(b (-) SetToBag({i})) \subseteq BagToSet(b)
         /\ BagToSet(b) \ {i} \subseteq BagToSet(b (-) SetToBag({i}))
<1>1. SetToBag({i}) = [e \in {i} |-> 1]
  BY DEF SetToBag
<1>2. b \in [DOMAIN b -> {n \in Nat : n > 0}]
  BY DEF IsABag
<1> DEFINE all == [e \in DOMAIN b |-> IF e \in {i} THEN b[e] - 1 ELSE b[e]]
           rest == [e \in {d \in DOMAIN all : all[d] > 0} |-> all[e]]
<1>3. b (-) SetToBag({i}) = rest
  BY <1>1 DEF (-)
<1>4. \A e \in DOMAIN b : all[e] \in Nat /\ (e # i => all[e] > 0)
  BY <1>2
<1>5. DOMAIN rest \subseteq DOMAIN b /\ DOMAIN b \ {i} \subseteq DOMAIN rest
  BY <1>4
<1>6. rest \in [DOMAIN rest -> {n \in Nat : n > 0}]
  BY <1>4
<1>7. QED
  BY <1>3, <1>5, <1>6 DEF IsABag, BagToSet

\* One copy of i gives way to next.
LEMMA ReplaceSteps ==
  ASSUME IsABag(work), NEW i \in BagToSet(work), NEW next, Replace(i, next)
  PROVE  /\ IsABag(work')
         /\ BagToSet(work') \subseteq BagToSet(work) \cup next
         /\ next \subseteq BagToSet(work')
         /\ BagToSet(work) \ {i} \subseteq BagToSet(work')
<1> DEFINE rest == work (-) SetToBag({i})
<1>1. /\ IsABag(rest)
      /\ BagToSet(rest) \subseteq BagToSet(work)
      /\ BagToSet(work) \ {i} \subseteq BagToSet(rest)
  BY RemoveSteps
<1>2. work' = rest (+) SetToBag(next)
  BY DEF Replace
<1> HIDE DEF rest
<1>3. IsABag(work') /\ BagToSet(work') = BagToSet(rest) \cup next
  BY <1>1, <1>2, AddSteps
<1>4. QED
  BY <1>1, <1>3

\* An item of the work.
ItemOK(i) ==
  /\ i \in Item
  /\ i.kind # "check"
  /\ i.kind = "remove" => i.key = Null /\ i.step # "loaded"
  /\ i.step = "job" => \E n \in Nodes : i.nodes = {n}

\* The items the code makes.
LEMMA NewItems ==
  ASSUME NEW u \in Users, NEW kind \in {"add", "remove"}
  PROVE  /\ ItemOK(Event(kind, u)) /\ ItemOK(Fired(kind, u))
         /\ \A key \in Nat \cup {Null}, ns \in SUBSET Nodes : ItemOK(Loaded(u, key, ns))
         /\ \A key \in Nat \cup {Null}, n \in Nodes : ItemOK(Job("add", u, key, n))
         /\ \A n \in Nodes : ItemOK(Job("remove", u, Null, n))
BY DEF ItemOK, Item, Event, Fired, Loaded, Job

(***************************************************************************)
(* Types                                                                   *)
(***************************************************************************)

\* The part of ItemsInv that is about work.
WorkOK == IsABag(work) /\ \A i \in BagToSet(work) : ItemOK(i)

\* A request under way is about a user, and has read his row.
RequestOK(r) == r.pc # "idle" => /\ r.user \in Users /\ r.op # Null
                                 /\ r.op # "create" => r.read \in Row
                                 /\ r.op = "update" => r.body \in Body
RequestsOK == /\ req \in [Admins -> Request]
              /\ \A a \in Admins : RequestOK(req[a])

RowsOK == /\ user \in [Users -> Row \cup {Null}]
          /\ created \subseteq Users
          /\ \A u \in Users : user[u] # Null => u \in created

NodesOK == /\ link \in [Nodes -> [connected : BOOLEAN, connecting : BOOLEAN]]
           /\ serves \in [Nodes -> [Users -> Nat \cup {Null}]]
           /\ snapshot \in [Nodes -> [Users -> Nat \cup {Null}] \cup {Null}]

JobsOK == /\ sweep \in [{"expired", "limited"} -> SUBSET Users]
          /\ reset \in [pc : {"idle", "selected", "batched", "firing"}, users : SUBSET Users]

HistoryOK == /\ inputs \in 0..MaxInputs
             /\ astray \subseteq Users \X Nodes
             /\ raced \subseteq Users

\* TypeOK with what the induction needs, one part for each group of variables.
TypeInv == WorkOK /\ RequestsOK /\ RowsOK /\ NodesOK /\ JobsOK /\ HistoryOK

\* The type invariant in the terms of the model.
LEMMA TypeParts == TypeInv => TypeOK
BY DEF TypeInv, TypeOK, WorkOK, ItemOK, RequestsOK, RequestOK, RowsOK, NodesOK, JobsOK, HistoryOK

\* The history stays typed.
LEMMA TrackTypes ==
  ASSUME HistoryOK, NEW lost \in SUBSET (Users \X Nodes), Track(lost)
  PROVE  astray' \subseteq Users \X Nodes
BY DEF HistoryOK, Track, Contradicted

LEMMA InputTypes ==
  ASSUME HistoryOK
  PROVE  Input => inputs' \in 0..MaxInputs
BY UserConstants DEF HistoryOK, Input

\* Work that is added, or replaces other work, keeps the work well formed.
LEMMA AddTypes ==
  ASSUME WorkOK, NEW next, \A i \in next : ItemOK(i), work' = work (+) SetToBag(next)
  PROVE  WorkOK'
<1>1. IsABag(work') /\ BagToSet(work') = BagToSet(work) \cup next
  BY AddSteps DEF WorkOK
<1>2. \A i \in BagToSet(work') : ItemOK(i)
  BY <1>1 DEF WorkOK
<1>3. QED
  BY <1>1, <1>2 DEF WorkOK, ItemOK

LEMMA ReplaceTypes ==
  ASSUME WorkOK, NEW i \in BagToSet(work), NEW next, \A j \in next : ItemOK(j), Replace(i, next)
  PROVE  WorkOK'
<1>1. IsABag(work') /\ BagToSet(work') \subseteq BagToSet(work) \cup next
  BY ReplaceSteps DEF WorkOK
<1>2. \A j \in BagToSet(work') : ItemOK(j)
  BY <1>1 DEF WorkOK
<1>3. QED
  BY <1>1, <1>2 DEF WorkOK, ItemOK

\* A request goes on to new.
LEMMA RequestTypes ==
  ASSUME RequestsOK, NEW a \in Admins, NEW new \in Request, RequestOK(new),
         req' = [req EXCEPT ![a] = new]
  PROVE  RequestsOK'
<1>1. req' \in [Admins -> Request]
  BY DEF RequestsOK
<1>2. \A b \in Admins : req'[b] = IF b = a THEN new ELSE req[b]
  BY DEF RequestsOK
<1>3. \A b \in Admins : RequestOK(req'[b])
  BY <1>2 DEF RequestsOK
<1>4. (\A b \in Admins : RequestOK(req[b]))'
  BY <1>3 DEF RequestOK
<1>5. QED
  BY <1>1, <1>4 DEF RequestsOK

\* A request ends.
LEMMA EndTypes ==
  ASSUME RequestsOK, NEW a \in Admins, req' = [req EXCEPT ![a] = NoRequest]
  PROVE  RequestsOK'
BY RequestTypes DEF NoRequest, Request, RequestOK

\* Rows stay rows.
LEMMA WrittenTypes ==
  ASSUME NEW row \in Row, NEW r \in Request, r.pc # "idle", RequestOK(r),
         r.op \notin {"create", "bulkExtend"}
  PROVE  /\ Written(r, row) \in Row \cup {Null}
         /\ EventOf(r, row) \in {"add", "remove", "check", Null}
<1>1. CASE r.op = "disable"
  BY <1>1 DEF Written, EventOf, Row, Statuses
<1>2. CASE r.op = "enable"
  BY <1>2 DEF Written, EventOf, Row, Statuses
<1>3. CASE r.op = "extend"
  BY <1>3, r.read \in Row DEF Written, EventOf, Row, Statuses, RequestOK
<1>4. CASE r.op = "reset"
  BY <1>4 DEF Written, EventOf, Row, Statuses
<1>5. CASE r.op = "revoke"
  BY <1>5 DEF Written, EventOf, Row
<1>6. CASE r.op = "delete"
  BY <1>6 DEF Written, EventOf
<1>7. CASE r.op = "update"
  <2> DEFINE b == r.body
             status  == IF BecomesActive(r.read, b) THEN "ACTIVE"
                        ELSE IF BecomesDisabled(r.read, b) THEN "DISABLED" ELSE row.status
             limit   == Field(b.limit, row.limit)
             expired == (row.expired /\ b.expireAt = Null)
             squads  == IF NewSquads(r.read, b) THEN b.squads ELSE row.squads
  <2>1. b \in Body
    BY <1>7 DEF RequestOK
  <2>2. status \in Statuses /\ limit \in Nat /\ expired \in BOOLEAN /\ squads \in SUBSET Squads
    BY <2>1 DEF Row, Body, Statuses, Field, NewSquads
  <2>3. Written(r, row) = [row EXCEPT !.status = status, !.limit = limit, !.expired = expired,
                                     !.squads = squads]
    BY <1>7 DEF Written, Updated
  <2>4. EventOf(r, row) \in {"add", "remove", "check", Null}
    BY <1>7 DEF EventOf, UpdateEvent
  <2> HIDE DEF status, limit, expired, squads
  <2>5. QED
    BY <2>2, <2>3, <2>4 DEF Row
<1>8. QED
  BY <1>1, <1>2, <1>3, <1>4, <1>5, <1>6, <1>7 DEF Request, RequestOK, Ops

\* A write keeps the types.
LEMMA WriteTypes ==
  ASSUME TypeInv, NEW a \in Admins, WriteUser(a)
  PROVE  TypeInv'
<1> DEFINE r == req[a]
<1>1. /\ r \in Request /\ RequestOK(r) /\ r.user \in Users
      /\ user[r.user] \in Row \cup {Null}
  BY DEF TypeInv, RequestsOK, RowsOK, RequestOK, WriteUser
<1>2. WorkOK' /\ NodesOK' /\ JobsOK'
  BY DEF TypeInv, WriteUser, WorkOK, ItemOK, NodesOK, JobsOK, nodes, jobs
<1>3. HistoryOK'
  <2>1. astray' \subseteq Users \X Nodes
    BY <1>1, TrackTypes DEF TypeInv, WriteUser, Everywhere
  <2>2. QED
    BY <1>1, <2>1 DEF TypeInv, WriteUser, HistoryOK
<1>4. CASE user[r.user] = Null
  BY <1>1, <1>2, <1>3, <1>4
     DEF TypeInv, WriteUser, RequestsOK, RequestOK, RowsOK, NoRequest, Request
<1>5. CASE user[r.user] # Null
  <2> DEFINE new == Written(r, user[r.user])
             event == EventOf(r, user[r.user])
  <2>1. new \in Row \cup {Null} /\ event \in {"add", "remove", "check", Null}
    BY <1>1, <1>5, WrittenTypes DEF WriteUser
  <2>2. user' = [user EXCEPT ![r.user] = new]
        /\ req' = [req EXCEPT ![a].pc = "written", ![a].event = event]
        /\ created' = created
    BY <1>5 DEF WriteUser
  <2> HIDE DEF new, event
  <2>3. RowsOK'
    BY <1>1, <1>5, <2>1, <2>2 DEF TypeInv, RowsOK
  <2>4. req' = [req EXCEPT ![a] = [r EXCEPT !.pc = "written", !.event = event]]
    BY <1>1, <2>2 DEF TypeInv, RequestsOK
  <2>5. /\ [r EXCEPT !.pc = "written", !.event = event] \in Request
        /\ RequestOK([r EXCEPT !.pc = "written", !.event = event])
    BY <1>1, <2>1 DEF RequestOK, WriteUser, Request
  <2>6. RequestsOK'
    BY <2>4, <2>5, RequestTypes DEF TypeInv
  <2>7. QED
    BY <1>2, <1>3, <2>3, <2>6 DEF TypeInv
<1>6. QED
  BY <1>4, <1>5

\* The other steps of a request keep the types.
LEMMA StartRequestTypes ==
  ASSUME TypeInv, NEW a \in Admins, StartRequest(a)
  PROVE  TypeInv'
<1>1. RowsOK' /\ NodesOK' /\ JobsOK'
  BY DEF TypeInv, StartRequest, RowsOK, NodesOK, JobsOK, nodes, jobs
<1>2. PICK u \in Users :
        \/ CreateUser(a, u)
        \/ \E op \in Ops \ {"create", "update"} : ReadUser(a, u, op, Null)
        \/ \E body \in Bodies : ReadUser(a, u, "update", body)
  BY DEF StartRequest
<1>3. PICK op \in Ops,
           body \in Body \cup {Null} :
        /\ op = "update" => body \in Body
        /\ op # "create" => user[u] # Null
        /\ Begin(a, op, u, body)
        /\ work' = work \/ work' = work (+) SetToBag({Event("add", u)})
  BY <1>2, UserConstants DEF CreateUser, ReadUser, Ops
<1>4. user[u] \in Row \cup {Null}
  BY DEF TypeInv, RowsOK
<1> DEFINE new == [pc |-> "checked", op |-> op, user |-> u, read |-> user[u],
                   body |-> body, event |-> Null]
<1>5. new \in Request /\ RequestOK(new)
  BY <1>3, <1>4, UserConstants DEF Request, RequestOK
<1>6. req' = [req EXCEPT ![a] = new] /\ Input
  BY <1>3 DEF Begin
<1> HIDE DEF new
<1>7. RequestsOK'
  BY <1>5, <1>6, RequestTypes DEF TypeInv
<1>8. WorkOK'
  <2>1. CASE work' = work
    BY <2>1 DEF TypeInv, WorkOK, ItemOK
  <2>2. CASE work' = work (+) SetToBag({Event("add", u)})
    BY <2>2, NewItems, AddTypes DEF TypeInv
  <2>3. QED
    BY <1>3, <2>1, <2>2
<1>9. HistoryOK'
  BY <1>6, TrackTypes, InputTypes DEF TypeInv, HistoryOK, StartRequest
<1>10. QED
  BY <1>1, <1>7, <1>8, <1>9 DEF TypeInv

LEMMA InsertTypes ==
  ASSUME TypeInv, NEW a \in Admins, NEW row \in NewRows, InsertUser(a, row)
  PROVE  TypeInv'
<1> DEFINE u == req[a].user
           r == req[a]
<1>1. r \in Request /\ RequestOK(r) /\ u \in Users /\ row \in Row
  BY UserConstants DEF TypeInv, RequestsOK, RequestOK, InsertUser
<1>2. WorkOK' /\ NodesOK' /\ JobsOK'
  BY DEF InsertUser, TypeInv, WorkOK, ItemOK, NodesOK, JobsOK, nodes, jobs
<1>3. HistoryOK'
  BY <1>1, TrackTypes DEF InsertUser, TypeInv, HistoryOK
<1>4. CASE u \in created
  <2>1. RequestsOK'
    BY <1>4, EndTypes DEF InsertUser, TypeInv
  <2>2. QED
    BY <1>2, <1>3, <1>4, <2>1 DEF InsertUser, TypeInv, RowsOK
<1>5. CASE u \notin created
  <2>1. RowsOK'
    BY <1>1, <1>5 DEF InsertUser, TypeInv, RowsOK
  <2>2. req' = [req EXCEPT ![a] = [r EXCEPT !.pc = "written", !.event = "check"]]
    BY <1>1, <1>5 DEF TypeInv, RequestsOK, InsertUser
  <2>3. /\ [r EXCEPT !.pc = "written", !.event = "check"] \in Request
        /\ RequestOK([r EXCEPT !.pc = "written", !.event = "check"])
    BY <1>1 DEF RequestOK, InsertUser, Request
  <2>4. RequestsOK'
    BY <2>2, <2>3, RequestTypes DEF TypeInv
  <2>5. QED
    BY <1>2, <1>3, <2>1, <2>4 DEF TypeInv
<1>6. QED
  BY <1>4, <1>5

LEMMA ExtendTypes ==
  ASSUME TypeInv, NEW a \in Admins, ExtendDate(a) \/ SyncExpired(a)
  PROVE  TypeInv'
<1> DEFINE u == req[a].user
           r == req[a]
<1>1. r \in Request /\ RequestOK(r) /\ u \in Users /\ user[u] \in Row \cup {Null}
  BY DEF TypeInv, RequestsOK, RequestOK, RowsOK, ExtendDate, SyncExpired
<1>2. WorkOK' /\ NodesOK' /\ JobsOK'
  BY DEF ExtendDate, SyncExpired, TypeInv, WorkOK, ItemOK, NodesOK, JobsOK, nodes, jobs
<1>3. HistoryOK'
  BY TrackTypes DEF ExtendDate, SyncExpired, TypeInv, HistoryOK
<1>4. RowsOK'
  <2>1. CASE user' = user
    BY <2>1 DEF ExtendDate, SyncExpired, TypeInv, RowsOK
  <2>2. CASE user' # user
    <3>1. PICK new \in Row : user' = [user EXCEPT ![u] = new] /\ user[u] # Null
      <4>1. CASE ExtendDate(a)
        <5>1. PICK expired \in {user[u].expired, FALSE} :
                user' = [user EXCEPT ![u].expired = expired] /\ user[u] # Null
          BY <2>2, <4>1 DEF ExtendDate
        <5>2. [user[u] EXCEPT !.expired = expired] \in Row
          BY <1>1, <5>1 DEF Row
        <5>3. QED
          BY <1>1, <5>1, <5>2
      <4>2. CASE SyncExpired(a)
        <5>1. user' = [user EXCEPT ![u].status = "ACTIVE"] /\ user[u] # Null
          BY <2>2, <4>2 DEF SyncExpired
        <5>2. [user[u] EXCEPT !.status = "ACTIVE"] \in Row
          BY <1>1, <5>1 DEF Row, Statuses
        <5>3. QED
          BY <1>1, <5>1, <5>2
      <4>3. QED
        BY <4>1, <4>2
    <3>2. created' = created
      BY DEF ExtendDate, SyncExpired
    <3>3. QED
      BY <1>1, <3>1, <3>2 DEF TypeInv, RowsOK
  <2>3. QED
    BY <2>1, <2>2
<1>5. RequestsOK'
  <2>1. CASE req' = [req EXCEPT ![a] = NoRequest]
    BY <2>1, EndTypes DEF TypeInv
  <2>2. CASE req' = [req EXCEPT ![a].pc = "extended"]
    <3>1. req' = [req EXCEPT ![a] = [r EXCEPT !.pc = "extended"]]
      BY <1>1, <2>2 DEF TypeInv, RequestsOK
    <3>2. /\ [r EXCEPT !.pc = "extended"] \in Request
          /\ RequestOK([r EXCEPT !.pc = "extended"])
      BY <1>1 DEF RequestOK, ExtendDate, SyncExpired, Request
    <3>3. QED
      BY <3>1, <3>2, RequestTypes DEF TypeInv
  <2>3. CASE req' = [req EXCEPT ![a].pc = "written", ![a].event = "add"]
    <3>1. req' = [req EXCEPT ![a] = [r EXCEPT !.pc = "written", !.event = "add"]]
      BY <1>1, <2>3 DEF TypeInv, RequestsOK
    <3>2. /\ [r EXCEPT !.pc = "written", !.event = "add"] \in Request
          /\ RequestOK([r EXCEPT !.pc = "written", !.event = "add"])
      BY <1>1 DEF RequestOK, ExtendDate, SyncExpired, Request
    <3>3. QED
      BY <3>1, <3>2, RequestTypes DEF TypeInv
  <2>4. QED
    BY <2>1, <2>2, <2>3 DEF ExtendDate, SyncExpired
<1>6. QED
  BY <1>2, <1>3, <1>4, <1>5 DEF TypeInv

LEMMA PublishTypes ==
  ASSUME TypeInv, NEW a \in Admins, Publish(a) \/ LoseRequest(a)
  PROVE  TypeInv'
<1> DEFINE r == req[a]
           kind == IF r.event = "check" THEN "add" ELSE r.event
<1>1. r \in Request /\ RequestOK(r) /\ r.user \in Users
  BY DEF TypeInv, RequestsOK, RequestOK, Publish, LoseRequest
<1>2. RowsOK' /\ NodesOK' /\ JobsOK'
  BY DEF Publish, LoseRequest, TypeInv, RowsOK, NodesOK, JobsOK, nodes, jobs
<1>3. RequestsOK'
  BY EndTypes DEF Publish, LoseRequest, TypeInv
<1>4. HistoryOK'
  <2>1. astray' \subseteq Users \X Nodes
    BY <1>1, TrackTypes DEF Publish, LoseRequest, TypeInv, Everywhere
  <2>2. inputs' \in 0..MaxInputs
    BY InputTypes DEF Publish, LoseRequest, TypeInv, HistoryOK
  <2>3. QED
    BY <1>1, <2>1, <2>2 DEF Publish, LoseRequest, TypeInv, HistoryOK
<1>5. WorkOK'
  <2>1. CASE work' = work
    BY <2>1 DEF TypeInv, WorkOK, ItemOK
  <2>2. CASE work' # work
    <3>1. r.event # Null /\ work' = work (+) SetToBag({Event(kind, r.user)})
      BY <2>2 DEF Publish, LoseRequest
    <3>2. kind \in {"add", "remove"}
      BY <1>1, <3>1 DEF Request
    <3> HIDE DEF kind, r
    <3>3. QED
      BY <1>1, <3>1, <3>2, NewItems, AddTypes DEF TypeInv
  <2>3. QED
    BY <2>1, <2>2
<1>6. QED
  BY <1>2, <1>3, <1>4, <1>5 DEF TypeInv
\* The changes of a row by other steps than requests.
LEMMA ChangedRows ==
  ASSUME NEW row \in Row
  PROVE  /\ [row EXCEPT !.used = @ + 1] \in Row
         /\ [row EXCEPT !.expired = TRUE] \in Row
         /\ [row EXCEPT !.used = 0] \in Row
         /\ [row EXCEPT !.used = 0, !.status = "ACTIVE"] \in Row
         /\ \A status \in Statuses : [row EXCEPT !.status = status] \in Row
<1>1. [row EXCEPT !.used = @ + 1] \in Row
  BY DEF Row
<1>2. [row EXCEPT !.expired = TRUE] \in Row
  BY DEF Row
<1>3. [row EXCEPT !.used = 0] \in Row
  BY DEF Row
<1>4. [row EXCEPT !.used = 0, !.status = "ACTIVE"] \in Row
  BY DEF Row, Statuses
<1>5. \A status \in Statuses : [row EXCEPT !.status = status] \in Row
  BY DEF Row
<1>6. QED
  BY <1>1, <1>2, <1>3, <1>4, <1>5

\* The steps of nobody's request keep the types.
LEMMA RowStepTypes ==
  ASSUME TypeInv,
         \/ \E status \in Statuses : DeleteByStatus(status)
         \/ \E u \in Users : Use(u) \/ Expire(u)
         \/ FindExpiredUsers \/ FindExceededUsers
         \/ ResetUserTraffic \/ ResetLimitedUserTraffic
  PROVE  TypeInv'
<1>1. WorkOK' /\ RequestsOK' /\ NodesOK'
  BY DEF DeleteByStatus, Use, Expire, FindExpiredUsers, FindExceededUsers, Sweep,
         ResetUserTraffic, ResetLimitedUserTraffic, TypeInv, WorkOK, ItemOK, RequestsOK,
         RequestOK, NodesOK, nodes, jobs
<1>2. HistoryOK'
  <2>1. \A us \in SUBSET Users : Everywhere(us) \subseteq Users \X Nodes
    BY DEF Everywhere
  <2>2. astray' \subseteq Users \X Nodes
    BY <2>1, TrackTypes DEF DeleteByStatus, Use, Expire, FindExpiredUsers, FindExceededUsers,
         Sweep, ResetUserTraffic, ResetLimitedUserTraffic, TypeInv
  <2>3. inputs' \in 0..MaxInputs /\ raced' = raced
    BY InputTypes DEF DeleteByStatus, Use, Expire, FindExpiredUsers, FindExceededUsers,
         Sweep, ResetUserTraffic, ResetLimitedUserTraffic, TypeInv, HistoryOK
  <2>4. QED
    BY <2>2, <2>3 DEF TypeInv, HistoryOK
<1>3. JobsOK'
  <2>1. CASE sweep' = sweep /\ reset' = reset
    BY <2>1 DEF TypeInv, JobsOK
  <2>2. CASE FindExpiredUsers \/ FindExceededUsers
    BY <2>2 DEF FindExpiredUsers, FindExceededUsers, Sweep, TypeInv, JobsOK
  <2>3. CASE ResetUserTraffic
    BY <2>3 DEF ResetUserTraffic, TypeInv, JobsOK
  <2>4. CASE ResetLimitedUserTraffic
    BY <2>4 DEF ResetLimitedUserTraffic, TypeInv, JobsOK
  <2>5. QED
    BY <2>1, <2>2, <2>3, <2>4 DEF DeleteByStatus, Use, Expire, jobs
<1>4. RowsOK'
  <2>1. "EXPIRED" \in Statuses /\ "LIMITED" \in Statuses
    BY DEF Statuses
  <2>2. CASE \E status \in Statuses : DeleteByStatus(status)
    BY <2>2 DEF DeleteByStatus, TypeInv, RowsOK
  <2>3. CASE \E u \in Users : Use(u) \/ Expire(u)
    BY <2>1, <2>3, ChangedRows DEF Use, Expire, TypeInv, RowsOK
  <2>4. CASE FindExpiredUsers
    BY <2>1, <2>4, ChangedRows DEF FindExpiredUsers, Sweep, TypeInv, RowsOK
  <2>5. CASE FindExceededUsers
    BY <2>1, <2>5, ChangedRows DEF FindExceededUsers, Sweep, TypeInv, RowsOK
  <2>6. CASE ResetUserTraffic
    BY <2>1, <2>6, ChangedRows DEF ResetUserTraffic, TypeInv, RowsOK
  <2>7. CASE ResetLimitedUserTraffic
    BY <2>1, <2>7, ChangedRows DEF ResetLimitedUserTraffic, TypeInv, RowsOK
  <2>8. QED
    BY <2>2, <2>3, <2>4, <2>5, <2>6, <2>7
<1>5. QED
  BY <1>1, <1>2, <1>3, <1>4 DEF TypeInv

LEMMA JobStepTypes ==
  ASSUME TypeInv,
         \/ \E k \in DOMAIN sweep : FireEvents(k) \/ LoseSweep(k)
         \/ SelectUsersToReset \/ FireReset \/ LoseReset
  PROVE  TypeInv'
<1>1. RowsOK' /\ RequestsOK' /\ NodesOK'
  BY DEF FireEvents, LoseSweep, SelectUsersToReset, FireReset, LoseReset, TypeInv, RowsOK,
         RequestsOK, RequestOK, NodesOK, nodes
<1>2. JobsOK'
  <2>1. CASE \E k \in DOMAIN sweep : FireEvents(k) \/ LoseSweep(k)
    BY <2>1 DEF FireEvents, LoseSweep, TypeInv, JobsOK
  <2>2. CASE SelectUsersToReset
    BY <2>2 DEF SelectUsersToReset, TypeInv, JobsOK
  <2>3. CASE FireReset \/ LoseReset
    BY <2>3 DEF FireReset, LoseReset, TypeInv, JobsOK, NoReset
  <2>4. QED
    BY <2>1, <2>2, <2>3
<1>3. HistoryOK'
  <2>1. \A us \in SUBSET Users : Everywhere(us) \subseteq Users \X Nodes
    BY DEF Everywhere
  <2>2. astray' \subseteq Users \X Nodes
    BY <2>1, TrackTypes
       DEF FireEvents, LoseSweep, SelectUsersToReset, FireReset, LoseReset, TypeInv, JobsOK
  <2>3. inputs' \in 0..MaxInputs /\ raced' \subseteq Users
    BY InputTypes DEF FireEvents, LoseSweep, SelectUsersToReset, FireReset, LoseReset,
       TypeInv, HistoryOK, JobsOK
  <2>4. QED
    BY <2>2, <2>3 DEF HistoryOK
<1>4. WorkOK'
  <2>1. CASE work' = work
    BY <2>1 DEF TypeInv, WorkOK, ItemOK
  <2>2. CASE \E k \in DOMAIN sweep : FireEvents(k)
    <3>1. PICK k \in DOMAIN sweep :
            sweep[k] \subseteq Users
            /\ work' = work (+) SetToBag({Fired("remove", u) : u \in sweep[k]})
      BY <2>2 DEF FireEvents, TypeInv, JobsOK
    <3>2. QED
      BY <3>1, NewItems, AddTypes DEF TypeInv
  <2>3. CASE FireReset
    <3>1. reset.users \subseteq Users
          /\ work' = work (+) SetToBag({Fired("add", u) : u \in reset.users})
      BY <2>3 DEF FireReset, TypeInv, JobsOK
    <3>2. QED
      BY <3>1, NewItems, AddTypes DEF TypeInv
  <2>4. QED
    BY <2>1, <2>2, <2>3 DEF LoseSweep, SelectUsersToReset, LoseReset
<1>5. QED
  BY <1>1, <1>2, <1>3, <1>4 DEF TypeInv

LEMMA WorkStepTypes ==
  ASSUME TypeInv, NEW i \in BagToSet(work), WorkStep(i) \/ LoseWork(i)
  PROVE  TypeInv'
<1>1. RowsOK' /\ RequestsOK' /\ JobsOK'
  BY DEF WorkStep, FireUserEvent, LoadUser, AddToNodes, RemoveFromNodes, CallNode, LoseWork,
         TypeInv, RowsOK, RequestsOK, RequestOK, JobsOK, nodes, jobs
<1>2. ItemOK(i) /\ i.user \in Users /\ i.nodes \subseteq Nodes /\ i.key \in Nat \cup {Null}
  BY DEF TypeInv, WorkOK, ItemOK, Item
<1>3. HistoryOK'
  <2>1. astray' \subseteq Users \X Nodes
    BY <1>2, TrackTypes DEF WorkStep, FireUserEvent, LoadUser, AddToNodes, RemoveFromNodes,
       CallNode, LoseWork, TypeInv
  <2>2. inputs' \in 0..MaxInputs /\ raced' = raced
    BY InputTypes DEF WorkStep, FireUserEvent, LoadUser, AddToNodes, RemoveFromNodes,
       CallNode, LoseWork, TypeInv, HistoryOK
  <2>3. QED
    BY <2>1, <2>2 DEF TypeInv, HistoryOK
<1>4. NodesOK'
  BY <1>2 DEF WorkStep, FireUserEvent, LoadUser, AddToNodes, RemoveFromNodes, CallNode,
     LoseWork, TypeInv, NodesOK, nodes
<1>5. WorkOK'
  <2>1. PICK next : Replace(i, next) /\ \A j \in next : ItemOK(j)
    <3>1. CASE FireUserEvent(i)
      BY <1>2, <3>1, NewItems DEF FireUserEvent, ItemOK, Item
    <3>2. CASE LoadUser(i)
      <4>1. user[i.user] # Null => user[i.user].key \in Nat
        BY <1>2 DEF TypeInv, RowsOK, Row
      <4>2. user[i.user] # Null => Reached(user[i.user].squads) \subseteq Nodes
        BY DEF Reached
      <4>3. QED
        BY <1>2, <3>2, <4>1, <4>2, NewItems DEF LoadUser
    <3>3. CASE AddToNodes(i)
      BY <1>2, <3>3, NewItems DEF AddToNodes
    <3>4. CASE RemoveFromNodes(i)
      BY <1>2, <3>4, NewItems DEF RemoveFromNodes
    <3>5. CASE CallNode(i) \/ LoseWork(i)
      BY <3>5 DEF CallNode, LoseWork
    <3>6. QED
      BY <3>1, <3>2, <3>3, <3>4, <3>5 DEF WorkStep
  <2>2. QED
    BY <2>1, ReplaceTypes DEF TypeInv
<1>6. QED
  BY <1>1, <1>3, <1>4, <1>5 DEF TypeInv
LEMMA NodeStepTypes ==
  ASSUME TypeInv, NEW n \in Nodes,
         StartNode(n) \/ NodeStep(n) \/ FailStart(n) \/ NodeDown(n) \/ NodeBack(n)
  PROVE  TypeInv'
<1>1. WorkOK' /\ RequestsOK' /\ RowsOK' /\ JobsOK'
  BY DEF StartNode, NodeStep, ReadUsers, FinishStart, FailStart, NodeDown, NodeBack, TypeInv,
         WorkOK, ItemOK, RequestsOK, RequestOK, RowsOK, JobsOK, jobs
<1>2. HistoryOK'
  <2>1. astray' \subseteq Users \X Nodes
    <3>1. CASE ReadUsers(n)
      BY <3>1 DEF ReadUsers, Contradicted, TypeInv, HistoryOK
    <3>2. CASE ~ReadUsers(n)
      BY <3>2, TrackTypes DEF StartNode, NodeStep, FinishStart, FailStart, NodeDown, NodeBack,
         TypeInv
    <3>3. QED
      BY <3>1, <3>2
  <2>2. inputs' \in 0..MaxInputs /\ raced' = raced
    BY InputTypes DEF StartNode, NodeStep, ReadUsers, FinishStart, FailStart, NodeDown,
       NodeBack, TypeInv, HistoryOK
  <2>3. QED
    BY <2>1, <2>2 DEF TypeInv, HistoryOK
<1>3. NodesOK'
  <2>1. CASE ReadUsers(n)
    <3>1. \A u \in Users : Wanted(user[u], n) \in Nat \cup {Null}
      BY DEF TypeInv, RowsOK, Wanted, Row
    <3>2. QED
      BY <2>1, <3>1 DEF ReadUsers, TypeInv, NodesOK
  <2>2. CASE FinishStart(n)
    BY <2>2 DEF FinishStart, TypeInv, NodesOK
  <2>3. CASE NodeDown(n)
    BY <2>3 DEF NodeDown, TypeInv, NodesOK
  <2>4. CASE StartNode(n)
    BY <2>4 DEF StartNode, TypeInv, NodesOK
  <2>5. CASE FailStart(n)
    BY <2>5 DEF FailStart, TypeInv, NodesOK
  <2>6. CASE NodeBack(n)
    BY <2>6 DEF NodeBack, TypeInv, NodesOK
  <2>7. QED
    BY <2>1, <2>2, <2>3, <2>4, <2>5, <2>6 DEF NodeStep
<1>4. QED
  BY <1>1, <1>2, <1>3 DEF TypeInv

\* The types are inductive.
LEMMA TypeInit == Init => TypeInv
<1> SUFFICES ASSUME Init PROVE TypeInv
  OBVIOUS
<1>1. user \in [Users -> Row \cup {Null}] /\ RowsOK
  BY UserConstants DEF Init, RowsOK
<1>2. WorkOK
  BY DEF Init, WorkOK, EmptyBag, SetToBag, IsABag, BagToSet
<1>3. RequestsOK
  BY DEF Init, RequestsOK, RequestOK, NoRequest, Request
<1>4. NodesOK
  BY <1>1 DEF Init, NodesOK, Wanted, Row
<1>5. JobsOK /\ HistoryOK
  BY UserConstants DEF Init, JobsOK, HistoryOK, NoReset
<1>6. QED
  BY <1>1, <1>2, <1>3, <1>4, <1>5 DEF TypeInv

LEMMA TypeStep == TypeInv /\ [Next]_vars => TypeInv'
<1> SUFFICES ASSUME TypeInv, [Next]_vars PROVE TypeInv'
  OBVIOUS
<1>1. CASE UNCHANGED vars
  BY <1>1 DEF vars, nodes, jobs, TypeInv, WorkOK, ItemOK, RequestsOK, RequestOK, RowsOK, NodesOK,
     JobsOK, HistoryOK
<1>2. CASE \E a \in Admins : StartRequest(a) \/ RequestStep(a) \/ LoseRequest(a)
  BY <1>2, StartRequestTypes, WriteTypes, InsertTypes, ExtendTypes, PublishTypes DEF RequestStep
<1>3. CASE \/ \E status \in Statuses : DeleteByStatus(status)
           \/ \E u \in Users : Use(u) \/ Expire(u)
           \/ FindExpiredUsers \/ FindExceededUsers
           \/ ResetUserTraffic \/ ResetLimitedUserTraffic
  BY <1>3, RowStepTypes
<1>4. CASE \/ \E k \in DOMAIN sweep : FireEvents(k) \/ LoseSweep(k)
           \/ SelectUsersToReset \/ FireReset \/ LoseReset
  BY <1>4, JobStepTypes
<1>5. CASE \E i \in BagToSet(work) : WorkStep(i) \/ LoseWork(i)
  BY <1>5, WorkStepTypes
<1>6. CASE \E n \in Nodes :
             StartNode(n) \/ NodeStep(n) \/ FailStart(n) \/ NodeDown(n) \/ NodeBack(n)
  BY <1>6, NodeStepTypes
<1>7. QED
  BY <1>1, <1>2, <1>3, <1>4, <1>5, <1>6 DEF Next, Watchdog, ResetStep, Failure

\* Rows, requests, work under way and what nodes serve stay well typed.
THEOREM UsersTypeCorrect == Spec => []TypeOK
<1>1. Spec => []TypeInv
  BY TypeInit, TypeStep, PTL DEF Spec
<1>2. TypeInv => TypeOK
  BY TypeParts
<1>3. QED
  BY <1>1, <1>2, PTL

(***************************************************************************)
(* Statuses and their reasons                                              *)
(***************************************************************************)

\* The reason a row, whose user's status nothing has raced with, may lack.
Reasoned(u) ==
  user[u] # Null /\ u \notin raced =>
    /\ user[u].status = "LIMITED" =>
         \/ UsedUp(user[u])
         \/ reset.pc = "batched" /\ u \in reset.users
    /\ user[u].status = "EXPIRED" =>
         \/ user[u].expired
         \/ \E a \in Admins : req[a].pc = "extended" /\ req[a].user = u

\* A write from a fresh row gives no user a status without a reason: it frees a
\* limited user whose limit it raises, and an expired one whose date it moves.
LEMMA FreshWrites ==
  ASSUME NEW row \in Row, NEW r \in Request, r.pc # "idle", RequestOK(r),
         r.op \notin {"create", "bulkExtend", "delete"}, ~Contradicts(r),
         [row EXCEPT !.used = 0, !.expired = FALSE] = [r.read EXCEPT !.used = 0, !.expired = FALSE]
  PROVE  LET new == Written(r, row) IN
         /\ new.status = "LIMITED" => row.status = "LIMITED" /\ (UsedUp(row) => UsedUp(new))
         /\ new.status = "EXPIRED" => row.status = "EXPIRED" /\ (row.expired => new.expired)
<1> DEFINE new == Written(r, row)
<1>1. r.read \in Row
  BY DEF RequestOK
<1>2. r.read.status = row.status /\ r.read.limit = row.limit /\ r.read.squads = row.squads
  BY <1>1 DEF Row
<1>3. CASE r.op = "disable"
  BY <1>3 DEF Written, Row
<1>4. CASE r.op = "enable"
  BY <1>4 DEF Written, Row
<1>5. CASE r.op = "extend"
  BY <1>2, <1>5 DEF Written, Row, UsedUp
<1>6. CASE r.op = "reset"
  BY <1>2, <1>6 DEF Written, Row, UsedUp
<1>7. CASE r.op = "revoke"
  BY <1>2, <1>7 DEF Written, Row, UsedUp
<1>8. CASE r.op = "update"
  <2> DEFINE b == r.body
  <2>1. b \in Body
    BY <1>8 DEF RequestOK
  <2>2. new = Updated(row, r.read, b)
    BY <1>8 DEF Written
  <2>3. /\ new.status = IF BecomesActive(r.read, b) THEN "ACTIVE"
                        ELSE IF BecomesDisabled(r.read, b) THEN "DISABLED" ELSE row.status
        /\ new.limit = Field(b.limit, row.limit) /\ new.used = row.used
        /\ new.expired = (row.expired /\ b.expireAt = Null)
    BY <2>2 DEF Updated, Row
  <2>4. ASSUME new.status = "LIMITED"
        PROVE  row.status = "LIMITED" /\ (UsedUp(row) => UsedUp(new))
    BY <1>2, <2>1, <2>3, <2>4, UserConstants DEF BecomesActive, UsedUp, Field, Row, Body
  <2>5. ASSUME new.status = "EXPIRED"
        PROVE  row.status = "EXPIRED" /\ (row.expired => new.expired)
    BY <1>2, <1>8, <2>1, <2>3, <2>5, UserConstants DEF BecomesActive, Contradicts, Row, Body
  <2>6. QED
    BY <2>4, <2>5
<1>9. QED
  BY <1>3, <1>4, <1>5, <1>6, <1>7, <1>8 DEF Request, RequestOK, Ops

\* Requests keep every status reasoned, or put the user on record.
LEMMA RequestReasons ==
  ASSUME TypeInv, NEW u \in Users, Reasoned(u), NEW a \in Admins,
         StartRequest(a) \/ RequestStep(a) \/ LoseRequest(a)
  PROVE  Reasoned(u)'
<1> DEFINE r == req[a]
           Extended == \E b \in Admins : req[b].pc = "extended" /\ req[b].user = u
<1>1. r \in Request /\ RequestOK(r) /\ user[u] \in Row \cup {Null} /\ req \in [Admins -> Request]
      /\ user \in [Users -> Row \cup {Null}]
  BY DEF TypeInv, RequestsOK, RowsOK
<1>2. reset' = reset
  BY DEF StartRequest, RequestStep, WriteUser, InsertUser, ExtendDate, SyncExpired, Publish,
         LoseRequest, jobs
<1>3. r.pc # "extended" => (Extended => Extended')
  <2>1. \A b \in Admins \ {a} : req'[b] = req[b]
    BY <1>1 DEF StartRequest, CreateUser, ReadUser, Begin, RequestStep, WriteUser, InsertUser,
       ExtendDate, SyncExpired, Publish, LoseRequest
  <2>2. QED
    BY <2>1
<1>4. CASE user'[u] = user[u] /\ raced' = raced /\ r.pc # "extended"
  BY <1>2, <1>3, <1>4 DEF Reasoned
<1>5. CASE StartRequest(a) \/ Publish(a)
  BY <1>4, <1>5 DEF StartRequest, CreateUser, ReadUser, Begin, Publish
<1>6. CASE LoseRequest(a)
  <2>1. CASE r.pc # "extended"
    BY <1>4, <1>6, <2>1 DEF LoseRequest
  <2>2. CASE r.pc = "extended" /\ r.user # u
    <3>1. Extended => Extended'
      BY <1>1, <1>6, <2>2 DEF LoseRequest
    <3>2. QED
      BY <1>2, <1>6, <3>1 DEF LoseRequest, Reasoned
  <2>3. CASE r.pc = "extended" /\ r.user = u
    BY <1>6, <2>3 DEF LoseRequest, Reasoned
  <2>4. QED
    BY <2>1, <2>2, <2>3
<1>7. CASE WriteUser(a)
  <2>1. r.pc # "extended" /\ raced \subseteq raced'
    BY <1>7 DEF WriteUser
  <2>2. CASE r.user # u \/ user[r.user] = Null
    BY <1>1, <1>2, <1>3, <1>7, <2>1, <2>2 DEF WriteUser, Reasoned
  <2>3. CASE r.user = u /\ user[u] # Null
    <3>1. CASE Stale(r) \/ Contradicts(r)
      BY <1>7, <2>3, <3>1 DEF WriteUser, Reasoned
    <3>2. CASE r.op = "delete"
      BY <1>1, <1>7, <2>3, <3>2 DEF WriteUser, Reasoned, Written
    <3>3. CASE r.op # "delete" /\ ~Stale(r) /\ ~Contradicts(r)
      <4> DEFINE row == user[u]
                 new == Written(r, row)
      <4>1. user'[u] = new
        BY <1>1, <1>7, <2>3 DEF WriteUser
      <4>2. /\ r.pc # "idle" /\ r.op \notin {"create", "bulkExtend", "delete"} /\ row \in Row
            /\ [row EXCEPT !.used = 0, !.expired = FALSE]
                 = [r.read EXCEPT !.used = 0, !.expired = FALSE]
        BY <1>1, <1>7, <2>3, <3>3 DEF WriteUser, Stale
      <4>3. /\ new.status = "LIMITED" => row.status = "LIMITED" /\ (UsedUp(row) => UsedUp(new))
            /\ new.status = "EXPIRED" => row.status = "EXPIRED" /\ (row.expired => new.expired)
        BY <1>1, <3>3, <4>2, FreshWrites
      <4> HIDE DEF new
      <4>4. UsedUp(user[u])' = UsedUp(new)
        BY <4>1 DEF UsedUp
      <4>5. QED
        BY <1>2, <1>3, <2>1, <2>3, <4>1, <4>3, <4>4 DEF Reasoned
    <3>4. QED
      BY <3>1, <3>2, <3>3
  <2>4. QED
    BY <2>2, <2>3
<1>8. ASSUME NEW row \in NewRows, InsertUser(a, row)
      PROVE  Reasoned(u)'
  <2>1. CASE r.user # u \/ u \in created
    BY <1>1, <1>2, <1>3, <1>8, <2>1 DEF InsertUser, Reasoned
  <2>2. CASE r.user = u /\ u \notin created
    <3>1. user'[u] = row /\ (Founded(row) \/ u \in raced')
      BY <1>1, <1>8, <2>2 DEF InsertUser
    <3>2. QED
      BY <3>1 DEF Reasoned, Founded, UsedUp
  <2>3. QED
    BY <2>1, <2>2
<1>9. CASE ExtendDate(a)
  <2>1. CASE r.user # u \/ user[u] = Null
    BY <1>1, <1>2, <1>3, <1>9, <2>1 DEF ExtendDate, Reasoned
  <2>2. CASE r.user = u /\ user[u] # Null
    <3>1. req'[a].pc = "extended" /\ req'[a].user = u
      BY <1>1, <1>9, <2>2 DEF ExtendDate, Request
    <3>2. /\ user'[u].status = user[u].status /\ user'[u].limit = user[u].limit
          /\ user'[u].used = user[u].used /\ user'[u] # Null
      <4>1. PICK expired \in {user[u].expired, FALSE} :
              user' = [user EXCEPT ![u].expired = expired]
        BY <1>9, <2>2 DEF ExtendDate
      <4>2. user'[u] = [user[u] EXCEPT !.expired = expired] /\ user[u] \in Row
        BY <1>1, <2>2, <4>1
      <4>3. user'[u] \in Row
        BY <4>2 DEF Row
      <4>4. QED
        BY <4>2, <4>3, UserConstants DEF Row
    <3>3. QED
      BY <1>2, <1>9, <2>2, <3>1, <3>2 DEF ExtendDate, Reasoned, UsedUp
  <2>3. QED
    BY <2>1, <2>2
<1>10. CASE SyncExpired(a)
  <2>1. \A b \in Admins \ {a} : req'[b] = req[b]
    BY <1>1, <1>10 DEF SyncExpired
  <2>2. r.user # u => (Extended => Extended')
    BY <1>10, <2>1 DEF SyncExpired
  <2>3. CASE r.user # u
    BY <1>1, <1>2, <1>10, <2>2, <2>3 DEF SyncExpired, Reasoned
  <2>4. CASE r.user = u
    BY <1>1, <1>2, <1>10, <2>4 DEF SyncExpired, Reasoned, UsedUp, Row
  <2>5. QED
    BY <2>3, <2>4
<1>11. QED
  BY <1>5, <1>6, <1>7, <1>8, <1>9, <1>10 DEF RequestStep

\* So do the watchdog and the reset.
LEMMA JobReasons ==
  ASSUME TypeInv, NEW u \in Users, Reasoned(u),
         \/ \E status \in Statuses : DeleteByStatus(status)
         \/ \E v \in Users : Use(v) \/ Expire(v)
         \/ FindExpiredUsers \/ FindExceededUsers
         \/ SelectUsersToReset \/ ResetUserTraffic \/ ResetLimitedUserTraffic
         \/ FireReset \/ LoseReset
  PROVE  Reasoned(u)'
<1>1. user[u] \in Row \cup {Null} /\ user \in [Users -> Row \cup {Null}]
  BY DEF TypeInv, RowsOK
<1>2. req' = req /\ raced \subseteq raced'
  BY DEF DeleteByStatus, Use, Expire, FindExpiredUsers, FindExceededUsers, Sweep,
         SelectUsersToReset, ResetUserTraffic, ResetLimitedUserTraffic, FireReset, LoseReset
<1>3. CASE user'[u] = user[u] /\ reset.pc # "batched"
  BY <1>2, <1>3 DEF Reasoned
<1>4. CASE \E status \in Statuses : DeleteByStatus(status)
  BY <1>1, <1>2, <1>4 DEF DeleteByStatus, jobs, Reasoned
<1>5. CASE \E v \in Users : Use(v)
  <2>1. PICK v \in Users : Use(v)
    BY <1>5
  <2>2. reset' = reset /\ user' = [user EXCEPT ![v].used = @ + 1]
    BY <2>1 DEF Use, jobs
  <2>3. CASE v = u
    <3>1. user[u] \in Row
      BY <1>1, <2>1, <2>3 DEF Use
    <3>2. /\ user'[u].status = user[u].status /\ user'[u].limit = user[u].limit
          /\ user'[u].used = user[u].used + 1 /\ user'[u].expired = user[u].expired
      BY <1>1, <2>2, <2>3, <3>1 DEF Row
    <3>3. UsedUp(user[u]) => UsedUp(user[u])'
      BY <3>1, <3>2 DEF UsedUp, Row
    <3>4. QED
      BY <1>2, <2>1, <2>2, <2>3, <3>2, <3>3 DEF Reasoned, Use
  <2>4. CASE v # u
    BY <1>1, <1>2, <2>2, <2>4 DEF Reasoned
  <2>5. QED
    BY <2>3, <2>4
<1>6. CASE \E v \in Users : Expire(v)
  BY <1>1, <1>2, <1>6 DEF Expire, jobs, Reasoned, UsedUp, Row
<1>7. CASE FindExpiredUsers
  BY <1>1, <1>2, <1>7 DEF FindExpiredUsers, Sweep, Overdue, Reasoned, UsedUp, Row
<1>8. CASE FindExceededUsers
  BY <1>1, <1>2, <1>8 DEF FindExceededUsers, Sweep, Exceeded, Reasoned, UsedUp, Row
<1>9. CASE SelectUsersToReset \/ FireReset
  BY <1>3, <1>9 DEF SelectUsersToReset, FireReset
<1>10. CASE LoseReset
  BY <1>2, <1>3, <1>10 DEF LoseReset, Reasoned
<1>11. CASE ResetUserTraffic
  <2>1. reset'.pc = "batched" /\ reset'.users = reset.users
    BY <1>11 DEF ResetUserTraffic, TypeInv, JobsOK
  <2>2. CASE u \in reset.users /\ user[u] # Null
    BY <1>1, <1>2, <1>11, <2>1, <2>2 DEF ResetUserTraffic, Reasoned, Row
  <2>3. CASE ~(u \in reset.users /\ user[u] # Null)
    BY <1>1, <1>2, <1>3, <1>11, <2>3 DEF ResetUserTraffic
  <2>4. QED
    BY <2>2, <2>3
<1>12. CASE ResetLimitedUserTraffic
  BY <1>1, <1>2, <1>12 DEF ResetLimitedUserTraffic, Reasoned, Row, UsedUp
<1>13. QED
  BY <1>4, <1>5, <1>6, <1>7, <1>8, <1>9, <1>10, <1>11, <1>12

\* Every LIMITED user has used up his limit and every EXPIRED one is past his
\* date, or will be freed, or a write raced with another on record.
THEOREM StatusesHaveReasons == Spec => []StatusHasReason
<1> DEFINE Inv == TypeInv /\ \A u \in Users : Reasoned(u)
<1>1. Init => Inv
  <2>1. ASSUME Init PROVE \A u \in Users : Reasoned(u)
    BY <2>1 DEF Init, Reasoned, Founded
  <2>2. QED
    BY <2>1, TypeInit
<1>2. Inv /\ [Next]_vars => Inv'
  <2> SUFFICES ASSUME Inv, [Next]_vars PROVE Inv'
    OBVIOUS
  <2>1. TypeInv'
    BY TypeStep
  <2>2. ASSUME NEW u \in Users PROVE Reasoned(u)'
    <3>1. CASE user' = user /\ reset' = reset /\ req' = req /\ raced' = raced
      BY <3>1 DEF Reasoned
    <3>2. CASE \E a \in Admins : StartRequest(a) \/ RequestStep(a) \/ LoseRequest(a)
      BY <3>2, RequestReasons
    <3>3. CASE \/ \E status \in Statuses : DeleteByStatus(status)
               \/ \E v \in Users : Use(v) \/ Expire(v)
               \/ FindExpiredUsers \/ FindExceededUsers
               \/ SelectUsersToReset \/ ResetStep \/ LoseReset
      BY <3>3, JobReasons DEF ResetStep
    <3>4. CASE \/ \E k \in DOMAIN sweep : FireEvents(k) \/ LoseSweep(k)
               \/ \E i \in BagToSet(work) : WorkStep(i) \/ LoseWork(i)
               \/ \E n \in Nodes :
                    StartNode(n) \/ NodeStep(n) \/ FailStart(n) \/ NodeDown(n) \/ NodeBack(n)
               \/ UNCHANGED vars
      BY <3>1, <3>4 DEF FireEvents, LoseSweep, WorkStep, FireUserEvent, LoadUser, AddToNodes,
         RemoveFromNodes, CallNode, LoseWork, StartNode, NodeStep, ReadUsers, FinishStart,
         FailStart, NodeDown, NodeBack, vars, jobs
    <3>5. QED
      BY <3>2, <3>3, <3>4 DEF Next, Watchdog, Failure
  <2>3. QED
    BY <2>1, <2>2
<1>3. Inv => StatusHasReason
  BY DEF Reasoned, StatusHasReason
<1>4. QED
  BY <1>1, <1>2, <1>3, PTL DEF Spec

(***************************************************************************)
(* Nodes and rows                                                          *)
(***************************************************************************)

Steps == {"event", "fired", "loaded", "job"}

\* What a node should let u in with, given his row and the resets announced.
Access(u, n) ==
  IF user[u] # Null /\ (user[u].status = "ACTIVE" \/ Resets(u)) /\ n \in Reached(user[u].squads)
    THEN user[u].key ELSE Null

LEMMA AccessIs == RowsOK => \A u \in Users, n \in Nodes : Wanted(Promised(u), n) = Access(u, n)
<1> SUFFICES ASSUME RowsOK, NEW u \in Users, NEW n \in Nodes
             PROVE  Wanted(Promised(u), n) = Access(u, n)
  OBVIOUS
<1>1. user[u] \in Row \cup {Null}
  BY DEF RowsOK
<1>2. CASE user[u] # Null /\ Resets(u)
  <2>1. [user[u] EXCEPT !.status = "ACTIVE"] \in Row
    BY <1>1, <1>2 DEF Row, Statuses
  <2>2. QED
    BY <1>1, <1>2, <2>1, UserConstants DEF Promised, Wanted, Access, Row
<1>3. CASE ~(user[u] # Null /\ Resets(u))
  BY <1>3 DEF Promised, Wanted, Access
<1>4. QED
  BY <1>2, <1>3

LEMMA AccessIsNext ==
  RowsOK' => (\A u \in Users, n \in Nodes : Wanted(Promised(u), n) = Access(u, n))'
BY AccessIs, PTL

\* What is not on record.
Agreed(u, n) ==
  /\ \A i \in BagToSet(work) : i.user = u => Agrees(i, n, Promised(u))
  /\ snapshot[n] # Null => snapshot[n][u] = Wanted(Promised(u), n)
  /\ \A a \in Admins : req[a].user = u /\ Early(a) => ~Stale(req[a])

LEMMA Uncontradicted == \A u \in Users, n \in Nodes : <<u, n>> \notin Contradicted => Agreed(u, n)
<1> SUFFICES ASSUME NEW u \in Users, NEW n \in Nodes, <<u, n>> \notin Contradicted
             PROVE  Agreed(u, n)
  OBVIOUS
<1>1. /\ \A i \in InFlight(u) : Agrees(i, n, Promised(u))
      /\ snapshot[n] # Null => snapshot[n][u] = Wanted(Promised(u), n)
      /\ \A a \in Admins : req[a].user = u /\ Early(a) => ~Stale(req[a])
  BY DEF Contradicted
<1>2. \A i \in BagToSet(work) : i.user = u => i \in InFlight(u)
  BY DEF InFlight
<1>3. QED
  BY <1>1, <1>2 DEF Agreed

LEMMA UncontradictedNext ==
  (\A u \in Users, n \in Nodes : <<u, n>> \notin Contradicted => Agreed(u, n))'
BY Uncontradicted, PTL

\* What is not on record after a step.
LEMMA Tracked ==
  ASSUME NEW lost, Track(lost), Contradicted \subseteq astray, NEW u \in Users, NEW n \in Nodes,
         <<u, n>> \notin astray'
  PROVE  /\ <<u, n>> \notin astray /\ <<u, n>> \notin lost
         /\ Agreed(u, n) /\ Agreed(u, n)'
BY Uncontradicted, UncontradictedNext DEF Track

\* A change of a row after which what would have made a node agree still will.
Keeps(row, new) ==
  row # Null => /\ new # Null
                /\ InboundsOf(row.squads) # {} =>
                     /\ InboundsOf(new.squads) # {}
                     /\ row.status = "ACTIVE" => new.status = "ACTIVE"

LEMMA TouchesKept ==
  ASSUME NEW i, NEW n, NEW row, NEW new, Keeps(row, new), i.step \in Steps, Touches(i, n, row)
  PROVE  Touches(i, n, new)
<1>1. CASE i.step = "job"
  BY <1>1 DEF Touches
<1>2. CASE i.step = "loaded"
  BY <1>2 DEF Touches
<1>3. CASE i.step = "fired"
  BY <1>3 DEF Touches, Keeps
<1>4. CASE i.step = "event"
  BY <1>4 DEF Touches, Keeps
<1>5. QED
  BY <1>1, <1>2, <1>3, <1>4 DEF Steps

\* What is under way stays under way.
LEMMA TouchingKept ==
  ASSUME WorkOK, NEW u \in Users, NEW n \in Nodes, Keeps(user[u], user'[u]),
         \A i \in BagToSet(work) : i.user = u => i \in BagToSet(work'),
         \A a \in Admins : Pending(a, u) /\ Touches(Event(req[a].event, u), n, user[u])
           => Pending(a, u)' /\ req'[a].event = req[a].event,
         \A k \in DOMAIN sweep : u \in sweep[k] /\ Touches(Fired("remove", u), n, user[u])
           => k \in DOMAIN sweep' /\ u \in sweep'[k],
         reset.pc = "firing" /\ u \in reset.users /\ Touches(Fired("add", u), n, user[u])
           => reset'.pc = "firing" /\ u \in reset'.users,
         Touching(u, n)
  PROVE  Touching(u, n)'
<1>1. ASSUME NEW i \in BagToSet(work), i.user = u, Touches(i, n, user[u])
      PROVE  Touching(u, n)'
  <2>1. i.step \in Steps
    BY DEF WorkOK, ItemOK, Item, Steps
  <2>2. Touches(i, n, user'[u])
    BY <1>1, <2>1, TouchesKept
  <2>3. QED
    BY <1>1, <2>2 DEF Touching
<1>2. ASSUME NEW a \in Admins, Pending(a, u), Touches(Event(req[a].event, u), n, user[u])
      PROVE  Touching(u, n)'
  <2>1. Event(req[a].event, u).step \in Steps
    BY DEF Event, Steps
  <2>2. Touches(Event(req[a].event, u), n, user'[u])
    BY <1>2, <2>1, TouchesKept
  <2>3. QED
    BY <1>2, <2>2 DEF Touching
<1>3. ASSUME NEW kind, Touches(Fired(kind, u), n, user[u])
      PROVE  Touches(Fired(kind, u), n, user'[u])
  <2>1. Fired(kind, u).step \in Steps
    BY DEF Fired, Steps
  <2>2. QED
    BY <1>3, <2>1, TouchesKept
<1>4. ASSUME NEW k \in DOMAIN sweep, u \in sweep[k], Touches(Fired("remove", u), n, user[u])
      PROVE  Touching(u, n)'
  BY <1>3, <1>4 DEF Touching
<1>5. ASSUME reset.pc = "firing", u \in reset.users, Touches(Fired("add", u), n, user[u])
      PROVE  Touching(u, n)'
  BY <1>3, <1>5 DEF Touching
<1>6. QED
  BY <1>1, <1>2, <1>4, <1>5 DEF Touching

\* A step that leaves node and access as they were, and what is under way under way.
LEMMA ServedKept ==
  ASSUME RowsOK, RowsOK', NEW u \in Users, NEW n \in Nodes, Served(u, n),
         <<u, n>> \notin astray, link'[n] = link[n], serves'[n][u] = serves[n][u],
         Access(u, n)' = Access(u, n), Touching(u, n) => Touching(u, n)'
  PROVE  Served(u, n)'
<1>1. /\ Wanted(Promised(u), n) = Access(u, n)
      /\ Wanted(Promised(u), n)' = Access(u, n)'
  BY AccessIs, AccessIsNext
<1>2. Connected(n)' <=> Connected(n)
  BY DEF Connected
<1>3. QED
  BY <1>1, <1>2 DEF Served

\* Only request a moves, and no reset of u's is announced by it before or after.
LEMMA ResetsSame ==
  ASSUME NEW a \in Admins, NEW u \in Users, \A b \in Admins \ {a} : req'[b] = req[b],
         ~(req[a].user = u /\ Early(a)), ~(req'[a].user = u /\ Early(a)')
  PROVE  Resets(u)' <=> Resets(u)
BY DEF Resets, Early

\* The same row, for all that access depends on.
SameRights(row, new) ==
  /\ row = Null <=> new = Null
  /\ row # Null => new.status = row.status /\ new.squads = row.squads /\ new.key = row.key

LEMMA AccessSame ==
  ASSUME NEW u \in Users, NEW n \in Nodes, SameRights(user[u], user'[u]), Resets(u)' <=> Resets(u)
  PROVE  Access(u, n)' = Access(u, n) /\ Keeps(user[u], user'[u])
BY DEF SameRights, Access, Keeps

\* Without inbounds no node is reached.
LEMMA NothingReached == \A squads : InboundsOf(squads) = {} => Reached(squads) = {}
BY DEF Reached

\* Nobody's access, and nothing to add, without inbounds.
LEMMA NoSquads ==
  ASSUME NEW u \in Users, NEW n \in Nodes, user[u] # Null, user'[u] # Null,
         InboundsOf(user[u].squads) = {}, InboundsOf(user'[u].squads) = {}
  PROVE  Access(u, n)' = Access(u, n) /\ Keeps(user[u], user'[u])
<1>1. n \notin Reached(user[u].squads) /\ n \notin Reached(user'[u].squads)
  BY NothingReached
<1>2. QED
  BY <1>1 DEF Access, Keeps

\* When nothing is under way about a user, nothing will change a node.
LEMMA QuietIsDone ==
  ASSUME NEW u \in Users, NEW n \in Nodes, Quiet(u)
  PROVE  ~Touching(u, n) /\ ~Resets(u)
<1>1. InFlight(u) = {} /\ ~Resets(u)
  BY DEF Quiet
<1>2. /\ ~ \E i \in BagToSet(work) : i.user = u
      /\ ~ \E k \in DOMAIN sweep : u \in sweep[k]
      /\ ~(reset.pc = "firing" /\ u \in reset.users)
  BY <1>1 DEF InFlight
<1>3. ASSUME NEW a \in Admins, Pending(a, u) PROVE FALSE
  <2>1. a \in {b \in Admins : req[b].user = u /\ req[b].pc = "written" /\ req[b].event # Null}
    BY <1>3 DEF Pending
  <2>2. Event(req[a].event, u) \in InFlight(u)
    BY <2>1 DEF InFlight
  <2>3. QED
    BY <1>1, <2>2
<1>4. QED
  BY <1>1, <1>2, <1>3 DEF Touching

\* Starts of nodes: a start that ends serves what it has read, if that is not on record.
LEMMA NodeServed ==
  ASSUME TypeInv, TypeInv', Contradicted \subseteq astray, NEW u \in Users, NEW n \in Nodes,
         Served(u, n), NEW m \in Nodes,
         StartNode(m) \/ NodeStep(m) \/ FailStart(m) \/ NodeDown(m) \/ NodeBack(m)
  PROVE  Served(u, n)'
<1> SUFFICES ASSUME <<u, n>> \notin astray', Connected(n)'
             PROVE  Served(u, n)'
  BY DEF Served
<1>1. UNCHANGED <<user, work, req, sweep, reset>>
  BY DEF StartNode, NodeStep, ReadUsers, FinishStart, FailStart, NodeDown, NodeBack, jobs
<1>2. Resets(u)' <=> Resets(u)
  BY <1>1 DEF Resets, Early
<1>3. Access(u, n)' = Access(u, n) /\ Keeps(user[u], user'[u])
  BY <1>1, <1>2, AccessSame DEF SameRights
<1>4. Touching(u, n) => Touching(u, n)'
  BY <1>1, <1>3, TouchingKept DEF TypeInv, Pending, Gone
<1>5. CASE ReadUsers(m)
  <2>1. n # m
    BY <1>5 DEF ReadUsers, Connected
  <2>2. <<u, n>> \notin astray
    BY <1>5, <2>1 DEF ReadUsers
  <2>3. link' = link /\ serves' = serves
    BY <1>5 DEF ReadUsers
  <2>4. QED
    BY <1>3, <1>4, <2>2, <2>3, ServedKept DEF TypeInv
<1>6. CASE FinishStart(m)
  <2>1. <<u, n>> \notin astray /\ Agreed(u, n)
    BY <1>6, Tracked DEF FinishStart
  <2>2. CASE n = m
    <3>1. serves'[n][u] = Wanted(Promised(u), n)
      BY <1>6, <2>1, <2>2 DEF FinishStart, Agreed, TypeInv, NodesOK
    <3>2. serves'[n][u] = Wanted(Promised(u), n)'
      BY <1>3, <3>1, AccessIs, AccessIsNext DEF TypeInv
    <3>3. QED
      BY <3>2 DEF Served
  <2>3. CASE n # m
    <3>1. link'[n] = link[n] /\ serves'[n] = serves[n]
      BY <1>6, <2>3 DEF FinishStart, TypeInv, NodesOK
    <3>2. QED
      BY <1>3, <1>4, <2>1, <3>1, ServedKept DEF TypeInv
  <2>4. QED
    BY <2>2, <2>3
<1>7. CASE StartNode(m) \/ FailStart(m) \/ NodeDown(m) \/ NodeBack(m)
  <2>1. PICK lost : Track(lost) /\ (NodeBack(m) => lost = Users \X {m})
    BY <1>7 DEF StartNode, FailStart, NodeDown, NodeBack
  <2>2. <<u, n>> \notin astray /\ <<u, n>> \notin lost
    BY <2>1, Tracked
  <2>3. n # m
    BY <1>7, <2>1, <2>2 DEF StartNode, FailStart, NodeDown, NodeBack, Connected, TypeInv, NodesOK
  <2>4. link'[n] = link[n] /\ serves'[n] = serves[n]
    BY <1>7, <2>3 DEF StartNode, FailStart, NodeDown, NodeBack, TypeInv, NodesOK
  <2>5. QED
    BY <1>3, <1>4, <2>2, <2>4, ServedKept DEF TypeInv
<1>8. QED
  BY <1>5, <1>6, <1>7 DEF NodeStep

\* On the way from event to node, every item that would have made a node agree
\* gives way to one that will, or does it.
LEMMA WorkServed ==
  ASSUME TypeInv, TypeInv', Contradicted \subseteq astray, NEW u \in Users, NEW n \in Nodes,
         Served(u, n), NEW i \in BagToSet(work), WorkStep(i) \/ LoseWork(i)
  PROVE  Served(u, n)'
<1> SUFFICES ASSUME <<u, n>> \notin astray', Connected(n)'
             PROVE  Served(u, n)'
  BY DEF Served
<1>1. /\ UNCHANGED <<user, req, sweep, reset, link>>
      /\ \E lost : Track(lost) /\ (LoseWork(i) => lost = {i.user} \X (IF i.step = "job" THEN i.nodes ELSE Nodes))
      /\ \E next : Replace(i, next)
  BY DEF WorkStep, FireUserEvent, LoadUser, AddToNodes, RemoveFromNodes, CallNode, LoseWork,
     jobs, nodes
<1>2. /\ <<u, n>> \notin astray /\ Agreed(u, n)
      /\ LoseWork(i) => <<u, n>> \notin {i.user} \X (IF i.step = "job" THEN i.nodes ELSE Nodes)
  BY <1>1, Tracked
<1>3. ItemOK(i) /\ i.user \in Users /\ i.step \in Steps
  BY DEF TypeInv, WorkOK, ItemOK, Item, Steps
<1>4. Resets(u)' <=> Resets(u)
  BY <1>1 DEF Resets, Early
<1>5. Access(u, n)' = Access(u, n) /\ Keeps(user[u], user'[u])
  BY <1>1, <1>4, AccessSame DEF SameRights
<1>6. Wanted(Promised(u), n)' = Wanted(Promised(u), n)
  BY <1>5, AccessIs, AccessIsNext DEF TypeInv
<1>7. BagToSet(work) \ {i} \subseteq BagToSet(work')
  BY <1>1, ReplaceSteps DEF TypeInv, WorkOK
<1>8. CASE /\ serves'[n][u] = serves[n][u]
           /\ \/ i.user # u \/ ~Touches(i, n, user[u])
              \/ \E j \in BagToSet(work') : j.user = u /\ Touches(j, n, user[u])
  <2>1. ASSUME Touching(u, n) PROVE Touching(u, n)'
    <3>1. CASE \E j \in BagToSet(work) : j.user = u /\ Touches(j, n, user[u])
      BY <1>1, <1>7, <1>8, <3>1 DEF Touching
    <3>2. CASE ~ \E j \in BagToSet(work) : j.user = u /\ Touches(j, n, user[u])
      <4>1. CASE \E a \in Admins : Pending(a, u) /\ Touches(Event(req[a].event, u), n, user[u])
        <5>1. PICK a \in Admins : Pending(a, u) /\ Touches(Event(req[a].event, u), n, user[u])
          BY <4>1
        <5>2. Pending(a, u)' /\ Touches(Event(req'[a].event, u), n, user'[u])
          BY <1>1, <5>1 DEF Pending, Gone
        <5>3. QED
          BY <5>2 DEF Touching
      <4>2. CASE ~ \E a \in Admins : Pending(a, u) /\ Touches(Event(req[a].event, u), n, user[u])
        BY <1>1, <2>1, <3>2, <4>2 DEF Touching
      <4>3. QED
        BY <4>1, <4>2
    <3>3. QED
      BY <3>1, <3>2
  <2>2. QED
    BY <1>1, <1>2, <1>5, <1>8, <2>1, ServedKept DEF TypeInv
<1>9. ASSUME NEW next, NEW j \in next, Replace(i, next)
      PROVE  j \in BagToSet(work')
  BY <1>9, ReplaceSteps DEF TypeInv, WorkOK
<1>10. CASE i.user # u
  <2>1. serves' = serves \/ \E m \in Nodes : serves' = [serves EXCEPT ![m][i.user] = i.key]
    BY <1>3 DEF WorkStep, FireUserEvent, LoadUser, AddToNodes, RemoveFromNodes, CallNode,
       LoseWork, nodes, ItemOK, Item
  <2>2. ASSUME NEW m \in Nodes, serves' = [serves EXCEPT ![m][i.user] = i.key]
        PROVE  serves'[n][u] = serves[n][u]
    <3>1. serves[n] \in [Users -> Nat \cup {Null}] /\ serves \in [Nodes -> [Users -> Nat \cup {Null}]]
      BY DEF TypeInv, NodesOK
    <3>2. CASE m = n
      <4>1. serves'[n] = [serves[n] EXCEPT ![i.user] = i.key]
        BY <2>2, <3>1, <3>2
      <4>2. QED
        BY <1>10, <3>1, <4>1
    <3>3. CASE m # n
      BY <2>2, <3>1, <3>3
    <3>4. QED
      BY <3>2, <3>3
  <2>3. serves'[n][u] = serves[n][u]
    BY <2>1, <2>2
  <2>4. QED
    BY <1>8, <1>10, <2>3
<1>11. CASE i.user = u /\ FireUserEvent(i)
  <2>1. serves' = serves /\ i.step = "fired"
    BY <1>11 DEF FireUserEvent, nodes
  <2>2. ASSUME Touches(i, n, user[u])
        PROVE  \E j \in BagToSet(work') : j.user = u /\ Touches(j, n, user[u])
    <3>1. user[u] # Null /\ (i.kind = "add" => InboundsOf(user[u].squads) # {})
      BY <2>1, <2>2 DEF Touches
    <3>2. Replace(i, {Event(i.kind, u)})
      BY <1>11, <3>1 DEF FireUserEvent
    <3>3. Event(i.kind, u) \in BagToSet(work')
      BY <1>9, <3>2
    <3>4. i.kind \in {"add", "remove"}
      BY <1>3 DEF ItemOK, Item
    <3>5. Event(i.kind, u).user = u /\ Touches(Event(i.kind, u), n, user[u])
      BY <3>1, <3>4 DEF Event, Touches
    <3>6. QED
      BY <3>3, <3>5
  <2>3. QED
    BY <1>8, <2>1, <2>2
<1>12. CASE i.user = u /\ LoadUser(i)
  <2>1. serves' = serves /\ i.step = "event" /\ i.kind = "add"
    BY <1>12 DEF LoadUser, nodes
  <2>2. ASSUME Touches(i, n, user[u])
        PROVE  \E j \in BagToSet(work') : j.user = u /\ Touches(j, n, user[u])
    <3> DEFINE j == Loaded(u, user[u].key, Reached(user[u].squads))
    <3>1. user[u] # Null /\ InboundsOf(user[u].squads) # {}
      BY <2>1, <2>2 DEF Touches
    <3>2. Replace(i, {j})
      BY <1>12, <3>1 DEF LoadUser
    <3>3. j \in BagToSet(work')
      BY <1>9, <3>2
    <3>4. j.user = u /\ Touches(j, n, user[u])
      BY DEF Loaded, Touches
    <3>5. QED
      BY <3>3, <3>4
  <2>3. QED
    BY <1>8, <2>1, <2>2
<1>13. CASE i.user = u /\ (AddToNodes(i) \/ RemoveFromNodes(i))
  <2>1. serves' = serves
    BY <1>13 DEF AddToNodes, RemoveFromNodes, nodes
  <2>2. PICK j : /\ j \in {Job("add", u, i.key, n), Job("remove", u, Null, n)}
                 /\ \E next : Replace(i, next) /\ j \in next
    <3>1. CASE AddToNodes(i)
      <4> DEFINE next == {IF m \in i.nodes THEN Job("add", u, i.key, m) ELSE Job("remove", u, Null, m) :
                            m \in {l \in Nodes : Connected(l)}}
      <4>1. Replace(i, next)
        BY <1>13, <3>1 DEF AddToNodes
      <4>2. Connected(n)
        BY <1>1 DEF Connected
      <4>3. (IF n \in i.nodes THEN Job("add", u, i.key, n) ELSE Job("remove", u, Null, n)) \in next
        BY <4>2
      <4> HIDE DEF next
      <4>4. QED
        BY <4>1, <4>3
    <3>2. CASE RemoveFromNodes(i)
      <4> DEFINE next == {Job("remove", u, Null, m) : m \in {l \in Nodes : link[l].connected}}
      <4>1. Replace(i, next)
        BY <1>13, <3>2 DEF RemoveFromNodes
      <4>2. Job("remove", u, Null, n) \in next
        BY <1>1 DEF Connected
      <4> HIDE DEF next
      <4>3. QED
        BY <4>1, <4>2
    <3>3. QED
      BY <1>13, <3>1, <3>2
  <2>3. j \in BagToSet(work')
    BY <1>9, <2>2
  <2>4. j.step = "job" /\ j.user = u /\ j.nodes = {n}
    BY <2>2 DEF Job
  <2>5. Touches(j, n, user[u])
    BY <2>4 DEF Touches
  <2>6. QED
    BY <1>8, <2>1, <2>3, <2>4, <2>5
<1>14. CASE i.user = u /\ CallNode(i)
  <2>1. PICK m \in Nodes : i.nodes = {m} /\ serves' = [serves EXCEPT ![m][u] = i.key] /\ i.step = "job"
    BY <1>3, <1>14 DEF CallNode, ItemOK
  <2>2. CASE m # n
    <3>1. serves'[n][u] = serves[n][u]
      BY <2>1, <2>2 DEF TypeInv, NodesOK
    <3>2. ~Touches(i, n, user[u])
      BY <2>1, <2>2 DEF Touches
    <3>3. QED
      BY <1>8, <3>1, <3>2
  <2>3. CASE m = n
    <3>1. serves'[n][u] = i.key
      BY <2>1, <2>3 DEF TypeInv, NodesOK
    <3>2. Agrees(i, n, Promised(u))
      BY <1>2, <1>14 DEF Agreed
    <3>3. Wanted(Promised(u), n) = i.key
      BY <1>3, <2>1, <2>3, <3>2 DEF Agrees, ItemOK, Item
    <3>4. QED
      BY <1>6, <3>1, <3>3 DEF Served
  <2>4. QED
    BY <2>2, <2>3
<1>15. CASE i.user = u /\ LoseWork(i)
  <2>1. i.step = "job" /\ n \notin i.nodes /\ serves' = serves
    BY <1>2, <1>15 DEF LoseWork, nodes
  <2>2. ~Touches(i, n, user[u])
    BY <2>1 DEF Touches
  <2>3. QED
    BY <1>8, <2>1, <2>2
<1>16. QED
  BY <1>10, <1>11, <1>12, <1>13, <1>14, <1>15 DEF WorkStep

\* The jobs that announce changes of many rows: what they announce goes on as
\* events, or is on record as lost.
LEMMA JobServed ==
  ASSUME TypeInv, TypeInv', Contradicted \subseteq astray, NEW u \in Users, NEW n \in Nodes,
         Served(u, n),
         \/ \E k \in DOMAIN sweep : FireEvents(k) \/ LoseSweep(k)
         \/ SelectUsersToReset \/ FireReset \/ LoseReset
  PROVE  Served(u, n)'
<1> SUFFICES ASSUME <<u, n>> \notin astray'
             PROVE  Served(u, n)'
  BY DEF Served
<1>1. UNCHANGED <<user, req, link, serves>> /\ \E lost : Track(lost)
  BY DEF FireEvents, LoseSweep, SelectUsersToReset, FireReset, LoseReset, nodes
<1>2. Resets(u)' <=> Resets(u)
  BY <1>1 DEF Resets, Early
<1>3. Access(u, n)' = Access(u, n) /\ Keeps(user[u], user'[u])
  BY <1>1, <1>2, AccessSame DEF SameRights
<1>4. <<u, n>> \notin astray
  BY <1>1, Tracked
<1>5. \A a \in Admins : Pending(a, u) => Pending(a, u)' /\ req'[a].event = req[a].event
  BY <1>1 DEF Pending, Gone
<1> SUFFICES ASSUME Touching(u, n) PROVE Touching(u, n)'
  BY <1>1, <1>3, <1>4, ServedKept DEF TypeInv
<1>6. ASSUME NEW i, i \in BagToSet(work'), i.user = u, Touches(i, n, user[u])
      PROVE  Touching(u, n)'
  BY <1>1, <1>6 DEF Touching
<1>7. CASE \E k \in DOMAIN sweep : FireEvents(k)
  <2>1. PICK k \in DOMAIN sweep : FireEvents(k)
    BY <1>7
  <2>2. BagToSet(work') = BagToSet(work) \cup {Fired("remove", v) : v \in sweep[k]}
    BY <2>1, AddSteps DEF FireEvents, TypeInv, WorkOK
  <2>3. CASE u \in sweep[k] /\ Touches(Fired("remove", u), n, user[u])
    <3>1. Fired("remove", u) \in BagToSet(work')
      BY <2>2, <2>3
    <3>2. QED
      BY <1>6, <2>3, <3>1 DEF Fired
  <2>4. CASE ~(u \in sweep[k] /\ Touches(Fired("remove", u), n, user[u]))
    <3>1. reset' = reset /\ \A j \in DOMAIN sweep \ {k} : j \in DOMAIN sweep' /\ sweep'[j] = sweep[j]
      BY <2>1 DEF FireEvents, TypeInv, JobsOK
    <3>2. QED
      BY <1>3, <1>5, <2>2, <2>4, <3>1, TouchingKept DEF TypeInv
  <2>5. QED
    BY <2>3, <2>4
<1>8. CASE \E k \in DOMAIN sweep : LoseSweep(k)
  <2>1. PICK k \in DOMAIN sweep : LoseSweep(k)
    BY <1>8
  <2>2. u \notin sweep[k]
    BY <2>1, Tracked DEF LoseSweep, Everywhere
  <2>3. /\ reset' = reset /\ work' = work
        /\ \A j \in DOMAIN sweep \ {k} : j \in DOMAIN sweep' /\ sweep'[j] = sweep[j]
    BY <2>1 DEF LoseSweep, TypeInv, JobsOK
  <2>4. QED
    BY <1>3, <1>5, <2>2, <2>3, TouchingKept DEF TypeInv
<1>9. CASE SelectUsersToReset
  <2>1. work' = work /\ sweep' = sweep /\ reset.pc # "firing"
    BY <1>9 DEF SelectUsersToReset
  <2>2. QED
    BY <1>3, <1>5, <2>1, TouchingKept DEF TypeInv
<1>10. CASE FireReset
  <2>1. BagToSet(work') = BagToSet(work) \cup {Fired("add", v) : v \in reset.users} /\ sweep' = sweep
    BY <1>10, AddSteps DEF FireReset, TypeInv, WorkOK
  <2>2. CASE u \in reset.users /\ Touches(Fired("add", u), n, user[u])
    <3>1. Fired("add", u) \in BagToSet(work')
      BY <2>1, <2>2
    <3>2. QED
      BY <1>6, <2>2, <3>1 DEF Fired
  <2>3. CASE ~(u \in reset.users /\ Touches(Fired("add", u), n, user[u]))
    BY <1>3, <1>5, <2>1, <2>3, TouchingKept DEF TypeInv
  <2>4. QED
    BY <2>2, <2>3
<1>11. CASE LoseReset
  <2>1. work' = work /\ sweep' = sweep /\ ~(reset.pc = "firing" /\ u \in reset.users)
    BY <1>11, Tracked DEF LoseReset, Everywhere
  <2>2. QED
    BY <1>3, <1>5, <2>1, TouchingKept DEF TypeInv
<1>12. QED
  BY <1>7, <1>8, <1>9, <1>10, <1>11

\* A row that is changed in place by somebody else than a request.
LEMMA RowServed ==
  ASSUME TypeInv, TypeInv', Contradicted \subseteq astray, NEW u \in Users, NEW n \in Nodes,
         Served(u, n),
         \/ \E status \in Statuses : DeleteByStatus(status)
         \/ \E v \in Users : Use(v) \/ Expire(v)
         \/ FindExpiredUsers \/ FindExceededUsers
         \/ ResetUserTraffic \/ ResetLimitedUserTraffic
  PROVE  Served(u, n)'
<1> SUFFICES ASSUME <<u, n>> \notin astray'
             PROVE  Served(u, n)'
  BY DEF Served
<1>1. UNCHANGED <<req, work, link, serves>> /\ \E lost : Track(lost)
  BY DEF DeleteByStatus, Use, Expire, FindExpiredUsers, FindExceededUsers, Sweep,
     ResetUserTraffic, ResetLimitedUserTraffic, nodes
<1>2. Resets(u)' <=> Resets(u)
  BY <1>1 DEF Resets, Early
<1>3. <<u, n>> \notin astray
  BY <1>1, Tracked
<1>4. user \in [Users -> Row \cup {Null}] /\ user[u] \in Row \cup {Null}
  BY DEF TypeInv, RowsOK
<1>5. ASSUME Keeps(user[u], user'[u])
      PROVE  \A a \in Admins : Pending(a, u) => Pending(a, u)' /\ req'[a].event = req[a].event
  BY <1>1, <1>5 DEF Pending, Gone, Keeps
<1>6. ASSUME Keeps(user[u], user'[u]),
             \A k \in DOMAIN sweep : u \in sweep[k] => k \in DOMAIN sweep' /\ u \in sweep'[k],
             reset.pc = "firing" /\ u \in reset.users => reset'.pc = "firing" /\ u \in reset'.users
      PROVE  Touching(u, n) => Touching(u, n)'
  BY <1>1, <1>5, <1>6, TouchingKept DEF TypeInv
<1>7. ASSUME SameRights(user[u], user'[u]),
             \A k \in DOMAIN sweep : u \in sweep[k] => k \in DOMAIN sweep' /\ u \in sweep'[k],
             reset.pc = "firing" /\ u \in reset.users => reset'.pc = "firing" /\ u \in reset'.users
      PROVE  Served(u, n)'
  <2>1. Access(u, n)' = Access(u, n) /\ Keeps(user[u], user'[u])
    BY <1>2, <1>7, AccessSame
  <2>2. QED
    BY <1>1, <1>3, <1>6, <1>7, <2>1, ServedKept DEF TypeInv
<1>8. CASE \E v \in Users : Use(v) \/ Expire(v)
  <2>1. PICK v \in Users : Use(v) \/ Expire(v)
    BY <1>8
  <2>2. UNCHANGED <<sweep, reset>> /\ user[v] # Null
    BY <2>1 DEF Use, Expire, jobs
  <2>3. SameRights(user[u], user'[u])
    <3>1. CASE v # u
      BY <1>4, <2>1, <3>1 DEF Use, Expire, SameRights
    <3>2. CASE v = u
      <4>1. user[u] \in Row
        BY <1>4, <2>2, <3>2
      <4>2. CASE Use(v)
        <5>1. user'[u] = [user[u] EXCEPT !.used = @ + 1]
          BY <1>4, <3>2, <4>2 DEF Use
        <5>2. user'[u] \in Row
          BY <4>1, <5>1 DEF Row
        <5>3. QED
          BY <4>1, <5>1, <5>2, UserConstants DEF Row, SameRights
      <4>3. CASE Expire(v)
        <5>1. user'[u] = [user[u] EXCEPT !.expired = TRUE]
          BY <1>4, <3>2, <4>3 DEF Expire
        <5>2. user'[u] \in Row
          BY <4>1, <5>1 DEF Row
        <5>3. QED
          BY <4>1, <5>1, <5>2, UserConstants DEF Row, SameRights
      <4>4. QED
        BY <2>1, <4>2, <4>3
    <3>3. QED
      BY <3>1, <3>2
  <2>4. QED
    BY <1>7, <2>2, <2>3
<1>9. CASE ResetUserTraffic
  <2>1. sweep' = sweep /\ reset.pc # "firing"
    BY <1>9 DEF ResetUserTraffic
  <2>2. SameRights(user[u], user'[u])
    <3>1. CASE u \in reset.users /\ user[u] # Null
      <4>1. user'[u] = [user[u] EXCEPT !.used = 0] /\ user[u] \in Row
        BY <1>4, <1>9, <3>1 DEF ResetUserTraffic
      <4>2. user'[u] \in Row
        BY <4>1 DEF Row
      <4>3. QED
        BY <4>1, <4>2, UserConstants DEF Row, SameRights
    <3>2. CASE ~(u \in reset.users /\ user[u] # Null)
      BY <1>4, <1>9, <3>2 DEF ResetUserTraffic, SameRights
    <3>3. QED
      BY <3>1, <3>2
  <2>3. QED
    BY <1>7, <2>1, <2>2
<1>10. CASE FindExpiredUsers \/ FindExceededUsers
  <2>1. PICK k \in DOMAIN sweep, status \in Statuses, due \in SUBSET Users :
          Sweep(k, status, due) /\ \A v \in due : user[v] # Null
    BY <1>10 DEF FindExpiredUsers, FindExceededUsers, TypeInv, JobsOK, Statuses
  <2>2. sweep[k] = {} /\ sweep' = [sweep EXCEPT ![k] = due] /\ reset' = reset
    BY <2>1 DEF Sweep
  <2>3. CASE u \in due
    <3>1. user[u] \in Row /\ user'[u] = [user[u] EXCEPT !.status = status]
      BY <1>4, <2>1, <2>3 DEF Sweep
    <3>2. user'[u] # Null
      <4>1. user'[u] \in Row
        BY <3>1 DEF Row
      <4>2. QED
        BY <4>1, UserConstants
    <3>3. Touches(Fired("remove", u), n, user'[u])
      BY <3>2 DEF Touches, Fired
    <3>4. k \in DOMAIN sweep' /\ u \in sweep'[k]
      BY <2>2, <2>3
    <3>5. QED
      BY <3>3, <3>4 DEF Touching, Served
  <2>4. CASE u \notin due
    <3>1. user'[u] = user[u]
      BY <2>1, <2>4 DEF Sweep
    <3>2. QED
      BY <1>7, <2>2, <3>1 DEF SameRights
  <2>5. QED
    BY <2>3, <2>4
<1>11. CASE ResetLimitedUserTraffic
  <2>1. /\ sweep' = sweep /\ reset.pc # "firing" /\ reset'.pc = "firing"
        /\ reset'.users = {v \in Users : user[v] # Null /\ user[v].status = "LIMITED"}
    BY <1>11 DEF ResetLimitedUserTraffic
  <2>2. CASE u \in reset'.users
    <3>1. user[u] \in Row /\ user'[u] = [user[u] EXCEPT !.used = 0, !.status = "ACTIVE"]
      BY <1>4, <1>11, <2>1, <2>2 DEF ResetLimitedUserTraffic
    <3>2. user'[u] # Null /\ user'[u].squads = user[u].squads
      <4>1. "ACTIVE" \in Statuses
        BY DEF Statuses
      <4>2. user'[u] \in Row
        BY <3>1, <4>1, ChangedRows
      <4>3. QED
        BY <3>1, <4>2, UserConstants DEF Row
    <3>3. CASE InboundsOf(user[u].squads) # {}
      BY <2>1, <2>2, <3>2, <3>3 DEF Touches, Fired, Touching, Served
    <3>4. CASE InboundsOf(user[u].squads) = {}
      <4>1. Access(u, n)' = Access(u, n) /\ Keeps(user[u], user'[u])
        BY <2>1, <2>2, <3>2, <3>4, NoSquads
      <4>2. QED
        BY <1>1, <1>3, <1>6, <2>1, <4>1, ServedKept DEF TypeInv
    <3>5. QED
      BY <3>3, <3>4
  <2>3. CASE u \notin reset'.users
    <3>1. user'[u] = user[u]
      BY <1>11, <2>1, <2>3 DEF ResetLimitedUserTraffic
    <3>2. QED
      BY <1>7, <2>1, <3>1 DEF SameRights
  <2>4. QED
    BY <2>2, <2>3
<1>12. CASE \E status \in Statuses : DeleteByStatus(status)
  <2>1. PICK status \in Statuses : DeleteByStatus(status)
    BY <1>12
  <2>2. UNCHANGED <<sweep, reset>>
    BY <2>1 DEF DeleteByStatus, jobs
  <2>3. CASE user[u] # Null /\ user[u].status = status
    <3>1. user'[u] = Null /\ status # "ACTIVE" /\ Quiet(u)
      BY <2>1, <2>3, Tracked DEF DeleteByStatus, Everywhere
    <3>2. ~Touching(u, n) /\ ~Resets(u)
      BY <3>1, QuietIsDone
    <3>3. Access(u, n)' = Null /\ Access(u, n) = Null
      BY <1>2, <2>3, <3>1, <3>2 DEF Access
    <3>4. QED
      BY <1>1, <1>3, <3>2, <3>3, ServedKept DEF TypeInv
  <2>4. CASE ~(user[u] # Null /\ user[u].status = status)
    <3>1. user'[u] = user[u]
      BY <2>1, <2>4 DEF DeleteByStatus
    <3>2. QED
      BY <1>7, <2>2, <3>1 DEF SameRights
  <2>5. QED
    BY <2>3, <2>4
<1>13. QED
  BY <1>8, <1>9, <1>10, <1>11, <1>12

\* A request that has read a user has read one that was created.
CreatedOK ==
  \A a \in Admins : req[a].pc = "checked" /\ req[a].op # "create" => req[a].user \in created

\* Other requests and jobs go on as they were.
LEMMA OthersTouch ==
  ASSUME TypeInv, NEW u \in Users, NEW n \in Nodes, NEW a \in Admins, Keeps(user[u], user'[u]),
         \A b \in Admins \ {a} : req'[b] = req[b], UNCHANGED <<sweep, reset>>,
         BagToSet(work) \subseteq BagToSet(work'),
         ~(Pending(a, u) /\ Touches(Event(req[a].event, u), n, user[u]))
  PROVE  Touching(u, n) => Touching(u, n)'
<1>1. ASSUME NEW b \in Admins, Pending(b, u), Touches(Event(req[b].event, u), n, user[u])
      PROVE  Pending(b, u)' /\ req'[b].event = req[b].event
  <2>1. b # a
    BY <1>1
  <2>2. req'[b] = req[b]
    BY <2>1
  <2>3. QED
    BY <1>1, <2>2 DEF Pending, Gone, Keeps
<1>2. QED
  BY <1>1, TouchingKept DEF TypeInv

\* What a write from a fresh row does: it tells the nodes what they have to know,
\* or leaves them nothing to know.
LEMMA WriteDecides ==
  ASSUME NEW row \in Row, NEW r \in Request, r.pc # "idle", RequestOK(r),
         r.op \notin {"create", "bulkExtend"},
         [row EXCEPT !.used = 0, !.expired = FALSE] = [r.read EXCEPT !.used = 0, !.expired = FALSE],
         r.op = "update" /\ BecomesDisabled(r.read, r.body) => EventOf(r, row) # Null,
         r.op = "update" /\ NewSquads(r.read, r.body) /\ r.body.squads # {}
           => InboundsOf(r.body.squads) # {}
  PROVE  LET new   == Written(r, row)
             event == EventOf(r, row)
             early == r.op = "reset" /\ r.read.status = "LIMITED"
         IN \/ event = "remove" /\ (r.op = "disable" => new # Null) /\ r.op \in {"disable", "delete", "update"}
            \/ new # Null /\ event = "add" /\ InboundsOf(new.squads) # {}
            \/ new # Null /\ event = "check" /\ new.status = "ACTIVE" /\ InboundsOf(new.squads) # {}
            \/ new # Null /\ ~early /\ SameRights(row, new)
            \/ new # Null /\ early /\ row.status = "LIMITED" /\ new.status = "ACTIVE"
                 /\ new.squads = row.squads /\ new.key = row.key
            \/ new # Null /\ InboundsOf(row.squads) = {} /\ InboundsOf(new.squads) = {}
            \/ new # Null /\ ~early /\ row.status # "ACTIVE" /\ new.status # "ACTIVE"
                 /\ (new.squads # row.squads \/ new.key # row.key) /\ (InboundsOf(row.squads) # {} => InboundsOf(new.squads) # {})
<1> DEFINE new == Written(r, row)
           event == EventOf(r, row)
<1>1. r.read \in Row
  BY DEF RequestOK
<1>2. /\ r.read.status = row.status /\ r.read.limit = row.limit /\ r.read.squads = row.squads
      /\ r.read.key = row.key
  BY <1>1 DEF Row
<1>3. new \in Row \cup {Null} /\ event \in {"add", "remove", "check", Null}
  BY WrittenTypes
<1>4. row # Null
  BY UserConstants
<1>5. CASE r.op = "delete"
  BY <1>5 DEF EventOf
<1>6. CASE r.op = "disable"
  <2>1. new = [row EXCEPT !.status = "DISABLED"]
    BY <1>6 DEF Written
  <2>2. "DISABLED" \in Statuses
    BY DEF Statuses
  <2>3. [row EXCEPT !.status = "DISABLED"] \in Row
    BY <2>2, ChangedRows
  <2>4. QED
    BY <1>6, <2>1, <2>3, UserConstants DEF EventOf
<1>7. CASE r.op = "enable"
  <2>1. new = [row EXCEPT !.status = "ACTIVE"]
    BY <1>7 DEF Written
  <2>2. new \in Row
    BY <2>1, ChangedRows DEF Statuses
  <2>3. new # Null /\ new.squads = row.squads /\ event = "add"
    BY <1>7, <2>1, <2>2, UserConstants DEF EventOf, Row
  <2>4. QED
    BY <2>3
<1>8. CASE r.op = "extend"
  <2>1. new = [row EXCEPT !.expired = FALSE,
                 !.status = IF r.read.status = "EXPIRED" THEN "ACTIVE" ELSE r.read.status]
    BY <1>8 DEF Written
  <2>2. /\ new.squads = row.squads /\ new.key = row.key
        /\ new.status = IF row.status = "EXPIRED" THEN "ACTIVE" ELSE row.status
    BY <1>2, <2>1 DEF Row
  <2>3. new \in Row
    BY <2>1, <1>1 DEF Row, Statuses
  <2>4. new # Null /\ event = IF row.status = "EXPIRED" THEN "add" ELSE Null
    BY <1>2, <1>8, <2>3, UserConstants DEF EventOf
  <2>5. QED
    BY <1>4, <1>8, <2>2, <2>4 DEF SameRights
<1>9. CASE r.op = "reset"
  <2>1. new = [row EXCEPT !.used = 0, !.status = IF r.read.status = "LIMITED" THEN "ACTIVE" ELSE @]
    BY <1>9 DEF Written
  <2>2. /\ new.squads = row.squads /\ new.key = row.key
        /\ new.status = IF row.status = "LIMITED" THEN "ACTIVE" ELSE row.status
    BY <1>2, <2>1 DEF Row
  <2>3. \A status \in Statuses : [row EXCEPT !.used = 0, !.status = status] \in Row
    BY DEF Row
  <2>4. new # Null
    <3>1. (IF r.read.status = "LIMITED" THEN "ACTIVE" ELSE row.status) \in Statuses
      BY DEF Row, Statuses
    <3>2. [row EXCEPT !.used = 0,
             !.status = IF r.read.status = "LIMITED" THEN "ACTIVE" ELSE row.status] \in Row
      BY <2>3, <3>1
    <3>3. QED
      BY <2>1, <3>2, UserConstants
  <2>5. QED
    BY <1>2, <1>4, <1>9, <2>2, <2>4 DEF SameRights
<1>10. CASE r.op = "revoke"
  <2>1. new = [row EXCEPT !.key = @ + 1]
    BY <1>10 DEF Written
  <2>2. new.squads = row.squads /\ new.key = row.key + 1 /\ new.status = row.status /\ row.key \in Nat
    BY <2>1 DEF Row
  <2>3. new \in Row
    BY <2>1, <2>2 DEF Row
  <2>4. new # Null /\ event = "check" /\ new.key # row.key
    BY <1>10, <2>2, <2>3, UserConstants DEF EventOf
  <2>5. QED
    BY <1>10, <2>2, <2>4
<1>11. CASE r.op = "update"
  <2> DEFINE b == r.body
  <2>1. b \in Body
    BY <1>11 DEF RequestOK
  <2>2. new = Updated(row, r.read, b) /\ event = UpdateEvent(new, r.read, b)
    BY <1>11 DEF Written, EventOf
  <2>3. /\ new.status = IF BecomesActive(r.read, b) THEN "ACTIVE"
                        ELSE IF BecomesDisabled(r.read, b) THEN "DISABLED" ELSE row.status
        /\ new.squads = IF NewSquads(r.read, b) THEN b.squads ELSE row.squads
        /\ new.key = row.key
    BY <2>2 DEF Updated, Row
  <2>4. new # Null
    <3> DEFINE status == IF BecomesActive(r.read, b) THEN "ACTIVE"
                         ELSE IF BecomesDisabled(r.read, b) THEN "DISABLED" ELSE row.status
               limit == Field(b.limit, row.limit)
               expired == (row.expired /\ b.expireAt = Null)
               squads == IF NewSquads(r.read, b) THEN b.squads ELSE row.squads
    <3>1. new = [row EXCEPT !.status = status, !.limit = limit, !.expired = expired, !.squads = squads]
      BY <2>2 DEF Updated
    <3>2. status \in Statuses /\ limit \in Nat /\ expired \in BOOLEAN /\ squads \in SUBSET Squads
      BY <2>1 DEF Row, Body, Statuses, Field, NewSquads
    <3> HIDE DEF new, status, limit, expired, squads
    <3>3. new \in Row
      BY <3>1, <3>2 DEF Row
    <3>4. QED
      BY <3>3, UserConstants
  <2> HIDE DEF new, event
  <2>5. CASE NewSquads(r.read, b)
    <3>1. b.squads # row.squads
      BY <1>2, <2>5 DEF NewSquads
    <3> InboundsOf({}) = {}
      BY DEF InboundsOf
    <3>2. CASE b.squads = {}
      BY <1>11, <2>2, <2>5, <3>2 DEF UpdateEvent, new, event
    <3>3. CASE b.squads # {} /\ new.status = "ACTIVE"
      <4>1. event = "add"
        BY <2>2, <2>5, <3>3 DEF UpdateEvent
      <4>2. InboundsOf(new.squads) # {}
        BY <1>11, <2>3, <2>5, <3>3 DEF new
      <4>3. QED
        BY <2>4, <4>1, <4>2 DEF new, event
    <3>4. CASE b.squads # {} /\ new.status # "ACTIVE"
      <4>1. event = Null
        BY <2>2, <2>5, <3>4 DEF UpdateEvent
      <4>2. ~BecomesDisabled(r.read, b)
        BY <1>11, <4>1 DEF event
      <4>3. row.status # "ACTIVE"
        BY <2>3, <3>4, <4>2
      <4>4. InboundsOf(new.squads) # {} /\ new.squads # row.squads
        BY <1>11, <2>3, <2>5, <3>1, <3>4 DEF new
      <4>5. QED
        BY <1>11, <2>3, <2>4, <2>5, <3>4, <4>3, <4>4 DEF new, event
    <3>5. QED
      BY <3>2, <3>3, <3>4
  <2>6. CASE ~NewSquads(r.read, b)
    <3>1. CASE BecomesDisabled(r.read, b)
      BY <1>11, <2>2, <2>6, <3>1 DEF UpdateEvent, new, event
    <3>2. CASE BecomesActive(r.read, b) /\ ~BecomesDisabled(r.read, b)
      <4>1. event = "add"
        BY <2>2, <2>3, <2>6, <3>2 DEF UpdateEvent
      <4>2. QED
        BY <2>3, <2>4, <2>6, <4>1 DEF new, event
    <3>3. CASE ~BecomesActive(r.read, b) /\ ~BecomesDisabled(r.read, b)
      <4>1. SameRights(row, new)
        BY <1>4, <2>3, <2>4, <2>6, <3>3 DEF SameRights
      <4>2. QED
        BY <1>11, <2>4, <4>1 DEF new, event
    <3>4. QED
      BY <3>1, <3>2, <3>3
  <2>7. QED
    BY <2>5, <2>6
<1>12. QED
  BY <1>5, <1>6, <1>7, <1>8, <1>9, <1>10, <1>11 DEF Request, RequestOK, Ops

\* A write that is not stale, of a user whose announcements nothing contradicts.
LEMMA WriteServed ==
  ASSUME TypeInv, TypeInv', Contradicted \subseteq astray, NEW u \in Users, NEW n \in Nodes,
         Served(u, n), NEW a \in Admins, WriteUser(a)
  PROVE  Served(u, n)'
<1> DEFINE r == req[a]
<1> SUFFICES ASSUME <<u, n>> \notin astray'
             PROVE  Served(u, n)'
  BY DEF Served
<1>1. UNCHANGED <<work, sweep, reset, link, serves>> /\ \E lost : Track(lost)
  BY DEF WriteUser, nodes, jobs
<1>2. <<u, n>> \notin astray /\ Agreed(u, n) /\ Agreed(u, n)'
  BY <1>1, Tracked
<1>3. /\ user \in [Users -> Row \cup {Null}] /\ user[u] \in Row \cup {Null}
      /\ req \in [Admins -> Request] /\ r \in Request /\ RequestOK(r)
      /\ r.pc = "checked" /\ r.user \in Users
  BY DEF TypeInv, RowsOK, RequestsOK, RequestOK, WriteUser
<1>4. \A b \in Admins \ {a} : req'[b] = req[b]
  BY <1>3 DEF WriteUser
<1>5. req'[a].pc # "checked"
  BY <1>3 DEF WriteUser, NoRequest, Request
<1>6. ASSUME Keeps(user[u], user'[u]) PROVE Touching(u, n) => Touching(u, n)'
  BY <1>1, <1>3, <1>4, <1>6, OthersTouch DEF Pending
<1>7. ASSUME Keeps(user[u], user'[u]), Access(u, n)' = Access(u, n)
      PROVE  Served(u, n)'
  BY <1>1, <1>2, <1>6, <1>7, ServedKept DEF TypeInv
<1>8. CASE user[u] = Null
  <2>1. user'[u] = Null
    BY <1>3, <1>8 DEF WriteUser
  <2>2. QED
    BY <1>7, <1>8, <2>1 DEF Keeps, Access
<1>9. CASE user[u] # Null /\ r.user # u
  <2>1. user'[u] = user[u]
    BY <1>3, <1>9 DEF WriteUser
  <2>2. Resets(u)' <=> Resets(u)
    BY <1>4, <1>5, <1>9, ResetsSame DEF Early
  <2>3. QED
    BY <1>7, <2>1, <2>2, AccessSame DEF SameRights
<1>10. CASE user[u] # Null /\ r.user = u
  <2> DEFINE row == user[u]
             new == Written(r, row)
             event == EventOf(r, row)
             early == r.op = "reset" /\ r.read.status = "LIMITED"
  <2>1. user'[u] = new /\ row \in Row
    BY <1>3, <1>10 DEF WriteUser
  <2>2. req'[a] = [r EXCEPT !.pc = "written", !.event = event]
    BY <1>3, <1>10 DEF WriteUser
  <2>3. /\ req'[a].pc = "written" /\ req'[a].event = event /\ req'[a].user = u /\ req'[a].op = r.op
    BY <1>3, <1>10, <2>2 DEF Request
  <2>4. Track(IF Stale(r) \/ (user[r.user] # Null /\ Forgets(r)) THEN Everywhere({r.user}) ELSE {})
    BY DEF WriteUser
  <2>5. <<u, n>> \notin (IF Stale(r) \/ (user[r.user] # Null /\ Forgets(r)) THEN Everywhere({r.user}) ELSE {})
    BY <2>4, Tracked
  <2>6. ~Stale(r) /\ ~Forgets(r)
    BY <1>10, <2>5 DEF Everywhere
  <2>7. /\ [row EXCEPT !.used = 0, !.expired = FALSE] = [r.read EXCEPT !.used = 0, !.expired = FALSE]
        /\ r.op = "update" /\ BecomesDisabled(r.read, r.body) => event # Null
        /\ r.op = "update" /\ NewSquads(r.read, r.body) /\ r.body.squads # {}
             => InboundsOf(r.body.squads) # {}
        /\ r.op \notin {"create", "bulkExtend"}
    BY <1>10, <2>6 DEF Stale, Forgets, WriteUser
  <2>8. Early(a) <=> early
    BY <1>3 DEF Early
  <2>9. /\ Pending(a, u)' <=> event # Null /\ ~(r.op \in {"create", "disable", "enable", "extend", "revoke"} /\ new = Null)
    BY <2>1, <2>3 DEF Pending, Gone
  <2>10. ASSUME Pending(a, u)', Touches(Event(event, u), n, new) PROVE Served(u, n)'
    BY <2>1, <2>3, <2>10 DEF Touching, Served
  <2>11. Null \notin {"add", "remove", "check"}
    BY UserConstants
  <2>12. ~early => (Resets(u)' <=> Resets(u))
    BY <1>4, <1>5, <2>8, ResetsSame DEF Early
  <2>13. \/ event = "remove" /\ (r.op = "disable" => new # Null) /\ r.op \in {"disable", "delete", "update"}
         \/ new # Null /\ event = "add" /\ InboundsOf(new.squads) # {}
         \/ new # Null /\ event = "check" /\ new.status = "ACTIVE" /\ InboundsOf(new.squads) # {}
         \/ new # Null /\ ~early /\ SameRights(row, new)
         \/ new # Null /\ early /\ row.status = "LIMITED" /\ new.status = "ACTIVE"
              /\ new.squads = row.squads /\ new.key = row.key
         \/ new # Null /\ InboundsOf(row.squads) = {} /\ InboundsOf(new.squads) = {}
         \/ new # Null /\ ~early /\ row.status # "ACTIVE" /\ new.status # "ACTIVE"
              /\ (new.squads # row.squads \/ new.key # row.key) /\ (InboundsOf(row.squads) # {} => InboundsOf(new.squads) # {})
    BY <1>3, <2>1, <2>7, WriteDecides
  <2> HIDE DEF row, new, event, early
  <2>14. CASE event = "remove" /\ (r.op = "disable" => new # Null) /\ r.op \in {"disable", "delete", "update"}
    <3>1. Touches(Event(event, u), n, new)
      BY <2>14 DEF Touches, Event
    <3>2. QED
      BY <2>9, <2>10, <2>11, <2>14, <3>1
  <2>15. CASE \/ new # Null /\ event = "add" /\ InboundsOf(new.squads) # {}
              \/ new # Null /\ event = "check" /\ new.status = "ACTIVE" /\ InboundsOf(new.squads) # {}
    <3>1. Touches(Event(event, u), n, new)
      BY <2>15 DEF Touches, Event
    <3>2. QED
      BY <2>9, <2>10, <2>11, <2>15, <3>1
  <2>16. CASE new # Null /\ ~early /\ SameRights(row, new)
    <3>1. SameRights(user[u], user'[u])
      BY <2>1, <2>16 DEF row
    <3>2. QED
      BY <1>7, <2>12, <2>16, <3>1, AccessSame
  <2>17. CASE new # Null /\ early /\ row.status = "LIMITED" /\ new.status = "ACTIVE"
                /\ new.squads = row.squads /\ new.key = row.key
    <3>1. Resets(u)
      BY <1>10, <2>8, <2>17 DEF Resets
    <3>2. Access(u, n)' = Access(u, n)
      BY <1>10, <2>1, <2>17, <3>1 DEF Access, row
    <3>3. Keeps(user[u], user'[u])
      BY <2>1, <2>17 DEF Keeps, row
    <3>4. QED
      BY <1>7, <3>2, <3>3
  <2>18. CASE new # Null /\ InboundsOf(row.squads) = {} /\ InboundsOf(new.squads) = {}
    <3>1. Access(u, n)' = Access(u, n) /\ Keeps(user[u], user'[u])
      BY <1>10, <2>1, <2>18, NoSquads DEF row
    <3>2. QED
      BY <1>7, <3>1
  <2>19. CASE new # Null /\ ~early /\ row.status # "ACTIVE" /\ new.status # "ACTIVE"
                /\ (new.squads # row.squads \/ new.key # row.key) /\ (InboundsOf(row.squads) # {} => InboundsOf(new.squads) # {})
    <3>1. ASSUME NEW b \in Admins, req[b].user = u, Early(b) PROVE FALSE
      <4>1. b # a /\ req'[b] = req[b]
        BY <1>4, <2>8, <2>19, <3>1
      <4>2. Early(b)' /\ req'[b].user = u
        BY <3>1, <4>1 DEF Early
      <4>3. ~Stale(req[b]) /\ ~Stale(req[b])'
        BY <1>2, <3>1, <4>2 DEF Agreed
      <4>4. /\ [row EXCEPT !.used = 0, !.expired = FALSE] = [req[b].read EXCEPT !.used = 0, !.expired = FALSE]
            /\ [new EXCEPT !.used = 0, !.expired = FALSE] = [req[b].read EXCEPT !.used = 0, !.expired = FALSE]
        BY <1>10, <2>1, <2>19, <3>1, <4>1, <4>3 DEF Stale, row
      <4>5. row \in Row /\ new \in Row
        BY <1>3, <1>10, <2>1, <2>19 DEF row, TypeInv, RowsOK
      <4>6. new.squads = row.squads /\ new.key = row.key
        BY <4>4, <4>5 DEF Row
      <4>7. QED
        BY <2>19, <4>6
    <3>2. ~Resets(u) /\ ~Resets(u)'
      BY <2>12, <2>19, <3>1 DEF Resets
    <3>3. Access(u, n)' = Null /\ Access(u, n) = Null
      BY <2>1, <2>19, <3>2 DEF Access, row
    <3>4. Keeps(user[u], user'[u])
      BY <2>1, <2>19 DEF Keeps, row
    <3>5. QED
      BY <1>7, <3>3, <3>4
  <2>20. QED
    BY <2>13, <2>14, <2>15, <2>16, <2>17, <2>18, <2>19
<1>11. QED
  BY <1>8, <1>9, <1>10

\* The other steps of a request.
LEMMA RequestServed ==
  ASSUME TypeInv, TypeInv', CreatedOK, Contradicted \subseteq astray,
         NEW u \in Users, NEW n \in Nodes, Served(u, n), NEW a \in Admins,
         StartRequest(a) \/ RequestStep(a) \/ LoseRequest(a)
  PROVE  Served(u, n)'
<1> DEFINE r == req[a]
<1> SUFFICES ASSUME <<u, n>> \notin astray', ~WriteUser(a)
             PROVE  Served(u, n)'
  BY WriteServed DEF Served
<1>1. UNCHANGED <<sweep, reset, link, serves>> /\ \E lost : Track(lost)
  BY DEF StartRequest, RequestStep, InsertUser, ExtendDate, SyncExpired, Publish, LoseRequest,
     nodes, jobs
<1>2. <<u, n>> \notin astray
  BY <1>1, Tracked
<1>3. /\ user \in [Users -> Row \cup {Null}] /\ user[u] \in Row \cup {Null}
      /\ req \in [Admins -> Request] /\ r \in Request /\ RequestOK(r)
  BY DEF TypeInv, RowsOK, RequestsOK
<1>4. \A b \in Admins \ {a} : req'[b] = req[b]
  BY <1>3 DEF StartRequest, CreateUser, ReadUser, Begin, RequestStep, InsertUser, ExtendDate,
     SyncExpired, Publish, LoseRequest
<1>5. ASSUME Keeps(user[u], user'[u]), BagToSet(work) \subseteq BagToSet(work'),
             ~(Pending(a, u) /\ Touches(Event(r.event, u), n, user[u]))
      PROVE  Touching(u, n) => Touching(u, n)'
  BY <1>1, <1>4, <1>5, OthersTouch
<1>6. ASSUME Keeps(user[u], user'[u]), BagToSet(work) \subseteq BagToSet(work'),
             ~(Pending(a, u) /\ Touches(Event(r.event, u), n, user[u])),
             Access(u, n)' = Access(u, n)
      PROVE  Served(u, n)'
  BY <1>1, <1>2, <1>5, <1>6, ServedKept DEF TypeInv
<1>7. ASSUME SameRights(user[u], user'[u]), BagToSet(work) \subseteq BagToSet(work'),
             ~(Pending(a, u) /\ Touches(Event(r.event, u), n, user[u])),
             ~(r.user = u /\ Early(a)), ~(req'[a].user = u /\ Early(a)')
      PROVE  Served(u, n)'
  <2>1. Resets(u)' <=> Resets(u)
    BY <1>4, <1>7, ResetsSame
  <2>2. QED
    BY <1>6, <1>7, <2>1, AccessSame
<1>8. CASE StartRequest(a)
  <2>1. PICK v \in Users :
          /\ \/ work' = work /\ ~(v = u /\ Early(a)')
             \/ work' = work (+) SetToBag({Event("add", v)}) /\ user[v] # Null
          /\ req'[a].user = v
    <3>1. PICK v \in Users :
            \/ CreateUser(a, v)
            \/ \E op \in Ops \ {"create", "update"} : ReadUser(a, v, op, Null)
            \/ \E body \in Bodies : ReadUser(a, v, "update", body)
      BY <1>8 DEF StartRequest
    <3>2. PICK op \in Ops, body \in Bodies \cup {Null} :
            \/ op = "create" /\ CreateUser(a, v)
            \/ op # "create" /\ ReadUser(a, v, op, body)
      BY <3>1 DEF Ops
    <3>3. req' = [req EXCEPT ![a] = [pc |-> "checked", op |-> op, user |-> v, read |-> user[v],
                                     body |-> IF op = "create" THEN Null ELSE body, event |-> Null]]
      BY <3>2 DEF CreateUser, ReadUser, Begin
    <3>4. req'[a] = [pc |-> "checked", op |-> op, user |-> v, read |-> user[v],
                     body |-> IF op = "create" THEN Null ELSE body, event |-> Null]
      BY <1>3, <3>3
    <3>5. req'[a].user = v /\ req'[a].op = op /\ req'[a].read = user[v]
      BY <3>4
    <3>6. CASE op = "reset" /\ user[v].status = "LIMITED"
      BY <3>2, <3>5, <3>6 DEF ReadUser
    <3>7. CASE ~(op = "reset" /\ user[v].status = "LIMITED")
      BY <3>2, <3>5, <3>7 DEF ReadUser, CreateUser, Early
    <3>8. QED
      BY <3>5, <3>6, <3>7
  <2>2. user' = user /\ r.pc = "idle"
    BY <1>8 DEF StartRequest, CreateUser, ReadUser, Begin
  <2>3. ~Pending(a, u) /\ ~Early(a)
    BY <2>2 DEF Pending, Early
  <2>4. CASE v = u /\ work' = work (+) SetToBag({Event("add", v)}) /\ user[v] # Null
    <3>1. BagToSet(work') = BagToSet(work) \cup {Event("add", u)}
      BY <2>4, AddSteps DEF TypeInv, WorkOK
    <3>2. CASE InboundsOf(user[u].squads) # {}
      <4>1. Event("add", u).user = u /\ Touches(Event("add", u), n, user'[u])
        BY <2>2, <2>4, <3>2 DEF Event, Touches
      <4>2. QED
        BY <3>1, <4>1 DEF Touching, Served
    <3>3. CASE InboundsOf(user[u].squads) = {}
      <4>1. Access(u, n)' = Access(u, n) /\ Keeps(user[u], user'[u])
        BY <2>2, <2>4, <3>3, NoSquads
      <4>2. QED
        BY <1>6, <2>3, <3>1, <4>1
    <3>4. QED
      BY <3>2, <3>3
  <2>5. CASE v # u \/ (work' = work /\ ~(v = u /\ Early(a)'))
    <3>1. BagToSet(work) \subseteq BagToSet(work')
      BY <2>1, AddSteps DEF TypeInv, WorkOK
    <3>2. ~(req'[a].user = u /\ Early(a)')
      BY <2>1, <2>5
    <3>3. QED
      BY <1>7, <2>2, <2>3, <3>1, <3>2 DEF SameRights
  <2>6. QED
    BY <2>1, <2>4, <2>5
<1>9. CASE Publish(a)
  <2>1. user' = user /\ r.pc = "written" /\ req'[a] = NoRequest
    BY <1>3, <1>9 DEF Publish
  <2>2. ~Early(a) /\ ~Early(a)'
    BY <2>1 DEF Early, NoRequest
  <2>3. work' = work \/ \E i : work' = work (+) SetToBag({i})
    BY <1>9 DEF Publish
  <2>4. BagToSet(work) \subseteq BagToSet(work')
    <3>1. ASSUME NEW i, work' = work (+) SetToBag({i}) PROVE BagToSet(work) \subseteq BagToSet(work')
      BY <3>1, AddSteps DEF TypeInv, WorkOK
    <3>2. QED
      BY <2>3, <3>1
  <2>5. CASE Pending(a, u) /\ Touches(Event(r.event, u), n, user[u])
    <3> DEFINE i == Event(IF r.event = "check" THEN "add" ELSE r.event, u)
    <3>1. r.user = u /\ r.event # Null /\ ~Gone(r)
      BY <2>5 DEF Pending
    <3>2. r.event = "check" => user[u].status = "ACTIVE"
      BY <2>5 DEF Touches, Event
    <3>3. work' = work (+) SetToBag({i})
      BY <1>9, <3>1, <3>2 DEF Publish
    <3>4. i \in BagToSet(work')
      BY <3>3, AddSteps DEF TypeInv, WorkOK
    <3>5. i.user = u /\ Touches(i, n, user[u])
      BY <2>5 DEF Touches, Event
    <3> HIDE DEF i
    <3>6. QED
      BY <2>1, <3>4, <3>5 DEF Touching, Served
  <2>6. CASE ~(Pending(a, u) /\ Touches(Event(r.event, u), n, user[u]))
    BY <1>7, <2>1, <2>2, <2>4, <2>6 DEF SameRights
  <2>7. QED
    BY <2>5, <2>6
<1>10. CASE LoseRequest(a)
  <2>1. user' = user /\ work' = work /\ req'[a] = NoRequest
    BY <1>3, <1>10 DEF LoseRequest
  <2>2. <<u, n>> \notin (IF r.event # Null \/ Early(a) THEN Everywhere({r.user}) ELSE {})
    BY <1>10, Tracked DEF LoseRequest
  <2>3. ~(r.user = u /\ (r.event # Null \/ Early(a)))
    BY <2>2 DEF Everywhere
  <2>4. ~Early(a)' /\ ~Pending(a, u)
    BY <2>1, <2>3 DEF Early, NoRequest, Pending
  <2>5. QED
    BY <1>7, <2>1, <2>3, <2>4 DEF SameRights
<1>11. ASSUME NEW row \in NewRows, InsertUser(a, row)
       PROVE  Served(u, n)'
  <2>1. work' = work /\ r.pc = "checked" /\ r.op = "create" /\ r.user \in Users
    BY <1>3, <1>11 DEF InsertUser, RequestOK
  <2>2. req'[a].pc # "checked"
    BY <1>3, <1>11, <2>1 DEF InsertUser, NoRequest, Request
  <2>3. ~Pending(a, u) /\ ~Early(a) /\ ~Early(a)'
    BY <2>1, <2>2 DEF Pending, Early
  <2>4. CASE r.user # u \/ r.user \in created
    <3>1. user'[u] = user[u]
      BY <1>3, <1>11, <2>4 DEF InsertUser
    <3>2. QED
      BY <1>7, <2>1, <2>3, <3>1 DEF SameRights
  <2>5. CASE r.user = u /\ u \notin created
    <3>1. user[u] = Null /\ user'[u] = row /\ row \in Row /\ row # Null
      BY <1>3, <1>11, <2>5, UserConstants DEF InsertUser, TypeInv, RowsOK
    <3>2. req'[a].pc = "written" /\ req'[a].event = "check" /\ req'[a].user = u
      BY <1>3, <1>11, <2>5 DEF InsertUser, Request
    <3>3. ASSUME row.status = "ACTIVE", InboundsOf(row.squads) # {} PROVE Served(u, n)'
      <4>1. Pending(a, u)'
        BY <3>1, <3>2, UserConstants DEF Pending, Gone
      <4>2. Touches(Event("check", u), n, user'[u])
        BY <3>1, <3>3 DEF Touches, Event
      <4>3. QED
        BY <3>2, <4>1, <4>2 DEF Touching, Served
    <3>4. ASSUME ~(row.status = "ACTIVE" /\ InboundsOf(row.squads) # {}) PROVE Served(u, n)'
      <4>1. ~Resets(u)
        BY <2>5 DEF Resets, Early, CreatedOK
      <4>2. ~Resets(u)'
        BY <1>4, <2>3, <4>1, ResetsSame
      <4>3. Access(u, n)' = Null /\ Access(u, n) = Null
        BY <3>1, <3>4, <4>2, NothingReached DEF Access
      <4>4. QED
        BY <1>6, <2>1, <2>3, <3>1, <4>3 DEF Keeps
    <3>5. QED
      BY <3>3, <3>4
  <2>6. QED
    BY <2>4, <2>5
<1>12. CASE ExtendDate(a)
  <2>1. work' = work /\ r.pc = "checked" /\ r.op = "bulkExtend" /\ r.user \in Users
    BY <1>3, <1>12 DEF ExtendDate, RequestOK
  <2>2. req'[a].pc # "checked"
    BY <1>3, <1>12, <2>1 DEF ExtendDate, NoRequest, Request
  <2>3. ~Pending(a, u) /\ ~Early(a) /\ ~Early(a)'
    BY <2>1, <2>2 DEF Pending, Early
  <2>4. SameRights(user[u], user'[u])
    <3>1. CASE r.user # u \/ user[u] = Null
      BY <1>3, <1>12, <3>1 DEF ExtendDate, SameRights
    <3>2. CASE r.user = u /\ user[u] # Null
      <4>1. PICK expired \in {user[u].expired, FALSE} : user'[u] = [user[u] EXCEPT !.expired = expired]
        BY <1>3, <1>12, <3>2 DEF ExtendDate
      <4>2. user[u] \in Row
        BY <1>3, <3>2
      <4>3. user'[u] \in Row
        BY <4>1, <4>2 DEF Row
      <4>4. QED
        BY <3>2, <4>1, <4>2, <4>3, UserConstants DEF SameRights, Row
    <3>3. QED
      BY <3>1, <3>2
  <2>5. QED
    BY <1>7, <2>1, <2>3, <2>4
<1>13. CASE SyncExpired(a)
  <2>1. work' = work /\ r.pc = "extended" /\ r.user \in Users
    BY <1>3, <1>13 DEF SyncExpired, RequestOK
  <2>2. req'[a].pc # "checked"
    BY <1>3, <1>13, <2>1 DEF SyncExpired, NoRequest, Request
  <2>3. ~Pending(a, u) /\ ~Early(a) /\ ~Early(a)'
    BY <2>1, <2>2 DEF Pending, Early
  <2>4. CASE user'[u] = user[u]
    BY <1>7, <2>1, <2>3, <2>4 DEF SameRights
  <2>5. CASE user'[u] # user[u]
    <3>1. /\ r.user = u /\ user[u] # Null /\ user' = [user EXCEPT ![u].status = "ACTIVE"]
          /\ req' = [req EXCEPT ![a].pc = "written", ![a].event = "add"]
      BY <1>3, <1>13, <2>5 DEF SyncExpired
    <3>2. user[u] \in Row /\ user'[u] = [user[u] EXCEPT !.status = "ACTIVE"]
      BY <1>3, <3>1
    <3>3. user'[u] \in Row
      BY <3>2, ChangedRows DEF Statuses
    <3>4. user'[u] # Null /\ user'[u].squads = user[u].squads
      BY <3>2, <3>3, UserConstants DEF Row
    <3>5. req'[a].pc = "written" /\ req'[a].event = "add" /\ req'[a].user = u
      BY <1>3, <3>1 DEF Request
    <3>6. CASE InboundsOf(user[u].squads) # {}
      <4>1. Pending(a, u)'
        BY <3>4, <3>5, UserConstants DEF Pending, Gone
      <4>2. Touches(Event("add", u), n, user'[u])
        BY <3>4, <3>6 DEF Touches, Event
      <4>3. QED
        BY <3>5, <4>1, <4>2 DEF Touching, Served
    <3>7. CASE InboundsOf(user[u].squads) = {}
      <4>1. Access(u, n)' = Access(u, n) /\ Keeps(user[u], user'[u])
        BY <3>1, <3>4, <3>7, NoSquads
      <4>2. QED
        BY <1>6, <2>1, <2>3, <4>1
    <3>8. QED
      BY <3>6, <3>7
  <2>6. QED
    BY <2>4, <2>5
<1>14. QED
  BY <1>8, <1>9, <1>10, <1>11, <1>12, <1>13 DEF RequestStep

\* What the induction rests on: types, requests, and the history of what
\* contradicts a row.
AccessInv == /\ TypeInv
             /\ CreatedOK
             /\ Contradicted \subseteq astray
             /\ \A u \in Users, n \in Nodes : Served(u, n)

LEMMA AccessInit == Init => AccessInv
<1> SUFFICES ASSUME Init PROVE AccessInv
  OBVIOUS
<1>1. TypeInv
  BY TypeInit
<1>2. CreatedOK
  BY DEF Init, CreatedOK, NoRequest
<1>3. BagToSet(work) = {}
  BY DEF Init, EmptyBag, SetToBag, BagToSet
<1>4. \A a \in Admins : req[a].pc = "idle"
  BY DEF Init, NoRequest
<1>5. ASSUME NEW u \in Users PROVE InFlight(u) = {} /\ ~Resets(u)
  <2>1. \A k \in DOMAIN sweep : sweep[k] = {}
    BY DEF Init
  <2>2. reset.pc = "idle"
    BY DEF Init, NoReset
  <2>3. QED
    BY <1>3, <1>4, <2>1, <2>2 DEF InFlight, Resets, Early
<1>6. \A u \in Users : Promised(u) = user[u]
  BY <1>5 DEF Promised
<1>7. Contradicted = {}
  <2>1. ASSUME NEW p \in Contradicted PROVE FALSE
    <3>1. p \in Users \X Nodes
      BY DEF Contradicted
    <3>2. p[1] \in Users /\ p[2] \in Nodes
      BY <3>1
    <3>3. InFlight(p[1]) = {} /\ snapshot[p[2]] = Null /\ \A a \in Admins : ~Early(a)
      BY <1>4, <1>5, <3>2 DEF Init, Early
    <3>4. QED
      BY <3>3 DEF Contradicted
  <2>2. QED
    BY <2>1
<1>8. \A u \in Users, n \in Nodes : serves[n][u] = Wanted(Promised(u), n)
  BY <1>6 DEF Init
<1>9. QED
  BY <1>1, <1>2, <1>7, <1>8 DEF AccessInv, Served

\* Requests read users that exist.
LEMMA CreatedStep == TypeInv /\ CreatedOK /\ [Next]_vars => CreatedOK'
<1> SUFFICES ASSUME TypeInv, CreatedOK, [Next]_vars PROVE CreatedOK'
  OBVIOUS
<1>1. req \in [Admins -> Request] /\ \A u \in Users : user[u] # Null => u \in created
  BY DEF TypeInv, RequestsOK, RowsOK
<1>2. CASE req' = req /\ created' = created
  BY <1>2 DEF CreatedOK
<1>3. ASSUME NEW a \in Admins, StartRequest(a) PROVE CreatedOK'
  <2>1. PICK u \in Users, op \in Ops, body \in Bodies \cup {Null} :
          /\ Begin(a, op, u, body)
          /\ op # "create" => user[u] # Null
    <3>1. PICK u \in Users :
            \/ CreateUser(a, u)
            \/ \E op \in Ops \ {"create", "update"} : ReadUser(a, u, op, Null)
            \/ \E body \in Bodies : ReadUser(a, u, "update", body)
      BY <1>3 DEF StartRequest
    <3>2. CASE CreateUser(a, u)
      BY <3>2 DEF CreateUser, Ops
    <3>3. CASE \E op \in Ops \ {"create", "update"} : ReadUser(a, u, op, Null)
      BY <3>3 DEF ReadUser
    <3>4. CASE \E body \in Bodies : ReadUser(a, u, "update", body)
      BY <3>4 DEF ReadUser, Ops
    <3>5. QED
      BY <3>1, <3>2, <3>3, <3>4
  <2>2. req' = [req EXCEPT ![a] = [pc |-> "checked", op |-> op, user |-> u, read |-> user[u],
                                   body |-> body, event |-> Null]]
    BY <2>1 DEF Begin
  <2>3. req'[a].op = op /\ req'[a].user = u
    BY <1>1, <2>2
  <2>4. created' = created /\ \A b \in Admins \ {a} : req'[b] = req[b]
    BY <1>1, <1>3, <2>2 DEF StartRequest
  <2>5. QED
    BY <1>1, <2>1, <2>3, <2>4 DEF CreatedOK
<1>4. ASSUME NEW a \in Admins, RequestStep(a) \/ LoseRequest(a) PROVE CreatedOK'
  <2>1. created \subseteq created'
    BY <1>4 DEF RequestStep, WriteUser, InsertUser, ExtendDate, SyncExpired, Publish, LoseRequest
  <2>2. \A b \in Admins \ {a} : req'[b] = req[b]
    BY <1>1, <1>4 DEF RequestStep, WriteUser, InsertUser, ExtendDate, SyncExpired, Publish, LoseRequest
  <2>3. req'[a].pc # "checked"
    <3>1. req[a] \in Request
      BY <1>1
    <3>2. \/ req' = [req EXCEPT ![a] = NoRequest]
          \/ req' = [req EXCEPT ![a].pc = "extended"]
          \/ \E event : req' = [req EXCEPT ![a].pc = "written", ![a].event = event]
      BY <1>4 DEF RequestStep, WriteUser, InsertUser, ExtendDate, SyncExpired, Publish, LoseRequest
    <3>3. \/ req'[a] = NoRequest
          \/ req'[a] = [req[a] EXCEPT !.pc = "extended"]
          \/ \E event : req'[a] = [req[a] EXCEPT !.pc = "written", !.event = event]
      BY <1>1, <3>2
    <3>4. ASSUME NEW event, req'[a] = [req[a] EXCEPT !.pc = "written", !.event = event]
          PROVE  req'[a].pc # "checked"
      <4>1. req'[a].pc = "written"
        BY <3>1, <3>4 DEF Request
      <4>2. QED
        BY <4>1
    <3>5. NoRequest.pc = "idle" /\ [req[a] EXCEPT !.pc = "extended"].pc = "extended"
      BY <3>1 DEF NoRequest, Request
    <3>6. QED
      BY <3>3, <3>4, <3>5
  <2>4. QED
    BY <2>1, <2>2, <2>3 DEF CreatedOK
<1>5. CASE \/ \E status \in Statuses : DeleteByStatus(status)
           \/ \E u \in Users : Use(u) \/ Expire(u)
           \/ FindExpiredUsers \/ FindExceededUsers
           \/ \E k \in DOMAIN sweep : FireEvents(k) \/ LoseSweep(k)
           \/ SelectUsersToReset \/ ResetStep \/ LoseReset
           \/ \E i \in BagToSet(work) : WorkStep(i) \/ LoseWork(i)
           \/ \E n \in Nodes :
                StartNode(n) \/ NodeStep(n) \/ FailStart(n) \/ NodeDown(n) \/ NodeBack(n)
           \/ UNCHANGED vars
  BY <1>2, <1>5
     DEF DeleteByStatus, Use, Expire, FindExpiredUsers, FindExceededUsers, Sweep, FireEvents,
         LoseSweep, SelectUsersToReset, ResetStep, ResetUserTraffic, ResetLimitedUserTraffic,
         FireReset, LoseReset, WorkStep, FireUserEvent, LoadUser, AddToNodes, RemoveFromNodes,
         CallNode, LoseWork, StartNode, NodeStep, ReadUsers, FinishStart, FailStart, NodeDown,
         NodeBack, vars
<1>6. QED
  BY <1>3, <1>4, <1>5 DEF Next, Watchdog, Failure

\* What contradicts a row goes on record at once.
LEMMA TrackStep == Contradicted \subseteq astray /\ [Next]_vars => Contradicted' \subseteq astray'
<1> SUFFICES ASSUME Contradicted \subseteq astray, [Next]_vars
             PROVE  Contradicted' \subseteq astray'
  OBVIOUS
<1>1. CASE \E n \in Nodes : ReadUsers(n)
  BY <1>1 DEF ReadUsers
<1>2. CASE \E lost : Track(lost)
  BY <1>2 DEF Track
<1>3. CASE UNCHANGED vars
  <2>1. UNCHANGED <<user, snapshot, work, req, sweep, reset, astray>>
    BY <1>3 DEF vars, nodes, jobs
  <2>2. \A u : InFlight(u)' = InFlight(u) /\ (Resets(u)' <=> Resets(u))
    BY <2>1 DEF InFlight, Resets, Early
  <2>3. \A u : Promised(u)' = Promised(u)
    BY <2>1, <2>2 DEF Promised
  <2>4. \A a \in Admins : (Early(a)' <=> Early(a)) /\ (Stale(req[a])' <=> Stale(req[a]))
    BY <2>1 DEF Early, Stale
  <2>5. Contradicted' = Contradicted
    BY <2>1, <2>2, <2>3, <2>4 DEF Contradicted
  <2>6. QED
    BY <2>1, <2>5
<1>4. ASSUME NEW a \in Admins, StartRequest(a) \/ RequestStep(a) \/ LoseRequest(a)
      PROVE  Contradicted' \subseteq astray'
  <2>1. CASE StartRequest(a)
    BY <1>2, <2>1 DEF StartRequest
  <2>2. CASE WriteUser(a) \/ LoseRequest(a)
    BY <1>2, <2>2 DEF WriteUser, LoseRequest
  <2>3. CASE ExtendDate(a) \/ SyncExpired(a) \/ Publish(a) \/ \E row \in NewRows : InsertUser(a, row)
    BY <1>2, <2>3 DEF InsertUser, ExtendDate, SyncExpired, Publish
  <2>4. QED
    BY <1>4, <2>1, <2>2, <2>3 DEF RequestStep
<1>5. CASE \/ \E status \in Statuses : DeleteByStatus(status)
           \/ \E u \in Users : Use(u) \/ Expire(u)
           \/ FindExpiredUsers \/ FindExceededUsers
           \/ \E k \in DOMAIN sweep : FireEvents(k) \/ LoseSweep(k)
           \/ SelectUsersToReset \/ ResetStep \/ LoseReset
  BY <1>2, <1>5
     DEF DeleteByStatus, Use, Expire, FindExpiredUsers, FindExceededUsers, Sweep,
         FireEvents, LoseSweep, SelectUsersToReset, ResetStep, ResetUserTraffic,
         ResetLimitedUserTraffic, FireReset, LoseReset
<1>6. CASE \/ \E i \in BagToSet(work) : WorkStep(i) \/ LoseWork(i)
           \/ \E n \in Nodes :
                StartNode(n) \/ FinishStart(n) \/ FailStart(n) \/ NodeDown(n) \/ NodeBack(n)
  BY <1>2, <1>6
     DEF WorkStep, FireUserEvent, LoadUser, AddToNodes, RemoveFromNodes, CallNode, LoseWork,
         StartNode, FinishStart, FailStart, NodeDown, NodeBack
<1>7. QED
  BY <1>1, <1>3, <1>4, <1>5, <1>6 DEF Next, Watchdog, Failure, NodeStep

LEMMA AccessStep == AccessInv /\ [Next]_vars => AccessInv'
<1> SUFFICES ASSUME AccessInv, [Next]_vars PROVE AccessInv'
  OBVIOUS
<1>1. TypeInv /\ CreatedOK /\ Contradicted \subseteq astray
  BY DEF AccessInv
<1>2. TypeInv' /\ CreatedOK' /\ Contradicted' \subseteq astray'
  BY <1>1, TypeStep, CreatedStep, TrackStep
<1>3. ASSUME NEW u \in Users, NEW n \in Nodes PROVE Served(u, n)'
  <2>1. Served(u, n)
    BY DEF AccessInv
  <2>2. CASE UNCHANGED vars
    BY <2>1, <2>2 DEF vars, nodes, jobs, Served, Connected, Promised, Resets, Early, Touching,
       Pending, Gone
  <2>3. CASE \E a \in Admins : StartRequest(a) \/ RequestStep(a) \/ LoseRequest(a)
    BY <1>1, <1>2, <2>1, <2>3, RequestServed
  <2>4. CASE \/ \E status \in Statuses : DeleteByStatus(status)
             \/ \E v \in Users : Use(v) \/ Expire(v)
             \/ FindExpiredUsers \/ FindExceededUsers
             \/ ResetUserTraffic \/ ResetLimitedUserTraffic
    BY <1>1, <1>2, <2>1, <2>4, RowServed
  <2>5. CASE \/ \E k \in DOMAIN sweep : FireEvents(k) \/ LoseSweep(k)
             \/ SelectUsersToReset \/ FireReset \/ LoseReset
    BY <1>1, <1>2, <2>1, <2>5, JobServed
  <2>6. CASE \E i \in BagToSet(work) : WorkStep(i) \/ LoseWork(i)
    BY <1>1, <1>2, <2>1, <2>6, WorkServed
  <2>7. CASE \E m \in Nodes :
               StartNode(m) \/ NodeStep(m) \/ FailStart(m) \/ NodeDown(m) \/ NodeBack(m)
    BY <1>1, <1>2, <2>1, <2>7, NodeServed
  <2>8. QED
    BY <2>2, <2>3, <2>4, <2>5, <2>6, <2>7 DEF Next, Watchdog, ResetStep, Failure
<1>4. QED
  BY <1>2, <1>3 DEF AccessInv

LEMMA AccessAlways == Spec => []AccessInv
BY AccessInit, AccessStep, PTL DEF Spec

\* Whatever the order of requests, jobs, handlers and starts of nodes: what would
\* contradict a row is on record, and a connected node that does not agree with
\* one has an event, a job or a call coming that will make it agree.
THEOREM NodesFollowRows == Spec => []IInv
<1>1. AccessInv => IInv
  BY DEF AccessInv, CreatedOK, TypeInv, WorkOK, ItemOK, RequestsOK, RequestOK, RowsOK, IInv,
     ItemsInv
<1>2. QED
  BY <1>1, AccessAlways, PTL

\* When nothing is under way about a user, a connected node lets him in exactly
\* if he is active and his squads reach it, with the credentials of his row: unless the
\* history has a stale write, a contradiction or a loss since the node's start.
THEOREM AccessFollowsRows == Spec => []AccessConverges
<1>1. AccessInv => AccessConverges
  <2> SUFFICES ASSUME AccessInv, NEW u \in Users, NEW n \in Nodes,
                      Connected(n), <<u, n>> \notin astray, Quiet(u)
               PROVE  serves[n][u] = Wanted(user[u], n)
    BY DEF AccessConverges
  <2>1. ~Touching(u, n) /\ ~Resets(u)
    BY QuietIsDone
  <2>2. serves[n][u] = Wanted(Promised(u), n)
    BY <2>1 DEF AccessInv, Served
  <2>3. QED
    BY <2>1, <2>2 DEF Promised
<1>2. QED
  BY <1>1, AccessAlways, PTL
=============================================================================
