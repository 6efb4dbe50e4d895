----------------------------- MODULE DeviceLimits -----------------------------
(***************************************************************************)
(* The devices of one user.  A subscription request whose device is        *)
(* unknown takes a slot under an advisory lock; administrators, and a      *)
(* queue that refreshes the rows of known devices, write the same rows     *)
(* without it.                                                             *)
(*                                                                         *)
(* One action is the code from one await to the next.                      *)
(***************************************************************************)
EXTENDS Naturals, FiniteSets

CONSTANTS
  Null,
  Hwids,           \* devices
  Requests,        \* subscription requests at a time
  Admins,          \* administrators at a time
  Limits,          \* values of the user's hwidDeviceLimit
  Settings,        \* hwidSettings in force: global, an external squad's, switched off by a rule
  MaxFaults        \* bound on failures and crashes

ASSUME DeviceConstants ==
  /\ IsFiniteSet(Hwids) /\ Null \notin Hwids /\ Null \notin Requests
  /\ Limits \subseteq Nat \cup {Null} /\ Null \notin Nat
  /\ Settings \subseteq [enabled : BOOLEAN, fallback : Nat]
  /\ MaxFaults \in Nat

VARIABLES
  devices,     \* hwid_user_devices of the user
  limit,       \* users.hwid_device_limit
  request,     \* request[r]: where a subscription request is
  lock,        \* holder of the user's advisory lock
  admin,       \* admin[a]: where an administrator's request is
  upserts,     \* devices with an UPSERT_HWID_DEVICE job, at most one each
  faults,
  ledger       \* history variables, see Init

slots == <<devices, limit, lock, admin, upserts>>
vars == <<devices, limit, request, lock, admin, upserts, faults, ledger>>

Idle == [pc |-> "idle", hwid |-> Null, limit |-> 0, bypass |-> FALSE, due |-> FALSE,
         blind |-> FALSE]
NoAdmin == [pc |-> "idle", hwid |-> Null, limit |-> 0, blind |-> FALSE]

\* History: exempt, devices that no count admitted, or whose count was outdated when
\* they were inserted; removed, devices an administrator deleted and nobody has
\* inserted since; free, devices that asked when no limit applied; granted, the
\* largest limit a slot was given under.
Init ==
  /\ devices = {} /\ limit \in Limits
  /\ request = [r \in Requests |-> Idle] /\ lock = Null
  /\ admin = [a \in Admins |-> NoAdmin]
  /\ upserts = {}
  /\ faults = 0
  /\ ledger = [exempt |-> {}, removed |-> {}, free |-> {}, granted |-> 0]

Fault == faults < MaxFaults /\ faults' = faults + 1

(***************************************************************************)
(* The slots                                                               *)
(***************************************************************************)

\* As Effective, without the fallback.
EffectiveOwn(l, settings) == l

\* The limit the code compares with.
Effective(l, settings) == IF l = Null THEN settings.fallback ELSE l

\* Whoever has counted the devices and is about to insert one inserts blindly.
Blinded(f) ==
  [x \in DOMAIN f |-> IF f[x].pc \in {"insert", "create"} THEN [f[x] EXCEPT !.blind = TRUE]
                      ELSE f[x]]

Move(r, pc) == request' = [request EXCEPT ![r].pc = pc]

\* The request is done with the devices.
Settle(f, r, pc) == [f EXCEPT ![r] = [Idle EXCEPT !.pc = pc]]

\* What an insert of h leaves of the ledger; ex says that no valid count admitted it.
Inserted(h, ex) ==
  [ledger EXCEPT !.removed = @ \ {h}, !.exempt = IF ex THEN @ \cup {h} ELSE @ \ {h}]

Removed(hs) ==
  [ledger EXCEPT !.removed = @ \cup hs, !.exempt = @ \ hs]

Granted(l) == [ledger EXCEPT !.granted = IF l > @ THEN l ELSE @]

\* A request that has no device cannot be checked; one of a user without a limit
\* need not be.  due: the device is registered, so the request is to be allowed.
Entry(h, settings) ==
  LET bypass == ~settings.enabled \/ limit = 0
      pc == CASE bypass /\ h = Null -> "idle"
              [] bypass /\ h # Null -> "enqueue"
              [] ~bypass /\ h = Null -> "refused"
              [] OTHER -> "check"
  IN IF pc \in {"idle", "refused"} THEN [Idle EXCEPT !.pc = pc]
     ELSE [pc |-> pc, hwid |-> h, limit |-> Effective(limit, settings),
           bypass |-> ~settings.enabled, due |-> h \in devices, blind |-> FALSE]

BeginRequest(r) ==
  /\ request[r].pc \in {"idle", "refused"}
  /\ \E h \in Hwids \cup {Null}, settings \in Settings :
       /\ request' = [request EXCEPT ![r] = Entry(h, settings)]
       /\ ledger' = IF Entry(h, settings).pc = "enqueue"
                    THEN [ledger EXCEPT !.free = @ \cup {h}] ELSE ledger
  /\ UNCHANGED <<slots, faults>>

\* As CheckHwidExists, with every device taken for a known one.
CheckAlwaysTrue(r) ==
  /\ request[r].pc = "check"
  /\ Move(r, "enqueue")
  /\ UNCHANGED <<slots, faults, ledger>>

\* As CheckHwidExists, with every device taken for a new one.
CheckNever(r) ==
  /\ request[r].pc = "check"
  /\ Move(r, "lock")
  /\ UNCHANGED <<slots, faults, ledger>>

CheckHwidExists(r) ==
  /\ request[r].pc = "check"
  /\ Move(r, IF request[r].hwid \in devices THEN "enqueue" ELSE "lock")
  /\ UNCHANGED <<slots, faults, ledger>>

\* A check that fails counts as a device that does not exist.
CheckFails(r) ==
  /\ request[r].pc = "check" /\ Fault
  /\ request' = [request EXCEPT ![r].pc = "lock", ![r].due = FALSE]
  /\ UNCHANGED <<slots, ledger>>

\* A job for the device is outstanding or is added.
Enqueue(r) ==
  /\ request[r].pc = "enqueue"
  /\ upserts' = upserts \cup {request[r].hwid}
  /\ request' = Settle(request, r, "idle")
  /\ UNCHANGED <<devices, limit, lock, admin, faults, ledger>>

\* Without a limit nobody awaits the job; with one the request is refused.
EnqueueFails(r) ==
  /\ request[r].pc = "enqueue" /\ Fault
  /\ request' = Settle(request, r, IF request[r].bypass THEN "idle" ELSE "refused")
  /\ UNCHANGED <<slots, ledger>>

\* As LockAndCount, without the lock.
CountOnly(r) ==
  /\ request[r].pc = "lock"
  /\ IF Cardinality(devices) >= request[r].limit
     THEN request' = Settle(request, r, "refused") /\ UNCHANGED <<lock, ledger>>
     ELSE /\ Move(r, "insert")
          /\ lock' = r
          /\ ledger' = Granted(request[r].limit)
  /\ UNCHANGED <<devices, limit, admin, upserts, faults>>

\* pg_advisory_xact_lock, and the count.
LockAndCount(r) ==
  /\ request[r].pc = "lock" /\ lock = Null
  /\ IF Cardinality(devices) >= request[r].limit
     THEN request' = Settle(request, r, "refused") /\ UNCHANGED <<lock, ledger>>
     ELSE /\ Move(r, "insert")
          /\ lock' = r
          /\ ledger' = Granted(request[r].limit)
  /\ UNCHANGED <<devices, limit, admin, upserts, faults>>

\* The device may have been inserted since it was looked for: the insert fails, and
\* the request is refused.
InsertLocked(r) ==
  /\ request[r].pc = "insert"
  /\ lock' = Null
  /\ IF request[r].hwid \in devices
     THEN request' = Settle(request, r, "refused") /\ UNCHANGED <<devices, admin, ledger>>
     ELSE /\ devices' = devices \cup {request[r].hwid}
          /\ request' = Settle(request, r, "idle")
          /\ admin' = Blinded(admin)
          /\ ledger' = Inserted(request[r].hwid, request[r].blind)
  /\ UNCHANGED <<limit, upserts, faults>>

\* A transaction that fails releases the lock and writes nothing.
LockFails(r) ==
  /\ request[r].pc \in {"lock", "insert"} /\ Fault
  /\ request' = Settle(request, r, "refused")
  /\ lock' = IF lock = r THEN Null ELSE lock
  /\ UNCHANGED <<devices, limit, admin, upserts, ledger>>

(***************************************************************************)
(* The subscription-requests queue                                         *)
(***************************************************************************)

\* Upserts without counting: whoever has counted is outdated if the row is new.
UpsertHwidDevice(h) ==
  /\ h \in upserts
  /\ upserts' = upserts \ {h}
  /\ devices' = devices \cup {h}
  /\ IF h \in devices THEN UNCHANGED <<request, admin, ledger>>
     ELSE /\ request' = Blinded(request) /\ admin' = Blinded(admin)
          /\ ledger' = Inserted(h, TRUE)
  /\ UNCHANGED <<limit, lock, faults>>

\* A failure is logged, and the job done.
UpsertFails(h) ==
  /\ h \in upserts /\ Fault
  /\ upserts' = upserts \ {h}
  /\ UNCHANGED <<devices, limit, lock, admin, request, ledger>>

\* The process that answers requests dies: transactions are rolled back.
CrashApi ==
  /\ Fault
  /\ request' = [r \in Requests |-> Idle] /\ lock' = Null
  /\ admin' = [a \in Admins |-> NoAdmin]
  /\ UNCHANGED <<devices, limit, upserts, ledger>>

(***************************************************************************)
(* Administrators                                                          *)
(***************************************************************************)

AdminMoves(a, pc) == admin' = [admin EXCEPT ![a].pc = pc]

\* The limit is enforced here too, and 0 is a limit.
CreateUserHwidDevice(a) ==
  /\ admin[a].pc = "idle"
  /\ \E h \in Hwids \ devices, settings \in Settings :
       admin' = [admin EXCEPT ![a] =
                   [pc |-> IF settings.enabled THEN "count" ELSE "create", hwid |-> h,
                    limit |-> Effective(limit, settings), blind |-> ~settings.enabled]]
  /\ UNCHANGED <<devices, limit, lock, upserts, request, faults, ledger>>

CountByUserId(a) ==
  /\ admin[a].pc = "count"
  /\ IF Cardinality(devices) >= admin[a].limit
     THEN admin' = [admin EXCEPT ![a] = NoAdmin] /\ UNCHANGED ledger
     ELSE /\ AdminMoves(a, "create")
          /\ ledger' = Granted(admin[a].limit)
  /\ UNCHANGED <<devices, limit, lock, upserts, request, faults>>

\* No lock: a request that has counted is outdated.
CreateDevice(a) ==
  /\ admin[a].pc = "create"
  /\ IF admin[a].hwid \in devices
     THEN admin' = [admin EXCEPT ![a] = NoAdmin] /\ UNCHANGED <<devices, request, ledger>>
     ELSE /\ devices' = devices \cup {admin[a].hwid}
          /\ request' = Blinded(request)
          /\ admin' = [Blinded(admin) EXCEPT ![a] = NoAdmin]
          /\ ledger' = Inserted(admin[a].hwid, admin[a].blind)
  /\ UNCHANGED <<limit, lock, upserts, faults>>

\* A request whose device is deleted is no longer sure to be allowed.
Delete(hs) ==
  /\ devices' = devices \ hs
  /\ ledger' = Removed(hs \cap devices)
  /\ request' = [r \in Requests |->
                   IF request[r].hwid \in hs THEN [request[r] EXCEPT !.due = FALSE]
                   ELSE request[r]]

FindDevice(a) ==
  /\ admin[a].pc = "idle"
  /\ \E h \in devices :
       admin' = [admin EXCEPT ![a] = [NoAdmin EXCEPT !.pc = "delete", !.hwid = h]]
  /\ UNCHANGED <<devices, limit, lock, upserts, request, faults, ledger>>

DeleteByHwidAndUserId(a) ==
  /\ admin[a].pc = "delete"
  /\ Delete({admin[a].hwid})
  /\ admin' = [admin EXCEPT ![a] = NoAdmin]
  /\ UNCHANGED <<limit, lock, upserts, faults>>

DeleteByUserId(a) ==
  /\ admin[a].pc = "idle" /\ devices # {}
  /\ Delete(devices)
  /\ UNCHANGED <<limit, lock, admin, upserts, faults>>

SetLimit(l) ==
  /\ limit' = l
  /\ UNCHANGED <<devices, lock, admin, upserts, request, faults, ledger>>

(***************************************************************************)

RequestNext(r) ==
  \/ BeginRequest(r) \/ CheckHwidExists(r) \/ CheckFails(r) \/ Enqueue(r)
  \/ EnqueueFails(r) \/ LockAndCount(r) \/ InsertLocked(r) \/ LockFails(r)

AdminNext(a) ==
  \/ CreateUserHwidDevice(a) \/ CountByUserId(a) \/ CreateDevice(a)
  \/ FindDevice(a) \/ DeleteByHwidAndUserId(a) \/ DeleteByUserId(a)

JobNext ==
  \E h \in Hwids : UpsertHwidDevice(h) \/ UpsertFails(h)

Next ==
  \/ \E r \in Requests : RequestNext(r)
  \/ \E a \in Admins : AdminNext(a)
  \/ \E l \in Limits : SetLimit(l)
  \/ JobNext \/ CrashApi

Spec == Init /\ [][Next]_vars

(***************************************************************************)
(* Properties                                                              *)
(***************************************************************************)

RequestState ==
  [pc : {"idle", "refused", "check", "lock", "insert", "enqueue"},
   hwid : Hwids \cup {Null}, limit : Nat, bypass : BOOLEAN, due : BOOLEAN, blind : BOOLEAN]
AdminState ==
  [pc : {"idle", "count", "create", "delete"}, hwid : Hwids \cup {Null}, limit : Nat,
   blind : BOOLEAN]
Ledger ==
  [exempt : SUBSET Hwids, removed : SUBSET Hwids, free : SUBSET Hwids, granted : Nat]

\* Requests, jobs and rows are what the code makes of them.
TypeOK ==
  /\ devices \subseteq Hwids /\ limit \in Limits
  /\ request \in [Requests -> RequestState]
  /\ lock \in Requests \cup {Null}
  /\ admin \in [Admins -> AdminState]
  /\ upserts \subseteq Hwids
  /\ faults \in Nat
  /\ ledger \in Ledger

\* Requests never share the last slot: the devices that were counted before they were
\* inserted are not more than the largest limit that was in force for any of them.  Only
\* rows that the queue creates, or that are inserted while an insert without the lock
\* comes in between, can exceed it (createWithAdvisoryLock, createUserHwidDevice).
LimitKept == Cardinality(devices \ ledger.exempt) <= ledger.granted

\* The queue, which counts nothing, brings in no device of its own: a pending upsert is
\* of a device that is registered, or was deleted after it asked, or asked when it was
\* not limited (checkHwidDeviceLimit, handleCheckAndUpsertHwidDeviceJob).
UpsertsHaveCause == upserts \subseteq devices \cup ledger.removed \cup ledger.free

\* A device that is registered when its request begins, and stays so, is served even
\* when the slots are full and others register meanwhile, unless something fails.
KnownIsServed ==
  [][\A r \in Requests : request[r].due /\ faults' = faults => request'[r].pc # "refused"]_vars
=============================================================================
