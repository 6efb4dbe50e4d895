--------------------------- MODULE DeviceLimitsProofs ---------------------------
(***************************************************************************)
(* Proofs about DeviceLimits for any devices, requests, administrators,    *)
(* limits and settings: the advisory lock keeps the limit, the queue       *)
(* registers no device that has no claim, and a registered one is served.  *)
(***************************************************************************)
EXTENDS DeviceLimits, FiniteSetTheorems, TLAPS

\* Requests and administrators that are under way have a device.
Named ==
  /\ \A r \in Requests : request[r].pc \notin {"idle", "refused"} => request[r].hwid \in Hwids
  /\ \A a \in Admins : admin[a].pc # "idle" => admin[a].hwid \in Hwids

\* The limits compared with are numbers.
LEMMA EffectiveIsNat ==
  \A l \in Limits, settings \in Settings : Effective(l, settings) \in Nat
BY DeviceConstants DEF Effective

LEMMA TypeInit == Init => TypeOK /\ Named
BY DEF Init, TypeOK, Named, Idle, NoAdmin, RequestState, AdminState, Ledger

RequestPCs == {"idle", "refused", "check", "lock", "insert", "enqueue"}
AdminPCs == {"idle", "count", "create", "delete"}

LEMMA RecordTypes ==
  /\ Idle \in RequestState /\ NoAdmin \in AdminState
  /\ \A x \in RequestState, pc \in RequestPCs : [x EXCEPT !.pc = pc] \in RequestState
  /\ \A x \in RequestState : [x EXCEPT !.due = FALSE] \in RequestState
  /\ \A x \in RequestState : [x EXCEPT !.blind = TRUE] \in RequestState
  /\ \A x \in RequestState : [x EXCEPT !.pc = "lock", !.due = FALSE] \in RequestState
  /\ \A x \in AdminState, pc \in AdminPCs : [x EXCEPT !.pc = pc] \in AdminState
  /\ \A x \in AdminState : [x EXCEPT !.blind = TRUE] \in AdminState
  /\ \A h \in Hwids : [NoAdmin EXCEPT !.pc = "delete", !.hwid = h] \in AdminState
BY DEF Idle, NoAdmin, RequestState, AdminState, RequestPCs, AdminPCs

\* What the helpers make of well-typed records.
LEMMA HelperTypes ==
  ASSUME TypeOK
  PROVE  /\ \A r \in Requests : request[r] \in RequestState
         /\ \A a \in Admins : admin[a] \in AdminState
         /\ Blinded(request) \in [Requests -> RequestState]
         /\ Blinded(admin) \in [Admins -> AdminState]
         /\ \A r \in Requests, pc \in {"idle", "refused"} :
              Settle(request, r, pc) \in [Requests -> RequestState]
         /\ \A r \in Requests, pc \in RequestPCs :
              [request EXCEPT ![r].pc = pc] \in [Requests -> RequestState]
         /\ \A h \in Hwids, ex \in BOOLEAN : Inserted(h, ex) \in Ledger
         /\ \A l \in Nat : Granted(l) \in Ledger
         /\ \A hs \in SUBSET Hwids : Removed(hs) \in Ledger
<1>1. /\ \A r \in Requests : request[r] \in RequestState
      /\ \A a \in Admins : admin[a] \in AdminState
  BY DEF TypeOK
<1>2. Blinded(request) \in [Requests -> RequestState]
  <2>1. \A r \in Requests : [request[r] EXCEPT !.blind = TRUE] \in RequestState
    BY <1>1, RecordTypes
  <2>2. QED
    BY <1>1, <2>1 DEF TypeOK, Blinded
<1>3. Blinded(admin) \in [Admins -> AdminState]
  <2>1. \A a \in Admins : [admin[a] EXCEPT !.blind = TRUE] \in AdminState
    BY <1>1, RecordTypes
  <2>2. QED
    BY <1>1, <2>1 DEF TypeOK, Blinded
<1>4. ASSUME NEW r \in Requests, NEW pc \in {"idle", "refused"}
      PROVE  Settle(request, r, pc) \in [Requests -> RequestState]
  <2>1. [Idle EXCEPT !.pc = pc] \in RequestState
    BY RecordTypes DEF RequestPCs
  <2>2. QED
    BY <2>1 DEF TypeOK, Settle
<1>5. ASSUME NEW r \in Requests, NEW pc \in RequestPCs
      PROVE  [request EXCEPT ![r].pc = pc] \in [Requests -> RequestState]
  BY <1>1, RecordTypes DEF TypeOK
<1>6. ASSUME NEW h \in Hwids, NEW ex \in BOOLEAN
      PROVE  Inserted(h, ex) \in Ledger
  BY DEF TypeOK, Inserted, Ledger
<1>7. ASSUME NEW l \in Nat
      PROVE  Granted(l) \in Ledger
  BY DEF TypeOK, Granted, Ledger
<1>8. ASSUME NEW hs \in SUBSET Hwids
      PROVE  Removed(hs) \in Ledger
  BY DEF TypeOK, Removed, Ledger
<1>9. QED
  BY <1>1, <1>2, <1>3, <1>4, <1>5, <1>6, <1>7, <1>8

LEMMA DeleteType ==
  ASSUME TypeOK, NEW hs, Delete(hs)
  PROVE  devices' \subseteq Hwids /\ request' \in [Requests -> RequestState] /\ ledger' \in Ledger
<1>1. \A r \in Requests : [request[r] EXCEPT !.due = FALSE] \in RequestState
  BY HelperTypes, RecordTypes
<1>2. request' \in [Requests -> RequestState]
  BY <1>1, HelperTypes DEF Delete
<1>3. QED
  BY <1>2, HelperTypes DEF Delete, TypeOK

\* A request enters well typed and with its device.
LEMMA EntryType ==
  ASSUME TypeOK, NEW h \in Hwids \cup {Null}, NEW settings \in Settings
  PROVE  /\ Entry(h, settings) \in RequestState
         /\ Entry(h, settings).pc \notin {"idle", "refused"} => Entry(h, settings).hwid \in Hwids
         /\ Entry(h, settings).hwid \in {h, Null}
         /\ Entry(h, settings).pc \in {"idle", "refused", "enqueue", "check"}
         /\ Entry(h, settings).pc = "enqueue" => h \in Hwids /\ Entry(h, settings).hwid = h
         /\ Entry(h, settings).due => /\ Entry(h, settings).hwid \in devices
                                      /\ Entry(h, settings).pc \in {"enqueue", "check"}
<1>1. Effective(limit, settings) \in Nat /\ (~settings.enabled) \in BOOLEAN
  BY EffectiveIsNat DEF TypeOK
<1> DEFINE bypass == ~settings.enabled \/ limit = 0
           new(pc) == [pc |-> pc, hwid |-> h, limit |-> Effective(limit, settings),
                       bypass |-> ~settings.enabled, due |-> h \in devices, blind |-> FALSE]
<1>2. \A pc \in RequestPCs : new(pc) \in RequestState /\ [Idle EXCEPT !.pc = pc] \in RequestState
  <2>1. \A pc \in RequestPCs, x \in Hwids \cup {Null}, l \in Nat, b, d \in BOOLEAN :
          [pc |-> pc, hwid |-> x, limit |-> l, bypass |-> b, due |-> d, blind |-> FALSE]
            \in RequestState
    BY DEF RequestState, RequestPCs
  <2>2. (h \in devices) \in BOOLEAN
    OBVIOUS
  <2>3. \A pc \in RequestPCs : new(pc) \in RequestState
    BY <1>1, <2>1, <2>2, Zenon
  <2>4. QED
    BY <2>3, RecordTypes
<1>3. CASE bypass /\ h = Null
  <2>1. Entry(h, settings) = [Idle EXCEPT !.pc = "idle"]
    BY <1>3 DEF Entry
  <2>2. QED
    BY <1>2, <2>1 DEF Idle, RequestPCs
<1>4. CASE bypass /\ h # Null
  <2>1. Entry(h, settings) = new("enqueue")
    BY <1>4 DEF Entry
  <2>2. new("enqueue") \in RequestState /\ h \in Hwids
    BY <1>2, <1>4 DEF RequestPCs
  <2>3. new("enqueue").pc = "enqueue" /\ new("enqueue").hwid = h
    OBVIOUS
  <2>4. new("enqueue").due <=> h \in devices
    BY Zenon
  <2>5. QED
    BY <2>1, <2>2, <2>3, <2>4
<1>5. CASE ~bypass /\ h = Null
  <2>1. Entry(h, settings) = [Idle EXCEPT !.pc = "refused"]
    BY <1>5 DEF Entry
  <2>2. QED
    BY <1>2, <2>1 DEF Idle, RequestPCs
<1>6. CASE ~bypass /\ h # Null
  <2>1. Entry(h, settings) = new("check")
    BY <1>6 DEF Entry
  <2>2. new("check") \in RequestState /\ h \in Hwids
    BY <1>2, <1>6 DEF RequestPCs
  <2>3. new("check").pc = "check" /\ new("check").hwid = h
    OBVIOUS
  <2>4. new("check").due <=> h \in devices
    BY Zenon
  <2>5. QED
    BY <2>1, <2>2, <2>3, <2>4
<1>7. QED
  BY <1>3, <1>4, <1>5, <1>6

\* Every step keeps the variables well typed.
LEMMA TypeStep == TypeOK /\ Named /\ [Next]_vars => TypeOK'
<1> SUFFICES ASSUME TypeOK, Named, [Next]_vars PROVE TypeOK'
  OBVIOUS
<1>1. ASSUME NEW r \in Requests, BeginRequest(r)
      PROVE  TypeOK'
  <2>1. PICK h \in Hwids \cup {Null}, settings \in Settings :
          /\ request' = [request EXCEPT ![r] = Entry(h, settings)]
          /\ ledger' = IF Entry(h, settings).pc = "enqueue"
                       THEN [ledger EXCEPT !.free = @ \cup {h}] ELSE ledger
    BY <1>1 DEF BeginRequest
  <2>2. request' \in [Requests -> RequestState]
    BY <2>1, EntryType DEF TypeOK
  <2>3. ledger' \in Ledger
    <3>1. CASE Entry(h, settings).pc = "enqueue"
      <4>1. h \in Hwids
        BY <3>1, EntryType
      <4>2. QED
        BY <2>1, <3>1, <4>1 DEF TypeOK, Ledger
    <3>2. CASE Entry(h, settings).pc # "enqueue"
      BY <2>1, <3>2 DEF TypeOK
    <3>3. QED
      BY <3>1, <3>2
  <2>4. QED
    BY <1>1, <2>2, <2>3 DEF BeginRequest, slots, TypeOK
<1>2. ASSUME NEW r \in Requests, CheckHwidExists(r)
      PROVE  TypeOK'
  <2>1. PICK pc \in RequestPCs : request' = [request EXCEPT ![r].pc = pc]
    BY <1>2 DEF CheckHwidExists, Move, RequestPCs
  <2>2. request' \in [Requests -> RequestState]
    BY <2>1, HelperTypes
  <2>3. QED
    BY <1>2, <2>2 DEF CheckHwidExists, slots, TypeOK
<1>3. ASSUME NEW r \in Requests, CheckFails(r)
      PROVE  TypeOK'
  <2>1. [request[r] EXCEPT !.pc = "lock", !.due = FALSE] \in RequestState
    BY HelperTypes, RecordTypes
  <2>2. request' \in [Requests -> RequestState]
    BY <1>3, <2>1 DEF CheckFails, TypeOK
  <2>3. QED
    BY <1>3, <2>2 DEF CheckFails, Fault, slots, TypeOK
<1>4. ASSUME NEW r \in Requests, Enqueue(r)
      PROVE  TypeOK'
  <2>1. request[r].hwid \in Hwids
    BY <1>4 DEF Enqueue, Named
  <2>2. QED
    BY <1>4, <2>1, HelperTypes DEF Enqueue, TypeOK
<1>5. ASSUME NEW r \in Requests, EnqueueFails(r)
      PROVE  TypeOK'
    BY <1>5, HelperTypes DEF EnqueueFails, Fault, slots, TypeOK
<1>6. ASSUME NEW r \in Requests, LockAndCount(r)
      PROVE  TypeOK'
  <2>1. \/ request' = Settle(request, r, "refused")
        \/ request' = [request EXCEPT ![r].pc = "insert"]
    BY <1>6 DEF LockAndCount, Move
  <2>2. request' \in [Requests -> RequestState]
    <3>1. CASE request' = Settle(request, r, "refused")
      BY <3>1, HelperTypes
    <3>2. CASE request' = [request EXCEPT ![r].pc = "insert"]
      BY <3>2, HelperTypes DEF RequestPCs
    <3>3. QED
      BY <2>1, <3>1, <3>2
  <2>3. request[r].limit \in Nat
    BY HelperTypes DEF RequestState
  <2>4. ledger' \in Ledger
    BY <1>6, <2>3, HelperTypes DEF LockAndCount, TypeOK
  <2>5. QED
    BY <1>6, <2>2, <2>4 DEF LockAndCount, TypeOK
<1>7. ASSUME NEW r \in Requests, InsertLocked(r)
      PROVE  TypeOK'
  <2>1. request[r].hwid \in Hwids /\ request[r].blind \in BOOLEAN
    BY <1>7, HelperTypes DEF InsertLocked, Named, RequestState
  <2>2. ledger' \in Ledger
    BY <1>7, <2>1, HelperTypes DEF InsertLocked, TypeOK
  <2>3. request' \in [Requests -> RequestState] /\ admin' \in [Admins -> AdminState]
    BY <1>7, HelperTypes DEF InsertLocked, TypeOK
  <2>4. QED
    BY <1>7, <2>1, <2>2, <2>3 DEF InsertLocked, TypeOK
<1>8. ASSUME NEW r \in Requests, LockFails(r)
      PROVE  TypeOK'
    BY <1>8, HelperTypes DEF LockFails, Fault, slots, TypeOK
<1>9. ASSUME NEW a \in Admins, CreateUserHwidDevice(a)
      PROVE  TypeOK'
  <2>1. PICK h \in Hwids \ devices, settings \in Settings :
          admin' = [admin EXCEPT ![a] =
                      [pc |-> IF settings.enabled THEN "count" ELSE "create", hwid |-> h,
                       limit |-> Effective(limit, settings), blind |-> ~settings.enabled]]
    BY <1>9 DEF CreateUserHwidDevice
  <2>2. Effective(limit, settings) \in Nat /\ (~settings.enabled) \in BOOLEAN
    BY EffectiveIsNat DEF TypeOK
  <2>3. [pc |-> IF settings.enabled THEN "count" ELSE "create", hwid |-> h,
         limit |-> Effective(limit, settings), blind |-> ~settings.enabled] \in AdminState
    BY <2>2 DEF AdminState
  <2>4. admin' \in [Admins -> AdminState]
    BY <2>1, <2>3 DEF TypeOK
  <2>5. QED
    BY <1>9, <2>4 DEF CreateUserHwidDevice, TypeOK
<1>10. ASSUME NEW a \in Admins, CountByUserId(a)
      PROVE  TypeOK'
  <2>1. [admin[a] EXCEPT !.pc = "create"] \in AdminState
    BY HelperTypes, RecordTypes DEF AdminPCs
  <2>2. admin' \in [Admins -> AdminState]
    BY <1>10, <2>1, RecordTypes DEF CountByUserId, AdminMoves, TypeOK
  <2>3. admin[a].limit \in Nat
    BY HelperTypes DEF AdminState
  <2>4. ledger' \in Ledger
    BY <1>10, <2>3, HelperTypes DEF CountByUserId, TypeOK
  <2>5. QED
    BY <1>10, <2>2, <2>4 DEF CountByUserId, TypeOK
<1>11. ASSUME NEW a \in Admins, CreateDevice(a)
      PROVE  TypeOK'
  <2>1. admin[a].hwid \in Hwids /\ admin[a].blind \in BOOLEAN
    BY <1>11, HelperTypes DEF CreateDevice, Named, AdminState
  <2>2. ledger' \in Ledger
    BY <1>11, <2>1, HelperTypes DEF CreateDevice, TypeOK
  <2>3. request' \in [Requests -> RequestState] /\ admin' \in [Admins -> AdminState]
    BY <1>11, HelperTypes, RecordTypes DEF CreateDevice, TypeOK
  <2>4. QED
    BY <1>11, <2>1, <2>2, <2>3 DEF CreateDevice, TypeOK
<1>12. ASSUME NEW a \in Admins, FindDevice(a)
      PROVE  TypeOK'
  <2>1. PICK h \in devices : admin' = [admin EXCEPT ![a] = [NoAdmin EXCEPT !.pc = "delete", !.hwid = h]]
    BY <1>12 DEF FindDevice
  <2>2. [NoAdmin EXCEPT !.pc = "delete", !.hwid = h] \in AdminState
    BY RecordTypes DEF AdminPCs, TypeOK
  <2>3. QED
    BY <1>12, <2>1, <2>2 DEF FindDevice, TypeOK
<1>13. ASSUME NEW a \in Admins, DeleteByHwidAndUserId(a)
      PROVE  TypeOK'
  <2>1. PICK hs : Delete(hs)
    BY <1>13 DEF DeleteByHwidAndUserId
  <2>2. devices' \subseteq Hwids /\ request' \in [Requests -> RequestState] /\ ledger' \in Ledger
    BY <2>1, DeleteType
  <2>3. QED
    BY <1>13, <2>2, RecordTypes DEF DeleteByHwidAndUserId, TypeOK
<1>14. ASSUME NEW a \in Admins, DeleteByUserId(a)
      PROVE  TypeOK'
  <2>1. PICK hs : Delete(hs)
    BY <1>14 DEF DeleteByUserId
  <2>2. devices' \subseteq Hwids /\ request' \in [Requests -> RequestState] /\ ledger' \in Ledger
    BY <2>1, DeleteType
  <2>3. QED
    BY <1>14, <2>2, RecordTypes DEF DeleteByUserId, TypeOK
<1>15. ASSUME NEW h \in Hwids, UpsertHwidDevice(h)
      PROVE  TypeOK'
    BY <1>15, HelperTypes DEF UpsertHwidDevice, slots, TypeOK
<1>16. ASSUME NEW h \in Hwids, UpsertFails(h)
      PROVE  TypeOK'
    BY <1>16, HelperTypes DEF UpsertFails, Fault, slots, TypeOK
<1>17. ASSUME NEW l \in Limits, SetLimit(l)
      PROVE  TypeOK'
    BY <1>17, HelperTypes DEF SetLimit, slots, TypeOK
<1>18. CASE CrashApi
  <2>1. Idle \in RequestState /\ NoAdmin \in AdminState
    BY RecordTypes
  <2>2. QED
    BY <1>18, <2>1 DEF CrashApi, Fault, TypeOK
<1>19. CASE UNCHANGED vars
  BY <1>19 DEF vars, TypeOK
<1>20. QED
    BY <1>1, <1>2, <1>3, <1>4, <1>5, <1>6, <1>7, <1>8, <1>9, <1>10, <1>11, <1>12,
     <1>13, <1>14, <1>15, <1>16, <1>17, <1>18, <1>19 DEF Next, RequestNext, AdminNext,
     JobNext

\* What the helpers leave alone.
LEMMA HelperFields ==
  ASSUME TypeOK
  PROVE  /\ \A r \in Requests :
              /\ Blinded(request)[r].pc = request[r].pc
              /\ Blinded(request)[r].hwid = request[r].hwid
              /\ Blinded(request)[r].due = request[r].due
              /\ Blinded(request)[r].limit = request[r].limit
              /\ request[r].pc = "insert" => Blinded(request)[r].blind
         /\ \A a \in Admins :
              /\ Blinded(admin)[a].pc = admin[a].pc
              /\ Blinded(admin)[a].hwid = admin[a].hwid
              /\ Blinded(admin)[a].limit = admin[a].limit
              /\ admin[a].pc = "create" => Blinded(admin)[a].blind
         /\ \A r, q \in Requests, pc \in {"idle", "refused"} :
              \/ Settle(request, r, pc)[q] = request[q]
              \/ Settle(request, r, pc)[q].pc \in {"idle", "refused"} /\ ~Settle(request, r, pc)[q].due
<1>1. /\ \A r \in Requests : request[r] \in RequestState
      /\ \A a \in Admins : admin[a] \in AdminState
  BY HelperTypes
<1>2. ASSUME NEW r \in Requests
      PROVE  /\ Blinded(request)[r].pc = request[r].pc
             /\ Blinded(request)[r].hwid = request[r].hwid
             /\ Blinded(request)[r].due = request[r].due
             /\ Blinded(request)[r].limit = request[r].limit
             /\ request[r].pc = "insert" => Blinded(request)[r].blind
  BY <1>1 DEF TypeOK, Blinded, RequestState
<1>3. ASSUME NEW a \in Admins
      PROVE  /\ Blinded(admin)[a].pc = admin[a].pc
             /\ Blinded(admin)[a].hwid = admin[a].hwid
             /\ Blinded(admin)[a].limit = admin[a].limit
             /\ admin[a].pc = "create" => Blinded(admin)[a].blind
  BY <1>1 DEF TypeOK, Blinded, AdminState
<1>4. ASSUME NEW r \in Requests, NEW q \in Requests, NEW pc \in {"idle", "refused"}
      PROVE  \/ Settle(request, r, pc)[q] = request[q]
             \/ Settle(request, r, pc)[q].pc \in {"idle", "refused"} /\ ~Settle(request, r, pc)[q].due
  BY DEF Settle, Idle, TypeOK
<1>5. QED
  BY <1>2, <1>3, <1>4

LEMMA HelperSettles ==
  ASSUME TypeOK, NEW r \in Requests, NEW pc \in {"idle", "refused"}
  PROVE  /\ Settle(request, r, pc)[r].pc = pc
         /\ \A q \in Requests : q # r => Settle(request, r, pc)[q] = request[q]
BY DEF Settle, Idle, TypeOK

LEMMA DeleteFields ==
  ASSUME TypeOK, NEW hs, Delete(hs)
  PROVE  \A r \in Requests :
           /\ request'[r].pc = request[r].pc
           /\ request'[r].hwid = request[r].hwid
           /\ request'[r].limit = request[r].limit
           /\ request'[r].blind = request[r].blind
           /\ request'[r].due = (request[r].due /\ request[r].hwid \notin hs)
<1>1. \A r \in Requests : request[r] \in RequestState
  BY HelperTypes
<1>2. QED
  BY <1>1 DEF Delete, RequestState

\* A request or an administrator under way keeps its device.
LEMMA NamedStep == TypeOK /\ Named /\ [Next]_vars => Named'
<1> SUFFICES ASSUME TypeOK, Named, [Next]_vars PROVE Named'
  OBVIOUS
<1>1. ASSUME NEW r \in Requests, BeginRequest(r)
      PROVE  Named'
  <2>1. PICK h \in Hwids \cup {Null}, settings \in Settings :
          request' = [request EXCEPT ![r] = Entry(h, settings)]
    BY <1>1 DEF BeginRequest
  <2>2. QED
    BY <1>1, <2>1, EntryType DEF BeginRequest, slots, Named, TypeOK
<1>2. ASSUME NEW r \in Requests, CheckHwidExists(r)
      PROVE  Named'
    BY <1>2, HelperFields DEF CheckHwidExists, Move, slots, Named, TypeOK
<1>3. ASSUME NEW r \in Requests, CheckFails(r)
      PROVE  Named'
    BY <1>3, HelperFields DEF CheckFails, Fault, slots, Named, TypeOK
<1>4. ASSUME NEW r \in Requests, Enqueue(r)
      PROVE  Named'
    BY <1>4, HelperFields DEF Enqueue, slots, Named, TypeOK
<1>5. ASSUME NEW r \in Requests, EnqueueFails(r)
      PROVE  Named'
    BY <1>5, HelperFields DEF EnqueueFails, Fault, slots, Named, TypeOK
<1>6. ASSUME NEW r \in Requests, LockAndCount(r)
      PROVE  Named'
  <2>1. CASE request' = Settle(request, r, "refused")
    BY <1>6, <2>1, HelperFields DEF LockAndCount, Named
  <2>2. CASE request' = [request EXCEPT ![r].pc = "insert"]
    BY <1>6, <2>2 DEF LockAndCount, Named, TypeOK
  <2>3. QED
    BY <1>6, <2>1, <2>2 DEF LockAndCount, Move
<1>7. ASSUME NEW r \in Requests, InsertLocked(r)
      PROVE  Named'
  <2>1. \A q \in Requests : request'[q].pc \notin {"idle", "refused"}
                          => request'[q].pc = request[q].pc /\ request'[q].hwid = request[q].hwid
    BY <1>7, HelperFields DEF InsertLocked
  <2>2. \A b \in Admins : admin'[b].pc = admin[b].pc /\ admin'[b].hwid = admin[b].hwid
    BY <1>7, HelperFields DEF InsertLocked
  <2>3. QED
    BY <2>1, <2>2 DEF Named
<1>8. ASSUME NEW r \in Requests, LockFails(r)
      PROVE  Named'
    BY <1>8, HelperFields DEF LockFails, Fault, slots, Named, TypeOK
<1>9. ASSUME NEW a \in Admins, CreateUserHwidDevice(a)
      PROVE  Named'
    BY <1>9, HelperFields DEF CreateUserHwidDevice, slots, Named, TypeOK
<1>10. ASSUME NEW a \in Admins, CountByUserId(a)
      PROVE  Named'
  <2>1. CASE admin' = [admin EXCEPT ![a] = NoAdmin]
    BY <1>10, <2>1 DEF CountByUserId, Named, NoAdmin, TypeOK
  <2>2. CASE admin' = [admin EXCEPT ![a].pc = "create"]
    BY <1>10, <2>2 DEF CountByUserId, Named, TypeOK
  <2>3. QED
    BY <1>10, <2>1, <2>2 DEF CountByUserId, AdminMoves
<1>11. ASSUME NEW a \in Admins, CreateDevice(a)
      PROVE  Named'
  <2>1. \A q \in Requests : request'[q].pc = request[q].pc /\ request'[q].hwid = request[q].hwid
    BY <1>11, HelperFields DEF CreateDevice
  <2>2. \A b \in Admins : \/ admin'[b] = NoAdmin
                         \/ admin'[b] = admin[b]
                         \/ admin'[b] = Blinded(admin)[b]
    BY <1>11, HelperTypes DEF CreateDevice, TypeOK
  <2>3. QED
    BY <2>1, <2>2, HelperFields DEF Named, NoAdmin
<1>12. ASSUME NEW a \in Admins, FindDevice(a)
      PROVE  Named'
    BY <1>12, HelperFields DEF FindDevice, NoAdmin, slots, Named, TypeOK
<1>13. ASSUME NEW a \in Admins, DeleteByHwidAndUserId(a)
      PROVE  Named'
  <2>1. Delete({admin[a].hwid})
    BY <1>13 DEF DeleteByHwidAndUserId
  <2>2. QED
    BY <1>13, <2>1, DeleteFields DEF DeleteByHwidAndUserId, Named, NoAdmin, TypeOK
<1>14. ASSUME NEW a \in Admins, DeleteByUserId(a)
      PROVE  Named'
  <2>1. Delete(devices)
    BY <1>14 DEF DeleteByUserId
  <2>2. QED
    BY <1>14, <2>1, DeleteFields DEF DeleteByUserId, Named
<1>15. ASSUME NEW h \in Hwids, UpsertHwidDevice(h)
      PROVE  Named'
  <2>1. request' \in {request, Blinded(request)} /\ admin' \in {admin, Blinded(admin)}
    BY <1>15 DEF UpsertHwidDevice
  <2>2. \A r \in Requests : request'[r].pc = request[r].pc /\ request'[r].hwid = request[r].hwid
    BY <2>1, HelperFields
  <2>3. \A a \in Admins : admin'[a].pc = admin[a].pc /\ admin'[a].hwid = admin[a].hwid
    BY <2>1, HelperFields
  <2>4. QED
    BY <2>2, <2>3 DEF Named
<1>16. ASSUME NEW h \in Hwids, UpsertFails(h)
      PROVE  Named'
    BY <1>16, HelperFields DEF UpsertFails, Fault, slots, Named, TypeOK
<1>17. ASSUME NEW l \in Limits, SetLimit(l)
      PROVE  Named'
    BY <1>17, HelperFields DEF SetLimit, slots, Named, TypeOK
<1>18. CASE CrashApi
    BY <1>18, HelperFields DEF CrashApi, Idle, NoAdmin, slots, Named, TypeOK
<1>19. CASE UNCHANGED vars
  BY <1>19 DEF vars, Named, TypeOK
<1>20. QED
    BY <1>1, <1>2, <1>3, <1>4, <1>5, <1>6, <1>7, <1>8, <1>9, <1>10, <1>11, <1>12,
     <1>13, <1>14, <1>15, <1>16, <1>17, <1>18, <1>19 DEF Next, RequestNext, AdminNext,
     JobNext

TypeInv == TypeOK /\ Named

\* A device that is due to be served is registered, and its request has not come to the
\* slots.
DueInv ==
  \A r \in Requests : request[r].due =>
    request[r].hwid \in devices /\ request[r].pc \in {"check", "enqueue"}

\* What is about to be enqueued has the same claim as what is in the queue.
CauseInv ==
  /\ UpsertsHaveCause
  /\ \A r \in Requests : request[r].pc = "enqueue" =>
       request[r].hwid \in devices \cup ledger.removed \cup ledger.free

\* What the ledger says after an insert and a removal.
LEMMA LedgerFields ==
  ASSUME TypeOK
  PROVE  /\ \A h \in Hwids, ex \in BOOLEAN :
              /\ Inserted(h, ex).removed = ledger.removed \ {h}
              /\ Inserted(h, ex).free = ledger.free
              /\ Inserted(h, ex).granted = ledger.granted
              /\ ex => Inserted(h, ex).exempt = ledger.exempt \cup {h}
              /\ ~ex => Inserted(h, ex).exempt = ledger.exempt \ {h}
         /\ \A l \in Nat :
              /\ Granted(l).removed = ledger.removed /\ Granted(l).free = ledger.free
              /\ Granted(l).exempt = ledger.exempt
              /\ Granted(l).granted \in Nat
              /\ Granted(l).granted >= ledger.granted /\ Granted(l).granted >= l
         /\ \A hs :
              /\ Removed(hs).removed = ledger.removed \cup hs /\ Removed(hs).free = ledger.free
              /\ Removed(hs).exempt = ledger.exempt \ hs /\ Removed(hs).granted = ledger.granted
BY DEF TypeOK, Ledger, Inserted, Granted, Removed

LEMMA DueStep == TypeInv /\ DueInv /\ [Next]_vars => DueInv'
<1> SUFFICES ASSUME TypeOK, Named, DueInv, [Next]_vars PROVE DueInv'
  BY DEF TypeInv
<1>1. ASSUME NEW r \in Requests, BeginRequest(r)
      PROVE  DueInv'
  <2>1. PICK h \in Hwids \cup {Null}, settings \in Settings :
          request' = [request EXCEPT ![r] = Entry(h, settings)]
    BY <1>1 DEF BeginRequest
  <2>2. QED
    BY <1>1, <2>1, EntryType DEF BeginRequest, slots, DueInv, TypeOK
<1>2. ASSUME NEW r \in Requests, CheckHwidExists(r)
      PROVE  DueInv'
    BY <1>2, HelperFields DEF CheckHwidExists, Move, slots, DueInv, TypeOK
<1>3. ASSUME NEW r \in Requests, CheckFails(r)
      PROVE  DueInv'
    BY <1>3, HelperFields DEF CheckFails, Fault, slots, DueInv, TypeOK
<1>4. ASSUME NEW r \in Requests, Enqueue(r)
      PROVE  DueInv'
    BY <1>4, HelperFields DEF Enqueue, slots, DueInv, TypeOK
<1>5. ASSUME NEW r \in Requests, EnqueueFails(r)
      PROVE  DueInv'
    BY <1>5, HelperFields DEF EnqueueFails, Fault, slots, DueInv, TypeOK
<1>6. ASSUME NEW r \in Requests, LockAndCount(r)
      PROVE  DueInv'
  <2>1. CASE request' = Settle(request, r, "refused")
    BY <1>6, <2>1, HelperFields DEF LockAndCount, DueInv
  <2>2. CASE request' = [request EXCEPT ![r].pc = "insert"]
    BY <1>6, <2>2 DEF LockAndCount, DueInv, TypeOK
  <2>3. QED
    BY <1>6, <2>1, <2>2 DEF LockAndCount, Move
<1>7. ASSUME NEW r \in Requests, InsertLocked(r)
      PROVE  DueInv'
  <2>1. devices \subseteq devices'
    BY <1>7 DEF InsertLocked
  <2>2. \A q \in Requests : request'[q].due =>
          request[q].due /\ request'[q].pc = request[q].pc /\ request'[q].hwid = request[q].hwid
    BY <1>7, HelperFields DEF InsertLocked
  <2>3. QED
    BY <2>1, <2>2 DEF DueInv
<1>8. ASSUME NEW r \in Requests, LockFails(r)
      PROVE  DueInv'
    BY <1>8, HelperFields DEF LockFails, Fault, slots, DueInv, TypeOK
<1>9. ASSUME NEW a \in Admins, CreateUserHwidDevice(a)
      PROVE  DueInv'
    BY <1>9, HelperFields DEF CreateUserHwidDevice, slots, DueInv, TypeOK
<1>10. ASSUME NEW a \in Admins, CountByUserId(a)
      PROVE  DueInv'
    BY <1>10, HelperFields DEF CountByUserId, AdminMoves, slots, DueInv, TypeOK
<1>11. ASSUME NEW a \in Admins, CreateDevice(a)
      PROVE  DueInv'
  <2>1. devices \subseteq devices'
    BY <1>11 DEF CreateDevice
  <2>2. \A q \in Requests : request'[q].due =>
          request[q].due /\ request'[q].pc = request[q].pc /\ request'[q].hwid = request[q].hwid
    BY <1>11, HelperFields DEF CreateDevice
  <2>3. QED
    BY <2>1, <2>2 DEF DueInv
<1>12. ASSUME NEW a \in Admins, FindDevice(a)
      PROVE  DueInv'
    BY <1>12, HelperFields DEF FindDevice, slots, DueInv, TypeOK
<1>13. ASSUME NEW a \in Admins, DeleteByHwidAndUserId(a)
      PROVE  DueInv'
  <2>1. Delete({admin[a].hwid})
    BY <1>13 DEF DeleteByHwidAndUserId
  <2>2. devices' = devices \ {admin[a].hwid}
    BY <2>1 DEF Delete
  <2>3. QED
    BY <2>1, <2>2, DeleteFields DEF DueInv
<1>14. ASSUME NEW a \in Admins, DeleteByUserId(a)
      PROVE  DueInv'
  <2>1. Delete(devices)
    BY <1>14 DEF DeleteByUserId
  <2>2. devices' = devices \ devices
    BY <2>1 DEF Delete
  <2>3. QED
    BY <2>1, <2>2, DeleteFields DEF DueInv
<1>15. ASSUME NEW h \in Hwids, UpsertHwidDevice(h)
      PROVE  DueInv'
  <2>1. devices \subseteq devices'
    BY <1>15 DEF UpsertHwidDevice
  <2>2. CASE request' = request
    BY <2>1, <2>2 DEF DueInv
  <2>3. CASE request' = Blinded(request)
    BY <2>1, <2>3, HelperFields DEF DueInv
  <2>4. QED
    BY <1>15, <2>2, <2>3 DEF UpsertHwidDevice
<1>16. ASSUME NEW h \in Hwids, UpsertFails(h)
      PROVE  DueInv'
    BY <1>16, HelperFields DEF UpsertFails, Fault, slots, DueInv, TypeOK
<1>17. ASSUME NEW l \in Limits, SetLimit(l)
      PROVE  DueInv'
    BY <1>17, HelperFields DEF SetLimit, slots, DueInv, TypeOK
<1>18. CASE CrashApi
    BY <1>18, HelperFields DEF CrashApi, Fault, Idle, slots, DueInv, TypeOK
<1>19. CASE UNCHANGED vars
  BY <1>19 DEF vars, DueInv, TypeOK
<1>20. QED
    BY <1>1, <1>2, <1>3, <1>4, <1>5, <1>6, <1>7, <1>8, <1>9, <1>10, <1>11, <1>12,
     <1>13, <1>14, <1>15, <1>16, <1>17, <1>18, <1>19 DEF Next, RequestNext, AdminNext,
     JobNext

LEMMA CauseStep == TypeInv /\ CauseInv /\ [Next]_vars => CauseInv'
<1> SUFFICES ASSUME TypeOK, Named, CauseInv, [Next]_vars PROVE CauseInv'
  BY DEF TypeInv
<1> USE DEF CauseInv, UpsertsHaveCause
<1>1. ASSUME NEW r \in Requests, BeginRequest(r)
      PROVE  CauseInv'
  <2>1. PICK h \in Hwids \cup {Null}, settings \in Settings :
          /\ request' = [request EXCEPT ![r] = Entry(h, settings)]
          /\ ledger' = IF Entry(h, settings).pc = "enqueue"
                       THEN [ledger EXCEPT !.free = @ \cup {h}] ELSE ledger
    BY <1>1 DEF BeginRequest
  <2>2. /\ ledger'.removed = ledger.removed /\ ledger.free \subseteq ledger'.free
        /\ Entry(h, settings).pc = "enqueue" => h \in ledger'.free
    BY <2>1 DEF TypeOK, Ledger
  <2>3. UNCHANGED <<devices, upserts>>
    BY <1>1 DEF BeginRequest, slots
  <2>4. QED
    BY <2>1, <2>2, <2>3, EntryType DEF TypeOK
<1>2. ASSUME NEW r \in Requests, CheckHwidExists(r)
      PROVE  CauseInv'
    BY <1>2, HelperFields DEF CheckHwidExists, Move, slots, TypeOK
<1>3. ASSUME NEW r \in Requests, CheckFails(r)
      PROVE  CauseInv'
    BY <1>3, HelperFields DEF CheckFails, Fault, slots, TypeOK
<1>4. ASSUME NEW r \in Requests, Enqueue(r)
      PROVE  CauseInv'
    BY <1>4, HelperFields DEF Enqueue, slots, TypeOK
<1>5. ASSUME NEW r \in Requests, EnqueueFails(r)
      PROVE  CauseInv'
    BY <1>5, HelperFields DEF EnqueueFails, Fault, slots, TypeOK
<1>6. ASSUME NEW r \in Requests, LockAndCount(r)
      PROVE  CauseInv'
  <2>1. ledger'.removed = ledger.removed /\ ledger'.free = ledger.free
    BY <1>6, HelperTypes, LedgerFields DEF LockAndCount, RequestState
  <2>2. \A q \in Requests : request'[q].pc = "enqueue" => request'[q] = request[q]
    <3>1. CASE request' = Settle(request, r, "refused")
      BY <3>1, HelperFields
    <3>2. CASE request' = [request EXCEPT ![r].pc = "insert"]
      BY <3>2 DEF TypeOK
    <3>3. QED
      BY <1>6, <3>1, <3>2 DEF LockAndCount, Move
  <2>3. QED
    BY <1>6, <2>1, <2>2 DEF LockAndCount
<1>7. ASSUME NEW r \in Requests, InsertLocked(r)
      PROVE  CauseInv'
  <2>1. request[r].hwid \in Hwids /\ request[r].blind \in BOOLEAN
    BY <1>7, HelperTypes DEF InsertLocked, Named, RequestState, AdminState
  <2>2. /\ devices \cup ledger.removed \cup ledger.free
             \subseteq devices' \cup ledger'.removed \cup ledger'.free
        /\ upserts' \subseteq upserts
    BY <1>7, <2>1, LedgerFields DEF InsertLocked
  <2>3. \A q \in Requests : request'[q].pc = "enqueue" =>
          request[q].pc = "enqueue" /\ request'[q].hwid = request[q].hwid
    BY <1>7, HelperFields DEF InsertLocked
  <2>4. QED
    BY <2>2, <2>3
<1>8. ASSUME NEW r \in Requests, LockFails(r)
      PROVE  CauseInv'
    BY <1>8, HelperFields DEF LockFails, Fault, slots, TypeOK
<1>9. ASSUME NEW a \in Admins, CreateUserHwidDevice(a)
      PROVE  CauseInv'
    BY <1>9, HelperFields DEF CreateUserHwidDevice, slots, TypeOK
<1>10. ASSUME NEW a \in Admins, CountByUserId(a)
      PROVE  CauseInv'
  <2>1. ledger'.removed = ledger.removed /\ ledger'.free = ledger.free
    BY <1>10, HelperTypes, LedgerFields DEF CountByUserId, AdminState
  <2>2. QED
    BY <1>10, <2>1 DEF CountByUserId
<1>11. ASSUME NEW a \in Admins, CreateDevice(a)
      PROVE  CauseInv'
  <2>1. admin[a].hwid \in Hwids /\ admin[a].blind \in BOOLEAN
    BY <1>11, HelperTypes DEF CreateDevice, Named, RequestState, AdminState
  <2>2. /\ devices \cup ledger.removed \cup ledger.free
             \subseteq devices' \cup ledger'.removed \cup ledger'.free
        /\ upserts' \subseteq upserts
    BY <1>11, <2>1, LedgerFields DEF CreateDevice
  <2>3. \A q \in Requests : request'[q].pc = "enqueue" =>
          request[q].pc = "enqueue" /\ request'[q].hwid = request[q].hwid
    BY <1>11, HelperFields DEF CreateDevice
  <2>4. QED
    BY <2>2, <2>3
<1>12. ASSUME NEW a \in Admins, FindDevice(a)
      PROVE  CauseInv'
    BY <1>12, HelperFields DEF FindDevice, slots, TypeOK
<1>13. ASSUME NEW a \in Admins, DeleteByHwidAndUserId(a)
      PROVE  CauseInv'
  <2>1. Delete({admin[a].hwid})
    BY <1>13 DEF DeleteByHwidAndUserId
  <2>2. /\ devices' = devices \ ({admin[a].hwid})
        /\ ledger'.removed = ledger.removed \cup ({admin[a].hwid} \cap devices)
        /\ ledger'.free = ledger.free
    BY <2>1, LedgerFields DEF Delete
  <2>3. upserts' = upserts
    BY <1>13 DEF DeleteByHwidAndUserId
  <2>4. QED
    BY <2>1, <2>2, <2>3, DeleteFields
<1>14. ASSUME NEW a \in Admins, DeleteByUserId(a)
      PROVE  CauseInv'
  <2>1. Delete(devices)
    BY <1>14 DEF DeleteByUserId
  <2>2. /\ devices' = devices \ (devices)
        /\ ledger'.removed = ledger.removed \cup (devices \cap devices)
        /\ ledger'.free = ledger.free
    BY <2>1, LedgerFields DEF Delete
  <2>3. upserts' = upserts
    BY <1>14 DEF DeleteByUserId
  <2>4. QED
    BY <2>1, <2>2, <2>3, DeleteFields
<1>15. ASSUME NEW h \in Hwids, UpsertHwidDevice(h)
      PROVE  CauseInv'
  <2>1. h \in Hwids
    BY <1>15, HelperTypes DEF UpsertHwidDevice, Named, RequestState, AdminState
  <2>2. /\ devices \cup ledger.removed \cup ledger.free
             \subseteq devices' \cup ledger'.removed \cup ledger'.free
        /\ upserts' \subseteq upserts
    BY <1>15, <2>1, LedgerFields DEF UpsertHwidDevice
  <2>3. \A q \in Requests : request'[q].pc = "enqueue" =>
          request[q].pc = "enqueue" /\ request'[q].hwid = request[q].hwid
    BY <1>15, HelperFields DEF UpsertHwidDevice
  <2>4. QED
    BY <2>2, <2>3
<1>16. ASSUME NEW h \in Hwids, UpsertFails(h)
      PROVE  CauseInv'
    BY <1>16, HelperFields DEF UpsertFails, Fault, slots, TypeOK
<1>17. ASSUME NEW l \in Limits, SetLimit(l)
      PROVE  CauseInv'
    BY <1>17, HelperFields DEF SetLimit, slots, TypeOK
<1>18. CASE CrashApi
    BY <1>18, HelperFields DEF CrashApi, Fault, Idle, slots, TypeOK
<1>19. CASE UNCHANGED vars
  BY <1>19 DEF vars, TypeOK
<1>20. QED
    BY <1>1, <1>2, <1>3, <1>4, <1>5, <1>6, <1>7, <1>8, <1>9, <1>10, <1>11, <1>12,
     <1>13, <1>14, <1>15, <1>16, <1>17, <1>18, <1>19 DEF Next, RequestNext, AdminNext,
     JobNext

\* Only the holder of the lock inserts.
LockInv == \A r \in Requests : request[r].pc = "insert" => lock = r

\* Who has counted, and has not been told otherwise, finds a free slot.
CountInv ==
  /\ \A r \in Requests : request[r].pc = "insert" /\ ~request[r].blind =>
       Cardinality(devices) < request[r].limit /\ request[r].limit <= ledger.granted
  /\ \A a \in Admins : admin[a].pc = "create" /\ ~admin[a].blind =>
       Cardinality(devices) < admin[a].limit /\ admin[a].limit <= ledger.granted

LEMMA LockStep == TypeInv /\ LockInv /\ [Next]_vars => LockInv'
<1> SUFFICES ASSUME TypeOK, Named, LockInv, [Next]_vars PROVE LockInv'
  BY DEF TypeInv
<1> USE DEF LockInv
<1>1. ASSUME NEW r \in Requests, BeginRequest(r)
      PROVE  LockInv'
  <2>1. PICK h \in Hwids \cup {Null}, settings \in Settings :
          request' = [request EXCEPT ![r] = Entry(h, settings)]
    BY <1>1 DEF BeginRequest
  <2>2. QED
    BY <1>1, <2>1, EntryType DEF BeginRequest, slots, TypeOK
<1>2. ASSUME NEW r \in Requests, CheckHwidExists(r)
      PROVE  LockInv'
    BY <1>2, HelperFields DEF CheckHwidExists, Move, slots, TypeOK
<1>3. ASSUME NEW r \in Requests, CheckFails(r)
      PROVE  LockInv'
    BY <1>3, HelperFields DEF CheckFails, Fault, slots, TypeOK
<1>4. ASSUME NEW r \in Requests, Enqueue(r)
      PROVE  LockInv'
    BY <1>4, HelperFields DEF Enqueue, slots, TypeOK
<1>5. ASSUME NEW r \in Requests, EnqueueFails(r)
      PROVE  LockInv'
    BY <1>5, HelperFields DEF EnqueueFails, Fault, slots, TypeOK
<1>6. ASSUME NEW r \in Requests, LockAndCount(r)
      PROVE  LockInv'
  <2>1. CASE request' = Settle(request, r, "refused") /\ lock' = lock
    BY <2>1, HelperFields
  <2>2. CASE request' = [request EXCEPT ![r].pc = "insert"] /\ lock' = r
    <3>1. lock = Null
      BY <1>6 DEF LockAndCount
    <3>2. \A q \in Requests : q # r => request[q].pc # "insert"
      BY <3>1, DeviceConstants
    <3>3. QED
      BY <2>2, <3>2 DEF TypeOK
  <2>3. QED
    BY <1>6, <2>1, <2>2 DEF LockAndCount, Move
<1>7. ASSUME NEW r \in Requests, InsertLocked(r)
      PROVE  LockInv'
  <2>1. \A q \in Requests : q # r => request[q].pc # "insert"
    BY <1>7 DEF InsertLocked
  <2>2. request'[r].pc # "insert"
    BY <1>7, HelperSettles DEF InsertLocked
  <2>3. \A q \in Requests : q # r => request'[q] = request[q]
    BY <1>7, HelperSettles DEF InsertLocked
  <2>4. QED
    BY <2>1, <2>2, <2>3
<1>8. ASSUME NEW r \in Requests, LockFails(r)
      PROVE  LockInv'
  <2>1. request'[r].pc # "insert"
    BY <1>8, HelperSettles DEF LockFails
  <2>2. \A q \in Requests : q # r => request'[q] = request[q]
    BY <1>8, HelperSettles DEF LockFails
  <2>3. QED
    BY <1>8, <2>1, <2>2 DEF LockFails
<1>9. ASSUME NEW a \in Admins, CreateUserHwidDevice(a)
      PROVE  LockInv'
    BY <1>9, HelperFields DEF CreateUserHwidDevice, slots, TypeOK
<1>10. ASSUME NEW a \in Admins, CountByUserId(a)
      PROVE  LockInv'
    BY <1>10, HelperFields DEF CountByUserId, AdminMoves, slots, TypeOK
<1>11. ASSUME NEW a \in Admins, CreateDevice(a)
      PROVE  LockInv'
    BY <1>11, HelperFields DEF CreateDevice, slots, TypeOK
<1>12. ASSUME NEW a \in Admins, FindDevice(a)
      PROVE  LockInv'
    BY <1>12, HelperFields DEF FindDevice, slots, TypeOK
<1>13. ASSUME NEW a \in Admins, DeleteByHwidAndUserId(a)
      PROVE  LockInv'
  <2>1. Delete({admin[a].hwid}) /\ lock' = lock
    BY <1>13 DEF DeleteByHwidAndUserId
  <2>2. QED
    BY <2>1, DeleteFields
<1>14. ASSUME NEW a \in Admins, DeleteByUserId(a)
      PROVE  LockInv'
  <2>1. Delete(devices) /\ lock' = lock
    BY <1>14 DEF DeleteByUserId
  <2>2. QED
    BY <2>1, DeleteFields
<1>15. ASSUME NEW h \in Hwids, UpsertHwidDevice(h)
      PROVE  LockInv'
  <2>1. request' \in {request, Blinded(request)} /\ lock' = lock
    BY <1>15 DEF UpsertHwidDevice
  <2>2. QED
    BY <2>1, HelperFields
<1>16. ASSUME NEW h \in Hwids, UpsertFails(h)
      PROVE  LockInv'
    BY <1>16, HelperFields DEF UpsertFails, Fault, slots, TypeOK
<1>17. ASSUME NEW l \in Limits, SetLimit(l)
      PROVE  LockInv'
    BY <1>17, HelperFields DEF SetLimit, slots, TypeOK
<1>18. CASE CrashApi
    BY <1>18, HelperFields DEF CrashApi, Fault, Idle, slots, TypeOK
<1>19. CASE UNCHANGED vars
  BY <1>19 DEF vars, TypeOK
<1>20. QED
    BY <1>1, <1>2, <1>3, <1>4, <1>5, <1>6, <1>7, <1>8, <1>9, <1>10, <1>11, <1>12,
     <1>13, <1>14, <1>15, <1>16, <1>17, <1>18, <1>19 DEF Next, RequestNext, AdminNext,
     JobNext

LEMMA DevicesFinite ==
  ASSUME TypeOK
  PROVE  /\ IsFiniteSet(devices) /\ Cardinality(devices) \in Nat
         /\ \A S \in SUBSET devices : IsFiniteSet(S) /\ Cardinality(S) \in Nat
                                      /\ Cardinality(S) <= Cardinality(devices)
BY FS_Subset, FS_CardinalityType, DeviceConstants DEF TypeOK

LEMMA CountStep == TypeInv /\ LockInv /\ CountInv /\ [Next]_vars => CountInv'
<1> SUFFICES ASSUME TypeOK, Named, LockInv, CountInv, [Next]_vars PROVE CountInv'
  BY DEF TypeInv
<1> USE DEF CountInv
<1>1. ASSUME NEW r \in Requests, BeginRequest(r)
      PROVE  CountInv'
  <2>1. PICK h \in Hwids \cup {Null}, settings \in Settings :
          /\ request' = [request EXCEPT ![r] = Entry(h, settings)]
          /\ ledger' = IF Entry(h, settings).pc = "enqueue"
                       THEN [ledger EXCEPT !.free = @ \cup {h}] ELSE ledger
    BY <1>1 DEF BeginRequest
  <2>2. ledger'.granted = ledger.granted
    BY <2>1 DEF TypeOK, Ledger
  <2>3. UNCHANGED <<devices, admin>>
    BY <1>1 DEF BeginRequest, slots
  <2>4. QED
    BY <2>1, <2>2, <2>3, EntryType DEF TypeOK
<1>2. ASSUME NEW r \in Requests, CheckHwidExists(r)
      PROVE  CountInv'
    BY <1>2, HelperFields DEF CheckHwidExists, Move, slots, TypeOK
<1>3. ASSUME NEW r \in Requests, CheckFails(r)
      PROVE  CountInv'
    BY <1>3, HelperFields DEF CheckFails, Fault, slots, TypeOK
<1>4. ASSUME NEW r \in Requests, Enqueue(r)
      PROVE  CountInv'
    BY <1>4, HelperFields DEF Enqueue, slots, TypeOK
<1>5. ASSUME NEW r \in Requests, EnqueueFails(r)
      PROVE  CountInv'
    BY <1>5, HelperFields DEF EnqueueFails, Fault, slots, TypeOK
<1>6. ASSUME NEW r \in Requests, LockAndCount(r)
      PROVE  CountInv'
  <2>1. /\ request[r].limit \in Nat /\ ledger.granted \in Nat
        /\ \A q \in Requests : request[q].limit \in Nat
        /\ \A b \in Admins : admin[b].limit \in Nat
    BY HelperTypes DEF RequestState, AdminState, TypeOK, Ledger
  <2>2. UNCHANGED <<devices, admin>>
    BY <1>6 DEF LockAndCount
  <2>3. CASE request' = Settle(request, r, "refused") /\ ledger' = ledger
    BY <2>2, <2>3, HelperFields
  <2>4. CASE /\ request' = [request EXCEPT ![r].pc = "insert"]
             /\ ledger' = Granted(request[r].limit)
             /\ ~(Cardinality(devices) >= request[r].limit)
    <3>1. Cardinality(devices) < request[r].limit
      BY <2>1, <2>4, DevicesFinite
    <3>2. /\ ledger'.granted \in Nat /\ ledger'.granted >= ledger.granted
          /\ ledger'.granted >= request[r].limit
      BY <2>1, <2>4, LedgerFields
    <3>3. \A q \in Requests : /\ request'[q].limit = request[q].limit
                              /\ request'[q].blind = request[q].blind
                              /\ q # r => request'[q].pc = request[q].pc
      BY <2>4 DEF TypeOK
    <3>4. QED
      BY <2>1, <2>2, <3>1, <3>2, <3>3
  <2>5. QED
    BY <1>6, <2>3, <2>4 DEF LockAndCount, Move
<1>7. ASSUME NEW r \in Requests, InsertLocked(r)
      PROVE  CountInv'
  <2>1. \A q \in Requests : request'[q].pc # "insert"
    <3>1. \A q \in Requests : q # r => request[q].pc # "insert"
      BY <1>7 DEF InsertLocked, LockInv
    <3>2. QED
      BY <1>7, <3>1, HelperSettles DEF InsertLocked
  <2>2. CASE UNCHANGED <<devices, admin, ledger>>
    BY <2>1, <2>2
  <2>3. CASE admin' = Blinded(admin)
    BY <2>1, <2>3, HelperFields
  <2>4. QED
    BY <1>7, <2>2, <2>3 DEF InsertLocked
<1>8. ASSUME NEW r \in Requests, LockFails(r)
      PROVE  CountInv'
    BY <1>8, HelperFields DEF LockFails, Fault, slots, TypeOK
<1>9. ASSUME NEW a \in Admins, CreateUserHwidDevice(a)
      PROVE  CountInv'
  <2>1. UNCHANGED <<devices, request, ledger>>
    BY <1>9 DEF CreateUserHwidDevice
  <2>2. PICK h \in Hwids \ devices, settings \in Settings :
          admin' = [admin EXCEPT ![a] =
                      [pc |-> IF settings.enabled THEN "count" ELSE "create", hwid |-> h,
                       limit |-> Effective(limit, settings), blind |-> ~settings.enabled]]
    BY <1>9 DEF CreateUserHwidDevice
  <2>3. admin'[a].pc = "create" => admin'[a].blind
    BY <2>2 DEF TypeOK
  <2>4. \A b \in Admins : b # a => admin'[b] = admin[b]
    BY <2>2 DEF TypeOK
  <2>5. QED
    BY <2>1, <2>3, <2>4
<1>10. ASSUME NEW a \in Admins, CountByUserId(a)
      PROVE  CountInv'
  <2>1. /\ admin[a].limit \in Nat /\ ledger.granted \in Nat
        /\ \A q \in Requests : request[q].limit \in Nat
        /\ \A b \in Admins : admin[b].limit \in Nat
    BY HelperTypes DEF RequestState, AdminState, TypeOK, Ledger
  <2>2. UNCHANGED <<devices, request>>
    BY <1>10 DEF CountByUserId
  <2>3. CASE admin' = [admin EXCEPT ![a] = NoAdmin] /\ ledger' = ledger
    BY <2>2, <2>3 DEF NoAdmin, TypeOK
  <2>4. CASE /\ admin' = [admin EXCEPT ![a].pc = "create"]
             /\ ledger' = Granted(admin[a].limit)
             /\ ~(Cardinality(devices) >= admin[a].limit)
    <3>1. Cardinality(devices) < admin[a].limit
      BY <2>1, <2>4, DevicesFinite
    <3>2. /\ ledger'.granted \in Nat /\ ledger'.granted >= ledger.granted
          /\ ledger'.granted >= admin[a].limit
      BY <2>1, <2>4, LedgerFields
    <3>3. \A b \in Admins : /\ admin'[b].limit = admin[b].limit
                            /\ admin'[b].blind = admin[b].blind
                            /\ b # a => admin'[b].pc = admin[b].pc
      BY <2>4 DEF TypeOK
    <3>4. QED
      BY <2>1, <2>2, <3>1, <3>2, <3>3
  <2>5. QED
    BY <1>10, <2>3, <2>4 DEF CountByUserId, AdminMoves
<1>11. ASSUME NEW a \in Admins, CreateDevice(a)
      PROVE  CountInv'
  <2>1. CASE admin' = [admin EXCEPT ![a] = NoAdmin] /\ UNCHANGED <<devices, request, ledger>>
    BY <2>1 DEF NoAdmin, TypeOK
  <2>2. CASE request' = Blinded(request) /\ admin' = [Blinded(admin) EXCEPT ![a] = NoAdmin]
    <3>1. \A b \in Admins : admin'[b] = NoAdmin \/ admin'[b] = Blinded(admin)[b]
      BY <2>2, HelperTypes
    <3>2. QED
      BY <2>2, <3>1, HelperFields DEF NoAdmin
  <2>3. QED
    BY <1>11, <2>1, <2>2 DEF CreateDevice
<1>12. ASSUME NEW a \in Admins, FindDevice(a)
      PROVE  CountInv'
    BY <1>12, HelperFields DEF FindDevice, slots, TypeOK
<1>13. ASSUME NEW a \in Admins, DeleteByHwidAndUserId(a)
      PROVE  CountInv'
  <2>1. Delete({admin[a].hwid})
    BY <1>13 DEF DeleteByHwidAndUserId
  <2>2. /\ ledger'.granted = ledger.granted
        /\ Cardinality(devices') <= Cardinality(devices) /\ Cardinality(devices') \in Nat
    BY <2>1, LedgerFields, DevicesFinite DEF Delete
  <2>3. /\ \A q \in Requests : request[q].limit \in Nat /\ ledger.granted \in Nat
        /\ \A b \in Admins : admin[b].limit \in Nat
    BY HelperTypes DEF RequestState, AdminState, TypeOK, Ledger
  <2>4. \A b \in Admins : admin'[b] = NoAdmin \/ admin'[b] = admin[b]
    BY <1>13 DEF DeleteByHwidAndUserId, TypeOK
  <2>5. QED
    BY <2>1, <2>2, <2>3, <2>4, DeleteFields, DevicesFinite DEF NoAdmin
<1>14. ASSUME NEW a \in Admins, DeleteByUserId(a)
      PROVE  CountInv'
  <2>1. Delete(devices)
    BY <1>14 DEF DeleteByUserId
  <2>2. /\ ledger'.granted = ledger.granted
        /\ Cardinality(devices') <= Cardinality(devices) /\ Cardinality(devices') \in Nat
    BY <2>1, LedgerFields, DevicesFinite DEF Delete
  <2>3. /\ \A q \in Requests : request[q].limit \in Nat /\ ledger.granted \in Nat
        /\ \A b \in Admins : admin[b].limit \in Nat
    BY HelperTypes DEF RequestState, AdminState, TypeOK, Ledger
  <2>4. \A b \in Admins : admin'[b] = NoAdmin \/ admin'[b] = admin[b]
    BY <1>14 DEF DeleteByUserId, TypeOK
  <2>5. QED
    BY <2>1, <2>2, <2>3, <2>4, DeleteFields, DevicesFinite DEF NoAdmin
<1>15. ASSUME NEW h \in Hwids, UpsertHwidDevice(h)
      PROVE  CountInv'
  <2>1. CASE h \in devices
    <3>1. UNCHANGED <<devices, request, admin, ledger>>
      BY <1>15, <2>1 DEF UpsertHwidDevice
    <3>2. QED
      BY <3>1
  <2>2. CASE h \notin devices
    <3>1. request' = Blinded(request) /\ admin' = Blinded(admin)
      BY <1>15, <2>2 DEF UpsertHwidDevice
    <3>2. QED
      BY <3>1, HelperFields
  <2>3. QED
    BY <2>1, <2>2
<1>16. ASSUME NEW h \in Hwids, UpsertFails(h)
      PROVE  CountInv'
    BY <1>16, HelperFields DEF UpsertFails, Fault, slots, TypeOK
<1>17. ASSUME NEW l \in Limits, SetLimit(l)
      PROVE  CountInv'
    BY <1>17, HelperFields DEF SetLimit, slots, TypeOK
<1>18. CASE CrashApi
  BY <1>18 DEF CrashApi, Idle, NoAdmin
<1>19. CASE UNCHANGED vars
  BY <1>19 DEF vars, TypeOK
<1>20. QED
    BY <1>1, <1>2, <1>3, <1>4, <1>5, <1>6, <1>7, <1>8, <1>9, <1>10, <1>11, <1>12,
     <1>13, <1>14, <1>15, <1>16, <1>17, <1>18, <1>19 DEF Next, RequestNext, AdminNext,
     JobNext

\* Of the devices that a count admitted there are no more than it allowed.
LEMMA LimitStep == TypeInv /\ CountInv /\ LimitKept /\ [Next]_vars => LimitKept'
<1> SUFFICES ASSUME TypeOK, Named, CountInv, LimitKept, [Next]_vars PROVE LimitKept'
  BY DEF TypeInv
<1> DEFINE counted == devices \ ledger.exempt
<1>a. counted' \subseteq counted /\ ledger'.granted >= ledger.granted /\ ledger'.granted \in Nat
        => LimitKept'
  <2> SUFFICES ASSUME counted' \subseteq counted, ledger'.granted >= ledger.granted,
                      ledger'.granted \in Nat
               PROVE  LimitKept'
    OBVIOUS
  <2>1. IsFiniteSet(counted) /\ Cardinality(counted) \in Nat
    BY DevicesFinite
  <2>2. Cardinality(counted') <= Cardinality(counted) /\ Cardinality(counted') \in Nat
    BY <2>1, FS_Subset, FS_CardinalityType
  <2>3. ledger.granted \in Nat
    BY DEF TypeOK, Ledger
  <2>4. QED
    BY <2>1, <2>2, <2>3 DEF LimitKept
<1>b. ASSUME NEW h \in Hwids, devices' = devices \cup {h}, h \notin devices,
             ledger' = Inserted(h, FALSE), Cardinality(devices) < ledger.granted
      PROVE  LimitKept'
  <2>1. ledger'.granted = ledger.granted /\ ledger.granted \in Nat
    BY <1>b, LedgerFields DEF TypeOK, Ledger
  <2>2. IsFiniteSet(devices') /\ Cardinality(devices') = Cardinality(devices) + 1
    BY <1>b, DevicesFinite, FS_AddElement
  <2>3. counted' \subseteq devices'
    OBVIOUS
  <2>4. Cardinality(counted') <= Cardinality(devices') /\ Cardinality(counted') \in Nat
    BY <2>2, <2>3, FS_Subset, FS_CardinalityType
  <2>5. Cardinality(devices) \in Nat
    BY DevicesFinite
  <2>6. Cardinality(devices) < ledger.granted
    BY <1>b
  <2>7. Cardinality(devices') <= ledger'.granted
    BY <2>1, <2>2, <2>5, <2>6
  <2> HIDE DEF counted
  <2>8. Cardinality(counted') <= ledger'.granted
    BY <2>1, <2>2, <2>4, <2>5, <2>7
  <2>9. QED
    BY <2>8 DEF LimitKept, counted
<1>c. ASSUME NEW h \in Hwids, devices' = devices \cup {h}, ledger' = Inserted(h, TRUE)
      PROVE  LimitKept'
  <2>1. ledger'.exempt = ledger.exempt \cup {h} /\ ledger'.granted = ledger.granted
    BY <1>c, LedgerFields
  <2>2. counted' \subseteq counted
    BY <1>c, <2>1
  <2>3. QED
    BY <2>1, <2>2, <1>a DEF TypeOK, Ledger
<1>d. ASSUME UNCHANGED <<devices, ledger>>
      PROVE  LimitKept'
  BY <1>d DEF LimitKept
<1> HIDE DEF counted
<1>1. ASSUME NEW r \in Requests, BeginRequest(r)
      PROVE  LimitKept'
  <2>1. devices' = devices
    BY <1>1 DEF BeginRequest, slots
  <2>2. ledger'.exempt = ledger.exempt /\ ledger'.granted = ledger.granted
    BY <1>1 DEF BeginRequest, TypeOK, Ledger
  <2>3. QED
    BY <2>1, <2>2 DEF LimitKept
<1>2. ASSUME NEW r \in Requests, CheckHwidExists(r)
      PROVE  LimitKept'
  BY <1>2, <1>d DEF CheckHwidExists, slots
<1>3. ASSUME NEW r \in Requests, CheckFails(r)
      PROVE  LimitKept'
  BY <1>3, <1>d DEF CheckFails, slots
<1>4. ASSUME NEW r \in Requests, Enqueue(r)
      PROVE  LimitKept'
  BY <1>4, <1>d DEF Enqueue
<1>5. ASSUME NEW r \in Requests, EnqueueFails(r)
      PROVE  LimitKept'
  BY <1>5, <1>d DEF EnqueueFails, slots
<1>6. ASSUME NEW r \in Requests, LockAndCount(r)
      PROVE  LimitKept'
  <2>1. devices' = devices
    BY <1>6 DEF LockAndCount
  <2>2. CASE UNCHANGED ledger
    BY <2>1, <2>2, <1>d
  <2>3. CASE ledger' = Granted(request[r].limit)
    <3>1. request[r].limit \in Nat
      BY HelperTypes DEF RequestState, AdminState
    <3>2. /\ ledger'.exempt = ledger.exempt /\ ledger'.granted >= ledger.granted
          /\ ledger'.granted \in Nat
      BY <2>3, <3>1, LedgerFields
    <3>3. QED
      BY <2>1, <3>2, <1>a DEF counted
  <2>4. QED
    BY <1>6, <2>2, <2>3 DEF LockAndCount
<1>7. ASSUME NEW r \in Requests, InsertLocked(r)
      PROVE  LimitKept'
  <2>1. CASE UNCHANGED <<devices, ledger>>
    BY <2>1, <1>d
  <2>2. CASE request[r].hwid \notin devices
    <3>1. /\ devices' = devices \cup {request[r].hwid} /\ ledger' = Inserted(request[r].hwid, request[r].blind)
          /\ request[r].hwid \in Hwids
      BY <1>7, <2>2 DEF InsertLocked, Named
    <3>2. CASE request[r].blind
      <4>1. ledger' = Inserted(request[r].hwid, TRUE)
        BY <3>1, <3>2 DEF Inserted
      <4>2. QED
        BY <3>1, <4>1, <1>c
    <3>3. CASE ~request[r].blind
      <4>1. ledger' = Inserted(request[r].hwid, FALSE)
        BY <3>1, <3>3 DEF Inserted
      <4>2. request[r].limit \in Nat /\ ledger.granted \in Nat
        BY HelperTypes DEF RequestState, AdminState, TypeOK, Ledger
      <4>3. Cardinality(devices) < ledger.granted
        BY <1>7, <3>3, <4>2, DevicesFinite DEF InsertLocked, CountInv
      <4>4. QED
        BY <2>2, <3>1, <4>1, <4>3, <1>b
    <3>4. QED
      BY <3>2, <3>3
  <2>3. QED
    BY <1>7, <2>1, <2>2 DEF InsertLocked
<1>8. ASSUME NEW r \in Requests, LockFails(r)
      PROVE  LimitKept'
  BY <1>8, <1>d DEF LockFails
<1>9. ASSUME NEW a \in Admins, CreateUserHwidDevice(a)
      PROVE  LimitKept'
  BY <1>9, <1>d DEF CreateUserHwidDevice
<1>10. ASSUME NEW a \in Admins, CountByUserId(a)
      PROVE  LimitKept'
  <2>1. devices' = devices
    BY <1>10 DEF CountByUserId
  <2>2. CASE UNCHANGED ledger
    BY <2>1, <2>2, <1>d
  <2>3. CASE ledger' = Granted(admin[a].limit)
    <3>1. admin[a].limit \in Nat
      BY HelperTypes DEF RequestState, AdminState
    <3>2. /\ ledger'.exempt = ledger.exempt /\ ledger'.granted >= ledger.granted
          /\ ledger'.granted \in Nat
      BY <2>3, <3>1, LedgerFields
    <3>3. QED
      BY <2>1, <3>2, <1>a DEF counted
  <2>4. QED
    BY <1>10, <2>2, <2>3 DEF CountByUserId
<1>11. ASSUME NEW a \in Admins, CreateDevice(a)
      PROVE  LimitKept'
  <2>1. CASE UNCHANGED <<devices, ledger>>
    BY <2>1, <1>d
  <2>2. CASE admin[a].hwid \notin devices
    <3>1. /\ devices' = devices \cup {admin[a].hwid} /\ ledger' = Inserted(admin[a].hwid, admin[a].blind)
          /\ admin[a].hwid \in Hwids
      BY <1>11, <2>2 DEF CreateDevice, Named
    <3>2. CASE admin[a].blind
      <4>1. ledger' = Inserted(admin[a].hwid, TRUE)
        BY <3>1, <3>2 DEF Inserted
      <4>2. QED
        BY <3>1, <4>1, <1>c
    <3>3. CASE ~admin[a].blind
      <4>1. ledger' = Inserted(admin[a].hwid, FALSE)
        BY <3>1, <3>3 DEF Inserted
      <4>2. admin[a].limit \in Nat /\ ledger.granted \in Nat
        BY HelperTypes DEF RequestState, AdminState, TypeOK, Ledger
      <4>3. Cardinality(devices) < ledger.granted
        BY <1>11, <3>3, <4>2, DevicesFinite DEF CreateDevice, CountInv
      <4>4. QED
        BY <2>2, <3>1, <4>1, <4>3, <1>b
    <3>4. QED
      BY <3>2, <3>3
  <2>3. QED
    BY <1>11, <2>1, <2>2 DEF CreateDevice
<1>12. ASSUME NEW a \in Admins, FindDevice(a)
      PROVE  LimitKept'
  BY <1>12, <1>d DEF FindDevice
<1>13. ASSUME NEW a \in Admins, DeleteByHwidAndUserId(a)
      PROVE  LimitKept'
  <2>1. Delete({admin[a].hwid})
    BY <1>13 DEF DeleteByHwidAndUserId
  <2>2. /\ devices' = devices \ ({admin[a].hwid}) /\ ledger'.exempt = ledger.exempt \ ({admin[a].hwid} \cap devices)
        /\ ledger'.granted = ledger.granted
    BY <2>1, LedgerFields DEF Delete
  <2>3. counted' \subseteq counted
    BY <2>2 DEF counted
  <2>4. QED
    BY <2>2, <2>3, <1>a DEF TypeOK, Ledger
<1>14. ASSUME NEW a \in Admins, DeleteByUserId(a)
      PROVE  LimitKept'
  <2>1. Delete(devices)
    BY <1>14 DEF DeleteByUserId
  <2>2. /\ devices' = devices \ (devices) /\ ledger'.exempt = ledger.exempt \ (devices \cap devices)
        /\ ledger'.granted = ledger.granted
    BY <2>1, LedgerFields DEF Delete
  <2>3. counted' \subseteq counted
    BY <2>2 DEF counted
  <2>4. QED
    BY <2>2, <2>3, <1>a DEF TypeOK, Ledger
<1>15. ASSUME NEW h \in Hwids, UpsertHwidDevice(h)
      PROVE  LimitKept'
  <2>1. CASE h \in devices
    <3>1. UNCHANGED <<devices, ledger>>
      BY <1>15, <2>1 DEF UpsertHwidDevice
    <3>2. QED
      BY <3>1, <1>d
  <2>2. CASE h \notin devices
    BY <1>15, <2>2, <1>c DEF UpsertHwidDevice
  <2>3. QED
    BY <2>1, <2>2
<1>16. ASSUME NEW h \in Hwids, UpsertFails(h)
      PROVE  LimitKept'
  BY <1>16, <1>d DEF UpsertFails
<1>17. ASSUME NEW l \in Limits, SetLimit(l)
      PROVE  LimitKept'
  BY <1>17, <1>d DEF SetLimit
<1>18. CASE CrashApi
  BY <1>18, <1>d DEF CrashApi
<1>19. CASE UNCHANGED vars
  BY <1>19, <1>d DEF vars
<1>20. QED
    BY <1>1, <1>2, <1>3, <1>4, <1>5, <1>6, <1>7, <1>8, <1>9, <1>10, <1>11, <1>12,
     <1>13, <1>14, <1>15, <1>16, <1>17, <1>18, <1>19 DEF Next, RequestNext, AdminNext,
     JobNext

Inv == TypeInv /\ DueInv /\ CauseInv /\ LockInv /\ CountInv /\ LimitKept

LEMMA InvInit == Init => Inv
<1> SUFFICES ASSUME Init PROVE Inv
  OBVIOUS
<1>1. TypeInv
  BY TypeInit DEF TypeInv
<1>2. DueInv /\ CauseInv /\ LockInv /\ CountInv
  BY DEF Init, Idle, NoAdmin, DueInv, CauseInv, UpsertsHaveCause, LockInv, CountInv
<1>3. LimitKept
  BY FS_EmptySet DEF Init, LimitKept
<1>4. QED
  BY <1>1, <1>2, <1>3 DEF Inv

LEMMA InvStep == Inv /\ [Next]_vars => Inv'
<1> SUFFICES ASSUME Inv, [Next]_vars PROVE Inv'
  OBVIOUS
<1>1. TypeInv'
  BY TypeStep, NamedStep DEF Inv, TypeInv
<1>2. QED
  BY <1>1, DueStep, CauseStep, LockStep, CountStep, LimitStep DEF Inv

\* The variables keep their types.
THEOREM DevicesTypeCorrect == Spec => []TypeOK
<1>1. Inv => TypeOK
  BY DEF Inv, TypeInv
<1>2. QED
  BY InvInit, InvStep, <1>1, PTL DEF Spec

\* Two requests, however they overlap, never take one slot: the devices that were counted
\* in never exceed the largest limit granted under.
THEOREM SlotsAreLimited == Spec => []LimitKept
<1>1. Inv => LimitKept
  BY DEF Inv
<1>2. QED
  BY InvInit, InvStep, <1>1, PTL DEF Spec

\* The queue that counts nothing upserts no device without a claim.
THEOREM QueueBringsNoDevice == Spec => []UpsertsHaveCause
<1>1. Inv => UpsertsHaveCause
  BY DEF Inv, CauseInv
<1>2. QED
  BY InvInit, InvStep, <1>1, PTL DEF Spec


\* A step in which nothing fails refuses no request that is due.
LEMMA DueIsServed ==
  Inv /\ [Next]_vars =>
    \A r \in Requests : request[r].due /\ faults' = faults => request'[r].pc # "refused"
<1> SUFFICES ASSUME TypeOK, DueInv, [Next]_vars, NEW q \in Requests, request[q].due, faults' = faults
             PROVE  request'[q].pc # "refused"
  BY DEF Inv, TypeInv
<1>a. request[q].pc \in {"check", "enqueue"} /\ request[q].hwid \in devices
  BY DEF DueInv
<1>b. ~Fault
  BY DEF Fault, TypeOK
<1>1. ASSUME NEW r \in Requests, BeginRequest(r)
      PROVE  request'[q].pc # "refused"
  <2>1. CASE q = r
    BY <1>1, <1>a, <2>1, HelperSettles DEF BeginRequest, Move, slots, TypeOK
  <2>2. CASE q # r
    BY <1>1, <1>a, <2>2, HelperSettles DEF BeginRequest, Move, TypeOK
  <2>3. QED
    BY <2>1, <2>2
<1>2. ASSUME NEW r \in Requests, CheckHwidExists(r)
      PROVE  request'[q].pc # "refused"
  <2>1. CASE q = r
    BY <1>2, <1>a, <2>1, HelperSettles DEF CheckHwidExists, Move, slots, TypeOK
  <2>2. CASE q # r
    BY <1>2, <1>a, <2>2, HelperSettles DEF CheckHwidExists, Move, TypeOK
  <2>3. QED
    BY <2>1, <2>2
<1>3. ASSUME NEW r \in Requests, CheckFails(r)
      PROVE  request'[q].pc # "refused"
  BY <1>3, <1>b DEF CheckFails
<1>4. ASSUME NEW r \in Requests, Enqueue(r)
      PROVE  request'[q].pc # "refused"
  <2>1. CASE q = r
    BY <1>4, <1>a, <2>1, HelperSettles DEF Enqueue, Move, slots, TypeOK
  <2>2. CASE q # r
    BY <1>4, <1>a, <2>2, HelperSettles DEF Enqueue, Move, TypeOK
  <2>3. QED
    BY <2>1, <2>2
<1>5. ASSUME NEW r \in Requests, EnqueueFails(r)
      PROVE  request'[q].pc # "refused"
  BY <1>5, <1>b DEF EnqueueFails
<1>6. ASSUME NEW r \in Requests, LockAndCount(r)
      PROVE  request'[q].pc # "refused"
  <2>1. CASE q = r
    BY <1>6, <1>a, <2>1, HelperSettles DEF LockAndCount, Move, slots, TypeOK
  <2>2. CASE q # r
    BY <1>6, <1>a, <2>2, HelperSettles DEF LockAndCount, Move, TypeOK
  <2>3. QED
    BY <2>1, <2>2
<1>7. ASSUME NEW r \in Requests, InsertLocked(r)
      PROVE  request'[q].pc # "refused"
  <2>1. CASE q = r
    BY <1>7, <1>a, <2>1, HelperSettles DEF InsertLocked, Move, slots, TypeOK
  <2>2. CASE q # r
    BY <1>7, <1>a, <2>2, HelperSettles DEF InsertLocked, Move, TypeOK
  <2>3. QED
    BY <2>1, <2>2
<1>8. ASSUME NEW r \in Requests, LockFails(r)
      PROVE  request'[q].pc # "refused"
  BY <1>8, <1>b DEF LockFails
<1>9. ASSUME NEW a \in Admins, CreateUserHwidDevice(a)
      PROVE  request'[q].pc # "refused"
  BY <1>9, <1>a DEF CreateUserHwidDevice
<1>10. ASSUME NEW a \in Admins, CountByUserId(a)
      PROVE  request'[q].pc # "refused"
  BY <1>10, <1>a DEF CountByUserId
<1>11. ASSUME NEW a \in Admins, CreateDevice(a)
      PROVE  request'[q].pc # "refused"
  <2>1. request' \in {request, Blinded(request)}
    BY <1>11 DEF CreateDevice
  <2>2. QED
    BY <1>a, <2>1, HelperFields
<1>12. ASSUME NEW a \in Admins, FindDevice(a)
      PROVE  request'[q].pc # "refused"
  BY <1>12, <1>a DEF FindDevice
<1>13. ASSUME NEW a \in Admins, DeleteByHwidAndUserId(a)
      PROVE  request'[q].pc # "refused"
  <2>1. Delete({admin[a].hwid})
    BY <1>13 DEF DeleteByHwidAndUserId
  <2>2. QED
    BY <1>a, <2>1, DeleteFields
<1>14. ASSUME NEW a \in Admins, DeleteByUserId(a)
      PROVE  request'[q].pc # "refused"
  <2>1. Delete(devices)
    BY <1>14 DEF DeleteByUserId
  <2>2. QED
    BY <1>a, <2>1, DeleteFields
<1>15. ASSUME NEW h \in Hwids, UpsertHwidDevice(h)
      PROVE  request'[q].pc # "refused"
  <2>1. request' \in {request, Blinded(request)}
    BY <1>15 DEF UpsertHwidDevice
  <2>2. QED
    BY <1>a, <2>1, HelperFields
<1>16. ASSUME NEW h \in Hwids, UpsertFails(h)
      PROVE  request'[q].pc # "refused"
  BY <1>16, <1>b DEF UpsertFails
<1>17. ASSUME NEW l \in Limits, SetLimit(l)
      PROVE  request'[q].pc # "refused"
  BY <1>17, <1>a DEF SetLimit
<1>18. CASE CrashApi
  BY <1>18, <1>b DEF CrashApi
<1>19. CASE UNCHANGED vars
  BY <1>19, <1>a DEF vars
<1>20. QED
    BY <1>1, <1>2, <1>3, <1>4, <1>5, <1>6, <1>7, <1>8, <1>9, <1>10, <1>11, <1>12,
     <1>13, <1>14, <1>15, <1>16, <1>17, <1>18, <1>19 DEF Next, RequestNext, AdminNext,
     JobNext

\* A registered device is served, however full the slots are and whoever registers or is
\* registered meanwhile.
THEOREM RegisteredIsServed == Spec => KnownIsServed
BY InvInit, InvStep, DueIsServed, PTL DEF Spec, KnownIsServed

=============================================================================
