----------------------- MODULE RemnawaveSettingsProofs -----------------------
(***************************************************************************)
(* Proofs about RemnawaveSettings for every set of administrators,         *)
(* requests, methods and bodies: enabled methods stay complete however     *)
(* updates overlap, and updates that do not overlap lock nobody out.       *)
(***************************************************************************)
EXTENDS RemnawaveSettings, TLAPS

(***************************************************************************)
(* Types                                                                   *)
(***************************************************************************)

\* The CLI's body is a body like any other.
LEMMA EnablePasswordIsBody == EnablePasswordBody \in Body
BY SettingsConstants DEF EnablePasswordBody, Body, Column, Columns

\* Merging a body into a row gives a row.
LEMMA MergedIsRow ==
  ASSUME NEW settings \in Row, NEW body \in Body
  PROVE  Merged(settings, body) \in Row
BY SettingsConstants DEF Merged, Field, Row, Body

\* The initial state is well typed.
LEMMA InitTInv == Init => TInv
<1> SUFFICES ASSUME Init PROVE TInv
  OBVIOUS
<1>1. overlapped \in BOOLEAN
  BY DEF Init
<1>2. row \in Row /\ cache = Null /\ updates \in 0..MaxUpdates
  BY SettingsConstants DEF Init
<1>3. admins \in [Admins -> [pc : {"idle", "validated", "updated"}, body : Body \cup {Null}]]
  BY DEF Init, NoUpdate
<1>4. readers \in [Readers -> [pc : {"idle", "missed", "fill", "answered"},
                              settings : Row \cup {Null}]]
  BY DEF Init, NoRead
<1>5. UpdatesHaveBodies /\ FillsHaveSettings
  BY DEF Init, UpdatesHaveBodies, FillsHaveSettings, NoUpdate, NoRead
<1> QED
  BY <1>1, <1>2, <1>3, <1>4, <1>5 DEF TInv, TypeOK

\* Starting an update with a body preserves the types.
LEMMA StartUpdateTypes ==
  ASSUME TInv, NEW a \in Admins, NEW body \in Body, StartUpdate(a, body)
  PROVE  TInv'
BY SettingsConstants
   DEF TInv, TypeOK, UpdatesHaveBodies, FillsHaveSettings, StartUpdate

\* Every step preserves the types.
LEMMA NextTInv == TInv /\ [Next]_vars => TInv'
<1> SUFFICES ASSUME TInv, [Next]_vars PROVE TInv'
  OBVIOUS
<1> USE SettingsConstants DEF TInv, TypeOK, UpdatesHaveBodies, FillsHaveSettings
<1>1. ASSUME NEW a \in Admins, NEW body \in Bodies, UpdateSettings(a, body)
      PROVE  TInv'
  BY <1>1, StartUpdateTypes DEF UpdateSettings
<1>2. ASSUME NEW a \in Admins, EnablePasswordAuth(a)
      PROVE  TInv'
  BY <1>2, StartUpdateTypes, EnablePasswordIsBody DEF EnablePasswordAuth
<1>3. ASSUME NEW a \in Admins, UpdateRow(a)
      PROVE  TInv'
  <2>1. Merged(row, admins[a].body) \in Row
    BY <1>3, MergedIsRow DEF UpdateRow
  <2> QED
    BY <1>3, <2>1 DEF UpdateRow
<1>4. ASSUME NEW a \in Admins, DeleteKey(a) \/ UpdateFails(a)
      PROVE  TInv'
  BY <1>4 DEF DeleteKey, UpdateFails, NoUpdate
<1>5. ASSUME NEW r \in Readers, ReadCache(r)
      PROVE  TInv'
  BY <1>5 DEF ReadCache, Goto
<1>6. ASSUME NEW r \in Readers, ReadRow(r) \/ Answer(r) \/ ReadFails(r)
      PROVE  TInv'
  BY <1>6 DEF ReadRow, Answer, ReadFails, Goto
<1>7. ASSUME NEW r \in Readers, FillCache(r)
      PROVE  TInv'
  BY <1>7 DEF FillCache, Goto
<1>8. CASE Expire
  BY <1>8 DEF Expire
<1>9. CASE UNCHANGED vars
  BY <1>9 DEF vars
<1> QED
  BY <1>1, <1>2, <1>3, <1>4, <1>5, <1>6, <1>7, <1>8, <1>9 DEF Next, AdminStep, ReaderStep

(***************************************************************************)
(* Enabled methods are complete                                            *)
(***************************************************************************)

\* A body whose columns are complete keeps a complete row complete.
LEMMA MergedIsComplete ==
  ASSUME NEW settings \in Row, NEW body \in Body, Complete(settings),
         \A c \in Columns : body.auth[c] # Null => body.auth[c].complete
  PROVE  Complete(Merged(settings, body))
BY DEF Complete, Merged, Field, Row, Body

\* Conversely, a body that passes validation has complete columns.
LEMMA ValidatedIsComplete ==
  ASSUME NEW settings, NEW body, ValidateSettings(settings, body)
  PROVE  \A c \in Columns : body.auth[c] # Null => body.auth[c].complete
BY DEF ValidateSettings, Complete, Merged, Field

\* Initially nothing is pending and the seeded row is complete.
LEMMA InitCompleteInv == Init => CompleteInv
BY InitTInv, InitRowIsSeeded, SettingsConstants
   DEF CompleteInv, Init, PendingIsComplete, EnabledMethodsAreComplete, NoUpdate, NoRead

\* Every step keeps what is stored, cached, answered and pending complete.
LEMMA NextCompleteInv == CompleteInv /\ [Next]_vars => CompleteInv'
<1> SUFFICES ASSUME CompleteInv, [Next]_vars PROVE CompleteInv'
  OBVIOUS
<1>1. TInv'
  BY NextTInv DEF CompleteInv
<1> USE <1>1, SettingsConstants
        DEF CompleteInv, TInv, TypeOK, PendingIsComplete, EnabledMethodsAreComplete
<1>2. ASSUME NEW a \in Admins, NEW body \in Bodies, UpdateSettings(a, body)
      PROVE  CompleteInv'
  <2>1. \A c \in Columns : body.auth[c] # Null => body.auth[c].complete
    BY <1>2, ValidatedIsComplete DEF UpdateSettings
  <2> QED
    BY <1>2, <2>1 DEF UpdateSettings, StartUpdate
<1>3. ASSUME NEW a \in Admins, EnablePasswordAuth(a)
      PROVE  CompleteInv'
  <2>1. \A c \in Columns :
          EnablePasswordBody.auth[c] # Null => EnablePasswordBody.auth[c].complete
    BY DEF EnablePasswordBody
  <2> QED
    BY <1>3, <2>1 DEF EnablePasswordAuth, StartUpdate
<1>4. ASSUME NEW a \in Admins, UpdateRow(a)
      PROVE  CompleteInv'
  <2>1. Complete(Merged(row, admins[a].body))
    BY <1>4, MergedIsComplete DEF UpdateRow, UpdatesHaveBodies
  <2> QED
    BY <1>4, <2>1 DEF UpdateRow
<1>5. ASSUME NEW a \in Admins, DeleteKey(a) \/ UpdateFails(a)
      PROVE  CompleteInv'
  BY <1>5 DEF DeleteKey, UpdateFails, NoUpdate
<1>6. ASSUME NEW r \in Readers, ReadCache(r) \/ ReadRow(r) \/ Answer(r) \/ ReadFails(r)
      PROVE  CompleteInv'
  BY <1>6 DEF ReadCache, ReadRow, Answer, ReadFails, Goto
<1>7. ASSUME NEW r \in Readers, FillCache(r)
      PROVE  CompleteInv'
  <2>1. readers[r].settings # Null
    BY <1>7 DEF FillCache, FillsHaveSettings
  <2> QED
    BY <1>7, <2>1 DEF FillCache, Goto
<1>8. CASE Expire
  BY <1>8 DEF Expire
<1>9. CASE UNCHANGED vars
  BY <1>9 DEF vars
<1> QED
  BY <1>2, <1>3, <1>4, <1>5, <1>6, <1>7, <1>8, <1>9 DEF Next, AdminStep, ReaderStep

\* Whatever updates overlap, every method a request is told to be enabled has
\* all that it needs (validateSettings looks at one column at a time).
THEOREM SettingsStayComplete == Spec => []EnabledMethodsAreComplete
<1>1. CompleteInv => EnabledMethodsAreComplete
  BY DEF CompleteInv
<1> QED
  BY <1>1, InitCompleteInv, NextCompleteInv, PTL DEF Spec

(***************************************************************************)
(* Nobody is locked out by updates that do not overlap                     *)
(***************************************************************************)

\* The CLI's body enables a method whatever the row says.
LEMMA EnablePasswordEnables ==
  ASSUME NEW settings
  PROVE  SomeMethod(Merged(settings, EnablePasswordBody))
<1>1. "passwordSettings" \in Columns
  BY DEF Columns
<1>2. Merged(settings, EnablePasswordBody).auth["passwordSettings"].enabled = {Password}
  <2>1. EnablePasswordBody.auth["passwordSettings"] = [enabled |-> {Password}, complete |-> TRUE]
    BY <1>1 DEF EnablePasswordBody
  <2>2. [enabled |-> {Password}, complete |-> TRUE] \in Column
    BY SettingsConstants DEF Column
  <2>3. [enabled |-> {Password}, complete |-> TRUE] # Null
    BY <2>2, SettingsConstants
  <2> QED
    BY <1>1, <2>1, <2>3 DEF Merged, Field
<1> QED
  BY <1>1, <1>2 DEF SomeMethod

\* Initially the seeded row has a method.
LEMMA InitMethodInv == Init => MethodInv
BY InitTInv, InitRowIsSeeded
   DEF MethodInv, Init, NobodyLockedOut, SomeMethodEnabled, PendingKeepsAMethod, NoUpdate

\* An update that starts without overlapping is the only one waiting, and its
\* body keeps a method.
LEMMA StartKeepsAMethod ==
  ASSUME MethodInv, NEW a \in Admins, NEW body, StartUpdate(a, body),
         SomeMethod(Merged(row, body))
  PROVE  NobodyLockedOut' /\ PendingKeepsAMethod'
<1>1. ~overlapped' => ~overlapped /\ \A b \in Admins : admins[b].pc # "validated"
  BY DEF StartUpdate
<1>2. NobodyLockedOut'
  BY <1>1 DEF MethodInv, NobodyLockedOut, SomeMethodEnabled, StartUpdate
<1>3. \A b \in Admins : b # a => admins'[b] = admins[b]
  BY DEF StartUpdate, MethodInv, TInv, TypeOK
<1>4. admins'[a].body = body /\ row' = row
  BY DEF StartUpdate, MethodInv, TInv, TypeOK
<1>5. PendingKeepsAMethod'
  BY <1>1, <1>3, <1>4 DEF PendingKeepsAMethod
<1> QED
  BY <1>2, <1>5

\* Every step keeps a method enabled unless updates have overlapped.
LEMMA NextMethodInv == MethodInv /\ [Next]_vars => MethodInv'
<1> SUFFICES ASSUME MethodInv, [Next]_vars PROVE MethodInv'
  OBVIOUS
<1>1. TInv'
  BY NextTInv DEF MethodInv
<1> USE <1>1 DEF MethodInv, NobodyLockedOut, SomeMethodEnabled, PendingKeepsAMethod
<1>2. ASSUME NEW a \in Admins, NEW body \in Bodies, UpdateSettings(a, body)
      PROVE  MethodInv'
  BY <1>2, StartKeepsAMethod DEF UpdateSettings, ValidateSettings
<1>3. ASSUME NEW a \in Admins, EnablePasswordAuth(a)
      PROVE  MethodInv'
  BY <1>3, EnablePasswordEnables, StartKeepsAMethod DEF EnablePasswordAuth
<1>4. ASSUME NEW a \in Admins, UpdateRow(a)
      PROVE  MethodInv'
  <2>1. ~overlapped' => \A b \in Admins : admins'[b].pc # "validated"
    BY <1>4 DEF UpdateRow, TInv, TypeOK
  <2>2. ~overlapped' => SomeMethod(row')
    BY <1>4 DEF UpdateRow
  <2> QED
    BY <2>1, <2>2
<1>5. ASSUME NEW a \in Admins, DeleteKey(a) \/ UpdateFails(a)
      PROVE  MethodInv'
  <2>1. row' = row /\ (overlapped' <=> overlapped)
    BY <1>5 DEF DeleteKey, UpdateFails
  <2>2. \A b \in Admins : admins'[b].pc = "validated" => admins'[b] = admins[b]
    BY <1>5 DEF DeleteKey, UpdateFails, NoUpdate, TInv, TypeOK
  <2> QED
    BY <2>1, <2>2
<1>6. ASSUME UNCHANGED <<row, admins, overlapped>>
      PROVE  MethodInv'
  BY <1>6
<1> QED
  BY <1>2, <1>3, <1>4, <1>5, <1>6
     DEF Next, AdminStep, ReaderStep, ReadCache, ReadRow, FillCache, Answer, ReadFails,
         Expire, vars

\* As long as no two updates have overlapped, some login method stays enabled,
\* whatever fails between validation and write.
THEOREM NobodyIsLockedOut == Spec => []NobodyLockedOut
<1>1. MethodInv => NobodyLockedOut
  BY DEF MethodInv
<1> QED
  BY <1>1, InitMethodInv, NextMethodInv, PTL DEF Spec
=============================================================================
