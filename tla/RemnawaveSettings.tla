-------------------------- MODULE RemnawaveSettings --------------------------
(***************************************************************************)
(* The panel's single settings row: administrators (and the rescue CLI)    *)
(* that update it, and requests that read it through the Redis cache       *)
(* (GetCachedRemnawaveSettingsHandler) to learn which login methods are on *)
(* and whether the host balancer is globally on.                           *)
(*                                                                         *)
(* One action is one awaited database or Redis call plus the code up to    *)
(* the next await.                                                         *)
(***************************************************************************)
EXTENDS Naturals

CONSTANTS
  Null,
  Methods,      \* login methods
  Password,     \* the method of the password_settings column
  InitRow,      \* the row at start
  Bodies,       \* the PATCH bodies administrators send
  Admins,       \* concurrent updates
  Readers,      \* concurrent requests that need the settings
  MaxUpdates,   \* bound on the updates ever started
  Events        \* which failures occur

\* The JSON columns that hold login methods.
Columns == {"passkeySettings", "oauth2Settings", "passwordSettings"}

\* A column: the methods it enables, and whether each of those has all that it
\* needs (validateSettings, tests 2 to 11, none of which spans two columns).
Column == [enabled : SUBSET Methods, complete : BOOLEAN]

Row == [auth : [Columns -> Column], balancer : BOOLEAN]

\* A body: Null for a field that is absent.
Body == [auth : [Columns -> Column \cup {Null}], balancer : BOOLEAN \cup {Null}]

ASSUME SettingsConstants ==
  /\ Password \in Methods
  /\ Bodies \subseteq Body
  /\ InitRow \in Row
  /\ Null \notin Column \cup Row
  /\ MaxUpdates \in Nat

SomeMethod(settings) == \E c \in Columns : settings.auth[c].enabled # {}
Complete(settings)   == \A c \in Columns : settings.auth[c].complete

ASSUME InitRowIsSeeded == SomeMethod(InitRow) /\ Complete(InitRow)

VARIABLES
  row,       \* the row of remnawave_settings
  cache,     \* the Redis key: settings and whether it has a TTL, or Null
  updates,   \* updates started so far
  admins,    \* control point and body of each update
  readers,   \* control point of each request and the settings it has
  overlapped \* history: has an update been validated before the write of another?

vars == <<row, cache, updates, admins, readers, overlapped>>

NoUpdate == [pc |-> "idle", body |-> Null]
NoRead   == [pc |-> "idle", settings |-> Null]

Init ==
  /\ row = InitRow
  /\ cache = Null
  /\ updates = 0
  /\ admins = [a \in Admins |-> NoUpdate]
  /\ readers = [r \in Readers |-> NoRead]
  /\ overlapped = FALSE

(***************************************************************************)
(* Updates                                                                 *)
(***************************************************************************)

Field(new, old) == IF new = Null THEN old ELSE new

\* {...settings, ...body}, and what UPDATE makes of the columns of the body.
Merged(settings, body) ==
  [auth     |-> [c \in Columns |-> Field(body.auth[c], settings.auth[c])],
   balancer |-> Field(body.balancer, settings.balancer)]

\* Mutation: {...body, ...settings} - the settings on file are validated.
ValidateOld(settings, body) == SomeMethod(settings) /\ Complete(settings)

ValidateSettings(settings, body) ==
  SomeMethod(Merged(settings, body)) /\ Complete(Merged(settings, body))

StartUpdate(a, body) ==
  /\ admins[a].pc = "idle"
  /\ updates < MaxUpdates
  /\ updates' = updates + 1
  /\ admins' = [admins EXCEPT ![a] = [pc |-> "validated", body |-> body]]
  /\ overlapped' = (overlapped \/ \E b \in Admins : admins[b].pc = "validated")
  /\ UNCHANGED <<row, cache, readers>>

\* updateSettingsFromController up to the validation; a refused body changes
\* nothing.
UpdateSettings(a, body) ==
  /\ ValidateSettings(row, body)
  /\ StartUpdate(a, body)

\* The CLI's "enable password authentication" validates nothing.
EnablePasswordBody ==
  [auth |-> [c \in Columns |-> IF c = "passwordSettings"
                                 THEN [enabled |-> {Password}, complete |-> TRUE]
                                 ELSE Null],
   balancer |-> Null]
EnablePasswordAuth(a) == StartUpdate(a, EnablePasswordBody)

\* Only the columns of the body are written.
UpdateRow(a) ==
  /\ admins[a].pc = "validated"
  /\ row' = Merged(row, admins[a].body)
  /\ admins' = [admins EXCEPT ![a].pc = "updated"]
  /\ UNCHANGED <<cache, updates, readers, overlapped>>

DeleteKey(a) ==
  /\ admins[a].pc = "updated"
  /\ cache' = Null
  /\ admins' = [admins EXCEPT ![a] = NoUpdate]
  /\ UNCHANGED <<row, updates, readers, overlapped>>

AdminStep(a) == UpdateRow(a) \/ DeleteKey(a)

\* The process dies, or the database or Redis refuses the next call.
UpdateFails(a) ==
  /\ "crash" \in Events
  /\ admins[a].pc # "idle"
  /\ admins' = [admins EXCEPT ![a] = NoUpdate]
  /\ UNCHANGED <<row, cache, updates, readers, overlapped>>

(***************************************************************************)
(* Cached reads                                                            *)
(***************************************************************************)

Goto(r, label, settings) ==
  readers' = [readers EXCEPT ![r] = [pc |-> label, settings |-> settings]]

\* The request goes on with what the cache holds, or has to read the row.
ReadCache(r) ==
  /\ readers[r].pc = "idle"
  /\ IF cache # Null THEN Goto(r, "answered", cache.settings)
                     ELSE Goto(r, "missed", Null)
  /\ UNCHANGED <<row, cache, updates, admins, overlapped>>

ReadRow(r) ==
  /\ readers[r].pc = "missed"
  /\ Goto(r, "fill", row)
  /\ UNCHANGED <<row, cache, updates, admins, overlapped>>

\* Mutation: the key is set without its TTL.
FillForever(r) ==
  /\ readers[r].pc = "fill"
  /\ cache' = [settings |-> readers[r].settings, expires |-> FALSE]
  /\ Goto(r, "answered", readers[r].settings)
  /\ UNCHANGED <<row, updates, admins, overlapped>>

FillCache(r) ==
  /\ readers[r].pc = "fill"
  /\ cache' = [settings |-> readers[r].settings, expires |-> TRUE]
  /\ Goto(r, "answered", readers[r].settings)
  /\ UNCHANGED <<row, updates, admins, overlapped>>

Answer(r) ==
  /\ readers[r].pc = "answered"
  /\ Goto(r, "idle", Null)
  /\ UNCHANGED <<row, cache, updates, admins, overlapped>>

ReaderStep(r) == ReadRow(r) \/ FillCache(r) \/ Answer(r)

ReadFails(r) ==
  /\ "crash" \in Events
  /\ readers[r].pc \in {"missed", "fill"}
  /\ Goto(r, "idle", Null)
  /\ UNCHANGED <<row, cache, updates, admins, overlapped>>

\* EX 86400.
Expire ==
  /\ cache # Null
  /\ cache.expires
  /\ cache' = Null
  /\ UNCHANGED <<row, updates, admins, readers, overlapped>>

Next ==
  \/ \E a \in Admins : \/ \E body \in Bodies : UpdateSettings(a, body)
                       \/ EnablePasswordAuth(a) \/ AdminStep(a) \/ UpdateFails(a)
  \/ \E r \in Readers : ReadCache(r) \/ ReaderStep(r) \/ ReadFails(r)
  \/ Expire

Spec == Init /\ [][Next]_vars

\* Awaits settle and Redis expires keys; nobody has to update or to read.
FairSpec == /\ Spec
            /\ \A a \in Admins : WF_vars(AdminStep(a))
            /\ \A r \in Readers : WF_vars(ReaderStep(r))
            /\ WF_vars(Expire)

(***************************************************************************)
(* Types and properties                                                    *)
(***************************************************************************)

TypeOK ==
  /\ row \in Row
  /\ cache \in [settings : Row, expires : BOOLEAN] \cup {Null}
  /\ updates \in 0..MaxUpdates
  /\ admins \in [Admins -> [pc : {"idle", "validated", "updated"},
                            body : Body \cup {Null}]]
  /\ readers \in [Readers -> [pc : {"idle", "missed", "fill", "answered"},
                              settings : Row \cup {Null}]]
  /\ overlapped \in BOOLEAN

\* Whatever updates overlap, what a request is told to be enabled has all that
\* it needs: validation looks at one column at a time and columns are written
\* whole, so a write that was validated against an older row does no harm.
EnabledMethodsAreComplete ==
  /\ Complete(row)
  /\ cache # Null => Complete(cache.settings)
  /\ \A r \in Readers : readers[r].settings # Null => Complete(readers[r].settings)

\* validateSettings, test 1: at least one authentication method must be enabled.
SomeMethodEnabled == SomeMethod(row)

\* Nobody is locked out as long as no update is validated between the validation
\* and the write of another, whatever fails and whatever the CLI does.
NobodyLockedOut == ~overlapped => SomeMethodEnabled

Fresh == cache = Null \/ cache.settings = row

\* Once updates stop, the cache stops lying, although a fill can overtake the
\* invalidation and a crash can skip it.
EventuallyFresh == <>[]Fresh

\* README: with the global switch off the subscription is generated without
\* choosing a target.  No update is under way when the cache answers.
GlobalSwitchHonoured ==
  [][\A r \in Readers :
       /\ readers[r].pc = "idle"
       /\ readers'[r].pc = "answered"
       /\ \A a \in Admins : admins[a].pc = "idle"
       => readers'[r].settings.balancer = row.balancer]_vars

(***************************************************************************)
(* The inductive invariants of the proofs                                  *)
(***************************************************************************)

\* An update under way has its body, and a fill its settings.
UpdatesHaveBodies == \A a \in Admins : admins[a].pc # "idle" => admins[a].body \in Body
FillsHaveSettings == \A r \in Readers : readers[r].pc = "fill" => readers[r].settings \in Row

TInv == TypeOK /\ UpdatesHaveBodies /\ FillsHaveSettings

\* What an update is about to write is complete, column by column.
PendingIsComplete ==
  \A a \in Admins : admins[a].pc # "idle" =>
    \A c \in Columns : admins[a].body.auth[c] # Null => admins[a].body.auth[c].complete

CompleteInv == TInv /\ PendingIsComplete /\ EnabledMethodsAreComplete

\* Without an overlap, at most one update waits to be written, and the row is the
\* one it was validated against.
PendingKeepsAMethod ==
  ~overlapped => \A a \in Admins : admins[a].pc = "validated" =>
    /\ SomeMethod(Merged(row, admins[a].body))
    /\ \A b \in Admins : admins[b].pc = "validated" => b = a

MethodInv == TInv /\ NobodyLockedOut /\ PendingKeepsAMethod
=============================================================================
