------------------------------ MODULE RequestLog ------------------------------
(***************************************************************************)
(* The two logs that subscription requests write: the history of a user's  *)
(* requests, by a job of which there is one at a time, and the decisions   *)
(* of the host balancer, by the request itself.  An insert is followed by  *)
(* a removal of the rows that newer ones push out; for the decisions       *)
(* nobody awaits it, and it reads and deletes in two statements, while the *)
(* foreign keys delete the decisions of hosts and users that are deleted.  *)
(* The user whose history it is stays.                                     *)
(*                                                                         *)
(* One action is the code from one await to the next.  A row stands for    *)
(* the moment it carries, which all rows are ordered by.                   *)
(***************************************************************************)
EXTENDS Naturals, FiniteSets

CONSTANTS
  KeepHistory, KeepDecisions,   \* 24 and 5000 rows
  MaxClock,                     \* bound on requests recorded and decisions made
  MaxLogFaults                  \* bound on failures and crashes

ASSUME LogConstants ==
  /\ KeepHistory \in Nat \ {0} /\ KeepDecisions \in Nat \ {0}
  /\ MaxClock \in Nat /\ MaxLogFaults \in Nat

VARIABLES
  history,     \* user_subscription_request_history of the user
  record,      \* the ADD_SUBSCRIPTION_REQUEST_RECORD job of the user, at most one
  decisions,   \* host_balancer_decisions
  prunes,      \* prunes of the decisions under way
  clock, logFaults,
  newest,      \* history: the last request recorded since the log was emptied
  cascaded,    \* history: decisions deleted with their host or their user
  untrimmed    \* history: the logs where a removal has failed since one last succeeded

logVars == <<history, record, decisions, prunes, clock, logFaults, newest,
             cascaded, untrimmed>>

NoRecord == [pc |-> "none", at |-> 0, run |-> 0]

LogInit ==
  /\ history = {} /\ record = NoRecord
  /\ decisions = {} /\ prunes = {}
  /\ clock = 1 /\ logFaults = 0 /\ newest = 0
  /\ cascaded = {} /\ untrimmed = {}

LogFault == logFaults < MaxLogFaults /\ logFaults' = logFaults + 1
Tick == clock < MaxClock /\ clock' = clock + 1

(***************************************************************************)
(* The history of the requests                                             *)
(***************************************************************************)

\* A request while the job of an earlier one is outstanding is not recorded.
AddSubscriptionRequestRecord ==
  /\ Tick
  /\ record' = IF record = NoRecord THEN [pc |-> "waiting", at |-> clock, run |-> 0]
               ELSE record
  /\ UNCHANGED <<history, decisions, prunes, logFaults, newest, cascaded, untrimmed>>

\* run tells the row from that of the same job before the worker died.
CreateRecord ==
  /\ record.pc = "waiting"
  /\ record' = [record EXCEPT !.pc = "trim"]
  /\ history' = history \cup {[at |-> record.at, run |-> record.run]}
  /\ newest' = record.at
  /\ UNCHANGED <<decisions, prunes, clock, logFaults, cascaded, untrimmed>>

\* The handler of the insert swallows the error, and the job goes on.
CreateRecordFails ==
  /\ record.pc = "waiting" /\ LogFault
  /\ record' = [record EXCEPT !.pc = "trim"]
  /\ UNCHANGED <<history, decisions, prunes, clock, newest, cascaded, untrimmed>>

\* As Latest, with the rows in the opposite order.
Earliest(rows, k) ==
  {S \in SUBSET rows :
     /\ Cardinality(S) = IF Cardinality(rows) < k THEN Cardinality(rows) ELSE k
     /\ \A s \in S, t \in rows \ S : s.at <= t.at}

\* The k latest of the rows: of several of the same moment, any.
Latest(rows, k) ==
  {S \in SUBSET rows :
     /\ Cardinality(S) = IF Cardinality(rows) < k THEN Cardinality(rows) ELSE k
     /\ \A s \in S, t \in rows \ S : s.at >= t.at}

CleanupUserRecords ==
  /\ record.pc = "trim"
  /\ \E S \in Latest(history, KeepHistory) : history' = S
  /\ record' = NoRecord
  /\ untrimmed' = untrimmed \ {"history"}
  /\ UNCHANGED <<decisions, prunes, clock, logFaults, newest, cascaded>>

CleanupFails ==
  /\ record.pc = "trim" /\ LogFault
  /\ record' = NoRecord
  /\ untrimmed' = untrimmed \cup {"history"}
  /\ UNCHANGED <<history, decisions, prunes, clock, newest, cascaded>>

\* The worker dies: the stalled job is run again from its start.
StallRecord ==
  /\ record.pc = "trim" /\ LogFault
  /\ record' = [pc |-> "waiting", at |-> record.at, run |-> record.run + 1]
  /\ UNCHANGED <<history, decisions, prunes, clock, newest, cascaded, untrimmed>>

\* An administrator empties the table by the command line.
TruncateHistory ==
  /\ history # {}
  /\ history' = {} /\ newest' = 0
  /\ UNCHANGED <<record, decisions, prunes, clock, logFaults, cascaded, untrimmed>>

(***************************************************************************)
(* The decisions of the host balancer                                      *)
(***************************************************************************)

CreateDecision ==
  /\ Tick
  /\ decisions' = decisions \cup {clock}
  /\ prunes' = prunes \cup {[by |-> clock, pc |-> "find", stale |-> {}]}
  /\ UNCHANGED <<history, record, logFaults, newest, cascaded, untrimmed>>

\* As Stale, with the rows in the opposite order.
StaleFirst(rows, k) == {n \in rows : Cardinality({m \in rows : m < n}) >= k}

\* Without the k latest.
Stale(rows, k) == {n \in rows : Cardinality({m \in rows : m > n}) >= k}

\* With nothing stale the prune is done.
FindStale(p) ==
  /\ p.pc = "find"
  /\ LET stale == Stale(decisions, KeepDecisions)
     IN IF stale = {}
        THEN prunes' = prunes \ {p} /\ untrimmed' = untrimmed \ {"decisions"}
        ELSE /\ prunes' = (prunes \ {p})
                            \cup {[by |-> p.by, pc |-> "delete", stale |-> stale]}
             /\ UNCHANGED untrimmed
  /\ UNCHANGED <<history, record, decisions, clock, logFaults, newest, cascaded>>

DeleteStale(p) ==
  /\ p.pc = "delete"
  /\ decisions' = decisions \ p.stale
  /\ prunes' = prunes \ {p}
  /\ UNCHANGED <<history, record, clock, logFaults, newest, cascaded, untrimmed>>

\* A host or a user is deleted, and his decisions with him; those that named a
\* target that is deleted stay.
CascadeDecisions ==
  /\ \E gone \in SUBSET decisions \ {{}} :
       decisions' = decisions \ gone /\ cascaded' = cascaded \cup gone
  /\ UNCHANGED <<history, record, prunes, clock, logFaults, newest, untrimmed>>

\* Failures are swallowed.
PruneFails(p) ==
  /\ LogFault
  /\ prunes' = prunes \ {p}
  /\ untrimmed' = untrimmed \cup {"decisions"}
  /\ UNCHANGED <<history, record, decisions, clock, newest, cascaded>>

HistoryNext ==
  \/ AddSubscriptionRequestRecord \/ CreateRecord \/ CreateRecordFails
  \/ CleanupUserRecords \/ CleanupFails \/ StallRecord
  \/ TruncateHistory

DecisionsNext ==
  \/ CreateDecision \/ CascadeDecisions
  \/ \E p \in prunes : FindStale(p) \/ DeleteStale(p) \/ PruneFails(p)

LogNext == HistoryNext \/ DecisionsNext

LogSpec == LogInit /\ [][LogNext]_logVars

(***************************************************************************)
(* Properties                                                              *)
(***************************************************************************)

\* Whatever fails, a job that is run twice included, the last request recorded is in the
\* history, until an administrator empties it; and unless the last removal failed, the
\* history is no longer than it may be (handleAddRecordJob, cleanupUserRecords).
HistoryKept ==
  record = NoRecord =>
    /\ newest > 0 => \E row \in history : row.at = newest
    /\ "history" \notin untrimmed => Cardinality(history) <= KeepHistory

\* Prunes overlap with each other, with new decisions and with deletions of hosts and
\* users.  Of what one is about to delete, KeepDecisions newer ones are there still, or
\* have gone with their host or user since: prunes never take from each other the rows
\* that made a row old.  And when all have ended, and none failed, nothing old is left
\* (createDecision, pruneDecisionRetention).
DecisionsKept ==
  /\ \A p \in prunes : \A n \in p.stale \cap decisions :
       Cardinality({m \in decisions \cup cascaded : m > n}) >= KeepDecisions
  /\ prunes = {} /\ "decisions" \notin untrimmed => Cardinality(decisions) <= KeepDecisions
=============================================================================
