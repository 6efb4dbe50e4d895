---------------------------- MODULE NodeLifecycle ----------------------------
(***************************************************************************)
(* The flags of a node row (isDisabled, isConnected, isConnecting) and the *)
(* BullMQ jobs that write them: START_NODE, STOP_NODE, the health check    *)
(* and the restart of all nodes of a config profile, which pauses the      *)
(* START_NODE queue while it works.                                        *)
(*                                                                         *)
(* One action is one awaited statement or node call of one job, plus the   *)
(* code up to the next await.  What a node runs is not modelled: a call to *)
(* a node is the answer the panel gets.  A job that is to be added waits   *)
(* in "due" until the add reaches Redis; the job that adds it is over by   *)
(* then, which lets more interleavings happen than the code does.          *)
(***************************************************************************)
EXTENDS Naturals, FiniteSets

CONSTANTS
  Null,
  Nodes, Profiles,
  ProfileOf,           \* [Nodes -> Profiles] activeConfigProfileUuid
  GlobalConcurrency,   \* restarts by profile that may run at a time
  MaxRequests,         \* bound on the administrators' requests
  Events               \* which requests, checks and failures occur

\* configured: the row has a profile and at least one active inbound.
Row == [disabled : BOOLEAN, connected : BOOLEAN, connecting : BOOLEAN,
        configured : BOOLEAN]

\* A job to be added to its queue; "of" is the node or the profile.
Add(job, of) == [job |-> job, of |-> of]
Jobs == [job : {"start", "stop", "delete"}, of : Nodes] \cup [job : {"restart"}, of : Profiles]

ASSUME NodeConstants ==
  /\ ProfileOf \in [Nodes -> Profiles]
  /\ Null \notin Row
  /\ MaxRequests \in Nat

VARIABLES
  row,        \* row[n]: the node's row, Null once deleted
  start,      \* start[n]: where the one START_NODE job of the node is
  stop,       \* stop[n]: where its one STOP_NODE job is
  health,     \* health[n]: whether a health check waits, and its payload
  restart,    \* restart[p]: the one restart job of the profile
  paused,     \* the START_NODE queue is paused
  retry,      \* waitingProfiles: deduplicated restarts, to be added again
  due,        \* jobs whose add is awaited after the statement that wants them
  unseen,     \* unseen[p]: a change no restart has started after (history)
  abandoned,  \* nodes left connecting by a job that gave up (history)
  dropped,    \* profiles whose restart a crash or a failed read lost (history)
  stuck,      \* a restart failed for good and left the queue paused (history)
  requests    \* requests so far

vars == <<row, start, stop, health, restart, paused, retry, due, unseen,
          abandoned, dropped, stuck, requests>>
rows == <<row, abandoned>>
seen == <<unseen, dropped>>
pause == <<paused, stuck>>

\* Where the START_NODE job of a node, and the restart job of a profile is;
\* "stalled" is BullMQ's count, "todo", "left" and "inbounds" are the nodes yet
\* to be marked, yet to be started, and those of them with inbounds.
StartState == [pc : {"none", "waiting", "checked", "clearing", "calling"},
               stalled : BOOLEAN]
RestartState == [pc : {"none", "waiting", "paused", "marking", "reading", "starting"},
                 stalled : BOOLEAN, todo : SUBSET Nodes, inbounds : SUBSET Nodes,
                 left : SUBSET Nodes]

NoStart == [pc |-> "none", stalled |-> FALSE]

\* Mutation: the job's local sets are not initialised.
NoRestartUnset == [pc |-> "none", stalled |-> FALSE]

NoRestart == [pc |-> "none", stalled |-> FALSE, todo |-> {}, inbounds |-> {}, left |-> {}]

Init ==
  /\ row \in [Nodes -> {[disabled |-> FALSE, connected |-> c, connecting |-> FALSE,
                         configured |-> TRUE] : c \in BOOLEAN}]
  /\ start = [n \in Nodes |-> NoStart]
  /\ stop = [n \in Nodes |-> "none"]
  /\ health = [n \in Nodes |-> Null]
  /\ restart = [p \in Profiles |-> NoRestart]
  /\ paused = FALSE
  /\ retry = {}
  /\ due = {}
  /\ unseen = [p \in Profiles |-> FALSE]
  /\ abandoned = {}
  /\ dropped = {}
  /\ stuck = FALSE
  /\ requests = 0

(***************************************************************************)
(* Rows.  UpdateNodeCommand on a row that is gone fails and is ignored.    *)
(***************************************************************************)

Exists(n) == row[n] # Null

Update(n, new) == row' = [row EXCEPT ![n] = IF Exists(n) THEN new ELSE Null]

\* Mutation: the failing branch keeps isConnecting.
SettleKeepingFlag(n, connected) ==
  /\ Update(n, [row[n] EXCEPT !.connected = connected, !.connecting = row[n].connecting /\ ~connected])
  /\ abandoned' = abandoned \ {n}

\* The end of an attempt: isConnected as told, isConnecting reset.
Settle(n, connected) ==
  /\ Update(n, [row[n] EXCEPT !.connected = connected, !.connecting = FALSE])
  /\ abandoned' = abandoned \ {n}

MarkConnecting(n) ==
  /\ Update(n, [row[n] EXCEPT !.connecting = TRUE])
  /\ abandoned' = abandoned \ {n}

\* A node without profile or inbounds is disabled and its profile cleared.
Clear(n) ==
  /\ Update(n, [disabled |-> TRUE, connected |-> FALSE, connecting |-> FALSE,
                configured |-> FALSE])
  /\ abandoned' = abandoned \ {n}

\* A job ends and leaves the flags of ns as they are.
Abandon(ns) ==
  /\ abandoned' = abandoned \cup {n \in ns : Exists(n) /\ row[n].connecting}
  /\ UNCHANGED row

(***************************************************************************)
(* Requests of administrators and of the rest of the panel.  The job is    *)
(* added after the write; both reads and writes of the row are one action. *)
(***************************************************************************)

Request == requests < MaxRequests /\ requests' = requests + 1

RestartNode(n) ==
  /\ "restart" \in Events /\ Request
  /\ Exists(n) /\ ~row[n].disabled
  /\ due' = due \cup {Add("start", n)}
  /\ UNCHANGED <<rows, start, stop, health, restart, pause, retry, seen>>

UpdateNode(n, configured) ==
  /\ "update" \in Events /\ Request
  /\ Exists(n)
  /\ Update(n, [row[n] EXCEPT !.configured = configured])
  /\ due' = IF row[n].disabled THEN due ELSE due \cup {Add("start", n)}
  /\ UNCHANGED <<start, stop, health, restart, pause, retry, seen, abandoned>>

EnableNode(n) ==
  /\ "enable" \in Events /\ Request
  /\ Exists(n)
  /\ IF row[n].configured
       THEN /\ Update(n, [row[n] EXCEPT !.disabled = FALSE])
            /\ due' = due \cup {Add("start", n)}
            /\ UNCHANGED abandoned
       ELSE Clear(n) /\ UNCHANGED due
  /\ UNCHANGED <<start, stop, health, restart, pause, retry, seen>>

DisableNode(n) ==
  /\ "disable" \in Events /\ Request
  /\ Exists(n)
  /\ Update(n, [row[n] EXCEPT !.disabled = TRUE, !.connected = FALSE, !.connecting = FALSE])
  /\ abandoned' = abandoned \ {n}
  /\ due' = due \cup {Add("stop", n)}
  /\ UNCHANGED <<start, stop, health, restart, pause, retry, seen>>

DeleteNode(n) ==
  /\ "delete" \in Events /\ Request
  /\ Exists(n)
  /\ due' = due \cup {Add("delete", n)}
  /\ UNCHANGED <<rows, start, stop, health, restart, pause, retry, seen>>

\* A change of the profile, its snippets, squads or integrations.
ChangeProfile(p) ==
  /\ "profile" \in Events /\ Request
  /\ unseen' = [unseen EXCEPT ![p] = TRUE]
  /\ dropped' = dropped \ {p}
  /\ due' = due \cup {Add("restart", p)}
  /\ UNCHANGED <<rows, start, stop, health, restart, pause, retry>>

(***************************************************************************)
(* Queues                                                                  *)
(***************************************************************************)

\* The job id of START_NODE and STOP_NODE: an add beside a job is ignored.
AddStart(n) ==
  /\ Add("start", n) \in due
  /\ due' = due \ {Add("start", n)}
  /\ start' = [start EXCEPT ![n] = IF @.pc = "none" THEN [@ EXCEPT !.pc = "waiting"] ELSE @]
  /\ UNCHANGED <<rows, stop, health, restart, pause, retry, seen, requests>>

AddStop(n) ==
  /\ Add("stop", n) \in due
  /\ due' = due \ {Add("stop", n)}
  /\ stop' = [stop EXCEPT ![n] = IF @ = "none" THEN "waiting" ELSE @]
  /\ UNCHANGED <<rows, start, health, restart, pause, retry, seen, requests>>

\* Mutation: a deduplicated restart is dropped.
AddRestartOnce(p) ==
  /\ Add("restart", p) \in due
  /\ due' = due \ {Add("restart", p)}
  /\ restart' = [restart EXCEPT ![p].pc = IF @ = "none" THEN "waiting" ELSE @]
  /\ UNCHANGED <<rows, start, stop, health, pause, retry, seen, requests>>

\* The deduplication id of a restart: an add beside a job emits the event
\* "deduplicated", whose listener waits and adds once more.
AddRestart(p) ==
  /\ Add("restart", p) \in due
  /\ due' = due \ {Add("restart", p)}
  /\ restart' = [restart EXCEPT ![p].pc = IF @ = "none" THEN "waiting" ELSE @]
  /\ retry' = IF restart[p].pc = "none" THEN retry ELSE retry \cup {p}
  /\ UNCHANGED <<rows, start, stop, health, pause, seen, requests>>

Retry(p) ==
  /\ p \in retry
  /\ retry' = retry \ {p}
  /\ due' = due \cup {Add("restart", p)}
  /\ UNCHANGED <<rows, start, stop, health, restart, pause, seen, requests>>

\* A change of p that no restart has seen is lost.
Drop(p) ==
  /\ dropped' = IF unseen[p] THEN dropped \cup {p} ELSE dropped
  /\ UNCHANGED unseen

\* The process dies between a write and the add, or while the listener, which
\* keeps waitingProfiles in memory, sleeps.
LoseAdd(job) ==
  /\ "crash" \in Events
  /\ job \in due
  /\ due' = due \ {job}
  /\ IF job.job = "restart" THEN Drop(job.of) ELSE UNCHANGED seen
  /\ UNCHANGED <<rows, start, stop, health, restart, pause, retry, requests>>

LoseRetry(p) ==
  /\ "crash" \in Events
  /\ p \in retry
  /\ retry' = retry \ {p}
  /\ Drop(p)
  /\ UNCHANGED <<rows, start, stop, health, restart, pause, due, requests>>

(***************************************************************************)
(* START_NODE                                                              *)
(***************************************************************************)

EndStart(n) == start' = [start EXCEPT ![n] = NoStart]

\* The job is taken and reads the row: a node that is gone or connecting is
\* left alone.
BeginStart(n) ==
  /\ start[n].pc = "waiting" /\ ~paused
  /\ IF ~Exists(n) \/ row[n].connecting
       THEN EndStart(n)
       ELSE start' = [start EXCEPT ![n].pc = IF row[n].configured THEN "checked" ELSE "clearing"]
  /\ UNCHANGED <<rows, stop, health, restart, pause, retry, due, seen, requests>>

ClearNode(n) ==
  /\ start[n].pc = "clearing"
  /\ Clear(n)
  /\ due' = due \cup {Add("stop", n)}
  /\ EndStart(n)
  /\ UNCHANGED <<stop, health, restart, pause, retry, seen, requests>>

SetConnecting(n) ==
  /\ start[n].pc = "checked"
  /\ MarkConnecting(n)
  /\ start' = [start EXCEPT ![n].pc = "calling"]
  /\ UNCHANGED <<stop, health, restart, pause, retry, due, seen, requests>>

\* The node answers or not (health, plugins, startXray): every such branch
\* ends in one update.
FinishStart(n) ==
  /\ start[n].pc = "calling"
  /\ \E connected \in BOOLEAN : Settle(n, connected)
  /\ EndStart(n)
  /\ UNCHANGED <<stop, health, restart, pause, retry, due, seen, requests>>

\* The plugin, the config or the integrations are not found, or the last update
\* fails: the job returns or throws, and resets nothing.
GiveUpStart(n) ==
  /\ "lookup" \in Events
  /\ start[n].pc = "calling"
  /\ Abandon({n})
  /\ EndStart(n)
  /\ UNCHANGED <<stop, health, restart, pause, retry, due, seen, requests>>

\* The process dies: a stalled job runs once more, and fails at its second stall.
StallStart(n) ==
  /\ "crash" \in Events
  /\ start[n].pc \in {"checked", "clearing", "calling"}
  /\ IF start[n].pc = "calling" THEN Abandon({n}) ELSE UNCHANGED rows
  /\ IF start[n].stalled
       THEN EndStart(n)
       ELSE start' = [start EXCEPT ![n] = [pc |-> "waiting", stalled |-> TRUE]]
  /\ UNCHANGED <<stop, health, restart, pause, retry, due, seen, requests>>

(***************************************************************************)
(* STOP_NODE                                                               *)
(***************************************************************************)

\* stopXray, whatever it answers.
BeginStop(n) ==
  /\ stop[n] = "waiting"
  /\ stop' = [stop EXCEPT ![n] = IF Exists(n) THEN "stopping" ELSE "none"]
  /\ UNCHANGED <<rows, start, health, restart, pause, retry, due, seen, requests>>

FinishStop(n) ==
  /\ stop[n] = "stopping"
  /\ stop' = [stop EXCEPT ![n] = "none"]
  /\ Update(n, [row[n] EXCEPT !.disabled = TRUE, !.connected = FALSE, !.connecting = FALSE])
  /\ abandoned' = abandoned \ {n}
  /\ UNCHANGED <<start, health, restart, pause, retry, due, seen, requests>>

\* The STOP_NODE job with isNeedToBeDeleted, which has an id of its own.
DeleteRow(n) ==
  /\ Add("delete", n) \in due
  /\ due' = due \ {Add("delete", n)}
  /\ row' = [row EXCEPT ![n] = Null]
  /\ abandoned' = abandoned \ {n}
  /\ UNCHANGED <<start, stop, health, restart, pause, retry, seen, requests>>

(***************************************************************************)
(* Health checks                                                           *)
(***************************************************************************)

Payload(n) == row[n].connected

\* The cron job: nodes that are enabled and not connecting.
CheckNodeHealthBulk ==
  /\ "health" \in Events
  /\ health' = [n \in Nodes |->
       IF Exists(n) /\ ~row[n].disabled /\ ~row[n].connecting /\ health[n] = Null
         THEN Payload(n) ELSE health[n]]
  /\ health' # health
  /\ UNCHANGED <<rows, start, stop, restart, pause, retry, due, seen, requests>>

Report(n, connected) == Update(n, [row[n] EXCEPT !.connected = connected])

\* handleConnectedNode (without or with xrayInfo) and handleDisconnectedNode.
\* The payload's isConnected decides, however old it is.
HealthCheck(n) ==
  /\ health[n] # Null
  /\ health' = [health EXCEPT ![n] = Null]
  /\ \/ Report(n, FALSE) /\ UNCHANGED due
     \/ health[n] /\ UNCHANGED <<row, due>>
     \/ /\ ~health[n]
        /\ Report(n, TRUE)
        /\ due' = IF Exists(n) THEN due \cup {Add("start", n)} ELSE due
     \/ /\ Report(n, FALSE)
        /\ due' = IF Exists(n) THEN due \cup {Add("start", n)} ELSE due
  /\ UNCHANGED <<start, stop, restart, pause, retry, seen, abandoned, requests>>

(***************************************************************************)
(* Restart of the nodes of a profile                                       *)
(***************************************************************************)

Active(p) == restart[p].pc \notin {"none", "waiting"}

EndRestart(p) == restart' = [restart EXCEPT ![p] = NoRestart]

\* Mutation: the queue is resumed only after the nodes were started.
ResumeAfterStart(p) ==
  /\ paused' = (paused /\ restart[p].pc # "starting")
  /\ stuck' = (stuck /\ paused')
  /\ EndRestart(p)

\* finally: the queue is resumed, whoever else has paused it.
Resume(p) == paused' = FALSE /\ stuck' = FALSE /\ EndRestart(p)

BeginRestart(p) ==
  /\ restart[p].pc = "waiting"
  /\ Cardinality({q \in Profiles : Active(q)}) < GlobalConcurrency
  /\ paused' = TRUE
  /\ restart' = [restart EXCEPT ![p].pc = "paused"]
  /\ UNCHANGED <<rows, start, stop, health, retry, due, seen, stuck, requests>>

\* The enabled nodes of the profile, and those of them that have inbounds.
FindNodes(p) ==
  LET found == {n \in Nodes : Exists(n) /\ ~row[n].disabled /\ ProfileOf[n] = p} IN
  /\ restart[p].pc = "paused"
  /\ restart' = [restart EXCEPT
       ![p].pc = "marking", ![p].todo = found, ![p].left = found,
       ![p].inbounds = {n \in found : row[n].configured}]
  /\ unseen' = [unseen EXCEPT ![p] = FALSE]
  /\ dropped' = dropped \ {p}
  /\ UNCHANGED <<rows, start, stop, health, pause, retry, due, requests>>

\* The loop over the nodes, in the order of the rows: any.
MarkNode(p, n) ==
  /\ restart[p].pc = "marking" /\ n \in restart[p].todo
  /\ restart' = [restart EXCEPT ![p].todo = @ \ {n}]
  /\ IF n \in restart[p].inbounds
       THEN MarkConnecting(n) /\ UNCHANGED due
       ELSE Clear(n) /\ due' = due \cup {Add("stop", n)}
  /\ UNCHANGED <<start, stop, health, pause, retry, seen, requests>>

\* Without inbounds the job is over.
EndMarking(p) ==
  /\ restart[p].pc = "marking" /\ restart[p].todo = {}
  /\ IF restart[p].inbounds = {}
       THEN Resume(p)
       ELSE restart' = [restart EXCEPT ![p].pc = "reading"] /\ UNCHANGED pause
  /\ UNCHANGED <<rows, start, stop, health, retry, due, seen, requests>>

\* Plugins, integrations and the config.
ReadConfig(p) ==
  /\ restart[p].pc = "reading"
  /\ restart' = [restart EXCEPT ![p].pc = "starting"]
  /\ UNCHANGED <<rows, start, stop, health, pause, retry, due, seen, requests>>

\* The mapper, up to 20 nodes at a time; a node that was cleared above is
\* started too.
StartNodeOfProfile(p, n) ==
  /\ restart[p].pc = "starting" /\ n \in restart[p].left
  /\ \E connected \in BOOLEAN : Settle(n, connected)
  /\ restart' = [restart EXCEPT ![p].left = @ \ {n}]
  /\ UNCHANGED <<start, stop, health, pause, retry, due, seen, requests>>

\* A plugin is missing or the update fails: this node's mapper resets nothing.
SkipNodeOfProfile(p, n) ==
  /\ "lookup" \in Events
  /\ restart[p].pc = "starting" /\ n \in restart[p].left
  /\ Abandon({n})
  /\ restart' = [restart EXCEPT ![p].left = @ \ {n}]
  /\ UNCHANGED <<start, stop, health, pause, retry, due, seen, requests>>

FinishRestart(p) ==
  /\ restart[p].pc = "starting" /\ restart[p].left = {}
  /\ Resume(p)
  /\ UNCHANGED <<rows, start, stop, health, retry, due, seen, requests>>

\* The nodes whose isConnecting the job has set and not yet reset.
Marked(p) ==
  CASE restart[p].pc = "marking" -> restart[p].inbounds \ restart[p].todo
    [] restart[p].pc \in {"reading", "starting"} -> restart[p].inbounds \cap restart[p].left
    [] OTHER -> {}

\* The nodes, or later the plugins, integrations or config, cannot be read: the
\* job returns or throws through its finally.
GiveUpRestart(p) ==
  /\ "lookup" \in Events
  /\ restart[p].pc \in {"paused", "reading"}
  /\ Abandon(Marked(p))
  /\ Drop(p)
  /\ Resume(p)
  /\ UNCHANGED <<start, stop, health, retry, due, requests>>

\* The process dies before the finally: a stalled job runs once more, and fails
\* at its second stall, with the queue left as it is.
StallRestart(p) ==
  /\ "crash" \in Events
  /\ Active(p)
  /\ Abandon(Marked(p))
  /\ IF restart[p].stalled
       THEN EndRestart(p) /\ Drop(p) /\ stuck' = paused
       ELSE /\ restart' = [restart EXCEPT ![p] =
                             [NoRestart EXCEPT !.pc = "waiting", !.stalled = TRUE]]
            /\ UNCHANGED <<seen, stuck>>
  /\ UNCHANGED <<start, stop, health, paused, retry, due, requests>>

(***************************************************************************)
(* Specification                                                           *)
(***************************************************************************)

AdminRequest ==
  \/ \E n \in Nodes : \/ RestartNode(n) \/ EnableNode(n) \/ DisableNode(n) \/ DeleteNode(n)
                      \/ \E configured \in BOOLEAN : UpdateNode(n, configured)
  \/ \E p \in Profiles : ChangeProfile(p)

NodeJob(n) ==
  \/ AddStart(n) \/ AddStop(n)
  \/ BeginStart(n) \/ ClearNode(n) \/ SetConnecting(n) \/ FinishStart(n)
  \/ BeginStop(n) \/ FinishStop(n) \/ DeleteRow(n)

RestartJob(p) ==
  \/ AddRestart(p) \/ Retry(p)
  \/ BeginRestart(p) \/ FindNodes(p) \/ EndMarking(p) \/ ReadConfig(p) \/ FinishRestart(p)
  \/ \E n \in Nodes : MarkNode(p, n) \/ StartNodeOfProfile(p, n)

Failure ==
  \/ \E job \in due : LoseAdd(job)
  \/ \E n \in Nodes : GiveUpStart(n) \/ StallStart(n)
  \/ \E p \in Profiles : \/ LoseRetry(p) \/ GiveUpRestart(p) \/ StallRestart(p)
                         \/ \E n \in Nodes : SkipNodeOfProfile(p, n)

Next ==
  \/ AdminRequest
  \/ \E n \in Nodes : NodeJob(n) \/ HealthCheck(n)
  \/ \E p \in Profiles : RestartJob(p)
  \/ CheckNodeHealthBulk
  \/ Failure

Spec == Init /\ [][Next]_vars

\* Awaits settle, sleeps end, and workers take the jobs of a queue, oldest
\* first, whenever it is not paused or full.  Nobody has to ask for anything,
\* and nothing has to fail.
FairSpec ==
  /\ Spec
  /\ \A n \in Nodes :
       /\ SF_vars(BeginStart(n))
       /\ WF_vars(SetConnecting(n)) /\ WF_vars(FinishStart(n)) /\ WF_vars(ClearNode(n))
  /\ \A p \in Profiles :
       /\ WF_vars(AddRestart(p)) /\ WF_vars(Retry(p))
       /\ SF_vars(BeginRestart(p))
       /\ WF_vars(FindNodes(p)) /\ WF_vars(EndMarking(p)) /\ WF_vars(ReadConfig(p))
       /\ WF_vars(FinishRestart(p))
       /\ \A n \in Nodes : WF_vars(MarkNode(p, n)) /\ WF_vars(StartNodeOfProfile(p, n))

(***************************************************************************)
(* Properties                                                              *)
(***************************************************************************)

TypeOK ==
  /\ row \in [Nodes -> Row \cup {Null}]
  /\ start \in [Nodes -> StartState]
  /\ stop \in [Nodes -> {"none", "waiting", "stopping"}]
  /\ health \in [Nodes -> BOOLEAN \cup {Null}]
  /\ restart \in [Profiles -> RestartState]
  /\ paused \in BOOLEAN
  /\ retry \subseteq Profiles
  /\ due \subseteq Jobs
  /\ unseen \in [Profiles -> BOOLEAN]
  /\ abandoned \subseteq Nodes
  /\ dropped \subseteq Profiles
  /\ stuck \in BOOLEAN
  /\ requests \in 0..MaxRequests

Connecting(n) == Exists(n) /\ row[n].connecting

Owned(n) ==
  \/ start[n].pc = "calling"
  \/ \E p \in Profiles : n \in Marked(p)
  \/ n \in abandoned

\* A node says it is connecting only while a job that will reset the flag is
\* at work on it, or since one gave up on it: START_NODE and the health check
\* leave a connecting node alone, so the flag of a forgotten one would stay.
ConnectingHasOwner == \A n \in Nodes : Connecting(n) => Owned(n)

\* The START_NODE queue is paused only while a restart is there that will
\* resume it, although restarts of several profiles pause and resume it under
\* each other and their processes die; the exception is a restart that stalled
\* twice.
PausedHasOwner == paused => stuck \/ \E p \in Profiles : restart[p].pc # "none"

\* The nodes to be marked are among those to be started, and with the two
\* properties above this is inductive.
MarkedAreLeft ==
  \A p \in Profiles : restart[p].pc \in {"marking", "reading"} =>
                       restart[p].inbounds \subseteq restart[p].left

IInv == TypeOK /\ MarkedAreLeft /\ ConnectingHasOwner /\ PausedHasOwner

\* A change of a profile is followed by a restart that reads the nodes after
\* it, unless a crash or a failed read lost it: a change that comes while a
\* restart is running, or that is deduplicated, is retried.
RestartIsSeen == \A p \in Profiles : unseen[p] ~> (~unseen[p] \/ p \in dropped)

\* A START_NODE job is taken in the end, however restarts pause its queue.
StartIsTaken == \A n \in Nodes : start[n].pc = "waiting" ~> (start[n].pc # "waiting" \/ stuck)

\* No node stays connecting unless a job gave up on it.
NothingStaysConnecting ==
  \A n \in Nodes : Connecting(n) ~> (~Connecting(n) \/ n \in abandoned)
=============================================================================
