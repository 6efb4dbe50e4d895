--------------------------- MODULE TargetSelection ---------------------------
(***************************************************************************)
(* The pure part of HostBalancerService.resolveHostTarget: which targets   *)
(* are valid for a host, which of them may receive the user, which one the *)
(* strategy picks, and what the unavailable policy answers.  Everything is *)
(* a function of the snapshots the request loaded before its loop.         *)
(*                                                                         *)
(* A choice the code leaves open is a SET of picks: Math.random for RANDOM *)
(* and the order of rows that agree on every ORDER BY column (the rows of  *)
(* one createMany share their created_at).  "At most one target" is a set  *)
(* with at most one element.                                               *)
(***************************************************************************)
EXTENDS Naturals

CONSTANT Null   \* SQL NULL, JS null/undefined: no node, no limit, no row

Strategies == {"LEAST_ASSIGNED", "WEIGHTED", "RANDOM", "PRIORITY_FAILOVER",
               "LEAST_TRAFFIC", "WEIGHTED_LEAST_TRAFFIC"}
Policies   == {"HIDE_HOST", "ORIGINAL_HOST", "KEEP_LAST_IF_POSSIBLE"}
Statuses   == {"ACTIVE", "DRAINING", "DISABLED", "DEAD"}

IsTrafficAwareStrategy(strategy) ==
  strategy \in {"LEAST_TRAFFIC", "WEIGHTED_LEAST_TRAFFIC"}

(***************************************************************************)
(* Validity                                                                *)
(***************************************************************************)

\* A node that lists no inbound at all is not checked for the host's inbound.
ServesInbound(node, inbound) ==
  \/ inbound = Null
  \/ node.activeInbounds = {}
  \/ inbound \in node.activeInbounds

NodeReady(node, inbound) ==
  /\ node # Null
  /\ ~node.isDisabled
  /\ node.isConnected
  /\ ~node.isConnecting
  /\ ServesInbound(node, inbound)

\* Mutation: draining targets are open to new users.
ValidateDrainingToo(target, inbound, nodes, allowDraining) ==
  /\ target.enabled
  /\ target.status \notin {"DISABLED", "DEAD"}
  /\ target.node # Null => NodeReady(nodes[target.node], inbound)

\* nodes maps a node to its state in the snapshot, Null for one not found.
\* A target without a node is "address-only": no runtime check applies to it.
ValidateTargetForHost(target, inbound, nodes, allowDraining) ==
  /\ target.enabled
  /\ target.status \notin {"DISABLED", "DEAD"}
  /\ target.status = "DRAINING" => allowDraining
  /\ target.node # Null => NodeReady(nodes[target.node], inbound)

\* Mutation: the limit is off by one.
HasRoomOffByOne(target, counts) ==
  target.maxAssignedUsers # Null => counts[target.id] <= target.maxAssignedUsers

HasRoom(target, counts) ==
  target.maxAssignedUsers # Null => counts[target.id] < target.maxAssignedUsers

Candidates(targets, inbound, nodes, counts) ==
  {t \in targets : /\ ValidateTargetForHost(t, inbound, nodes, FALSE)
                   /\ HasRoom(t, counts)}

(***************************************************************************)
(* Sticky assignments                                                      *)
(***************************************************************************)

\* The row of the user's assignment, if sticky is on and the row still exists.
StickyTarget(settings, targets, assigned) ==
  {t \in targets : settings.stickyEnabled /\ t.id = assigned}

\* Mutation: the assignment is never reused.
ReusableNever(settings, targets, assigned, inbound, nodes) == {}

\* The sticky target that is kept without looking at the strategy.  It may be
\* draining, and its maxAssignedUsers is not consulted.
ReusableSticky(settings, targets, assigned, inbound, nodes) ==
  {t \in StickyTarget(settings, targets, assigned) :
     /\ ~ /\ IsTrafficAwareStrategy(settings.strategy)
          /\ settings.rebalanceExisting
     /\ ValidateTargetForHost(t, inbound, nodes, TRUE)}

(***************************************************************************)
(* Strategies.  Scores are fractions, compared by cross-multiplication.    *)
(***************************************************************************)

Score(num, den) == [num |-> num, den |-> den]
Below(s1, s2) == s1.num * s2.den < s2.num * s1.den

AssignmentScore(t, counts) ==
  LET capacity == IF t.maxAssignedUsers = Null THEN 1 ELSE t.maxAssignedUsers
  IN  Score(counts[t.id], capacity * t.weight)

TrafficScore(t, traffic, weighted) ==
  Score(traffic[t.node], IF weighted THEN t.weight ELSE 1)

\* The rows that come before every other row of `ts` in the snapshot's order:
\* priority ascending, then weight descending.
FirstInOrder(ts) ==
  {t \in ts : \A o \in ts : \/ t.priority < o.priority
                            \/ t.priority = o.priority /\ t.weight >= o.weight}

\* Array.sort is stable: ties of the comparator keep the snapshot's order.
LowestScore(ts, score) ==
  FirstInOrder({t \in ts : \A o \in ts : ~Below(score[o], score[t])})

SelectByScore(ts, counts) ==
  LowestScore(ts, [t \in ts |-> AssignmentScore(t, counts)])

HasMissingTraffic(ts, traffic) ==
  \E t \in ts : t.node = Null \/ traffic[t.node] = Null

SelectByTraffic(settings, ts, counts, traffic) ==
  LET weighted == settings.strategy = "WEIGHTED_LEAST_TRAFFIC" IN
  IF HasMissingTraffic(ts, traffic)
    THEN SelectByScore(ts, counts)
    ELSE LowestScore(ts, [t \in ts |-> TrafficScore(t, traffic, weighted)])

SelectTarget(settings, ts, counts, traffic) ==
  CASE IsTrafficAwareStrategy(settings.strategy) ->
         SelectByTraffic(settings, ts, counts, traffic)
    [] settings.strategy = "RANDOM"            -> ts
    [] settings.strategy = "PRIORITY_FAILOVER" -> FirstInOrder(ts)
    [] OTHER                                   -> SelectByScore(ts, counts)

(***************************************************************************)
(* No candidate                                                            *)
(***************************************************************************)

\* KEEP_LAST_IF_POSSIBLE: the sticky target when it is valid for an old user.
LastAssignment(settings, targets, assigned, inbound, nodes) ==
  {t \in StickyTarget(settings, targets, assigned) :
     /\ settings.unavailablePolicy = "KEEP_LAST_IF_POSSIBLE"
     /\ ValidateTargetForHost(t, inbound, nodes, TRUE)}
=============================================================================
