--------------------------- MODULE HostBalancerMC ---------------------------
(***************************************************************************)
(* Instances of HostBalancer for TLC: the target lists, settings and node  *)
(* states the configurations choose from.                                  *)
(***************************************************************************)
EXTENDS HostBalancer, TLC

CONSTANTS h1, h2, n1, n2, i1

NodeWith(disabled, connected, connecting) ==
  [isDisabled |-> disabled, isConnected |-> connected,
   isConnecting |-> connecting, activeInbounds |-> {i1}]
Ready    == NodeWith(FALSE, TRUE, FALSE)
Starting == NodeWith(FALSE, TRUE, TRUE)

OnlyReady       == {Ready}
ReadyOrStarting == {Ready, Starting}

EveryHostNeedsInbound == [h \in Hosts |-> i1]

Settle(strategy, policy, sticky, rebalance) ==
  [strategy |-> strategy, enabled |-> TRUE, unavailablePolicy |-> policy,
   stickyEnabled |-> sticky, rebalanceExisting |-> rebalance]

EveryHost(settings) == [h \in Hosts |-> settings]
LeastAssigned   == EveryHost(Settle("LEAST_ASSIGNED", "HIDE_HOST", TRUE, FALSE))
Failover        == EveryHost(Settle("PRIORITY_FAILOVER", "ORIGINAL_HOST", TRUE, FALSE))
Unconfigured    == EveryHost(Null)
TrafficKeepLast == EveryHost(Settle("LEAST_TRAFFIC", "KEEP_LAST_IF_POSSIBLE", TRUE, TRUE))

On(node, status, weight, priority, max) ==
  [enabled |-> TRUE, node |-> node, status |-> status, weight |-> weight,
   priority |-> priority, maxAssignedUsers |-> max]

OneSeatEach      == {<<On(n1, "ACTIVE", 1, 0, 1), On(n2, "ACTIVE", 1, 0, 1)>>}
OneSeat          == {<<On(n1, "ACTIVE", 1, 0, 1)>>}
Plain            == {<<On(n1, "ACTIVE", 1, 0, Null), On(n2, "ACTIVE", 1, 0, Null)>>}
ActiveAndDraining == {<<On(n1, "ACTIVE", 1, 0, Null), On(n1, "DRAINING", 1, 0, Null)>>}
MainAndReserve   == {<<On(n1, "ACTIVE", 1, 0, Null), On(n2, "ACTIVE", 1, 1, Null)>>, <<>>}

NoPatch == [strategy |-> Null, enabled |-> Null, unavailablePolicy |-> Null,
            stickyEnabled |-> Null, rebalanceExisting |-> Null]
SwitchOn       == {[NoPatch EXCEPT !.enabled = TRUE]}

\* Refreshes overlap, but not those of one user: Next, where a refresh starts only if no
\* other has its user.
TurnNext ==
  \/ \E w \in Workers, u \in Users, input \in SUBSET Hosts :
       StartRefresh(w, u, input) /\ UsersTakeTurns'
  \/ \E w \in Workers : RefreshStep(w) \/ DatabaseFails(w) \/ RefreshCrash(w)
  \/ \E a \in Admins, h \in Hosts : \/ \E ds \in Drafts : UpdateTargets(a, h, ds)
                                    \/ \E p \in Patches : UpdateSettings(a, h, p)
  \/ \E a \in Admins : SaveStep(a) \/ SaveCrash(a)
  \/ Environment

TurnSpec == Init /\ [][TurnNext]_vars

\* Neither hosts nor administrators are told apart by any definition.
HostsAndAdmins == Permutations(Hosts) \cup Permutations(Admins)
=============================================================================
