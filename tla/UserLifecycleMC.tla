--------------------------- MODULE UserLifecycleMC ---------------------------
(***************************************************************************)
(* Instances of UserLifecycle for TLC.                                     *)
(***************************************************************************)
EXTENDS UserLifecycle, TLC

\* A squad whose inbound the nodes have, one whose inbound no node has, and one
\* without inbounds.
SquadsInbounds == "full" :> {"vless"} @@ "far" :> {"trojan"} @@ "void" :> {}
NodesInbounds == [n \in Nodes |-> {"vless"}]

\* On every node, with one unit of traffic.
Fresh == [status |-> "ACTIVE", used |-> 0, limit |-> 1, expired |-> FALSE,
          squads |-> {"full"}, key |-> 0]

\* A user who is still to be created, or in; one unit of traffic makes him LIMITED.
AnyRow == {[u \in Users |-> row] : row \in {Null, Fresh}}

Same == [status |-> Null, limit |-> Null, expireAt |-> Null, squads |-> Null]

\* Access given by limit and date, taken by squads, and the body whose
\* fields pull in opposite directions.
AnyBody == {[Same EXCEPT !.limit = 0, !.expireAt = "future"],
            [Same EXCEPT !.squads = {}],
            [Same EXCEPT !.squads = {"far"}], [Same EXCEPT !.squads = {"void"}],
            [Same EXCEPT !.status = "DISABLED", !.expireAt = "future"]}

FreshRows == {Fresh}
=============================================================================
