--------------------------- MODULE NodeLifecycleMC ---------------------------
(***************************************************************************)
(* Instances of NodeLifecycle for TLC.                                     *)
(***************************************************************************)
EXTENDS NodeLifecycle

CONSTANTS n1, p1, p2

\* Every node runs the first profile.
OneProfile == [n \in Nodes |-> p1]
=============================================================================
