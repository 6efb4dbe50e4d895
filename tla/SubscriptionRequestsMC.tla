------------------------- MODULE SubscriptionRequestsMC -------------------------
(***************************************************************************)
(* An instance for TLC of what a subscription request writes besides its   *)
(* assignments.  Devices and logs share no variable, and the two logs only *)
(* the clock and the count of faults, so a behaviour is of one part or of  *)
(* another, and the run visits the sum of their states instead of the      *)
(* product.                                                                *)
(***************************************************************************)
EXTENDS DeviceLimits, RequestLog, TLC

VARIABLE part

\* The user's own limit: the settings' one, or none.
AnyLimit == {Null, 0}

\* Switched on for one device, and off.
OnAndOff == {[enabled |-> TRUE, fallback |-> 1], [enabled |-> FALSE, fallback |-> 1]}

\* Requests are alike, and so are devices.
Alike == Permutations(Requests) \cup Permutations(Hwids)

PartsInit == Init /\ LogInit /\ part \in {"devices", "history", "decisions"}

PartsNext ==
  \/ part = "devices" /\ Next /\ UNCHANGED <<logVars, part>>
  \/ part = "history" /\ HistoryNext /\ UNCHANGED <<vars, part>>
  \/ part = "decisions" /\ DecisionsNext /\ UNCHANGED <<vars, part>>

PartsSpec == PartsInit /\ [][PartsNext]_<<vars, logVars, part>>
=============================================================================
