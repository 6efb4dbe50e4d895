------------------------- MODULE RemnawaveSettingsMC -------------------------
(***************************************************************************)
(* Instances of RemnawaveSettings for TLC: the settings a fresh panel is   *)
(* seeded with, and bodies that switch methods and the balancer.           *)
(***************************************************************************)
EXTENDS RemnawaveSettings, TLC

On(methods)  == [enabled |-> methods, complete |-> TRUE]
Incomplete   == [enabled |-> {"github"}, complete |-> FALSE]

Seeded ==
  [auth |-> [c \in Columns |-> IF c = "passwordSettings" THEN On({Password}) ELSE On({})],
   balancer |-> TRUE]

NoBody == [auth |-> [c \in Columns |-> Null], balancer |-> Null]
With(column, value) == [NoBody EXCEPT !.auth[column] = value]

PasswordOff == With("passwordSettings", On({}))
GithubOn    == With("oauth2Settings", On({"github"}))
GithubOff   == With("oauth2Settings", On({}))
GithubHalf  == With("oauth2Settings", Incomplete)
BalancerOff == [NoBody EXCEPT !.balancer = FALSE]

LoginBodies  == {PasswordOff, GithubOn, GithubOff, GithubHalf}
SwitchBodies == {BalancerOff}
AllBodies    == LoginBodies \cup SwitchBodies
=============================================================================
