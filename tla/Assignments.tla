----------------------------- MODULE Assignments -----------------------------
(***************************************************************************)
(* What the host balancer promises about its assignments, as a seat book   *)
(* that is changed atomically: each host has targets, some of which accept *)
(* users, and at most one of them is assigned to each user.  No snapshot,  *)
(* no cache, no second statement: every step looks at the book as it is.   *)
(***************************************************************************)
EXTENDS Naturals

CONSTANTS Hosts, Users, Null

VARIABLES
  hosts, users,  \* those that exist
  open,          \* open[h]: the targets of host h, as pairs <<list, place>>
  accepting,     \* accepting[h]: those of them that are enabled and ACTIVE
  seat,          \* seat[h][u]: the target of user u at host h, or Null
  lists          \* the number of lists ever issued

book == <<hosts, users, open, accepting, seat, lists>>

Init ==
  /\ hosts = Hosts
  /\ users = Users
  /\ open = [h \in Hosts |-> {}]
  /\ accepting = [h \in Hosts |-> {}]
  /\ seat = [h \in Hosts |-> [u \in Users |-> Null]]
  /\ lists = 0

\* The targets of host h become ts, those of them in as accepting.
SetTargets(h, ts, as) ==
  /\ open' = [open EXCEPT ![h] = ts]
  /\ accepting' = [accepting EXCEPT ![h] = as]

\* A list is issued: all of its targets are added to a host, or none.
Issue(h) ==
  /\ lists' = lists + 1
  /\ SetTargets(h, open'[h], accepting'[h])
  /\ open[h] \subseteq open'[h]
  /\ \A t \in open'[h] \ open[h] : t[1] = lists'
  /\ accepting[h] = accepting'[h] \cap open[h]
  /\ accepting'[h] \subseteq open'[h]
  /\ UNCHANGED <<hosts, users, seat>>

\* The targets of a host go all at once, and with them its assignments.
Withdraw(h) ==
  /\ SetTargets(h, {}, {})
  /\ seat' = [seat EXCEPT ![h] = [u \in Users |-> Null]]
  /\ UNCHANGED <<hosts, users, lists>>

\* A user is assigned a target of the host that accepts users at this moment.
Assign(h, u) ==
  /\ h \in hosts /\ u \in users
  /\ \E t \in accepting[h] : seat' = [seat EXCEPT ![h][u] = t]
  /\ UNCHANGED <<hosts, users, open, accepting, lists>>

RemoveUser(u) ==
  /\ u \in users
  /\ users' = users \ {u}
  /\ seat' = [h \in Hosts |-> [seat[h] EXCEPT ![u] = Null]]
  /\ UNCHANGED <<hosts, open, accepting, lists>>

RemoveHost(h) ==
  /\ h \in hosts
  /\ hosts' = hosts \ {h}
  /\ SetTargets(h, {}, {})
  /\ seat' = [seat EXCEPT ![h] = [u \in Users |-> Null]]
  /\ UNCHANGED <<users, lists>>

Next ==
  \/ \E h \in Hosts : Issue(h) \/ Withdraw(h) \/ RemoveHost(h)
  \/ \E h \in Hosts, u \in Users : Assign(h, u)
  \/ \E u \in Users : RemoveUser(u)

Spec == Init /\ [][Next]_book
=============================================================================
