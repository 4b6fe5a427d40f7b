-------------------------- MODULE DeliveryLifecycle --------------------------
(***************************************************************************)
(* What the control plane promises about grants and the messages sent      *)
(* under them, without endpoints, routes, clocks or delivery phases:       *)
(*                                                                         *)
(*   - a message enters under an active grant and belongs to it for good;  *)
(*   - when the grant ends, every message of it that no runtime accepted   *)
(*     dies in the same step;                                              *)
(*   - an accepted message and a dead one never change again, and an ended *)
(*     grant never comes back.                                             *)
(*                                                                         *)
(* ControlPlane is shown to implement this module.                         *)
(***************************************************************************)
CONSTANTS Comm,   \* communication sessions
          Msg,    \* messages
          NoComm  \* the home of a message that was not sent yet

VARIABLES grant,     \* [Comm -> {"none", "pending", "active", "ended"}]
          home,      \* [Msg -> Comm \cup {NoComm}]
          delivery   \* [Msg -> {"none", "open", "accepted", "dead"}]

vars == <<grant, home, delivery>>

TypeOK ==
  /\ grant \in [Comm -> {"none", "pending", "active", "ended"}]
  /\ home \in [Msg -> Comm \cup {NoComm}]
  /\ delivery \in [Msg -> {"none", "open", "accepted", "dead"}]

\* Grants may exist from the start; messages do not.
Init ==
  /\ grant \in [Comm -> {"none", "active"}]
  /\ home = [m \in Msg |-> NoComm]
  /\ delivery = [m \in Msg |-> "none"]

Ask(c) ==
  /\ grant[c] = "none"
  /\ grant' = [grant EXCEPT ![c] = "pending"]
  /\ UNCHANGED <<home, delivery>>

\* Some grants end and, in the same step, a request may be granted: accepting
\* a request first ends the lapsed grants that occupy its route.
Regrant(over, granted) ==
  /\ \A c \in over : grant[c] \in {"pending", "active"}
  /\ \A c \in granted : grant[c] = "pending"
  /\ over \cap granted = {}
  /\ grant' = [c \in Comm |-> IF c \in over THEN "ended"
                              ELSE IF c \in granted THEN "active"
                              ELSE grant[c]]
  /\ delivery' = [m \in Msg |-> IF home[m] \in over /\ delivery[m] = "open"
                                THEN "dead" ELSE delivery[m]]
  /\ UNCHANGED home

Open(m, c) ==
  /\ delivery[m] = "none"
  /\ grant[c] = "active"
  /\ delivery' = [delivery EXCEPT ![m] = "open"]
  /\ home' = [home EXCEPT ![m] = c]
  /\ UNCHANGED grant

\* A runtime accepted the message, or the bridge gave it up.
Settle(m, outcome) ==
  /\ delivery[m] = "open"
  /\ delivery' = [delivery EXCEPT ![m] = outcome]
  /\ UNCHANGED <<grant, home>>

Next ==
  \/ \E c \in Comm : Ask(c)
  \/ \E over, granted \in SUBSET Comm : Regrant(over, granted)
  \/ \E m \in Msg, c \in Comm : Open(m, c)
  \/ \E m \in Msg, outcome \in {"accepted", "dead"} : Settle(m, outcome)

Spec == Init /\ [][Next]_vars

\* The promise as an invariant: under a grant that ended nothing is open.
NothingOpenUnderEndedGrant ==
  \A m \in Msg : delivery[m] = "open" => grant[home[m]] = "active"
=============================================================================
