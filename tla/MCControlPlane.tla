---------------------------- MODULE MCControlPlane ----------------------------
(***************************************************************************)
(* Small instances of ControlPlane: a requester and a recipient with one   *)
(* bridge each.  Bob has a second session where the run is about routes.   *)
(***************************************************************************)
EXTENDS ControlPlane, TLC

CONSTANTS Ann, Bob, AnnBridge, BobBridge, AnnSession, BobSession, BobOther

MCOwnerOf == AnnBridge :> Ann @@ BobBridge :> Bob
MCHostOf == [s \in Session |-> IF s = AnnSession THEN AnnBridge ELSE BobBridge]

\* Nothing reads the event log back, so two states that differ in it alone have
\* the same future: the runs about grants explore one of them.
WithoutLog == <<now, registered, session, inbound, defaultRoute, offer, comm, message>>

\* One direction of asking: Bob is asked, Bob's sessions are the ones that are
\* published, closed and withheld, and offers are made to Ann.
AnnAsksBob ==
  /\ \A c \in Comm : comm[c].recipient \in {Bob, None}
  /\ \A o \in Offer : offer[o].audience \in {Ann, None}
  /\ session[AnnSession] # "closed" /\ AnnSession \notin inbound

Interchangeable == Permutations(Msg) \cup Permutations(Comm)
===============================================================================
