-------------------------- MODULE ControlPlaneProofs --------------------------
(***************************************************************************)
(* The safety of the control plane for any principals, endpoints,          *)
(* sessions, offers and lifetimes, and any finite number of messages.      *)
(*                                                                         *)
(* The proof has three parts.  IInv is inductive and says nothing of the   *)
(* event log, which no operation reads back.  On top of IInv, every step   *)
(* maps to a step of DeliveryLifecycle or to a stutter.  Also on top of    *)
(* IInv, LInv explains every entry of the log by the rows it names; an     *)
(* acceptance writes as many entries as it expires grants, so that its     *)
(* part of the proof is an induction over their number.                    *)
(***************************************************************************)
EXTENDS ControlPlane, SequenceLemmas, FiniteSetTheorems, TLAPS

\* A message that was not sent belongs to no grant, and one that was sent under a
\* grant found it active.
MessagesKnowTheirGrant ==
  \A m \in Msg :
    /\ message[m].status = "none" => message[m].comm = None
    /\ message[m].status \in OpenStatus => message[m].comm # None
    /\ message[m].comm # None => comm[message[m].comm].status \notin {"none", "pending"}

IInv ==
  /\ RowsOK
  /\ MessagesKnowTheirGrant
  /\ OneLiveGrantPerRoute
  /\ NoOpenDeliveryUnderEndedGrant
  /\ MessagesStayOnFrozenRoutes
  /\ OneMessagePerClientId
  /\ SequencesAreDense

-------------------------------------------------------------------------------
(* The operators.                                                          *)

LEMMA OwnerType ==
  ASSUME NEW s \in Session
  PROVE  SessionOwner(s) \in Principal /\ HostOf[s] \in Endpoint
  BY OwnerAssumption, HostAssumption DEF SessionOwner

\* Ending a grant and acknowledging a delivery only ever move a row's status
\* within DeliveryStatus, never from or to "none", and never open it.
LEMMA ClosedByType ==
  ASSUME NEW x \in DeliveryStatus, NEW why \in {"revoked", "expired"}
  PROVE  /\ ClosedBy(x, why) \in DeliveryStatus
         /\ ClosedBy(x, why) \notin OpenStatus
         /\ ClosedBy(x, why) = "none" <=> x = "none"
  BY DEF ClosedBy, DeliveryStatus, OpenStatus, TerminalStatus

\* Another delivery status in a row leaves its other fields.
LEMMA RowRestated ==
  ASSUME NEW r \in MessageRow, NEW x \in DeliveryStatus
  PROVE  /\ [r EXCEPT !.status = x] \in MessageRow
         /\ [r EXCEPT !.status = x].status = x
         /\ [r EXCEPT !.status = x].comm = r.comm
         /\ [r EXCEPT !.status = x].sender = r.sender
         /\ [r EXCEPT !.status = x].clientId = r.clientId
         /\ [r EXCEPT !.status = x].target = r.target
         /\ [r EXCEPT !.status = x].sequence = r.sequence
<1> DEFINE q == [r EXCEPT !.status = x]
<1>1. q \in MessageRow
  BY DEF MessageRow
<1>2. /\ q.status = x /\ q.comm = r.comm /\ q.sender = r.sender
      /\ q.clientId = r.clientId /\ q.target = r.target /\ q.sequence = r.sequence
  BY DEF MessageRow
<1> QED
  BY <1>1, <1>2

LEMMA AcknowledgedType ==
  ASSUME NEW x \in DeliveryStatus, NEW phase \in Phase
  PROVE  /\ Acknowledged(x, phase) \in DeliveryStatus
         /\ Acknowledged(x, phase) \in OpenStatus => x \in OpenStatus
         /\ Acknowledged(x, phase) = "none" <=> x = "none"
  BY DEF Acknowledged, AckedFrom, AckedTo, Phase, DeliveryStatus, OpenStatus, TerminalStatus

\* A numbering without gaps goes on with the number of messages plus one.
LEMMA NextSequenceIsNext ==
  ASSUME RowsOK, SequencesAreDense, NEW c \in Comm
  PROVE  LET sent == {m \in Msg : message[m].comm = c}
         IN /\ IsFiniteSet(sent)
            /\ Cardinality(sent) \in Nat
            /\ NextSequence(c) = Cardinality(sent) + 1
<1> DEFINE sent == {m \in Msg : message[m].comm = c}
           n == Cardinality(sent)
           f == [m \in sent |-> message[m].sequence]
           P(k) == /\ \A m \in Msg : message[m].comm = c => message[m].sequence < k
                   /\ k = 1 \/ \E m \in Msg : message[m].comm = c /\ message[m].sequence = k - 1
<1>1. /\ IsFiniteSet(sent) /\ IsFiniteSet(Msg)
      /\ n \in Nat /\ Cardinality(Msg) \in Nat /\ n <= Cardinality(Msg)
  <2>1. sent \in SUBSET Msg
    OBVIOUS
  <2> QED
    BY <2>1, MessageAssumption, FS_Subset, FS_CardinalityType
<1> HIDE DEF n
<1>2. f \in Injection(sent, 1..n)
  BY DEF SequencesAreDense, Injection, IsInjective, n
<1>3. IsFiniteSet(1..n) /\ Cardinality(1..n) = n
  BY <1>1, FS_Interval
<1>4. f \in Surjection(sent, 1..n)
  BY <1>1, <1>2, <1>3, FS_Injection DEF n
<1>5. \A i \in 1..n : \E m \in Msg : message[m].comm = c /\ message[m].sequence = i
  BY <1>4 DEF Surjection
<1>6. \A m \in sent : message[m].sequence \in 1..n
  BY DEF SequencesAreDense, n
<1>7. P(n + 1)
  <2>1. n = 0 \/ n \in 1..n
    BY <1>1
  <2> QED
    BY <1>1, <1>5, <1>6, <2>1
<1>8. \A k \in 1..(Cardinality(Msg) + 1) : P(k) => k = n + 1
  <2> SUFFICES ASSUME NEW k \in 1..(Cardinality(Msg) + 1), P(k), k # n + 1
               PROVE  FALSE
    OBVIOUS
  <2>1. k \in Nat
    BY <1>1
  <2>2. CASE k < n + 1
    BY <1>1, <1>5, <2>1, <2>2
  <2>3. CASE k > n + 1
    BY <1>1, <1>6, <2>1, <2>3
  <2> QED
    BY <1>1, <2>1, <2>2, <2>3
<1>9. n + 1 \in 1..(Cardinality(Msg) + 1)
  BY <1>1
<1>10. NextSequence(c) = n + 1
  <2>1. NextSequence(c) = CHOOSE k \in 1..(Cardinality(Msg) + 1) : P(k)
    BY DEF NextSequence
  <2> HIDE DEF P
  <2> QED
    BY <1>7, <1>8, <1>9, <2>1
<1> QED
  BY <1>1, <1>10 DEF n

-------------------------------------------------------------------------------
(* Steps that move delivery statuses and grants, but send nothing.         *)

\* Every row of messages keeps what it was sent with.
RowsKept ==
  \A m \in Msg :
    /\ message'[m].comm = message[m].comm
    /\ message'[m].sender = message[m].sender
    /\ message'[m].clientId = message[m].clientId
    /\ message'[m].target = message[m].target
    /\ message'[m].sequence = message[m].sequence
    /\ message'[m].status = "none" <=> message[m].status = "none"

\* A grant that was given keeps its parties and routes.
RoutesKept ==
  \A c \in Comm : comm[c].status \notin {"none", "pending"} =>
    /\ comm'[c].status \notin {"none", "pending"}
    /\ comm'[c].requester = comm[c].requester
    /\ comm'[c].route = comm[c].route
    /\ comm'[c].reply = comm[c].reply

LEMMA KeptRows ==
  ASSUME IInv, RowsKept
  PROVE  SequencesAreDense' /\ OneMessagePerClientId'
<1>1. ASSUME NEW c \in Comm
      PROVE  {m \in Msg : message'[m].comm = c} = {m \in Msg : message[m].comm = c}
  BY DEF RowsKept
<1>2. SequencesAreDense'
  <2> SUFFICES ASSUME NEW c \in Comm
               PROVE  LET sent == {m \in Msg : message'[m].comm = c}
                      IN /\ \A m \in sent : message'[m].sequence \in 1..Cardinality(sent)
                         /\ \A m, n \in sent :
                              message'[m].sequence = message'[n].sequence => m = n
    BY DEF SequencesAreDense
  <2> DEFINE sent == {m \in Msg : message[m].comm = c}
  <2>1. /\ \A m \in sent : message[m].sequence \in 1..Cardinality(sent)
        /\ \A m, n \in sent : message[m].sequence = message[n].sequence => m = n
    BY DEF IInv, SequencesAreDense
  <2>2. \A m \in sent : message'[m].sequence = message[m].sequence
    BY DEF RowsKept
  <2> HIDE DEF sent
  <2>3. {m \in Msg : message'[m].comm = c} = sent
    BY <1>1 DEF sent
  <2> QED
    BY <2>1, <2>2, <2>3
<1>3. OneMessagePerClientId'
  BY DEF RowsKept, IInv, OneMessagePerClientId
<1> QED
  BY <1>2, <1>3

LEMMA KeptRoutes ==
  ASSUME IInv, RowsKept, RoutesKept
  PROVE  MessagesStayOnFrozenRoutes'
<1> SUFFICES ASSUME NEW m \in Msg, message[m].comm # None
             PROVE  LET c == comm'[message[m].comm]
                    IN message[m].target = IF message[m].sender = c.requester
                                           THEN c.route ELSE c.reply
  BY DEF RowsKept, MessagesStayOnFrozenRoutes
<1>1. message[m].comm \in Comm
  BY DEF IInv, RowsOK, MessageRow
<1>2. comm[message[m].comm].status \notin {"none", "pending"}
  BY DEF IInv, MessagesKnowTheirGrant
<1> QED
  BY <1>1, <1>2 DEF RoutesKept, IInv, MessagesStayOnFrozenRoutes

\* Closing the deliveries of the grants in S keeps the rows and leaves none of
\* them open.
LEMMA Closing ==
  ASSUME RowsOK, NEW S \in SUBSET Comm, NEW why \in {"revoked", "expired"},
         message' = ClosedDeliveries(S, why)
  PROVE  /\ message' \in [Msg -> MessageRow]
         /\ RowsKept
         /\ \A m \in Msg : message'[m].status \in OpenStatus
              => message[m].status \in OpenStatus /\ message[m].comm \notin S
<1>1. ASSUME NEW m \in Msg
      PROVE  /\ message[m] \in MessageRow
             /\ message'[m] = IF message[m].comm \in S
                              THEN [message[m] EXCEPT !.status = ClosedBy(message[m].status, why)]
                              ELSE message[m]
  BY DEF RowsOK, ClosedDeliveries
<1>2. ASSUME NEW m \in Msg
      PROVE  /\ message'[m] \in MessageRow
             /\ message'[m].comm = message[m].comm
             /\ message'[m].sender = message[m].sender
             /\ message'[m].clientId = message[m].clientId
             /\ message'[m].target = message[m].target
             /\ message'[m].sequence = message[m].sequence
             /\ message'[m].status = "none" <=> message[m].status = "none"
             /\ message'[m].status \in OpenStatus
                  => message[m].status \in OpenStatus /\ message[m].comm \notin S
  <2>1. /\ message[m] \in MessageRow /\ message[m].status \in DeliveryStatus
        /\ ClosedBy(message[m].status, why) \in DeliveryStatus
        /\ ClosedBy(message[m].status, why) \notin OpenStatus
        /\ ClosedBy(message[m].status, why) = "none" <=> message[m].status = "none"
    BY <1>1, ClosedByType DEF MessageRow
  <2>2. CASE message[m].comm \in S
    <3>1. message'[m] = [message[m] EXCEPT !.status = ClosedBy(message[m].status, why)]
      BY <1>1, <2>2
    <3> QED
      BY <2>1, <3>1, RowRestated
  <2>3. CASE message[m].comm \notin S
    <3>1. message'[m] = message[m]
      BY <1>1, <2>3
    <3> QED
      BY <2>1, <2>3, <3>1
  <2> QED
    BY <2>2, <2>3
<1>3. message' = [m \in Msg |-> message'[m]]
  BY DEF ClosedDeliveries
<1> QED
  BY <1>2, <1>3 DEF RowsKept

-------------------------------------------------------------------------------
(* Grants.                                                                 *)

\* The rows that the operations on grants and messages leave alone.
RegistryKept == UNCHANGED <<registered, session, inbound, defaultRoute, offer>>

\* The sessions after those in S ended.
Ended(S, why) ==
  [d \in Comm |-> IF d \in S THEN [comm[d] EXCEPT !.status = why] ELSE comm[d]]

\* Ending the grants in S, of which some may be requests.
LEMMA EndingPreserves ==
  ASSUME IInv, NEW S \in SUBSET Comm, NEW why \in {"revoked", "expired"},
         \A d \in S : comm[d].status \in {"pending", "active"},
         message' = ClosedDeliveries(S, why),
         comm' = Ended(S, why),
         now' \in 0..MaxTime, now' >= now,
         RegistryKept
  PROVE  IInv'
<1>1. /\ message' \in [Msg -> MessageRow] /\ RowsKept
      /\ \A m \in Msg : message'[m].status \in OpenStatus
           => message[m].status \in OpenStatus /\ message[m].comm \notin S
  BY Closing DEF IInv
<1>2. ASSUME NEW d \in Comm
      PROVE  /\ comm'[d] \in CommRow
             /\ d \in S => comm'[d].status = why
             /\ d \notin S => comm'[d] = comm[d]
             /\ comm'[d].requester = comm[d].requester
             /\ comm'[d].route = comm[d].route
             /\ comm'[d].reply = comm[d].reply
             /\ comm'[d].grantExpires = comm[d].grantExpires
  <2>1. comm[d] \in CommRow /\ why \in CommStatus
    BY DEF IInv, RowsOK, CommStatus
  <2>2. CASE d \in S
    <3>1. comm'[d] = [comm[d] EXCEPT !.status = why]
      BY <2>2 DEF Ended
    <3>2. comm'[d] \in CommRow
      BY <2>1, <3>1 DEF CommRow
    <3>3. /\ comm'[d].status = why
          /\ comm'[d].requester = comm[d].requester
          /\ comm'[d].route = comm[d].route
          /\ comm'[d].reply = comm[d].reply
          /\ comm'[d].grantExpires = comm[d].grantExpires
      BY <2>1, <3>1 DEF CommRow
    <3> QED
      BY <2>2, <3>2, <3>3
  <2>3. CASE d \notin S
    <3>1. comm'[d] = comm[d]
      BY <2>3 DEF Ended
    <3> QED
      BY <2>1, <2>3, <3>1
  <2> QED
    BY <2>2, <2>3
<1>3. RowsOK'
  <2>1. comm' \in [Comm -> CommRow]
    BY <1>2 DEF Ended
  <2> QED
    BY <1>1, <2>1 DEF RegistryKept, IInv, RowsOK
<1>4. RoutesKept
  BY <1>2 DEF RoutesKept
<1>5. MessagesKnowTheirGrant'
  BY <1>1, <1>2 DEF RowsKept, IInv, RowsOK, MessageRow, MessagesKnowTheirGrant
<1>6. OneLiveGrantPerRoute'
  <2> SUFFICES ASSUME NEW c \in Comm, NEW d \in Comm, c # d,
                      comm'[c].status = "active", comm'[c].grantExpires > now',
                      comm'[d].status = "active", comm'[d].grantExpires > now'
               PROVE  comm'[c].route # comm'[d].route
    BY DEF OneLiveGrantPerRoute
  <2>1. c \notin S /\ d \notin S
    BY <1>2
  <2>2. /\ comm[c].grantExpires \in Nat /\ comm[d].grantExpires \in Nat
        /\ now \in Nat /\ now' \in Nat
    BY TimeAssumption DEF IInv, RowsOK, CommRow
  <2>3. comm[c].grantExpires > now /\ comm[d].grantExpires > now
    BY <1>2, <2>2
  <2> QED
    BY <1>2, <2>1, <2>3 DEF IInv, OneLiveGrantPerRoute
<1>7. NoOpenDeliveryUnderEndedGrant'
  <2> SUFFICES ASSUME NEW m \in Msg, message'[m].status \in OpenStatus
               PROVE  comm'[message'[m].comm].status = "active"
    BY DEF NoOpenDeliveryUnderEndedGrant
  <2>1. /\ message[m].status \in OpenStatus /\ message[m].comm \notin S
        /\ message'[m].comm = message[m].comm
    BY <1>1 DEF RowsKept
  <2>2. message[m].comm \in Comm
    BY <2>1 DEF IInv, RowsOK, MessageRow, MessagesKnowTheirGrant
  <2> QED
    BY <1>2, <2>1, <2>2 DEF IInv, NoOpenDeliveryUnderEndedGrant
<1> QED
  BY <1>1, <1>3, <1>4, <1>5, <1>6, <1>7, KeptRows, KeptRoutes DEF IInv

LEMMA RevokePreserves ==
  ASSUME IInv, NEW c \in Comm, Revoke(c)
  PROVE  IInv'
<1> DEFINE S == {c}
<1>1. comm' = Ended(S, "revoked")
  BY DEF Revoke, Ended, IInv, RowsOK
<1>2. message' = ClosedDeliveries(S, "revoked")
  BY DEF Revoke
<1>3. S \in SUBSET Comm /\ \A d \in S : comm[d].status \in {"pending", "active"}
  BY DEF Revoke
<1>4. now' \in 0..MaxTime /\ now' >= now /\ RegistryKept
  BY TimeAssumption DEF Revoke, RegistryKept, IInv, RowsOK
<1> HIDE DEF S
<1> QED
  BY <1>1, <1>2, <1>3, <1>4, EndingPreserves

LEMMA ExpirePreserves ==
  ASSUME IInv, NEW c \in Comm, ExpireIfNeeded(c)
  PROVE  IInv'
<1> DEFINE S == {c}
<1>1. comm' = Ended(S, "expired")
  BY DEF ExpireIfNeeded, Ended, IInv, RowsOK
<1>2. message' = ClosedDeliveries(S, "expired")
  BY DEF ExpireIfNeeded
<1>3. S \in SUBSET Comm /\ \A d \in S : comm[d].status \in {"pending", "active"}
  BY DEF ExpireIfNeeded, Due
<1>4. now' \in 0..MaxTime /\ now' >= now /\ RegistryKept
  BY TimeAssumption DEF ExpireIfNeeded, RegistryKept, IInv, RowsOK
<1> HIDE DEF S
<1> QED
  BY <1>1, <1>2, <1>3, <1>4, EndingPreserves

\* A request that is no grant yet changes: no message belongs to it.
LEMMA RequestedPreserves ==
  ASSUME IInv, NEW c \in Comm, comm[c].status \in {"none", "pending"},
         comm' \in [Comm -> CommRow],
         \A d \in Comm \ {c} : comm'[d] = comm[d],
         comm'[c].status # "active",
         UNCHANGED <<now, message>>, RegistryKept
  PROVE  IInv'
<1>1. RowsOK' /\ RowsKept /\ RoutesKept
  BY DEF RegistryKept, IInv, RowsOK, RowsKept, RoutesKept
<1>2. \A m \in Msg : message[m].comm # c
  BY NoneAssumption DEF IInv, MessagesKnowTheirGrant
<1>3. \A m \in Msg : message[m].comm # None => message[m].comm \in Comm \ {c}
  BY <1>2 DEF IInv, RowsOK, MessageRow
<1>4. MessagesKnowTheirGrant'
  BY <1>3 DEF IInv, MessagesKnowTheirGrant
<1>5. OneLiveGrantPerRoute'
  BY DEF IInv, OneLiveGrantPerRoute
<1>6. NoOpenDeliveryUnderEndedGrant'
  BY <1>3 DEF IInv, NoOpenDeliveryUnderEndedGrant, MessagesKnowTheirGrant
<1> QED
  BY <1>1, <1>4, <1>5, <1>6, KeptRows, KeptRoutes DEF IInv

LEMMA RequestPreserves ==
  ASSUME IInv, NEW c \in Comm, NEW s \in Session, NEW p \in Principal,
         NEW o \in Offer \cup {None}, NEW n \in TtlChoice, Request(c, s, p, o, n)
  PROVE  IInv'
<1>1. comm' \in [Comm -> CommRow] /\ comm'[c].status # "active"
  <2>1. SessionOwner(s) \in Principal
    BY OwnerType
  <2>2. /\ (IF n > MaxGrantTtl THEN MaxGrantTtl ELSE n) \in Nat
        /\ now + RequestTtl \in Nat
    BY TimeAssumption DEF IInv, RowsOK
  <2>3. [status |-> "pending", requester |-> SessionOwner(s), recipient |-> p,
         kind |-> IF o = None THEN "person_default_runtime" ELSE "runtime_session",
         offer |-> o, reply |-> s, route |-> None,
         ttl |-> IF n > MaxGrantTtl THEN MaxGrantTtl ELSE n,
         requestExpires |-> now + RequestTtl, grantExpires |-> 0] \in CommRow
    BY <2>1, <2>2 DEF CommRow, CommStatus, Kind
  <2> QED
    BY <2>3 DEF Request, IInv, RowsOK
<1>2. /\ \A d \in Comm \ {c} : comm'[d] = comm[d]
      /\ comm[c].status = "none"
      /\ UNCHANGED <<now, message>> /\ RegistryKept
  BY DEF Request, RegistryKept, IInv, RowsOK
<1> QED
  BY <1>1, <1>2, RequestedPreserves

LEMMA DeclinePreserves ==
  ASSUME IInv, NEW c \in Comm, Decline(c)
  PROVE  IInv'
<1>1. /\ comm' \in [Comm -> CommRow]
      /\ comm'[c].status # "active"
      /\ \A d \in Comm \ {c} : comm'[d] = comm[d]
      /\ comm[c].status = "pending"
      /\ UNCHANGED <<now, message>> /\ RegistryKept
  BY DEF Decline, RegistryKept, IInv, RowsOK, CommRow, CommStatus
<1> QED
  BY <1>1, RequestedPreserves

\* The two outcomes of an acceptance, without the events.
LEMMA AcceptOutcome ==
  ASSUME NEW c \in Comm, NEW s \in Session, NEW t \in 0..MaxTime, Accept(c, s, t)
  PROVE  \/ comm' = Ended(StaleOn(s), "expired")
         \/ /\ ~RouteTaken(c, s, t)
            /\ comm' = [Ended(StaleOn(s), "expired") EXCEPT
                          ![c].status = "active", ![c].route = s,
                          ![c].grantExpires = t + comm[c].ttl]
  BY DEF Accept, Ended

LEMMA AcceptPreserves ==
  ASSUME IInv, NEW c \in Comm, NEW s \in Session, NEW t \in 0..MaxTime, Accept(c, s, t)
  PROVE  IInv'
<1> DEFINE S == StaleOn(s)
<1>1. S \in SUBSET Comm /\ \A d \in S : comm[d].status \in {"pending", "active"}
  BY DEF StaleOn, HoldersOf
<1>2. message' = ClosedDeliveries(S, "expired")
  BY DEF Accept
<1>3. now' = t /\ now' \in 0..MaxTime /\ now' >= now /\ RegistryKept
  BY TimeAssumption DEF Accept, RegistryKept, IInv, RowsOK
<1>4. comm[c].status = "pending" /\ c \notin S
  BY DEF Accept, StaleOn, HoldersOf
<1>5. CASE comm' = Ended(S, "expired")
  <2> HIDE DEF S
  <2> QED
    BY <1>1, <1>2, <1>3, <1>5, EndingPreserves
<1>6. CASE /\ ~RouteTaken(c, s, t)
           /\ comm' = [Ended(S, "expired") EXCEPT ![c].status = "active", ![c].route = s,
                                                  ![c].grantExpires = t + comm[c].ttl]
  <2>1. ASSUME NEW d \in Comm \ {c}
        PROVE  /\ comm'[d] \in CommRow
               /\ d \in S => comm'[d].status = "expired"
               /\ d \notin S => comm'[d] = comm[d]
               /\ comm'[d].requester = comm[d].requester
               /\ comm'[d].route = comm[d].route
               /\ comm'[d].reply = comm[d].reply
               /\ comm'[d].grantExpires = comm[d].grantExpires
    <3>1. comm'[d] = Ended(S, "expired")[d]
      BY <1>6 DEF Ended
    <3> HIDE DEF S
    <3> QED
      BY <3>1 DEF Ended, IInv, RowsOK, CommRow, CommStatus
  <2>2. comm'[c] \in CommRow /\ comm'[c].status = "active" /\ comm'[c].route = s
    <3>1. Ended(S, "expired")[c] = comm[c]
      BY <1>4 DEF Ended
    <3>2. comm'[c] = [comm[c] EXCEPT !.status = "active", !.route = s,
                                     !.grantExpires = t + comm[c].ttl]
      BY <1>6, <3>1 DEF Ended
    <3>3. comm[c] \in CommRow /\ t + comm[c].ttl \in Nat
      BY TimeAssumption DEF IInv, RowsOK, CommRow
    <3> QED
      BY <3>2, <3>3 DEF CommRow, CommStatus
  <2>3. comm' \in [Comm -> CommRow]
    BY <1>6, <2>1, <2>2 DEF Ended
  <2> HIDE DEF S
  <2>4. /\ message' \in [Msg -> MessageRow] /\ RowsKept
        /\ \A m \in Msg : message'[m].status \in OpenStatus
             => message[m].status \in OpenStatus /\ message[m].comm \notin S
    BY <1>1, <1>2, Closing DEF IInv
  <2>5. RowsOK'
    BY <1>3, <2>3, <2>4 DEF RegistryKept, IInv, RowsOK
  <2>6. RoutesKept
    BY <1>4, <2>1 DEF RoutesKept
  <2>7. \A m \in Msg : message[m].comm # None => message[m].comm \in Comm \ {c}
    BY <1>4 DEF IInv, RowsOK, MessageRow, MessagesKnowTheirGrant
  <2>8. MessagesKnowTheirGrant'
    BY <2>1, <2>4, <2>7 DEF RowsKept, IInv, MessagesKnowTheirGrant
  <2>9. OneLiveGrantPerRoute'
    <3>1. ASSUME NEW d \in Comm \ {c}, comm'[d].status = "active", comm'[d].grantExpires > now'
          PROVE  /\ comm'[d] = comm[d] /\ comm[d].status = "active"
                 /\ comm[d].grantExpires > now /\ comm[d].route # s
      <4>1. comm'[d] = comm[d]
        BY <2>1, <3>1
      <4>2. comm[d].grantExpires \in Nat /\ now \in Nat /\ t \in Nat
        BY TimeAssumption DEF IInv, RowsOK, CommRow
      <4> QED
        BY <1>3, <1>6, <3>1, <4>1, <4>2 DEF RouteTaken, HoldersOf
    <3> QED
      BY <2>2, <3>1 DEF IInv, OneLiveGrantPerRoute
  <2>10. NoOpenDeliveryUnderEndedGrant'
    <3> SUFFICES ASSUME NEW m \in Msg, message'[m].status \in OpenStatus
                 PROVE  comm'[message'[m].comm].status = "active"
      BY DEF NoOpenDeliveryUnderEndedGrant
    <3>1. /\ message[m].status \in OpenStatus /\ message[m].comm \notin S
          /\ message'[m].comm = message[m].comm
      BY <2>4 DEF RowsKept
    <3>2. message[m].comm \in Comm \ {c}
      BY <2>7, <3>1 DEF IInv, MessagesKnowTheirGrant
    <3> QED
      BY <2>1, <3>1, <3>2 DEF IInv, NoOpenDeliveryUnderEndedGrant
  <2> QED
    BY <2>4, <2>5, <2>6, <2>8, <2>9, <2>10, KeptRows, KeptRoutes DEF IInv
<1> QED
  BY <1>5, <1>6, AcceptOutcome

-------------------------------------------------------------------------------
(* Messages.                                                               *)

LEMMA SendPreserves ==
  ASSUME IInv, NEW m \in Msg, NEW p \in Principal, NEW c \in Comm, NEW k \in ClientId,
         Send(m, p, c, k)
  PROVE  IInv'
<1> DEFINE sent(d) == {n \in Msg : message[n].comm = d}
           next == Cardinality(sent(c)) + 1
<1>1. IsFiniteSet(sent(c)) /\ Cardinality(sent(c)) \in Nat /\ NextSequence(c) = next
  BY NextSequenceIsNext DEF IInv
<1>2. /\ message'[m] = [status |-> "queued", comm |-> c, sender |-> p, clientId |-> k,
                        target |-> TargetFor(c, p), sequence |-> next,
                        expires |-> comm[c].grantExpires]
      /\ \A n \in Msg \ {m} : message'[n] = message[n]
      /\ message[m].status = "none" /\ message[m].comm = None
      /\ comm[c].status = "active" /\ ~Duplicate(p, k)
  BY <1>1 DEF Send, IInv, RowsOK, MessagesKnowTheirGrant
<1>3. message' \in [Msg -> MessageRow]
  <2>1. TargetFor(c, p) \in Session \cup {None} /\ comm[c].grantExpires \in Nat
    BY DEF TargetFor, IInv, RowsOK, CommRow
  <2>2. message'[m] \in MessageRow
    BY <1>1, <1>2, <2>1 DEF MessageRow, DeliveryStatus, OpenStatus
  <2> QED
    BY <2>2 DEF Send, IInv, RowsOK
<1>4. UNCHANGED <<now, comm>> /\ RegistryKept
  BY DEF Send, RegistryKept
<1>5. RowsOK' /\ OneLiveGrantPerRoute'
  BY <1>3, <1>4 DEF RegistryKept, IInv, RowsOK, OneLiveGrantPerRoute
<1>6. MessagesKnowTheirGrant'
  BY <1>2, <1>4, NoneAssumption DEF IInv, MessagesKnowTheirGrant
<1>7. NoOpenDeliveryUnderEndedGrant'
  BY <1>2, <1>4 DEF IInv, NoOpenDeliveryUnderEndedGrant
<1>8. MessagesStayOnFrozenRoutes'
  BY <1>2, <1>4 DEF TargetFor, IInv, MessagesStayOnFrozenRoutes
<1>9. OneMessagePerClientId'
  BY <1>2 DEF Duplicate, IInv, OneMessagePerClientId
<1>10. SequencesAreDense'
  <2> SUFFICES ASSUME NEW d \in Comm
               PROVE  LET after == {n \in Msg : message'[n].comm = d}
                      IN /\ \A n \in after : message'[n].sequence \in 1..Cardinality(after)
                         /\ \A n, o \in after :
                              message'[n].sequence = message'[o].sequence => n = o
    BY DEF SequencesAreDense
  <2> DEFINE after == {n \in Msg : message'[n].comm = d}
  <2>1. /\ \A n \in sent(d) : message[n].sequence \in 1..Cardinality(sent(d))
        /\ \A n, o \in sent(d) : message[n].sequence = message[o].sequence => n = o
    BY DEF IInv, SequencesAreDense
  <2>2. m \notin sent(d)
    BY <1>2, NoneAssumption
  <2>3. CASE d # c
    <3>1. after = sent(d)
      BY <1>2, <2>2, <2>3
    <3> HIDE DEF after
    <3> QED
      BY <1>2, <2>1, <2>2, <3>1 DEF after
  <2>4. CASE d = c
    <3>1. after = sent(c) \cup {m}
      BY <1>2, <2>4
    <3>2. Cardinality(after) = next
      <4> HIDE DEF sent, after
      <4> QED
        BY <1>1, <2>2, <2>4, <3>1, FS_AddElement DEF next
    <3>3. \A n \in sent(c) : message'[n] = message[n]
                             /\ message[n].sequence \in 1..Cardinality(sent(c))
      BY <1>2, <2>1, <2>2, <2>4
    <3>4. message'[m].sequence = next
      BY <1>2
    <3>5. \A n, o \in sent(c) : message[n].sequence = message[o].sequence => n = o
      BY <2>1, <2>4
    <3>6. /\ \A n \in after : message'[n].sequence \in 1..Cardinality(after)
          /\ \A n, o \in after : message'[n].sequence = message'[o].sequence => n = o
      <4> DEFINE before == sent(c)
                 size == Cardinality(before)
      <4>1. /\ after = before \cup {m} /\ Cardinality(after) = size + 1 /\ size \in Nat
            /\ \A n \in before : message'[n].sequence \in 1..size
            /\ message'[m].sequence = size + 1
            /\ \A n, o \in before : message'[n].sequence = message'[o].sequence => n = o
        BY <1>1, <3>1, <3>2, <3>3, <3>4, <3>5
      <4> HIDE DEF after, before, size
      <4> QED
        BY <4>1
    <3> QED
      BY <3>6
  <2> QED
    BY <2>3, <2>4
<1> QED
  BY <1>5, <1>6, <1>7, <1>8, <1>9, <1>10 DEF IInv

LEMMA SendInboxPreserves ==
  ASSUME IInv, NEW m \in Msg, NEW p \in Principal, NEW k \in ClientId, SendInbox(m, p, k)
  PROVE  IInv'
<1>1. /\ message[m].status = "none" /\ message[m].comm = None /\ ~Duplicate(p, k)
      /\ \A n \in Msg \ {m} : message'[n] = message[n]
  BY DEF SendInbox, IInv, RowsOK, MessagesKnowTheirGrant
<1>2. /\ message'[m] \in MessageRow /\ message'[m].status = "inbox_persisted"
      /\ message'[m].comm = None /\ message'[m].sender = p /\ message'[m].clientId = k
  <2>1. "inbox_persisted" \in DeliveryStatus /\ 1 \in Nat
    BY DEF DeliveryStatus
  <2>2. /\ message[m] \in MessageRow
        /\ message'[m] = [message[m] EXCEPT !.status = "inbox_persisted", !.sender = p,
                                            !.clientId = k, !.sequence = 1]
    BY DEF SendInbox, IInv, RowsOK
  <2>3. message'[m] \in MessageRow
    BY <2>1, <2>2 DEF MessageRow
  <2>4. /\ message'[m].status = "inbox_persisted" /\ message'[m].comm = message[m].comm
        /\ message'[m].sender = p /\ message'[m].clientId = k
    BY <2>2 DEF MessageRow
  <2> QED
    BY <1>1, <2>3, <2>4
<1>3. message' \in [Msg -> MessageRow]
  BY <1>2 DEF SendInbox, IInv, RowsOK
<1>4. UNCHANGED <<now, comm>> /\ RegistryKept
  BY DEF SendInbox, RegistryKept
<1>5. RowsOK' /\ OneLiveGrantPerRoute'
  BY <1>3, <1>4 DEF RegistryKept, IInv, RowsOK, OneLiveGrantPerRoute
<1>6. MessagesKnowTheirGrant' /\ NoOpenDeliveryUnderEndedGrant' /\ MessagesStayOnFrozenRoutes'
  <2>1. "inbox_persisted" \notin OpenStatus
    BY DEF OpenStatus
  <2>2. MessagesKnowTheirGrant'
    BY <1>1, <1>2, <1>4, <2>1 DEF IInv, MessagesKnowTheirGrant
  <2>3. NoOpenDeliveryUnderEndedGrant'
    BY <1>1, <1>2, <1>4, <2>1 DEF IInv, NoOpenDeliveryUnderEndedGrant
  <2>4. MessagesStayOnFrozenRoutes'
    BY <1>1, <1>2, <1>4 DEF IInv, MessagesStayOnFrozenRoutes
  <2> QED
    BY <2>2, <2>3, <2>4
<1>7. OneMessagePerClientId'
  BY <1>1, <1>2 DEF Duplicate, IInv, OneMessagePerClientId
<1>8. SequencesAreDense'
  <2>1. ASSUME NEW d \in Comm
        PROVE  /\ {n \in Msg : message'[n].comm = d} = {n \in Msg : message[n].comm = d}
               /\ m \notin {n \in Msg : message[n].comm = d}
    BY <1>1, <1>2, NoneAssumption
  <2> QED
    BY <1>1, <2>1 DEF IInv, SequencesAreDense
<1> QED
  BY <1>5, <1>6, <1>7, <1>8 DEF IInv

\* Moving the status of deliveries under standing grants, opening none.
LEMMA MovingPreserves ==
  ASSUME IInv, RowsKept, message' \in [Msg -> MessageRow],
         \A m \in Msg : message'[m].status \in OpenStatus => message[m].status \in OpenStatus,
         UNCHANGED <<now, comm>>, RegistryKept
  PROVE  IInv'
<1>1. RowsOK' /\ OneLiveGrantPerRoute'
  BY DEF RegistryKept, IInv, RowsOK, OneLiveGrantPerRoute
<1>2. RoutesKept
  BY DEF RoutesKept
<1>3. MessagesKnowTheirGrant'
  BY DEF RowsKept, IInv, MessagesKnowTheirGrant
<1>4. NoOpenDeliveryUnderEndedGrant'
  BY DEF RowsKept, IInv, NoOpenDeliveryUnderEndedGrant
<1> QED
  BY <1>1, <1>2, <1>3, <1>4, KeptRows, KeptRoutes DEF IInv

LEMMA MarkDispatchedPreserves ==
  ASSUME IInv, NEW m \in Msg, MarkDispatched(m)
  PROVE  IInv'
<1>1. /\ message[m] \in MessageRow /\ message[m].status = "queued"
      /\ message'[m] = [message[m] EXCEPT !.status = "dispatched"]
      /\ \A n \in Msg \ {m} : message'[n] = message[n]
  BY DEF MarkDispatched, Dispatched, IInv, RowsOK
<1>2. message' \in [Msg -> MessageRow]
  BY <1>1 DEF MarkDispatched, IInv, RowsOK, MessageRow, DeliveryStatus, OpenStatus
<1>3. RowsKept /\ \A n \in Msg : message'[n].status \in OpenStatus
                                   => message[n].status \in OpenStatus
  BY <1>1 DEF RowsKept, MessageRow, OpenStatus
<1> QED
  BY <1>2, <1>3, MovingPreserves DEF MarkDispatched, RegistryKept

LEMMA AcknowledgePreserves ==
  ASSUME IInv, NEW m \in Msg, NEW phase \in Phase, Acknowledge(m, phase)
  PROVE  IInv'
<1> DEFINE after == Acknowledged(message[m].status, phase)
<1>1. /\ message[m] \in MessageRow /\ message[m].status \in DeliveryStatus
      /\ message'[m] = [message[m] EXCEPT !.status = after]
      /\ \A n \in Msg \ {m} : message'[n] = message[n]
  BY DEF Acknowledge, IInv, RowsOK, MessageRow
<1>2. /\ after \in DeliveryStatus
      /\ after \in OpenStatus => message[m].status \in OpenStatus
      /\ after = "none" <=> message[m].status = "none"
  BY <1>1, AcknowledgedType
<1> HIDE DEF after
<1>3. message' \in [Msg -> MessageRow]
  BY <1>1, <1>2 DEF Acknowledge, IInv, RowsOK, MessageRow
<1>4. RowsKept /\ \A n \in Msg : message'[n].status \in OpenStatus
                                   => message[n].status \in OpenStatus
  BY <1>1, <1>2 DEF RowsKept, MessageRow
<1> QED
  BY <1>3, <1>4, MovingPreserves DEF Acknowledge, RegistryKept

-------------------------------------------------------------------------------
(* Endpoints, sessions, routes and offers, and the clock.                  *)

LEMMA RegistryPreserves ==
  ASSUME IInv, RowsOK', UNCHANGED <<comm, message>>, now' >= now
  PROVE  IInv'
<1>1. OneLiveGrantPerRoute'
  BY TimeAssumption DEF IInv, RowsOK, CommRow, OneLiveGrantPerRoute
<1>2. /\ MessagesKnowTheirGrant' /\ NoOpenDeliveryUnderEndedGrant'
      /\ MessagesStayOnFrozenRoutes' /\ OneMessagePerClientId' /\ SequencesAreDense'
  BY DEF IInv, MessagesKnowTheirGrant, NoOpenDeliveryUnderEndedGrant,
         MessagesStayOnFrozenRoutes, OneMessagePerClientId, SequencesAreDense
<1> QED
  BY <1>1, <1>2 DEF IInv

LEMMA RegistryStep ==
  ASSUME IInv,
         \/ \E e \in Endpoint : Register(e)
         \/ \E s \in Session, state \in {"open", "closed"}, allow \in BOOLEAN :
              RegisterSession(s, state, allow) \/ UpdateSession(s, state, allow)
         \/ \E s \in Session : SetDefaultRoute(s)
         \/ \E p \in Principal : ClearDefaultRoute(p)
         \/ \E o \in Offer, s \in Session, p \in Principal : CreateOffer(o, s, p)
         \/ \E o \in Offer : RevokeOffer(o)
         \/ Tick
  PROVE  RowsOK' /\ UNCHANGED <<comm, message>> /\ now' >= now
<1>1. now \in Nat /\ MaxTime \in Nat
  BY TimeAssumption DEF IInv, RowsOK
<1>2. CASE \E e \in Endpoint : Register(e)
  BY <1>1, <1>2 DEF Register, IInv, RowsOK
<1>3. CASE \E s \in Session, state \in {"open", "closed"}, allow \in BOOLEAN :
             RegisterSession(s, state, allow) \/ UpdateSession(s, state, allow)
  BY <1>1, <1>3 DEF RegisterSession, UpdateSession, IInv, RowsOK
<1>4. CASE \E s \in Session : SetDefaultRoute(s)
  BY <1>1, <1>4, OwnerType DEF SetDefaultRoute, IInv, RowsOK
<1>5. CASE \E p \in Principal : ClearDefaultRoute(p)
  BY <1>1, <1>5 DEF ClearDefaultRoute, IInv, RowsOK
<1>6. CASE \E o \in Offer, s \in Session, p \in Principal : CreateOffer(o, s, p)
  <2> SUFFICES ASSUME NEW o \in Offer, NEW s \in Session, NEW p \in Principal,
                      CreateOffer(o, s, p)
               PROVE  RowsOK' /\ UNCHANGED <<comm, message>> /\ now' >= now
    BY <1>6
  <2>1. now + OfferTtl \in Nat
    BY <1>1, TimeAssumption
  <2>2. [state |-> "live", audience |-> p, session |-> s, expires |-> now + OfferTtl]
          \in OfferRow
    BY <2>1 DEF OfferRow
  <2> QED
    BY <1>1, <2>2 DEF CreateOffer, IInv, RowsOK
<1>7. CASE \E o \in Offer : RevokeOffer(o)
  BY <1>1, <1>7 DEF RevokeOffer, IInv, RowsOK, OfferRow
<1>8. CASE Tick
  BY <1>1, <1>8 DEF Tick, IInv, RowsOK
<1> QED
  BY <1>2, <1>3, <1>4, <1>5, <1>6, <1>7, <1>8

-------------------------------------------------------------------------------
(* The invariant.                                                          *)

LEMMA InitSafe == Init => IInv
<1> SUFFICES ASSUME Init PROVE IInv
  OBVIOUS
<1>1. RowsOK
  BY TimeAssumption DEF Init, RowsOK, OfferRow, CommRow, CommStatus, MessageRow, DeliveryStatus
<1>2. /\ MessagesKnowTheirGrant /\ OneLiveGrantPerRoute /\ NoOpenDeliveryUnderEndedGrant
      /\ MessagesStayOnFrozenRoutes /\ OneMessagePerClientId
  BY DEF Init, MessagesKnowTheirGrant, OneLiveGrantPerRoute, NoOpenDeliveryUnderEndedGrant,
         MessagesStayOnFrozenRoutes, OneMessagePerClientId, OpenStatus
<1>3. SequencesAreDense
  BY NoneAssumption DEF Init, SequencesAreDense
<1> QED
  BY <1>1, <1>2, <1>3 DEF IInv

LEMMA NextSafe == IInv /\ [Next]_vars => IInv'
<1> SUFFICES ASSUME IInv, [Next]_vars PROVE IInv'
  OBVIOUS
<1>1. CASE \E c \in Comm, s \in Session, p \in Principal, o \in Offer \cup {None},
              n \in TtlChoice : Request(c, s, p, o, n)
  BY <1>1, RequestPreserves
<1>2. CASE \E c \in Comm, s \in Session, t \in 0..MaxTime : Accept(c, s, t)
  BY <1>2, AcceptPreserves
<1>3. CASE \E c \in Comm : Decline(c) \/ Revoke(c) \/ ExpireIfNeeded(c)
  BY <1>3, DeclinePreserves, RevokePreserves, ExpirePreserves
<1>4. CASE \E m \in Msg, p \in Principal, k \in ClientId :
             SendInbox(m, p, k) \/ \E c \in Comm : Send(m, p, c, k)
  BY <1>4, SendInboxPreserves, SendPreserves
<1>5. CASE \E m \in Msg : MarkDispatched(m) \/ \E phase \in Phase : Acknowledge(m, phase)
  BY <1>5, MarkDispatchedPreserves, AcknowledgePreserves
<1>6. CASE \/ \E e \in Endpoint : Register(e)
           \/ \E s \in Session, state \in {"open", "closed"}, allow \in BOOLEAN :
                RegisterSession(s, state, allow) \/ UpdateSession(s, state, allow)
           \/ \E s \in Session : SetDefaultRoute(s)
           \/ \E p \in Principal : ClearDefaultRoute(p)
           \/ \E o \in Offer, s \in Session, p \in Principal : CreateOffer(o, s, p)
           \/ \E o \in Offer : RevokeOffer(o)
           \/ Tick
  BY <1>6, RegistryStep, RegistryPreserves
<1>7. CASE UNCHANGED vars
  <2>1. RowsOK' /\ UNCHANGED <<comm, message>> /\ now' >= now
    BY <1>7, TimeAssumption DEF vars, IInv, RowsOK
  <2> QED
    BY <2>1, RegistryPreserves
<1> QED
  BY <1>1, <1>2, <1>3, <1>4, <1>5, <1>6, <1>7 DEF Next

\* Every reachable state has typed rows and satisfies the safety
\* properties of grants and messages at once: they need each other, for a
\* message can only be kept from outliving its grant while rows know the grant
\* they were sent under.
THEOREM ControlPlaneInvariant == Spec => []IInv
<1> QED
  BY InitSafe, NextSafe, PTL DEF Spec

\* One live grant per runtime session, whatever the clock does during an
\* acceptance (accept and expireActiveGrantsForRoute).
THEOREM RouteExclusive == Spec => []OneLiveGrantPerRoute
<1>1. IInv => OneLiveGrantPerRoute
  BY DEF IInv
<1> QED
  BY <1>1, ControlPlaneInvariant, PTL

\* revoke, expireIfNeeded and accept leave no delivery of an ended grant open,
\* and no later acknowledgement reopens one.
THEOREM EndedGrantsAreSettled == Spec => []NoOpenDeliveryUnderEndedGrant
<1>1. IInv => NoOpenDeliveryUnderEndedGrant
  BY DEF IInv
<1> QED
  BY <1>1, ControlPlaneInvariant, PTL

\* Messages keep to the routes that were frozen when their grant was accepted.
THEOREM RoutesAreFrozen == Spec => []MessagesStayOnFrozenRoutes
<1>1. IInv => MessagesStayOnFrozenRoutes
  BY DEF IInv
<1> QED
  BY <1>1, ControlPlaneInvariant, PTL

\* insertMessage numbers the messages of a session 1..n.
THEOREM NumberingIsDense == Spec => []SequencesAreDense
<1>1. IInv => SequencesAreDense
  BY DEF IInv
<1> QED
  BY <1>1, ControlPlaneInvariant, PTL

\* findDuplicate makes clientMessageId an idempotency key.
THEOREM SendIsIdempotent == Spec => []OneMessagePerClientId
<1>1. IInv => OneMessagePerClientId
  BY DEF IInv
<1> QED
  BY <1>1, ControlPlaneInvariant, PTL

-------------------------------------------------------------------------------
(* The control plane implements DeliveryLifecycle.                         *)

\* The mapped state of a grant, and of a delivery.
Ending(status) == IF status \in {"none", "pending", "active"} THEN status ELSE "ended"

Outcome(status) ==
  CASE status \in {"none", "inbox_persisted"} -> "none"
    [] status \in OpenStatus -> "open"
    [] status = "runtime_acked" -> "accepted"
    [] OTHER -> "dead"

LEMMA OutcomeOf ==
  ASSUME NEW x \in DeliveryStatus
  PROVE  /\ Outcome(x) = "open" <=> x \in OpenStatus
         /\ x = "runtime_acked" => Outcome(x) = "accepted"
         /\ x \in TerminalStatus => Outcome(x) = "dead"
         /\ Outcome(x) = "none" <=> x \in {"none", "inbox_persisted"}
  BY DEF Outcome, DeliveryStatus, OpenStatus, TerminalStatus

Grants == [c \in Comm |-> Ending(comm[c].status)]
Homes == [m \in Msg |-> message[m].comm]
Deliveries == [m \in Msg |-> Outcome(message[m].status)]

\* A step of the abstract specification, in terms of the mapped state.
LEMMA Mapped ==
  /\ Lifecycle!Init <=> /\ Grants \in [Comm -> {"none", "active"}]
                        /\ Homes = [m \in Msg |-> None]
                        /\ Deliveries = [m \in Msg |-> "none"]
  /\ UNCHANGED Lifecycle!vars <=> UNCHANGED <<Grants, Homes, Deliveries>>
  /\ \A c : Lifecycle!Ask(c) <=>
       /\ Grants[c] = "none" /\ Grants' = [Grants EXCEPT ![c] = "pending"]
       /\ Homes' = Homes /\ Deliveries' = Deliveries
  /\ \A over, granted : Lifecycle!Regrant(over, granted) <=>
       /\ \A c \in over : Grants[c] \in {"pending", "active"}
       /\ \A c \in granted : Grants[c] = "pending"
       /\ over \cap granted = {}
       /\ Grants' = [c \in Comm |-> IF c \in over THEN "ended"
                                    ELSE IF c \in granted THEN "active" ELSE Grants[c]]
       /\ Deliveries' = [m \in Msg |-> IF Homes[m] \in over /\ Deliveries[m] = "open"
                                       THEN "dead" ELSE Deliveries[m]]
       /\ Homes' = Homes
  /\ \A m, c : Lifecycle!Open(m, c) <=>
       /\ Deliveries[m] = "none" /\ Grants[c] = "active"
       /\ Deliveries' = [Deliveries EXCEPT ![m] = "open"]
       /\ Homes' = [Homes EXCEPT ![m] = c] /\ Grants' = Grants
  /\ \A m, outcome : Lifecycle!Settle(m, outcome) <=>
       /\ Deliveries[m] = "open" /\ Deliveries' = [Deliveries EXCEPT ![m] = outcome]
       /\ Homes' = Homes /\ Grants' = Grants
  BY DEF Lifecycle!Init, Lifecycle!vars, Lifecycle!Ask, Lifecycle!Regrant, Lifecycle!Open,
         Lifecycle!Settle, Grants, Homes, Deliveries, Ending, Outcome

\* The deliveries that a grant's end closes are dead.
LEMMA MappedClosing ==
  ASSUME RowsOK, NEW S \in SUBSET Comm, NEW why \in {"revoked", "expired"},
         message' = ClosedDeliveries(S, why)
  PROVE  /\ Homes' = Homes
         /\ Deliveries' = [m \in Msg |-> IF Homes[m] \in S /\ Deliveries[m] = "open"
                                         THEN "dead" ELSE Deliveries[m]]
<1>1. ASSUME NEW m \in Msg
      PROVE  /\ message'[m].comm = message[m].comm
             /\ message'[m].status = IF message[m].comm \in S
                                     THEN ClosedBy(message[m].status, why)
                                     ELSE message[m].status
             /\ message[m].status \in DeliveryStatus
  BY DEF RowsOK, ClosedDeliveries, MessageRow
<1>2. ASSUME NEW x \in DeliveryStatus
      PROVE  Outcome(ClosedBy(x, why)) = IF Outcome(x) = "open" THEN "dead" ELSE Outcome(x)
  <2>1. why \in TerminalStatus /\ why \in DeliveryStatus
    BY DEF TerminalStatus, DeliveryStatus
  <2>2. Outcome(x) = "open" <=> x \in OpenStatus
    BY OutcomeOf
  <2>3. Outcome(why) = "dead"
    BY <2>1, OutcomeOf
  <2> QED
    BY <2>2, <2>3 DEF ClosedBy
<1>3. ASSUME NEW m \in Msg
      PROVE  Outcome(message'[m].status) =
               IF Homes[m] \in S /\ Deliveries[m] = "open" THEN "dead" ELSE Deliveries[m]
  <2>1. Homes[m] = message[m].comm /\ Deliveries[m] = Outcome(message[m].status)
    BY DEF Homes, Deliveries
  <2> QED
    BY <1>1, <1>2, <2>1
<1>4. Homes' = Homes
  BY <1>1 DEF Homes
<1>5. Deliveries' = [m \in Msg |-> Outcome(message'[m].status)]
  BY DEF Deliveries
<1> QED
  BY <1>3, <1>4, <1>5

\* Grants that end, and those that are granted in the same step.
LEMMA MappedRegrant ==
  ASSUME RowsOK, NEW over \in SUBSET Comm, NEW granted \in SUBSET Comm,
         \A c \in over : comm[c].status \in {"pending", "active"},
         \A c \in granted : comm[c].status = "pending",
         over \cap granted = {},
         \A c \in over : comm'[c].status \in {"declined", "revoked", "expired"},
         \A c \in granted : comm'[c].status = "active",
         \A c \in Comm \ (over \cup granted) : comm'[c].status = comm[c].status,
         Homes' = Homes,
         Deliveries' = [m \in Msg |-> IF Homes[m] \in over /\ Deliveries[m] = "open"
                                      THEN "dead" ELSE Deliveries[m]]
  PROVE  Lifecycle!Next
<1>1. ASSUME NEW c \in Comm
      PROVE  Ending(comm'[c].status) = IF c \in over THEN "ended"
                                       ELSE IF c \in granted THEN "active" ELSE Grants[c]
  BY DEF Grants, Ending
<1>2. Grants' = [c \in Comm |-> IF c \in over THEN "ended"
                                ELSE IF c \in granted THEN "active" ELSE Grants[c]]
  BY <1>1 DEF Grants
<1>3. /\ \A c \in over : Grants[c] \in {"pending", "active"}
      /\ \A c \in granted : Grants[c] = "pending"
  BY DEF Grants, Ending
<1>4. Lifecycle!Regrant(over, granted)
  BY <1>2, <1>3, Mapped
<1> QED
  BY <1>4 DEF Lifecycle!Next

\* A request.
LEMMA RequestMaps ==
  ASSUME IInv, NEW c \in Comm, NEW s \in Session, NEW p \in Principal,
         NEW o \in Offer \cup {None}, NEW n \in TtlChoice, Request(c, s, p, o, n)
  PROVE  Lifecycle!Next
<1>1. /\ comm[c].status = "none" /\ comm'[c].status = "pending"
      /\ \A d \in Comm \ {c} : comm'[d] = comm[d]
      /\ message' = message
  BY DEF Request, IInv, RowsOK
<1>2. /\ Grants[c] = "none" /\ Grants' = [Grants EXCEPT ![c] = "pending"]
      /\ Homes' = Homes /\ Deliveries' = Deliveries
  BY <1>1 DEF Grants, Ending, Homes, Deliveries
<1> QED
  BY <1>2, Mapped DEF Lifecycle!Next

\* An acceptance ends the lapsed grants of the route, and grants c or refuses.
LEMMA AcceptMaps ==
  ASSUME IInv, NEW c \in Comm, NEW s \in Session, NEW t \in 0..MaxTime, Accept(c, s, t)
  PROVE  Lifecycle!Next
<1> DEFINE S == StaleOn(s)
<1>1. S \in SUBSET Comm /\ \A d \in S : comm[d].status = "active"
  BY DEF StaleOn, HoldersOf
<1>2. message' = ClosedDeliveries(S, "expired") /\ comm[c].status = "pending"
  BY DEF Accept
<1>3. PICK granted \in SUBSET {c} :
        comm' = IF granted = {} THEN Ended(S, "expired")
                ELSE [Ended(S, "expired") EXCEPT ![c].status = "active", ![c].route = s,
                                                 ![c].grantExpires = t + comm[c].ttl]
  <2>1. CASE comm' = Ended(S, "expired")
    BY <2>1
  <2>2. CASE comm' = [Ended(S, "expired") EXCEPT ![c].status = "active", ![c].route = s,
                                                 ![c].grantExpires = t + comm[c].ttl]
    BY <2>2
  <2> QED
    BY <2>1, <2>2, AcceptOutcome
<1> HIDE DEF S
<1>4. \A d \in S : d # c /\ comm'[d].status = "expired"
  BY <1>1, <1>2, <1>3 DEF Ended, IInv, RowsOK, CommRow
<1>5. \A d \in granted : d = c /\ comm'[d].status = "active"
  BY <1>1, <1>2, <1>3 DEF Ended, IInv, RowsOK, CommRow
<1>6. \A d \in Comm \ (S \cup granted) : comm'[d].status = comm[d].status
  <2> SUFFICES ASSUME NEW d \in Comm, d \notin S, d \notin granted
               PROVE  comm'[d].status = comm[d].status
    OBVIOUS
  <2>1. Ended(S, "expired")[d] = comm[d]
    BY DEF Ended
  <2>2. CASE granted = {}
    BY <1>3, <2>1, <2>2
  <2>3. CASE granted # {}
    <3>1. d # c
      BY <2>3
    <3> QED
      BY <1>3, <2>1, <2>3, <3>1 DEF Ended
  <2> QED
    BY <2>2, <2>3
<1>7. /\ Homes' = Homes
      /\ Deliveries' = [m \in Msg |-> IF Homes[m] \in S /\ Deliveries[m] = "open"
                                      THEN "dead" ELSE Deliveries[m]]
  BY <1>1, <1>2, MappedClosing DEF IInv
<1> QED
  BY <1>1, <1>2, <1>4, <1>5, <1>6, <1>7, MappedRegrant DEF IInv

\* Declining, revoking and expiring end one session.
LEMMA EndMaps ==
  ASSUME IInv, NEW c \in Comm, Decline(c) \/ Revoke(c) \/ ExpireIfNeeded(c)
  PROVE  Lifecycle!Next
<1> DEFINE S == {c}
           none == {}
<1>1. /\ comm[c].status \in {"pending", "active"}
      /\ comm'[c].status \in {"declined", "revoked", "expired"}
      /\ \A d \in Comm \ {c} : comm'[d] = comm[d]
  BY DEF Decline, Revoke, ExpireIfNeeded, Due, IInv, RowsOK, CommRow
<1>2. /\ Homes' = Homes
      /\ Deliveries' = [m \in Msg |-> IF Homes[m] \in S /\ Deliveries[m] = "open"
                                      THEN "dead" ELSE Deliveries[m]]
  <2>1. CASE Decline(c)
    <3>1. message' = message /\ comm[c].status = "pending"
      BY <2>1 DEF Decline
    <3>2. \A m \in Msg : Homes[m] # c
      BY <3>1, NoneAssumption DEF Homes, IInv, MessagesKnowTheirGrant
    <3>3. Deliveries = [m \in Msg |-> Deliveries[m]]
      BY DEF Deliveries
    <3>4. Homes' = Homes /\ Deliveries' = Deliveries
      BY <3>1 DEF Homes, Deliveries
    <3> QED
      BY <3>2, <3>3, <3>4
  <2>2. CASE Revoke(c)
    <3>1. message' = ClosedDeliveries(S, "revoked") /\ S \in SUBSET Comm
      BY <2>2 DEF Revoke
    <3> HIDE DEF S
    <3> QED
      BY <3>1, MappedClosing DEF IInv
  <2>3. CASE ExpireIfNeeded(c)
    <3>1. message' = ClosedDeliveries(S, "expired") /\ S \in SUBSET Comm
      BY <2>3 DEF ExpireIfNeeded
    <3> HIDE DEF S
    <3> QED
      BY <3>1, MappedClosing DEF IInv
  <2> QED
    BY <2>1, <2>2, <2>3
<1>3. /\ S \in SUBSET Comm /\ none \in SUBSET Comm /\ S \cap none = {}
      /\ \A d \in S : comm[d].status \in {"pending", "active"}
      /\ \A d \in none : comm[d].status = "pending" /\ comm'[d].status = "active"
      /\ \A d \in S : comm'[d].status \in {"declined", "revoked", "expired"}
      /\ \A d \in Comm \ (S \cup none) : comm'[d].status = comm[d].status
  BY <1>1
<1> HIDE DEF S, none
<1> QED
  BY <1>2, <1>3, MappedRegrant DEF IInv

\* A message is opened under its grant.
LEMMA SendMaps ==
  ASSUME IInv, NEW m \in Msg, NEW p \in Principal, NEW c \in Comm, NEW k \in ClientId,
         Send(m, p, c, k)
  PROVE  Lifecycle!Next
<1>1. /\ message'[m].comm = c /\ message'[m].status = "queued"
      /\ \A n \in Msg \ {m} : message'[n] = message[n]
      /\ message[m].status = "none" /\ comm[c].status = "active" /\ comm' = comm
  BY DEF Send, IInv, RowsOK
<1>2. Outcome("none") = "none" /\ Outcome("queued") = "open"
  BY DEF Outcome, OpenStatus
<1>3. /\ Deliveries[m] = "none" /\ Grants[c] = "active"
      /\ Deliveries' = [Deliveries EXCEPT ![m] = "open"]
      /\ Homes' = [Homes EXCEPT ![m] = c] /\ Grants' = Grants
  BY <1>1, <1>2 DEF Grants, Ending, Homes, Deliveries
<1>4. Lifecycle!Open(m, c)
  BY <1>3, Mapped
<1> QED
  BY <1>4 DEF Lifecycle!Next

\* An acknowledgement settles an open delivery, or leaves the outcome as it is.
LEMMA AcknowledgeMaps ==
  ASSUME IInv, NEW m \in Msg, NEW phase \in Phase, Acknowledge(m, phase)
  PROVE  Lifecycle!Next \/ UNCHANGED Lifecycle!vars
<1> DEFINE before == message[m].status
           after == Acknowledged(before, phase)
<1>1. /\ before \in DeliveryStatus
      /\ message'[m].comm = message[m].comm /\ message'[m].status = after
      /\ \A n \in Msg \ {m} : message'[n] = message[n]
      /\ comm' = comm
  BY DEF Acknowledge, IInv, RowsOK, MessageRow
<1>2. /\ Grants' = Grants /\ Homes' = Homes
      /\ Deliveries' = [Deliveries EXCEPT ![m] = Outcome(after)]
      /\ Deliveries[m] = Outcome(before)
  BY <1>1 DEF Grants, Homes, Deliveries
<1>3. \/ after = before
      \/ before \in OpenStatus /\ after \in OpenStatus
      \/ before \in OpenStatus /\ after \in {"runtime_acked", "failed"}
  BY DEF Acknowledged, AckedFrom, AckedTo, Phase, OpenStatus
<1> HIDE DEF before, after
<1>4. CASE Outcome(after) = Outcome(before)
  <2>1. Deliveries' = Deliveries
    BY <1>2, <1>4 DEF Deliveries
  <2> QED
    BY <1>2, <2>1, Mapped
<1>5. CASE before \in OpenStatus /\ after \in OpenStatus
  <2>1. Outcome(before) = "open" /\ Outcome(after) = "open"
    BY <1>5, OutcomeOf DEF DeliveryStatus
  <2> QED
    BY <1>4, <2>1
<1>6. CASE before \in OpenStatus /\ after \in {"runtime_acked", "failed"}
  <2>1. Outcome(before) = "open" /\ Outcome(after) \in {"accepted", "dead"}
    BY <1>6, OutcomeOf DEF DeliveryStatus, TerminalStatus
  <2>2. PICK outcome \in {"accepted", "dead"} : outcome = Outcome(after)
    BY <2>1
  <2>3. Lifecycle!Settle(m, outcome)
    BY <1>2, <2>1, <2>2, Mapped
  <2> QED
    BY <2>3 DEF Lifecycle!Next
<1> QED
  BY <1>3, <1>4, <1>5, <1>6

\* Everything else is no step of the abstract specification: inbox messages and
\* dispatching move statuses whose outcome is the same.
LEMMA OthersStutter ==
  ASSUME IInv,
         \/ \E m \in Msg, p \in Principal, k \in ClientId : SendInbox(m, p, k)
         \/ \E m \in Msg : MarkDispatched(m)
         \/ UNCHANGED <<comm, message>>
  PROVE  UNCHANGED Lifecycle!vars
<1>1. /\ comm' = comm
      /\ \A m \in Msg : /\ message'[m].comm = message[m].comm
                        /\ \/ message'[m].status = message[m].status
                           \/ message[m].status = "none" /\ message'[m].status = "inbox_persisted"
                           \/ message[m].status = "queued" /\ message'[m].status = "dispatched"
  <2>1. \A m \in Msg : message[m] \in MessageRow
    BY DEF IInv, RowsOK
  <2>2. CASE \E m \in Msg, p \in Principal, k \in ClientId : SendInbox(m, p, k)
    <3>1. PICK m \in Msg, p \in Principal, k \in ClientId : SendInbox(m, p, k)
      BY <2>2
    <3>2. /\ comm' = comm /\ message[m].status = "none"
          /\ message'[m] = [message[m] EXCEPT !.status = "inbox_persisted", !.sender = p,
                                              !.clientId = k, !.sequence = 1]
          /\ \A n \in Msg \ {m} : message'[n] = message[n]
      BY <3>1 DEF SendInbox, IInv, RowsOK
    <3>3. message'[m].comm = message[m].comm /\ message'[m].status = "inbox_persisted"
      BY <2>1, <3>2 DEF MessageRow
    <3> QED
      BY <3>2, <3>3
  <2>3. CASE \E m \in Msg : MarkDispatched(m)
    BY <2>1, <2>3 DEF MarkDispatched, Dispatched, IInv, RowsOK, MessageRow
  <2>4. CASE UNCHANGED <<comm, message>>
    BY <2>4
  <2> QED
    BY <2>2, <2>3, <2>4
<1>2. /\ Outcome("none") = "none" /\ Outcome("inbox_persisted") = "none"
      /\ Outcome("queued") = "open" /\ Outcome("dispatched") = "open"
  BY DEF Outcome, OpenStatus
<1>3. \A m \in Msg : Outcome(message'[m].status) = Outcome(message[m].status)
  BY <1>1, <1>2
<1>4. Grants' = Grants /\ Homes' = Homes /\ Deliveries' = Deliveries
  BY <1>1, <1>3 DEF Grants, Homes, Deliveries
<1> QED
  BY <1>4, Mapped

LEMMA InitMaps == Init => Lifecycle!Init
<1> SUFFICES ASSUME Init PROVE Lifecycle!Init
  OBVIOUS
<1>1. \A c \in Comm : comm[c].status = "none"
  BY DEF Init
<1>2. \A m \in Msg : message[m].comm = None /\ message[m].status = "none"
  BY DEF Init
<1>3. Grants \in [Comm -> {"none", "active"}]
  BY <1>1 DEF Grants, Ending
<1>4. Outcome("none") = "none"
  BY DEF Outcome, OpenStatus
<1>5. Homes = [m \in Msg |-> None] /\ Deliveries = [m \in Msg |-> "none"]
  BY <1>2, <1>4 DEF Homes, Deliveries
<1> QED
  BY <1>3, <1>5, Mapped

LEMMA NextMaps == IInv /\ [Next]_vars => [Lifecycle!Next]_Lifecycle!vars
<1> SUFFICES ASSUME IInv, [Next]_vars PROVE Lifecycle!Next \/ UNCHANGED Lifecycle!vars
  OBVIOUS
<1>1. CASE \E c \in Comm, s \in Session, p \in Principal, o \in Offer \cup {None},
              n \in TtlChoice : Request(c, s, p, o, n)
  BY <1>1, RequestMaps
<1>2. CASE \E c \in Comm, s \in Session, t \in 0..MaxTime : Accept(c, s, t)
  BY <1>2, AcceptMaps
<1>3. CASE \E c \in Comm : Decline(c) \/ Revoke(c) \/ ExpireIfNeeded(c)
  BY <1>3, EndMaps
<1>4. CASE \E m \in Msg, p \in Principal, k \in ClientId : \E c \in Comm : Send(m, p, c, k)
  BY <1>4, SendMaps
<1>5. CASE \E m \in Msg : \E phase \in Phase : Acknowledge(m, phase)
  BY <1>5, AcknowledgeMaps
<1>6. CASE \/ \E m \in Msg, p \in Principal, k \in ClientId : SendInbox(m, p, k)
           \/ \E m \in Msg : MarkDispatched(m)
  BY <1>6, OthersStutter
<1>7. CASE \/ \E e \in Endpoint : Register(e)
           \/ \E s \in Session, state \in {"open", "closed"}, allow \in BOOLEAN :
                RegisterSession(s, state, allow) \/ UpdateSession(s, state, allow)
           \/ \E s \in Session : SetDefaultRoute(s)
           \/ \E p \in Principal : ClearDefaultRoute(p)
           \/ \E o \in Offer, s \in Session, p \in Principal : CreateOffer(o, s, p)
           \/ \E o \in Offer : RevokeOffer(o)
           \/ Tick
  BY <1>7, RegistryStep, OthersStutter
<1>8. CASE UNCHANGED vars
  BY <1>8, OthersStutter DEF vars
<1> QED
  BY <1>1, <1>2, <1>3, <1>4, <1>5, <1>6, <1>7, <1>8 DEF Next

\* The whole control plane, with its endpoints, routes, clock and delivery
\* phases, is an implementation of DeliveryLifecycle: a message opens only under an
\* active grant and stays with it, the end of a grant kills what no runtime
\* accepted in that very step, and neither an accepted nor a dead message, nor an
\* ended grant, ever moves again.
THEOREM LifecycleImplemented == Spec => ImplementsLifecycle
<1> QED
  BY InitMaps, NextMaps, ControlPlaneInvariant, PTL
     DEF Spec, ImplementsLifecycle, Lifecycle!Spec

-------------------------------------------------------------------------------
(* The event log.  No operation reads it back; its entries are explained   *)
(* by what the rows say of the grants and messages they name.              *)

\* Entry i on the log of e is a dispatch the bridge may rely on.
Truthful(e, i) ==
  LET ev == events[e][i]
      earlier == {events[e][j] : j \in 1..(i - 1)}
  IN /\ HostOf[message[ev.msg].target] = e
     /\ CommEvent("comm.activated", ev.comm) \in earlier
     /\ CommEvent("comm.revoked", ev.comm) \notin earlier
     /\ CommEvent("comm.expired", ev.comm) \notin earlier
     /\ \A old \in earlier :
          old.type = "message.dispatch" /\ old.comm = ev.comm
          => message[old.msg].sequence < message[ev.msg].sequence

EachIsTruthful ==
  \A e \in Endpoint : \A i \in 1..Len(events[e]) :
    events[e][i].type = "message.dispatch" => Truthful(e, i)

LEMMA LogByEntries ==
  events \in [Endpoint -> Seq(Event)] => (LogIsTruthful <=> EachIsTruthful)
<1> SUFFICES ASSUME events \in [Endpoint -> Seq(Event)]
             PROVE  LogIsTruthful <=> EachIsTruthful
  OBVIOUS
<1>1. \A e \in Endpoint : DOMAIN events[e] = 1..Len(events[e])
  OBVIOUS
<1>2. LogIsTruthful <=>
        \A e \in Endpoint : \A i \in DOMAIN events[e] :
          events[e][i].type = "message.dispatch" => Truthful(e, i)
  BY Zenon DEF LogIsTruthful, Truthful
<1> QED
  BY <1>1, <1>2 DEF EachIsTruthful

\* A dispatch names a message of its session.
DispatchesAreKnown ==
  \A e \in Endpoint : \A i \in 1..Len(events[e]) :
    events[e][i].type = "message.dispatch" =>
      /\ events[e][i].msg \in Msg
      /\ message[events[e][i].msg].comm = events[e][i].comm

\* A session whose end was told has ended.
EndsAreFinal ==
  \A e \in Endpoint : \A i \in 1..Len(events[e]) :
    events[e][i].type \in {"comm.revoked", "comm.expired"} =>
      comm[events[e][i].comm].status \in {"revoked", "expired"}

\* The endpoint of s was told that c is active.
Told(s, c) ==
  \E i \in 1..Len(events[HostOf[s]]) :
    events[HostOf[s]][i] = CommEvent("comm.activated", c)

\* Both endpoints that messages of an active grant go to were told.
ActivationsAreTold ==
  \A c \in Comm : comm[c].status = "active" =>
    /\ comm[c].route \in Session /\ Told(comm[c].route, c)
    /\ comm[c].reply \in Session /\ Told(comm[c].reply, c)

\* Sessions live on registered endpoints, among them the reply route of every
\* request, which names its requester.
HostsAreRegistered ==
  /\ \A s \in Session : session[s] # "none" => HostOf[s] \in registered
  /\ \A c \in Comm : comm[c].status # "none" =>
       /\ comm[c].reply \in Session
       /\ HostOf[comm[c].reply] \in registered
       /\ comm[c].requester = SessionOwner(comm[c].reply)

\* So far only finitely many sessions were asked for: an acceptance finds
\* finitely many lapsed ones.
RequestsAreFinite == IsFiniteSet({c \in Comm : comm[c].status # "none"})

LInv ==
  /\ events \in [Endpoint -> Seq(Event)]
  /\ LogIsTruthful
  /\ DispatchesAreKnown
  /\ EndsAreFinal
  /\ ActivationsAreTold
  /\ HostsAreRegistered
  /\ RequestsAreFinite

\* after is log with entries of S appended.
Extends(log, after, S) ==
  /\ after \in [Endpoint -> Seq(Event)]
  /\ \A e \in Endpoint :
       /\ Len(log[e]) <= Len(after[e])
       /\ \A i \in 1..Len(log[e]) : after[e][i] = log[e][i]
       /\ \A i \in 1..Len(after[e]) : i > Len(log[e]) => after[e][i] \in S

LEMMA ExtendsTransitive ==
  ASSUME NEW a \in [Endpoint -> Seq(Event)], NEW b, NEW c, NEW S,
         Extends(a, b, S), Extends(b, c, S)
  PROVE  Extends(a, c, S)
<1> SUFFICES ASSUME NEW e \in Endpoint
             PROVE  /\ Len(a[e]) <= Len(c[e])
                    /\ \A i \in 1..Len(a[e]) : c[e][i] = a[e][i]
                    /\ \A i \in 1..Len(c[e]) : i > Len(a[e]) => c[e][i] \in S
  BY DEF Extends
<1>1. Len(a[e]) \in Nat /\ Len(b[e]) \in Nat /\ Len(c[e]) \in Nat
  BY DEF Extends
<1>2. /\ Len(a[e]) <= Len(b[e]) /\ Len(b[e]) <= Len(c[e])
      /\ \A i \in 1..Len(a[e]) : b[e][i] = a[e][i]
      /\ \A i \in 1..Len(b[e]) : c[e][i] = b[e][i]
      /\ \A i \in 1..Len(b[e]) : i > Len(a[e]) => b[e][i] \in S
      /\ \A i \in 1..Len(c[e]) : i > Len(b[e]) => c[e][i] \in S
  BY DEF Extends
<1>3. Len(a[e]) <= Len(c[e]) /\ \A i \in 1..Len(a[e]) : c[e][i] = a[e][i]
  BY <1>1, <1>2
<1>4. ASSUME NEW i \in 1..Len(c[e]), i > Len(a[e])  PROVE c[e][i] \in S
  <2>1. CASE i \in 1..Len(b[e])
    BY <1>2, <1>4, <2>1
  <2>2. CASE i > Len(b[e])
    BY <1>2, <2>2
  <2> QED
    BY <1>1, <2>1, <2>2
<1> QED
  BY <1>3, <1>4

LEMMA ExtendsReflexive ==
  ASSUME NEW log \in [Endpoint -> Seq(Event)], NEW S
  PROVE  Extends(log, log, S)
<1>1. \A e \in Endpoint : Len(log[e]) \in Nat
  OBVIOUS
<1> QED
  BY <1>1 DEF Extends

\* Every registered endpoint of principal p has the event in its log.
HeardBy(log, p, ev) ==
  \A e \in registered \cap Endpoint : OwnerOf[e] = p => \E i \in 1..Len(log[e]) : log[e][i] = ev

\* Appending an event extends the logs of its reader's endpoints with it.
LEMMA AppendedExtends ==
  ASSUME NEW log \in [Endpoint -> Seq(Event)], NEW p, NEW ev \in Event, NEW S, ev \in S
  PROVE  /\ Extends(log, Appended(log, p, ev), S)
         /\ HeardBy(Appended(log, p, ev), p, ev)
<1> DEFINE after == Appended(log, p, ev)
<1>1. ASSUME NEW e \in Endpoint
      PROVE  /\ after[e] \in Seq(Event)
             /\ Len(log[e]) <= Len(after[e])
             /\ \A i \in 1..Len(log[e]) : after[e][i] = log[e][i]
             /\ \A i \in 1..Len(after[e]) : i > Len(log[e]) => after[e][i] \in S
             /\ e \in registered /\ OwnerOf[e] = p =>
                  Len(log[e]) + 1 \in 1..Len(after[e]) /\ after[e][Len(log[e]) + 1] = ev
  <2>1. log[e] \in Seq(Event) /\ Len(log[e]) \in Nat
    OBVIOUS
  <2>2. CASE e \in registered /\ OwnerOf[e] = p
    <3>1. after[e] = Append(log[e], ev)
      BY <2>2 DEF Appended
    <3> HIDE DEF after
    <3> QED
      BY <2>1, <3>1
  <2>3. CASE ~(e \in registered /\ OwnerOf[e] = p)
    <3>1. after[e] = log[e]
      BY <2>3 DEF Appended
    <3> HIDE DEF after
    <3> QED
      BY <2>1, <2>3, <3>1
  <2> QED
    BY <2>2, <2>3
<1>2. after = [e \in Endpoint |-> after[e]]
  BY DEF Appended
<1> HIDE DEF after
<1>3. Extends(log, after, S)
  BY <1>1, <1>2 DEF Extends
<1>4. HeardBy(after, p, ev)
  BY <1>1 DEF HeardBy
<1> QED
  BY <1>3, <1>4 DEF after

\* Announcing extends the logs of both parties.
LEMMA AnnouncedExtends ==
  ASSUME NEW log \in [Endpoint -> Seq(Event)], NEW type \in EventType, NEW c \in Comm,
         NEW S, CommEvent(type, c) \in S
  PROVE  /\ Extends(log, Announced(log, type, c), S)
         /\ \A e \in registered \cap Endpoint :
              OwnerOf[e] \in {comm[c].requester, comm[c].recipient} =>
                \E i \in 1..Len(Announced(log, type, c)[e]) :
                  Announced(log, type, c)[e][i] = CommEvent(type, c)
<1> DEFINE ev == CommEvent(type, c)
           mid == Appended(log, comm[c].requester, ev)
           after == Appended(mid, comm[c].recipient, ev)
<1>1. Announced(log, type, c) = after
  BY DEF Announced
<1>2. ev \in Event /\ ev \in S
  BY DEF CommEvent, Event
<1> HIDE DEF ev
<1>3. /\ Extends(log, mid, S)
      /\ HeardBy(mid, comm[c].requester, ev)
  BY <1>2, AppendedExtends
<1>4. mid \in [Endpoint -> Seq(Event)]
  BY <1>3 DEF Extends
<1> HIDE DEF mid
<1>5. /\ Extends(mid, after, S)
      /\ HeardBy(after, comm[c].recipient, ev)
  BY <1>2, <1>4, AppendedExtends
<1> HIDE DEF after
<1>6. Extends(log, after, S)
  BY <1>3, <1>5, ExtendsTransitive
<1>7. ASSUME NEW e \in registered \cap Endpoint, OwnerOf[e] = comm[c].requester
      PROVE  \E i \in 1..Len(after[e]) : after[e][i] = ev
  <2>1. PICK i \in 1..Len(mid[e]) : mid[e][i] = ev
    BY <1>3, <1>7 DEF HeardBy
  <2>2. Len(mid[e]) <= Len(after[e]) /\ after[e][i] = mid[e][i]
    BY <1>5, <2>1 DEF Extends
  <2>3. Len(mid[e]) \in Nat /\ Len(after[e]) \in Nat
    BY <1>4, <1>5 DEF Extends
  <2>4. i \in 1..Len(after[e])
    BY <2>1, <2>2, <2>3
  <2> QED
    BY <2>1, <2>2, <2>4
<1>8. ASSUME NEW e \in registered \cap Endpoint, OwnerOf[e] = comm[c].recipient
      PROVE  \E i \in 1..Len(after[e]) : after[e][i] = ev
  BY <1>5, <1>8 DEF HeardBy
<1> QED
  BY <1>1, <1>6, <1>7, <1>8 DEF ev

-------------------------------------------------------------------------------
(* Steps that announce, and dispatch nothing.                              *)

\* Messages that were sent under a grant keep their place.
SentKept ==
  \A m \in Msg : message[m].comm # None =>
    /\ message'[m].comm = message[m].comm
    /\ message'[m].target = message[m].target
    /\ message'[m].sequence = message[m].sequence

EndsKept ==
  \A c \in Comm : comm[c].status \in {"revoked", "expired"} =>
    comm'[c].status \in {"revoked", "expired"}

\* A grant that is active was active before, on the same routes.
NoneActivated ==
  \A c \in Comm : comm'[c].status = "active" =>
    /\ comm[c].status = "active"
    /\ comm'[c].route = comm[c].route
    /\ comm'[c].reply = comm[c].reply

\* What an announcement may say.
Announcements ==
  {ev \in Event :
    /\ ev.type # "message.dispatch"
    /\ ev.type \in {"comm.revoked", "comm.expired"} =>
         comm'[ev.comm].status \in {"revoked", "expired"}}

LEMMA AnnouncingKeepsLog ==
  ASSUME RowsOK, LInv, SentKept, EndsKept, Extends(events, events', Announcements)
  PROVE  /\ events' \in [Endpoint -> Seq(Event)]
         /\ LogIsTruthful' /\ DispatchesAreKnown' /\ EndsAreFinal'
<1>1. events' \in [Endpoint -> Seq(Event)] /\ events \in [Endpoint -> Seq(Event)]
  BY DEF Extends, LInv
<1>2. ASSUME NEW e \in Endpoint
      PROVE  /\ Len(events[e]) \in Nat /\ Len(events'[e]) \in Nat
             /\ Len(events[e]) <= Len(events'[e])
             /\ \A i \in 1..Len(events[e]) : events'[e][i] = events[e][i]
             /\ \A i \in 1..Len(events'[e]) :
                  i > Len(events[e]) => events'[e][i] \in Announcements
             /\ DOMAIN events[e] = 1..Len(events[e])
             /\ DOMAIN events'[e] = 1..Len(events'[e])
  <2>1. events[e] \in Seq(Event) /\ events'[e] \in Seq(Event)
    BY <1>1
  <2>2. /\ Len(events[e]) \in Nat /\ Len(events'[e]) \in Nat
        /\ DOMAIN events[e] = 1..Len(events[e])
        /\ DOMAIN events'[e] = 1..Len(events'[e])
    BY <2>1
  <2>3. /\ Len(events[e]) <= Len(events'[e])
        /\ \A i \in 1..Len(events[e]) : events'[e][i] = events[e][i]
        /\ \A i \in 1..Len(events'[e]) :
             i > Len(events[e]) => events'[e][i] \in Announcements
    BY DEF Extends
  <2> QED
    BY <2>2, <2>3
<1>3. ASSUME NEW e \in Endpoint, NEW i \in 1..Len(events'[e]),
             events'[e][i].type = "message.dispatch"
      PROVE  /\ i \in 1..Len(events[e])
             /\ events'[e][i] = events[e][i]
             /\ \A j \in 1..(i - 1) : j \in 1..Len(events[e]) /\ events'[e][j] = events[e][j]
  <2>1. ~(i > Len(events[e]))
    BY <1>2, <1>3 DEF Announcements
  <2>2. i \in 1..Len(events[e])
    BY <1>2, <2>1
  <2>3. \A j \in 1..(i - 1) : j \in 1..Len(events[e])
    BY <1>2, <2>2
  <2> QED
    BY <1>2, <2>2, <2>3
<1>4. DispatchesAreKnown'
  <2> SUFFICES ASSUME NEW e \in Endpoint, NEW i \in 1..Len(events'[e]),
                      events'[e][i].type = "message.dispatch"
               PROVE  /\ events'[e][i].msg \in Msg
                      /\ message'[events'[e][i].msg].comm = events'[e][i].comm
    BY DEF DispatchesAreKnown
  <2>1. i \in 1..Len(events[e]) /\ events'[e][i] = events[e][i]
    BY <1>3
  <2>2. /\ events[e][i].msg \in Msg
        /\ message[events[e][i].msg].comm = events[e][i].comm
    BY <2>1 DEF LInv, DispatchesAreKnown
  <2>3. events[e][i] \in Event
    BY <1>1, <2>1
  <2>4. events[e][i].comm # None
    BY <2>3, NoneAssumption DEF Event
  <2> QED
    BY <2>1, <2>2, <2>4 DEF SentKept
<1>5. EndsAreFinal'
  <2> SUFFICES ASSUME NEW e \in Endpoint, NEW i \in 1..Len(events'[e]),
                      events'[e][i].type \in {"comm.revoked", "comm.expired"}
               PROVE  comm'[events'[e][i].comm].status \in {"revoked", "expired"}
    BY DEF EndsAreFinal
  <2>1. CASE i > Len(events[e])
    BY <1>2, <2>1 DEF Announcements
  <2>2. CASE i \in 1..Len(events[e])
    <3>1. events'[e][i] = events[e][i]
      BY <1>2, <2>2
    <3>2. comm[events[e][i].comm].status \in {"revoked", "expired"}
      BY <2>2, <3>1 DEF LInv, EndsAreFinal
    <3>3. events[e][i] \in Event
      BY <1>1, <2>2
    <3>4. events[e][i].comm \in Comm
      BY <3>3 DEF Event
    <3> QED
      BY <3>1, <3>2, <3>4 DEF EndsKept
  <2> QED
    BY <1>2, <2>1, <2>2
<1>6. LogIsTruthful'
  <2> SUFFICES ASSUME NEW e \in Endpoint, NEW i \in 1..Len(events'[e]),
                      events'[e][i].type = "message.dispatch"
               PROVE  Truthful(e, i)'
    <3>1. (events \in [Endpoint -> Seq(Event)] => (LogIsTruthful <=> EachIsTruthful))'
      BY LogByEntries, PTL
    <3>2. EachIsTruthful' => LogIsTruthful'
      BY <1>1, <3>1
    <3> QED
      BY <3>2 DEF EachIsTruthful
  <2> DEFINE ev == events[e][i]
             earlier == {events[e][j] : j \in 1..(i - 1)}
  <2>1. /\ i \in 1..Len(events[e]) /\ events'[e][i] = ev
        /\ {events'[e][j] : j \in 1..(i - 1)} = earlier
    BY <1>3
  <2>2. /\ HostOf[message[ev.msg].target] = e
        /\ CommEvent("comm.activated", ev.comm) \in earlier
        /\ CommEvent("comm.revoked", ev.comm) \notin earlier
        /\ CommEvent("comm.expired", ev.comm) \notin earlier
        /\ \A old \in earlier :
             old.type = "message.dispatch" /\ old.comm = ev.comm
             => message[old.msg].sequence < message[ev.msg].sequence
    <3>1. ev.type = "message.dispatch"
      BY <2>1
    <3> QED
      BY <1>1, <2>1, <3>1, LogByEntries DEF LInv, EachIsTruthful, Truthful
  <2>3. ASSUME NEW j \in 1..Len(events[e]), events[e][j].type = "message.dispatch"
        PROVE  LET m == events[e][j].msg
               IN /\ message'[m].target = message[m].target
                  /\ message'[m].sequence = message[m].sequence
    <3>1. events[e][j] \in Event
      BY <1>1
    <3>2. /\ events[e][j].msg \in Msg
          /\ message[events[e][j].msg].comm = events[e][j].comm
      BY <2>3 DEF LInv, DispatchesAreKnown
    <3>3. events[e][j].comm # None
      BY <3>1, NoneAssumption DEF Event
    <3> QED
      BY <3>2, <3>3 DEF SentKept
  <2>4. /\ message'[ev.msg].target = message[ev.msg].target
        /\ message'[ev.msg].sequence = message[ev.msg].sequence
    BY <2>1, <2>3
  <2>5. ASSUME NEW old \in earlier, old.type = "message.dispatch"
        PROVE  message'[old.msg].sequence = message[old.msg].sequence
    <3>1. PICK j \in 1..(i - 1) : old = events[e][j]
      BY <2>5
    <3>2. j \in 1..Len(events[e])
      BY <1>3, <3>1
    <3> QED
      BY <2>3, <2>5, <3>1, <3>2
  <2> HIDE DEF ev, earlier
  <2> QED
    BY <2>1, <2>2, <2>4, <2>5 DEF Truthful, CommEvent
<1> QED
  BY <1>1, <1>4, <1>5, <1>6

\* An endpoint that was told stays told.
LEMMA ToldStays ==
  ASSUME NEW s \in Session, NEW c \in Comm, NEW S,
         events \in [Endpoint -> Seq(Event)],
         Extends(events, events', S), Told(s, c)
  PROVE  Told(s, c)'
<1> DEFINE e == HostOf[s]
<1>1. e \in Endpoint
  BY HostAssumption
<1>2. PICK i \in 1..Len(events[e]) : events[e][i] = CommEvent("comm.activated", c)
  BY DEF Told
<1>3. /\ Len(events[e]) \in Nat /\ Len(events'[e]) \in Nat
      /\ Len(events[e]) <= Len(events'[e]) /\ events'[e][i] = events[e][i]
  BY <1>1, <1>2 DEF Extends
<1>4. i \in 1..Len(events'[e])
  BY <1>2, <1>3
<1> QED
  BY <1>2, <1>3, <1>4 DEF Told, CommEvent

\* The part of LInv that a step which activates nothing keeps.
LEMMA AnnouncingPreserves ==
  ASSUME RowsOK, LInv, SentKept, EndsKept, NoneActivated,
         Extends(events, events', Announcements),
         HostsAreRegistered', RequestsAreFinite'
  PROVE  LInv'
<1>1. ActivationsAreTold'
  <2> SUFFICES ASSUME NEW c \in Comm, comm'[c].status = "active"
               PROVE  /\ comm'[c].route \in Session /\ Told(comm[c].route, c)'
                      /\ comm'[c].reply \in Session /\ Told(comm[c].reply, c)'
    BY DEF ActivationsAreTold
  <2>1. /\ comm[c].status = "active"
        /\ comm'[c].route = comm[c].route /\ comm'[c].reply = comm[c].reply
    BY DEF NoneActivated
  <2>2. /\ comm[c].route \in Session /\ Told(comm[c].route, c)
        /\ comm[c].reply \in Session /\ Told(comm[c].reply, c)
    BY <2>1 DEF LInv, ActivationsAreTold
  <2>3. \A s \in Session : Told(s, c) => Told(s, c)'
    BY ToldStays DEF LInv
  <2>4. Told(comm[c].route, c)'
    BY <2>1, <2>2, <2>3 DEF Told
  <2>5. Told(comm[c].reply, c)'
    BY <2>1, <2>2, <2>3 DEF Told
  <2> QED
    BY <2>1, <2>2, <2>4, <2>5
<1> QED
  BY <1>1, AnnouncingKeepsLog DEF LInv

\* A step that announces nothing and changes no session.
LEMMA QuietPreserves ==
  ASSUME RowsOK, LInv, SentKept, UNCHANGED <<comm, events>>,
         \A s \in Session : session'[s] # "none" => HostOf[s] \in registered',
         registered \subseteq registered'
  PROVE  LInv'
<1>1. EndsKept /\ NoneActivated
  BY DEF EndsKept, NoneActivated
<1>2. Extends(events, events', Announcements)
  <2>1. events \in [Endpoint -> Seq(Event)]
    BY DEF LInv
  <2>2. \A S : Extends(events, events, S)
    BY <2>1, ExtendsReflexive
  <2> QED
    BY <2>2
<1>3. HostsAreRegistered' /\ RequestsAreFinite'
  BY DEF LInv, HostsAreRegistered, RequestsAreFinite
<1> QED
  BY <1>1, <1>2, <1>3, AnnouncingPreserves

LEMMA QuietSteps ==
  ASSUME IInv, LInv,
         \/ \E e \in Endpoint : Register(e)
         \/ \E s \in Session, state \in {"open", "closed"}, allow \in BOOLEAN :
              RegisterSession(s, state, allow) \/ UpdateSession(s, state, allow)
         \/ UNCHANGED <<registered, session, comm, message, events>>
         \/ \E m \in Msg, p \in Principal, k \in ClientId : SendInbox(m, p, k)
         \/ \E m \in Msg : MarkDispatched(m) \/ \E phase \in Phase : Acknowledge(m, phase)
  PROVE  LInv'
<1>1. \A s \in Session : session[s] # "none" => HostOf[s] \in registered
  BY DEF LInv, HostsAreRegistered
<1>2. UNCHANGED <<comm, events>> /\ registered \subseteq registered'
  BY DEF Register, RegisterSession, UpdateSession, SendInbox, MarkDispatched, Acknowledge
<1>3. \A s \in Session : session'[s] # "none" => HostOf[s] \in registered'
  <2>1. session \in [Session -> {"none", "open", "closed"}]
    BY DEF IInv, RowsOK
  <2>2. CASE UNCHANGED session
    BY <1>1, <1>2, <2>2
  <2>3. CASE \E s \in Session, state \in {"open", "closed"}, allow \in BOOLEAN :
               RegisterSession(s, state, allow) \/ UpdateSession(s, state, allow)
    BY <1>1, <2>1, <2>3 DEF RegisterSession, UpdateSession
  <2> QED
    BY <2>2, <2>3 DEF Register, SendInbox, MarkDispatched, Acknowledge
<1>4. SentKept
  <2>1. CASE UNCHANGED message
    BY <2>1 DEF SentKept
  <2>2. CASE \E m \in Msg, p \in Principal, k \in ClientId : SendInbox(m, p, k)
    <3>1. PICK m \in Msg : \E p \in Principal, k \in ClientId : SendInbox(m, p, k)
      BY <2>2
    <3>2. message[m].status = "none" /\ \A n \in Msg \ {m} : message'[n] = message[n]
      BY <3>1 DEF SendInbox, IInv, RowsOK
    <3>3. message[m].comm = None
      BY <3>2 DEF IInv, MessagesKnowTheirGrant
    <3> QED
      BY <3>2, <3>3, NoneAssumption DEF SentKept
  <2>3. CASE \E m \in Msg : MarkDispatched(m) \/ \E phase \in Phase : Acknowledge(m, phase)
    <3>1. PICK m \in Msg : \E x : message' = [message EXCEPT ![m].status = x]
      BY <2>3 DEF MarkDispatched, Acknowledge
    <3>2. \A n \in Msg : message[n] \in MessageRow
      BY DEF IInv, RowsOK
    <3> QED
      BY <3>1, <3>2 DEF SentKept, IInv, RowsOK, MessageRow
  <2> QED
    BY <2>1, <2>2, <2>3 DEF Register, RegisterSession, UpdateSession
<1> QED
  BY <1>1, <1>2, <1>3, <1>4, QuietPreserves DEF IInv

\* A request is announced to its recipient.
LEMMA RequestKeepsLog ==
  ASSUME IInv, LInv, NEW c \in Comm, NEW s \in Session, NEW p \in Principal,
         NEW o \in Offer \cup {None}, NEW n \in TtlChoice, Request(c, s, p, o, n)
  PROVE  LInv'
<1>1. /\ comm[c].status = "none" /\ comm'[c].status = "pending" /\ comm'[c].reply = s
      /\ comm'[c].requester = SessionOwner(s) /\ session[s] = "open"
      /\ \A d \in Comm \ {c} : comm'[d] = comm[d]
      /\ UNCHANGED <<registered, session, message>>
      /\ events' = Appended(events, p, CommEvent("comm.request", c))
  BY DEF Request, IInv, RowsOK
<1>2. SentKept /\ EndsKept /\ NoneActivated
  BY <1>1 DEF SentKept, EndsKept, NoneActivated
<1>3. Extends(events, events', Announcements)
  <2> DEFINE ev == CommEvent("comm.request", c)
  <2>1. ev \in Event /\ ev \in Announcements
    BY DEF CommEvent, Event, EventType, Announcements
  <2>2. events \in [Endpoint -> Seq(Event)]
    BY DEF LInv
  <2> HIDE DEF ev
  <2>3. \A S : ev \in S => Extends(events, Appended(events, p, ev), S)
    BY <2>1, <2>2, AppendedExtends
  <2> QED
    BY <1>1, <2>1, <2>3 DEF ev
<1>4. HostsAreRegistered'
  BY <1>1 DEF SessionOwner, LInv, HostsAreRegistered
<1>5. RequestsAreFinite'
  <2> DEFINE old == {d \in Comm : comm[d].status # "none"}
             new == {d \in Comm : comm'[d].status # "none"}
  <2>1. new = old \cup {c}
    BY <1>1
  <2>2. IsFiniteSet(old)
    BY DEF LInv, RequestsAreFinite
  <2> HIDE DEF old, new
  <2>3. IsFiniteSet(new)
    BY <2>1, <2>2, FS_AddElement
  <2> QED
    BY <2>3 DEF new, RequestsAreFinite
<1> QED
  BY <1>2, <1>3, <1>4, <1>5, AnnouncingPreserves DEF IInv

\* Declining, revoking and expiring are announced, after the rows are written.
LEMMA EndKeepsLog ==
  ASSUME IInv, LInv, NEW c \in Comm, Decline(c) \/ Revoke(c) \/ ExpireIfNeeded(c)
  PROVE  LInv'
<1>1. /\ comm[c].status \in {"pending", "active"}
      /\ comm'[c].status \in {"declined", "revoked", "expired"}
      /\ comm'[c].reply = comm[c].reply /\ comm'[c].requester = comm[c].requester
      /\ \A d \in Comm \ {c} : comm'[d] = comm[d]
      /\ UNCHANGED <<registered, session>>
  BY DEF Decline, Revoke, ExpireIfNeeded, Due, IInv, RowsOK, CommRow
<1>2. SentKept
  <2>1. CASE UNCHANGED message
    BY <2>1 DEF SentKept
  <2>2. CASE Revoke(c) \/ ExpireIfNeeded(c)
    <3>1. \A m \in Msg : /\ message[m] \in MessageRow
                         /\ \/ message'[m] = message[m]
                            \/ \E x : message'[m] = [message[m] EXCEPT !.status = x]
      BY <2>2 DEF Revoke, ExpireIfNeeded, ClosedDeliveries, IInv, RowsOK
    <3> QED
      BY <3>1 DEF SentKept, MessageRow
  <2> QED
    BY <2>1, <2>2 DEF Decline
<1>3. EndsKept /\ NoneActivated
  BY <1>1 DEF EndsKept, NoneActivated
<1>4. Extends(events, events', Announcements)
  <2>1. events \in [Endpoint -> Seq(Event)]
    BY DEF LInv
  <2>2. CASE Decline(c)
    <3> DEFINE ev == CommEvent("comm.declined", c)
               p == comm[c].requester
    <3>1. ev \in Event /\ ev \in Announcements
      BY DEF CommEvent, Event, EventType, Announcements
    <3>2. events' = Appended(events, p, ev)
      BY <2>2 DEF Decline
    <3> HIDE DEF ev, p
    <3>3. \A S : ev \in S => Extends(events, Appended(events, p, ev), S)
      BY <2>1, <3>1, AppendedExtends
    <3> QED
      BY <3>1, <3>2, <3>3
  <2>3. CASE Revoke(c) \/ ExpireIfNeeded(c)
    <3>1. PICK type \in {"comm.revoked", "comm.expired"} :
            /\ events' = Announced(events, type, c)
            /\ comm'[c].status \in {"revoked", "expired"}
      BY <1>1, <2>3 DEF Revoke, ExpireIfNeeded, IInv, RowsOK, CommRow
    <3>2. type \in EventType /\ CommEvent(type, c) \in Announcements
      BY <3>1 DEF CommEvent, Event, EventType, Announcements
    <3>3. \A S : CommEvent(type, c) \in S => Extends(events, Announced(events, type, c), S)
      BY <2>1, <3>2, AnnouncedExtends
    <3> QED
      BY <3>1, <3>2, <3>3
  <2> QED
    BY <2>2, <2>3
<1>5. HostsAreRegistered'
  BY <1>1 DEF LInv, HostsAreRegistered
<1>6. RequestsAreFinite'
  <2>1. {d \in Comm : comm'[d].status # "none"} = {d \in Comm : comm[d].status # "none"}
    BY <1>1
  <2> QED
    BY <2>1 DEF LInv, RequestsAreFinite
<1> QED
  BY <1>2, <1>3, <1>4, <1>5, <1>6, AnnouncingPreserves DEF IInv

-------------------------------------------------------------------------------
(* Acceptances.                                                            *)

\* g tells, one after the other, that the sessions order[1], ..., order[n]
\* expired.
Tells(g, order, n) ==
  g = [i \in 0..n |-> IF i = 0 THEN events
                      ELSE Announced(g[i - 1], "comm.expired", order[i])]

\* The recursion in Accept defines a function.
LEMMA TellsExists ==
  ASSUME NEW order
  PROVE  \A n \in Nat : \E g : Tells(g, order, n)
<1> DEFINE T == {n \in Nat : \E g : Tells(g, order, n)}
<1>1. 0 \in T
  <2> DEFINE g == [i \in 0..0 |-> events]
  <2>1. Tells(g, order, 0)
    BY DEF Tells
  <2> QED
    BY <2>1
<1>2. ASSUME NEW n \in Nat, n \in T  PROVE n + 1 \in T
  <2>1. PICK g : Tells(g, order, n)
    BY <1>2
  <2> DEFINE last == Announced(g[n], "comm.expired", order[n + 1])
             h == [i \in 0..(n + 1) |-> IF i = n + 1 THEN last ELSE g[i]]
  <2>2. (\A i \in 0..n : h[i] = g[i]) /\ h[n + 1] = last
    OBVIOUS
  <2>3. h = [i \in 0..(n + 1) |-> h[i]]
    OBVIOUS
  <2> HIDE DEF last, h
  <2>4. ASSUME NEW i \in 0..(n + 1)
        PROVE  h[i] = IF i = 0 THEN events
                      ELSE Announced(h[i - 1], "comm.expired", order[i])
    <3>1. CASE i = n + 1
      <4>1. i # 0 /\ i - 1 = n /\ h[i - 1] = g[n]
        BY <3>1, <2>2
      <4> QED
        BY <3>1, <4>1, <2>2 DEF last
    <3>2. CASE i \in 0..n
      <4>1. h[i] = g[i] /\ (i # 0 => i - 1 \in 0..n /\ h[i - 1] = g[i - 1])
        BY <3>2, <2>2
      <4>2. g[i] = IF i = 0 THEN events
                   ELSE Announced(g[i - 1], "comm.expired", order[i])
        BY <2>1, <3>2 DEF Tells
      <4> QED
        BY <4>1, <4>2
    <3> QED
      BY <3>1, <3>2
  <2>5. Tells(h, order, n + 1)
    BY <2>3, <2>4 DEF Tells
  <2> QED
    BY <2>5
<1> HIDE DEF T
<1>3. Nat \subseteq T
  BY <1>1, <1>2, SetInduction
<1> QED
  BY <1>3 DEF T

\* What it tells are the expiries of those sessions.
LEMMA TellsExtends ==
  ASSUME NEW n \in Nat, NEW order, \A i \in 1..n : order[i] \in Comm,
         NEW g, Tells(g, order, n), events \in [Endpoint -> Seq(Event)],
         NEW S, \A i \in 1..n : CommEvent("comm.expired", order[i]) \in S
  PROVE  Extends(events, g[n], S)
<1> DEFINE T == {i \in Nat : i <= n => Extends(events, g[i], S)}
<1>1. 0 \in T
  <2>1. g[0] = events
    BY DEF Tells
  <2>2. Extends(events, events, S)
    BY ExtendsReflexive
  <2> QED
    BY <2>1, <2>2
<1>2. ASSUME NEW i \in Nat, i \in T  PROVE i + 1 \in T
  <2> SUFFICES ASSUME i + 1 <= n
               PROVE  Extends(events, g[i + 1], S)
    OBVIOUS
  <2>1. Extends(events, g[i], S)
    BY <1>2
  <2>2. g[i + 1] = Announced(g[i], "comm.expired", order[i + 1])
    <3>1. i + 1 \in 0..n /\ i + 1 # 0 /\ (i + 1) - 1 = i
      OBVIOUS
    <3>2. g = [j \in 0..n |-> IF j = 0 THEN events
                              ELSE Announced(g[j - 1], "comm.expired", order[j])]
      BY DEF Tells
    <3> QED
      BY <3>1, <3>2
  <2>3. i + 1 \in 1..n /\ order[i + 1] \in Comm
        /\ CommEvent("comm.expired", order[i + 1]) \in S /\ "comm.expired" \in EventType
    BY DEF EventType
  <2>4. PICK log, d : log = g[i] /\ d = order[i + 1]
    OBVIOUS
  <2>5. log \in [Endpoint -> Seq(Event)] /\ Extends(events, log, S)
    BY <2>1, <2>4 DEF Extends
  <2>6. Extends(log, Announced(log, "comm.expired", d), S)
    BY <2>3, <2>4, <2>5, AnnouncedExtends
  <2>7. PICK after : after = Announced(log, "comm.expired", d)
    OBVIOUS
  <2>8. Extends(events, after, S)
    BY <2>5, <2>6, <2>7, ExtendsTransitive
  <2> QED
    BY <2>2, <2>4, <2>7, <2>8
<1> HIDE DEF T
<1>3. Nat \subseteq T
  BY <1>1, <1>2, SetInduction
<1> QED
  BY <1>3 DEF T

\* The two outcomes of an acceptance, with the events.
LEMMA AcceptOutcomeTold ==
  ASSUME IInv, LInv, NEW c \in Comm, NEW s \in Session, NEW t \in 0..MaxTime, Accept(c, s, t)
  PROVE  \E log :
           /\ \A S : (\A d \in StaleOn(s) : CommEvent("comm.expired", d) \in S)
                       => Extends(events, log, S)
           /\ \/ comm' = Ended(StaleOn(s), "expired") /\ events' = log
              \/ /\ comm' = [Ended(StaleOn(s), "expired") EXCEPT
                               ![c].status = "active", ![c].route = s,
                               ![c].grantExpires = t + comm[c].ttl]
                 /\ events' = Announced(log, "comm.activated", c)
<1> DEFINE N == Cardinality(StaleOn(s))
<1>1. N \in Nat
  <2>1. StaleOn(s) \subseteq {d \in Comm : comm[d].status # "none"}
    BY DEF StaleOn, HoldersOf
  <2>2. IsFiniteSet(StaleOn(s))
    BY <2>1, FS_Subset DEF LInv, RequestsAreFinite
  <2> QED
    BY <2>2, FS_CardinalityType
<1>2. PICK order \in Orders(StaleOn(s)) :
        LET told == CHOOSE g : Tells(g, order, N)
        IN \/ comm' = Ended(StaleOn(s), "expired") /\ events' = told[N]
           \/ /\ comm' = [Ended(StaleOn(s), "expired") EXCEPT
                            ![c].status = "active", ![c].route = s,
                            ![c].grantExpires = t + comm[c].ttl]
              /\ events' = Announced(told[N], "comm.activated", c)
  BY DEF Accept, Ended, Tells
<1>3. \A i \in 1..N : order[i] \in StaleOn(s) /\ order[i] \in Comm
  BY <1>2 DEF Orders, StaleOn, HoldersOf
<1> HIDE DEF N
<1> DEFINE told == CHOOSE g : Tells(g, order, N)
<1>4. Tells(told, order, N)
  BY <1>1, TellsExists
<1> HIDE DEF told
<1>5. ASSUME NEW S, \A d \in StaleOn(s) : CommEvent("comm.expired", d) \in S
      PROVE  Extends(events, told[N], S)
  BY <1>1, <1>3, <1>4, <1>5, TellsExtends DEF LInv
<1> QED
  BY <1>2, <1>5 DEF told

\* An acceptance tells of the grants it expires and then, if it is not refused,
\* activates c towards both of its endpoints.
LEMMA AcceptKeepsLog ==
  ASSUME IInv, LInv, NEW c \in Comm, NEW s \in Session, NEW t \in 0..MaxTime, Accept(c, s, t)
  PROVE  LInv'
<1> DEFINE S == StaleOn(s)
<1>1. PICK log :
        /\ \A A : (\A d \in S : CommEvent("comm.expired", d) \in A) => Extends(events, log, A)
        /\ \/ comm' = Ended(S, "expired") /\ events' = log
           \/ /\ comm' = [Ended(S, "expired") EXCEPT
                            ![c].status = "active", ![c].route = s,
                            ![c].grantExpires = t + comm[c].ttl]
              /\ events' = Announced(log, "comm.activated", c)
  BY AcceptOutcomeTold
<1>2. /\ S \in SUBSET Comm /\ \A d \in S : comm[d].status = "active"
      /\ comm[c].status = "pending" /\ SessionOwner(s) = comm[c].recipient
      /\ session[s] = "open" /\ UNCHANGED <<registered, session>>
      /\ message' = ClosedDeliveries(S, "expired")
  BY DEF Accept, TakesInbound, StaleOn, HoldersOf
<1> HIDE DEF S
<1>3. ASSUME NEW d \in Comm \ {c}
      PROVE  /\ d \in S => comm'[d].status = "expired"
             /\ d \notin S => comm'[d] = comm[d]
             /\ comm'[d].requester = comm[d].requester
             /\ comm'[d].reply = comm[d].reply
             /\ comm'[d].route = comm[d].route
  <2>1. comm'[d] = Ended(S, "expired")[d]
    BY <1>1 DEF Ended
  <2> QED
    BY <2>1 DEF Ended, IInv, RowsOK, CommRow
<1>4. /\ c \notin S
      /\ comm'[c].requester = comm[c].requester /\ comm'[c].reply = comm[c].reply
      /\ comm'[c].status \in {"pending", "active"}
      /\ comm'[c].status = "active" =>
           /\ comm'[c].route = s
           /\ events' = Announced(log, "comm.activated", c)
  <2>1. Ended(S, "expired")[c] = comm[c] /\ comm[c] \in CommRow
    BY <1>2 DEF Ended, IInv, RowsOK
  <2>2. CASE comm' = Ended(S, "expired")
    BY <1>2, <2>1, <2>2
  <2>3. CASE /\ comm' = [Ended(S, "expired") EXCEPT
                           ![c].status = "active", ![c].route = s,
                           ![c].grantExpires = t + comm[c].ttl]
             /\ events' = Announced(log, "comm.activated", c)
    <3>1. comm'[c] = [comm[c] EXCEPT !.status = "active", !.route = s,
                                     !.grantExpires = t + comm[c].ttl]
      BY <2>1, <2>3 DEF Ended
    <3>2. /\ comm'[c].status = "active" /\ comm'[c].route = s
          /\ comm'[c].requester = comm[c].requester /\ comm'[c].reply = comm[c].reply
      BY <2>1, <3>1 DEF CommRow
    <3>3. c \notin S
      BY <1>2
    <3> QED
      BY <2>3, <3>2, <3>3
  <2> QED
    BY <1>1, <2>2, <2>3
<1>5. SentKept
  <2>1. RowsKept
    BY <1>2, Closing DEF IInv
  <2> QED
    BY <2>1 DEF RowsKept, SentKept
<1>6. EndsKept
  BY <1>2, <1>3, <1>4 DEF EndsKept
<1>7. events \in [Endpoint -> Seq(Event)] /\ "comm.activated" \in EventType
  BY DEF LInv, EventType
<1>8. Extends(events, log, Announcements)
  <2>1. \A d \in S : CommEvent("comm.expired", d) \in Announcements
    BY <1>2, <1>3 DEF CommEvent, Event, EventType, Announcements
  <2>2. \A A : (\A d \in S : CommEvent("comm.expired", d) \in A) => Extends(events, log, A)
    BY <1>1
  <2> QED
    BY <2>1, <2>2
<1>9. log \in [Endpoint -> Seq(Event)]
  BY <1>8 DEF Extends
<1>10. CommEvent("comm.activated", c) \in Announcements
  BY DEF CommEvent, Event, EventType, Announcements
<1>11. Extends(events, events', Announcements)
  <2>1. CASE events' = log
    BY <1>8, <2>1
  <2>2. CASE events' = Announced(log, "comm.activated", c)
    <3>1. PICK after : after = Announced(log, "comm.activated", c)
      OBVIOUS
    <3>2. \A A : CommEvent("comm.activated", c) \in A =>
                   Extends(log, Announced(log, "comm.activated", c), A)
      BY <1>7, <1>9, AnnouncedExtends
    <3>3. Extends(log, after, Announcements)
      BY <1>10, <3>1, <3>2
    <3>4. \A A : Extends(events, log, A) /\ Extends(log, after, A) => Extends(events, after, A)
      BY <1>7, ExtendsTransitive
    <3> QED
      BY <1>8, <2>2, <3>1, <3>3, <3>4
  <2> QED
    BY <1>1, <2>1, <2>2
<1>12. HostsAreRegistered'
  BY <1>2, <1>3, <1>4 DEF LInv, HostsAreRegistered
<1>13. RequestsAreFinite'
  <2>1. {d \in Comm : comm'[d].status # "none"} = {d \in Comm : comm[d].status # "none"}
    BY <1>2, <1>3, <1>4
  <2> QED
    BY <2>1 DEF LInv, RequestsAreFinite
<1>14. ActivationsAreTold'
  <2> SUFFICES ASSUME NEW d \in Comm, comm'[d].status = "active"
               PROVE  /\ comm'[d].route \in Session /\ Told(comm[d].route, d)'
                      /\ comm'[d].reply \in Session /\ Told(comm[d].reply, d)'
    BY DEF ActivationsAreTold
  <2>1. CASE d # c
    <3>1. /\ comm[d].status = "active"
          /\ comm'[d].route = comm[d].route /\ comm'[d].reply = comm[d].reply
      BY <1>3, <2>1
    <3>2. /\ comm[d].route \in Session /\ Told(comm[d].route, d)
          /\ comm[d].reply \in Session /\ Told(comm[d].reply, d)
      BY <3>1 DEF LInv, ActivationsAreTold
    <3>3. \A r \in Session : Told(r, d) => Told(r, d)'
      BY <1>7, <1>11, ToldStays
    <3>4. Told(comm[d].route, d)'
      BY <3>1, <3>2, <3>3 DEF Told
    <3>5. Told(comm[d].reply, d)'
      BY <3>1, <3>2, <3>3 DEF Told
    <3> QED
      BY <3>1, <3>2, <3>4, <3>5
  <2>2. CASE d = c
    <3>1. /\ comm'[c].route = s /\ comm'[c].reply = comm[c].reply
          /\ events' = Announced(log, "comm.activated", c)
      BY <1>4, <2>2
    <3>2. ASSUME NEW r \in Session, HostOf[r] \in registered,
                 SessionOwner(r) \in {comm[c].requester, comm[c].recipient}
          PROVE  Told(r, c)'
      <4>1. PICK e : e = HostOf[r]
        OBVIOUS
      <4>2. e \in registered \cap Endpoint /\ OwnerOf[e] \in {comm[c].requester, comm[c].recipient}
        BY <3>2, <4>1, OwnerType DEF SessionOwner
      <4>3. \A x \in registered \cap Endpoint :
              OwnerOf[x] \in {comm[c].requester, comm[c].recipient} =>
                \E i \in 1..Len(Announced(log, "comm.activated", c)[x]) :
                  Announced(log, "comm.activated", c)[x][i] = CommEvent("comm.activated", c)
        BY <1>7, <1>9, <1>10, AnnouncedExtends
      <4>4. \E i \in 1..Len(events'[e]) : events'[e][i] = CommEvent("comm.activated", c)
        BY <3>1, <4>2, <4>3
      <4> QED
        BY <4>1, <4>4 DEF Told, CommEvent
    <3>3. HostOf[s] \in registered
      BY <1>2 DEF LInv, HostsAreRegistered
    <3>4. /\ comm[c].reply \in Session /\ HostOf[comm[c].reply] \in registered
          /\ comm[c].requester = SessionOwner(comm[c].reply)
      BY <1>2 DEF LInv, HostsAreRegistered
    <3>5. Told(s, c)'
      BY <1>2, <3>2, <3>3
    <3>6. \A r \in Session : r = comm[c].reply => Told(r, c)'
      BY <3>2, <3>4
    <3>7. Told(comm[c].route, c)' /\ Told(comm[c].reply, c)'
      BY <3>1, <3>4, <3>5, <3>6 DEF Told
    <3> QED
      BY <2>2, <3>1, <3>4, <3>7
  <2> QED
    BY <2>1, <2>2
<1> QED
  BY <1>5, <1>6, <1>11, <1>12, <1>13, <1>14, AnnouncingKeepsLog DEF IInv, LInv

-------------------------------------------------------------------------------
(* Sends.                                                                  *)

\* A message is dispatched to an endpoint that was told of its grant, whose end
\* was not told to anyone, with a number above those dispatched before.
LEMMA SendKeepsLog ==
  ASSUME IInv, LInv, NEW m \in Msg, NEW p \in Principal, NEW c \in Comm, NEW k \in ClientId,
         Send(m, p, c, k)
  PROVE  LInv'
<1> DEFINE target == TargetFor(c, p)
           h == HostOf[target]
           new == [type |-> "message.dispatch", comm |-> c, msg |-> m]
           n == NextSequence(c)
           last == Len(events[h]) + 1
<1>1. /\ message[m].comm = None /\ comm[c].status = "active"
      /\ message'[m].comm = c /\ message'[m].target = target /\ message'[m].sequence = n
      /\ \A o \in Msg \ {m} : message'[o] = message[o]
      /\ UNCHANGED <<registered, session, comm>>
      /\ events' = [events EXCEPT ![h] = Append(events[h], new)]
  BY DEF Send, IInv, RowsOK, MessagesKnowTheirGrant
<1>2. target \in Session /\ Told(target, c) /\ h \in Endpoint
  BY <1>1, HostAssumption DEF TargetFor, LInv, ActivationsAreTold
<1>3. \A o \in Msg : message[o].comm = c => message[o].sequence < n
  <2> DEFINE sent == {o \in Msg : message[o].comm = c}
  <2>1. Cardinality(sent) \in Nat /\ n = Cardinality(sent) + 1
    BY NextSequenceIsNext DEF IInv
  <2>2. \A o \in sent : message[o].sequence \in 1..Cardinality(sent)
    BY DEF IInv, SequencesAreDense
  <2> HIDE DEF n
  <2> QED
    BY <2>1, <2>2
<1>4. new \in Event /\ new.type = "message.dispatch" /\ new.comm = c /\ new.msg = m
  BY DEF Event, EventType
<1>5. events \in [Endpoint -> Seq(Event)]
  BY DEF LInv
<1> HIDE DEF target, h, new, n, last
<1>6. /\ events' \in [Endpoint -> Seq(Event)]
      /\ \A e \in Endpoint \ {h} : events'[e] = events[e]
      /\ Len(events[h]) \in Nat /\ last \in 1..last
      /\ Len(events'[h]) = last /\ events'[h][last] = new
      /\ \A i \in 1..Len(events[h]) : events'[h][i] = events[h][i]
      /\ \A i \in 1..last : i # last => i \in 1..Len(events[h])
  <2>1. events'[h] = Append(events[h], new) /\ events[h] \in Seq(Event)
    BY <1>1, <1>2, <1>5
  <2>2. /\ events'[h] \in Seq(Event) /\ Len(events[h]) \in Nat
        /\ Len(events'[h]) = Len(events[h]) + 1
        /\ events'[h][Len(events[h]) + 1] = new
        /\ \A i \in 1..Len(events[h]) : events'[h][i] = events[h][i]
    BY <1>4, <2>1
  <2>3. events' \in [Endpoint -> Seq(Event)]
    BY <1>1, <1>5, <2>1, <2>2
  <2>4. last \in 1..last /\ \A i \in 1..last : i # last => i \in 1..Len(events[h])
    BY <2>2 DEF last
  <2> QED
    BY <1>1, <1>5, <2>2, <2>3, <2>4 DEF last
<1>7. ASSUME NEW e \in Endpoint, NEW i \in 1..Len(events'[e]), e # h \/ i # last
      PROVE  /\ i \in 1..Len(events[e]) /\ events'[e][i] = events[e][i]
             /\ \A j \in 1..(i - 1) : j \in 1..Len(events[e]) /\ events'[e][j] = events[e][j]
  <2>1. i \in 1..Len(events[e]) /\ events'[e][i] = events[e][i] /\ Len(events[e]) \in Nat
    <3>1. CASE e = h
      BY <1>6, <1>7, <3>1
    <3>2. CASE e # h
      <4>1. events[e] \in Seq(Event) /\ events'[e] = events[e]
        BY <1>5, <1>6, <3>2
      <4> QED
        BY <4>1
    <3> QED
      BY <3>1, <3>2
  <2>2. \A j \in 1..(i - 1) : j \in 1..Len(events[e])
    BY <2>1
  <2>3. \A j \in 1..Len(events[e]) : events'[e][j] = events[e][j]
    BY <1>6
  <2> QED
    BY <2>1, <2>2, <2>3
<1>8. ASSUME NEW e \in Endpoint, NEW i \in 1..Len(events[e]),
             events[e][i].type = "message.dispatch"
      PROVE  LET o == events[e][i].msg
             IN /\ o \in Msg \ {m} /\ message'[o] = message[o]
                /\ message[o].comm = events[e][i].comm
  <2>1. events[e][i] \in Event
    BY <1>5
  <2>2. /\ events[e][i].msg \in Msg
        /\ message[events[e][i].msg].comm = events[e][i].comm
    BY <1>8 DEF LInv, DispatchesAreKnown
  <2>3. events[e][i].comm # None
    BY <2>1, NoneAssumption DEF Event
  <2> QED
    BY <1>1, <2>2, <2>3
<1>9. DispatchesAreKnown'
  <2> SUFFICES ASSUME NEW e \in Endpoint, NEW i \in 1..Len(events'[e]),
                      events'[e][i].type = "message.dispatch"
               PROVE  /\ events'[e][i].msg \in Msg
                      /\ message'[events'[e][i].msg].comm = events'[e][i].comm
    BY DEF DispatchesAreKnown
  <2>1. CASE e = h /\ i = last
    BY <1>1, <1>4, <1>6, <2>1
  <2>2. CASE e # h \/ i # last
    BY <1>7, <1>8, <2>2
  <2> QED
    BY <2>1, <2>2
<1>10. EndsAreFinal'
  <2> SUFFICES ASSUME NEW e \in Endpoint, NEW i \in 1..Len(events'[e]),
                      events'[e][i].type \in {"comm.revoked", "comm.expired"}
               PROVE  comm'[events'[e][i].comm].status \in {"revoked", "expired"}
    BY DEF EndsAreFinal
  <2>1. e # h \/ i # last
    BY <1>4, <1>6
  <2>2. i \in 1..Len(events[e]) /\ events'[e][i] = events[e][i]
    BY <1>7, <2>1
  <2> QED
    BY <1>1, <2>2 DEF LInv, EndsAreFinal
<1>11. LogIsTruthful'
  <2>1. (events \in [Endpoint -> Seq(Event)] => (LogIsTruthful <=> EachIsTruthful))'
    BY LogByEntries, PTL
  <2> SUFFICES ASSUME NEW e \in Endpoint, NEW i \in 1..Len(events'[e]),
                      events'[e][i].type = "message.dispatch"
               PROVE  Truthful(e, i)'
    <3>1. EachIsTruthful' => LogIsTruthful'
      BY <1>6, <2>1
    <3> QED
      BY <3>1 DEF EachIsTruthful
  <2>2. CASE e # h \/ i # last
    <3> DEFINE ev == events[e][i]
               earlier == {events[e][j] : j \in 1..(i - 1)}
    <3>1. /\ i \in 1..Len(events[e]) /\ events'[e][i] = ev
          /\ {events'[e][j] : j \in 1..(i - 1)} = earlier
      BY <1>7, <2>2
    <3>2. Truthful(e, i)
      BY <1>5, <3>1, LogByEntries DEF LInv, EachIsTruthful
    <3>3. message'[ev.msg] = message[ev.msg]
      BY <1>8, <3>1
    <3>4. \A old \in earlier : old.type = "message.dispatch" => message'[old.msg] = message[old.msg]
      BY <1>7, <1>8, <2>2
    <3>5. /\ HostOf[message[ev.msg].target] = e
          /\ CommEvent("comm.activated", ev.comm) \in earlier
          /\ CommEvent("comm.revoked", ev.comm) \notin earlier
          /\ CommEvent("comm.expired", ev.comm) \notin earlier
          /\ \A old \in earlier :
               old.type = "message.dispatch" /\ old.comm = ev.comm
               => message[old.msg].sequence < message[ev.msg].sequence
      BY <3>2 DEF Truthful
    <3> HIDE DEF ev, earlier
    <3> QED
      BY <3>1, <3>3, <3>4, <3>5 DEF Truthful, CommEvent
  <2>3. CASE e = h /\ i = last
    <3> DEFINE earlier == {events'[h][j] : j \in 1..(last - 1)}
    <3>1. events'[e][i] = new /\ {events'[e][j] : j \in 1..(i - 1)} = earlier
      BY <1>6, <2>3
    <3>2. \A j \in 1..(last - 1) : j \in 1..Len(events[h])
      BY <1>6
    <3>3. \A old \in earlier : \E j \in 1..Len(events[h]) : old = events[h][j]
      BY <1>6, <3>2
    <3>4. CommEvent("comm.activated", c) \in earlier
      <4>1. PICK j \in 1..Len(events[h]) : events[h][j] = CommEvent("comm.activated", c)
        BY <1>2 DEF Told, h
      <4>2. j \in 1..(last - 1) /\ events'[h][j] = events[h][j]
        BY <1>6, <4>1 DEF last
      <4> QED
        BY <4>1, <4>2
    <3>5. \A old \in earlier : old.type \in {"comm.revoked", "comm.expired"} => old.comm # c
      BY <1>1, <1>2, <3>3 DEF LInv, EndsAreFinal
    <3>6. \A old \in earlier :
            old.type = "message.dispatch" /\ old.comm = c => message'[old.msg].sequence < n
      <4> SUFFICES ASSUME NEW old \in earlier, old.type = "message.dispatch", old.comm = c
                   PROVE  message'[old.msg].sequence < n
        OBVIOUS
      <4>1. PICK j \in 1..Len(events[h]) : old = events[h][j]
        BY <3>3
      <4>2. /\ old.msg \in Msg /\ message'[old.msg] = message[old.msg]
            /\ message[old.msg].comm = c
        BY <1>2, <1>8, <4>1
      <4> QED
        BY <1>3, <4>2
    <3> HIDE DEF earlier
    <3>7. /\ CommEvent("comm.revoked", c) \notin earlier
          /\ CommEvent("comm.expired", c) \notin earlier
      BY <3>5 DEF CommEvent
    <3>8. HostOf[message'[m].target] = e
      BY <1>1, <2>3 DEF h
    <3>9. new.comm = c /\ new.msg = m /\ message'[m].sequence = n
      BY <1>1, <1>4
    <3> QED
      BY <3>1, <3>4, <3>6, <3>7, <3>8, <3>9 DEF Truthful, CommEvent
  <2> QED
    BY <2>2, <2>3
<1>12. ActivationsAreTold'
  <2>1. ASSUME NEW s \in Session, NEW d \in Comm, Told(s, d)
        PROVE  Told(s, d)'
    <3>1. PICK e : e = HostOf[s]
      OBVIOUS
    <3>2. e \in Endpoint
      BY <3>1, HostAssumption
    <3>3. PICK i \in 1..Len(events[e]) : events[e][i] = CommEvent("comm.activated", d)
      BY <2>1, <3>1 DEF Told
    <3>4. i \in 1..Len(events'[e]) /\ events'[e][i] = events[e][i]
      <4>1. CASE e = h
        BY <1>6, <3>3, <4>1 DEF last
      <4>2. CASE e # h
        BY <1>6, <3>2, <3>3, <4>2
      <4> QED
        BY <4>1, <4>2
    <3> QED
      BY <3>1, <3>3, <3>4 DEF Told, CommEvent
  <2> SUFFICES ASSUME NEW d \in Comm, comm'[d].status = "active"
               PROVE  /\ comm'[d].route \in Session /\ Told(comm[d].route, d)'
                      /\ comm'[d].reply \in Session /\ Told(comm[d].reply, d)'
    BY DEF ActivationsAreTold
  <2>2. /\ comm[d].route \in Session /\ Told(comm[d].route, d)
        /\ comm[d].reply \in Session /\ Told(comm[d].reply, d)
    BY <1>1 DEF LInv, ActivationsAreTold
  <2>3. Told(comm[d].route, d)'
    BY <1>1, <2>1, <2>2 DEF Told
  <2>4. Told(comm[d].reply, d)'
    BY <1>1, <2>1, <2>2 DEF Told
  <2> QED
    BY <1>1, <2>2, <2>3, <2>4
<1>13. HostsAreRegistered' /\ RequestsAreFinite'
  BY <1>1 DEF LInv, HostsAreRegistered, RequestsAreFinite
<1> QED
  BY <1>6, <1>9, <1>10, <1>11, <1>12, <1>13 DEF LInv

-------------------------------------------------------------------------------
(* The invariant of the log.                                               *)

LEMMA InitTruthful == Init => LInv
<1> SUFFICES ASSUME Init PROVE LInv
  OBVIOUS
<1>1. <<>> \in Seq(Event) /\ Len(<<>>) = 0 /\ DOMAIN <<>> = {}
  OBVIOUS
<1>2. events = [e \in Endpoint |-> <<>>]
  BY DEF Init
<1>3. events \in [Endpoint -> Seq(Event)]
  BY <1>1, <1>2
<1>4. LogIsTruthful /\ DispatchesAreKnown /\ EndsAreFinal
  BY <1>1, <1>2 DEF LogIsTruthful, DispatchesAreKnown, EndsAreFinal
<1>5. ActivationsAreTold /\ HostsAreRegistered
  BY DEF Init, ActivationsAreTold, HostsAreRegistered
<1>6. RequestsAreFinite
  <2>1. {c \in Comm : comm[c].status # "none"} = {}
    BY DEF Init
  <2> QED
    BY <2>1, FS_EmptySet DEF RequestsAreFinite
<1> QED
  BY <1>3, <1>4, <1>5, <1>6 DEF LInv

LEMMA NextTruthful == IInv /\ LInv /\ [Next]_vars => LInv'
<1> SUFFICES ASSUME IInv, LInv, [Next]_vars PROVE LInv'
  OBVIOUS
<1>1. CASE \E c \in Comm, s \in Session, p \in Principal, o \in Offer \cup {None},
              n \in TtlChoice : Request(c, s, p, o, n)
  BY <1>1, RequestKeepsLog
<1>2. CASE \E c \in Comm, s \in Session, t \in 0..MaxTime : Accept(c, s, t)
  BY <1>2, AcceptKeepsLog
<1>3. CASE \E c \in Comm : Decline(c) \/ Revoke(c) \/ ExpireIfNeeded(c)
  BY <1>3, EndKeepsLog
<1>4. CASE \E m \in Msg, p \in Principal, k \in ClientId : \E c \in Comm : Send(m, p, c, k)
  BY <1>4, SendKeepsLog
<1>5. CASE \/ \E m \in Msg, p \in Principal, k \in ClientId : SendInbox(m, p, k)
           \/ \E m \in Msg : MarkDispatched(m) \/ \E phase \in Phase : Acknowledge(m, phase)
  BY <1>5, QuietSteps
<1>6. CASE \/ \E e \in Endpoint : Register(e)
           \/ \E s \in Session, state \in {"open", "closed"}, allow \in BOOLEAN :
                RegisterSession(s, state, allow) \/ UpdateSession(s, state, allow)
  BY <1>6, QuietSteps
<1>7. CASE \/ \E s \in Session : SetDefaultRoute(s)
           \/ \E p \in Principal : ClearDefaultRoute(p)
           \/ \E o \in Offer, s \in Session, p \in Principal : CreateOffer(o, s, p)
           \/ \E o \in Offer : RevokeOffer(o)
           \/ Tick
           \/ UNCHANGED vars
  <2>1. UNCHANGED <<registered, session, comm, message, events>>
    BY <1>7 DEF SetDefaultRoute, ClearDefaultRoute, CreateOffer, RevokeOffer, Tick, vars
  <2> QED
    BY <2>1, QuietSteps
<1> QED
  BY <1>1, <1>2, <1>3, <1>4, <1>5, <1>6, <1>7 DEF Next

\* The log never lies about the rows, however an acceptance orders the expiries
\* it finds and whatever becomes of the messages later.
THEOREM LogInvariant == Spec => [](IInv /\ LInv)
<1> QED
  BY InitSafe, NextSafe, InitTruthful, NextTruthful, PTL DEF Spec

\* Every reachable state is typed, the event log included.
THEOREM ControlPlaneTypes == Spec => []TypeOK
<1>1. IInv /\ LInv => TypeOK
  BY DEF IInv, LInv, TypeOK
<1> QED
  BY <1>1, LogInvariant, PTL

\* A bridge that replays its log from any cursor sees a dispatch only after the
\* activation of its grant and before its end, on the log of the endpoint that hosts
\* the target, and the messages of a session in increasing sequence (EventLog.append
\* and the order of the writes in every operation that announces).
THEOREM LogTruthful == Spec => []LogIsTruthful
<1>1. LInv => LogIsTruthful
  BY DEF LInv
<1> QED
  BY <1>1, LogInvariant, PTL
===============================================================================
