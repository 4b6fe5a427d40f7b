----------------------------- MODULE ControlPlane -----------------------------
(***************************************************************************)
(* The reference control plane: endpoints and runtime sessions, default    *)
(* routes, target offers, communication sessions (grants), messages with   *)
(* their deliveries, and the per-endpoint event log.                       *)
(*                                                                         *)
(* Every service method runs to completion without an await on one         *)
(* synchronous SQLite connection, so a method is one step.  A method that  *)
(* looks a communication session up first expires it when it is due        *)
(* (expireIfNeeded): that outcome is the action ExpireIfNeeded, and every  *)
(* other action on the session requires that it is not due.                *)
(*                                                                         *)
(* Left out: audit rows, labels, presence and last_seen timestamps, the    *)
(* bridge and adapter versions, payloads and their hashes.  Nothing below  *)
(* reads them.                                                             *)
(***************************************************************************)
EXTENDS Naturals, Sequences, FiniteSets, DeliveryTable

CONSTANTS
  Principal,    \* authenticated people
  Endpoint,     \* bridges; an endpoint is one device of one principal
  Session,      \* runtime session handles
  Offer,        \* target offers
  Comm,         \* communication sessions
  Msg,          \* messages
  ClientId,     \* clientMessageIds chosen by senders
  None,         \* an absent reference
  OwnerOf,      \* [Endpoint -> Principal]
  HostOf,       \* [Session -> Endpoint]: the endpoint that registers it
  TtlChoice,    \* the grant lifetimes requesters ask for, in ticks
  MaxGrantTtl,  \* the cap on a grant's lifetime (30 minutes)
  RequestTtl,   \* how long a request waits for its recipient (10 minutes)
  OfferTtl,     \* how long an offer stands (600 seconds)
  MaxTime       \* bound: the clock stops here

ASSUME OwnerAssumption == OwnerOf \in [Endpoint -> Principal]
ASSUME HostAssumption == HostOf \in [Session -> Endpoint]
ASSUME TimeAssumption ==
  /\ TtlChoice \subseteq Nat
  /\ MaxGrantTtl \in Nat /\ RequestTtl \in Nat /\ OfferTtl \in Nat
  /\ MaxTime \in Nat
ASSUME MessageAssumption == IsFiniteSet(Msg)
ASSUME NoneAssumption ==
  None \notin Principal \cup Endpoint \cup Session \cup Offer \cup Comm \cup Msg \cup ClientId

VARIABLES
  now,           \* the server clock
  registered,    \* endpoints that have registered
  session,       \* [Session -> {"none", "open", "closed"}]; idle and busy are both "open"
  inbound,       \* sessions whose allow_inbound is set
  defaultRoute,  \* [Principal -> Session \cup {None}]
  offer,         \* [Offer -> OfferRow]
  comm,          \* [Comm -> CommRow]
  message,       \* [Msg -> MessageRow]: a row of messages and its row of deliveries
  events         \* [Endpoint -> Seq(Event)]: the append-only event log

vars == <<now, registered, session, inbound, defaultRoute, offer, comm, message, events>>

Kind == {"person_default_runtime", "runtime_session"}
CommStatus == {"none", "pending", "active", "declined", "revoked", "expired"}

OfferRow == [state    : {"none", "live", "revoked"},
             audience : Principal \cup {None},
             session  : Session \cup {None},
             expires  : Nat]

CommRow == [status         : CommStatus,
            requester      : Principal \cup {None},
            recipient      : Principal \cup {None},
            kind           : Kind \cup {None},
            offer          : Offer \cup {None},
            reply          : Session \cup {None},
            route          : Session \cup {None},
            ttl            : Nat,
            requestExpires : Nat,
            grantExpires   : Nat]

MessageRow == [status   : DeliveryStatus,
               comm     : Comm \cup {None},
               sender   : Principal \cup {None},
               clientId : ClientId \cup {None},
               target   : Session \cup {None},
               sequence : Nat,
               expires  : Nat]

EventType == {"comm.request", "comm.activated", "comm.declined", "comm.revoked",
              "comm.expired", "message.dispatch"}
Event == [type : EventType, comm : Comm, msg : Msg \cup {None}]

RowsOK ==
  /\ now \in 0..MaxTime
  /\ registered \subseteq Endpoint
  /\ session \in [Session -> {"none", "open", "closed"}]
  /\ inbound \subseteq Session
  /\ defaultRoute \in [Principal -> Session \cup {None}]
  /\ offer \in [Offer -> OfferRow]
  /\ comm \in [Comm -> CommRow]
  /\ message \in [Msg -> MessageRow]

TypeOK == RowsOK /\ events \in [Endpoint -> Seq(Event)]

Init ==
  /\ now = 0
  /\ registered = {}
  /\ session = [s \in Session |-> "none"]
  /\ inbound = {}
  /\ defaultRoute = [p \in Principal |-> None]
  /\ offer = [o \in Offer |-> [state |-> "none", audience |-> None, session |-> None,
                               expires |-> 0]]
  /\ comm = [c \in Comm |-> [status |-> "none", requester |-> None, recipient |-> None,
                             kind |-> None, offer |-> None, reply |-> None, route |-> None,
                             ttl |-> 0, requestExpires |-> 0, grantExpires |-> 0]]
  /\ message = [m \in Msg |-> [status |-> "none", comm |-> None, sender |-> None,
                               clientId |-> None, target |-> None, sequence |-> 0,
                               expires |-> 0]]
  /\ events = [e \in Endpoint |-> <<>>]

-------------------------------------------------------------------------------
(* Endpoints, sessions, default routes and offers.                         *)

SessionOwner(s) == OwnerOf[HostOf[s]]

\* The session may be published, offered and granted.
TakesInbound(s) == session[s] = "open" /\ s \in inbound

Register(e) ==
  /\ e \notin registered
  /\ registered' = registered \cup {e}
  /\ UNCHANGED <<now, session, inbound, defaultRoute, offer, comm, message, events>>

RegisterSession(s, state, allow) ==
  /\ session[s] = "none"
  /\ HostOf[s] \in registered
  /\ session' = [session EXCEPT ![s] = state]
  /\ inbound' = IF allow THEN inbound \cup {s} ELSE inbound
  /\ UNCHANGED <<now, registered, defaultRoute, offer, comm, message, events>>

\* The owning bridge patches the session's state or allow_inbound;
\* closeSession is the case state = "closed", allow = FALSE.
UpdateSession(s, state, allow) ==
  /\ session[s] # "none"
  /\ session' = [session EXCEPT ![s] = state]
  /\ inbound' = IF allow THEN inbound \cup {s} ELSE inbound \ {s}
  /\ UNCHANGED <<now, registered, defaultRoute, offer, comm, message, events>>

SetDefaultRoute(s) ==
  /\ TakesInbound(s)
  /\ defaultRoute' = [defaultRoute EXCEPT ![SessionOwner(s)] = s]
  /\ UNCHANGED <<now, registered, session, inbound, offer, comm, message, events>>

ClearDefaultRoute(p) ==
  /\ defaultRoute' = [defaultRoute EXCEPT ![p] = None]
  /\ UNCHANGED <<now, registered, session, inbound, offer, comm, message, events>>

CreateOffer(o, s, audience) ==
  /\ offer[o].state = "none"
  /\ TakesInbound(s)
  /\ offer' = [offer EXCEPT ![o] = [state |-> "live", audience |-> audience, session |-> s,
                                    expires |-> now + OfferTtl]]
  /\ UNCHANGED <<now, registered, session, inbound, defaultRoute, comm, message, events>>

RevokeOffer(o) ==
  /\ offer[o].state = "live"
  /\ offer' = [offer EXCEPT ![o].state = "revoked"]
  /\ UNCHANGED <<now, registered, session, inbound, defaultRoute, comm, message, events>>

\* OfferService.resolve succeeds for this owner and audience.
Resolves(o, owner, audience) ==
  /\ offer[o].state = "live"
  /\ SessionOwner(offer[o].session) = owner
  /\ offer[o].audience = audience
  /\ offer[o].expires > now

-------------------------------------------------------------------------------
(* The event log.                                                          *)

\* The log after ev is appended for every endpoint of p.
Appended(log, p, ev) ==
  [e \in Endpoint |-> IF e \in registered /\ OwnerOf[e] = p
                      THEN Append(log[e], ev) ELSE log[e]]

CommEvent(type, c) == [type |-> type, comm |-> c, msg |-> None]

\* Mutant of Announced: the requester is not told.
AnnouncedToRecipient(log, type, c) ==
  Appended(log, comm[c].recipient, CommEvent(type, c))

\* The log after both parties of c are told; a principal who is both parties
\* is told twice.
Announced(log, type, c) ==
  Appended(Appended(log, comm[c].requester, CommEvent(type, c)),
           comm[c].recipient, CommEvent(type, c))

-------------------------------------------------------------------------------
(* Communication sessions.                                                 *)

\* The request or the grant has passed its deadline; the next lookup of the
\* session writes that down.
Due(c) ==
  \/ comm[c].status = "pending" /\ comm[c].requestExpires <= now
  \/ comm[c].status = "active"  /\ comm[c].grantExpires <= now

\* The message rows after the grants in S ended.
ClosedDeliveries(S, why) ==
  [m \in Msg |-> IF message[m].comm \in S
                 THEN [message[m] EXCEPT !.status = ClosedBy(@, why)]
                 ELSE message[m]]

Request(c, reply, recipient, o, ttl) ==
  /\ comm[c].status = "none"
  /\ session[reply] = "open"
  /\ o # None => Resolves(o, recipient, SessionOwner(reply))
  /\ comm' = [comm EXCEPT ![c] =
       [status |-> "pending", requester |-> SessionOwner(reply), recipient |-> recipient,
        kind |-> IF o = None THEN "person_default_runtime" ELSE "runtime_session",
        offer |-> o, reply |-> reply, route |-> None,
        ttl |-> IF ttl > MaxGrantTtl THEN MaxGrantTtl ELSE ttl,
        requestExpires |-> now + RequestTtl, grantExpires |-> 0]]
  /\ events' = Appended(events, recipient, CommEvent("comm.request", c))
  /\ UNCHANGED <<now, registered, session, inbound, defaultRoute, offer, message>>

\* The route the recipient's acceptance resolves c to, or None.
RouteFor(c) ==
  IF comm[c].kind = "person_default_runtime" THEN defaultRoute[comm[c].recipient]
  ELSE IF Resolves(comm[c].offer, comm[c].recipient, comm[c].requester)
       THEN offer[comm[c].offer].session ELSE None

\* Active grants whose frozen route is s.
HoldersOf(s) == {c \in Comm : comm[c].status = "active" /\ comm[c].route = s}

\* The holders that expireActiveGrantsForRoute finds past their deadline.
StaleOn(s) == {c \in HoldersOf(s) : comm[c].grantExpires <= now}

\* Mutant of RouteTaken: grants are compared with those of their kind.
RouteTakenByKind(c, s, t) ==
  \E d \in HoldersOf(s) \ {c} : comm[d].kind = comm[c].kind /\ comm[d].grantExpires > t

\* A live holder, other than c, at time t: the acceptance of c is refused.
RouteTaken(c, s, t) == \E d \in HoldersOf(s) \ {c} : comm[d].grantExpires > t

\* The orders in which the rows of a query may come back.
Orders(S) == {q \in [1..Cardinality(S) -> S] : \A i, j \in DOMAIN q : q[i] = q[j] => i = j}

\* accept.  It reads the clock once to expire the stale holders of the route
\* and again to look for a live one, so time may pass between the two.  A
\* refused acceptance has still expired the stale holders.
Accept(c, s, t) ==
  /\ comm[c].status = "pending" /\ ~Due(c)
  /\ s = RouteFor(c) /\ s # None
  /\ SessionOwner(s) = comm[c].recipient
  /\ TakesInbound(s)
  /\ t \in now..MaxTime
  /\ now' = t
  /\ \E order \in Orders(StaleOn(s)) :
       LET told[i \in 0..Cardinality(StaleOn(s))] ==
             IF i = 0 THEN events ELSE Announced(told[i - 1], "comm.expired", order[i])
           expired == [d \in Comm |-> IF d \in StaleOn(s)
                                      THEN [comm[d] EXCEPT !.status = "expired"]
                                      ELSE comm[d]]
           log == told[Cardinality(StaleOn(s))]
       IN IF RouteTaken(c, s, t)
          THEN /\ StaleOn(s) # {}
               /\ comm' = expired
               /\ events' = log
          ELSE /\ comm' = [expired EXCEPT ![c].status = "active", ![c].route = s,
                                          ![c].grantExpires = t + comm[c].ttl]
               /\ events' = Announced(log, "comm.activated", c)
  /\ message' = ClosedDeliveries(StaleOn(s), "expired")
  /\ UNCHANGED <<registered, session, inbound, defaultRoute, offer>>

\* Mutant of Decline: a status of the deliveries table.
DeclineAsRejected(c) ==
  /\ comm[c].status = "pending" /\ ~Due(c)
  /\ comm' = [comm EXCEPT ![c].status = "rejected"]
  /\ events' = Appended(events, comm[c].requester, CommEvent("comm.declined", c))
  /\ UNCHANGED <<now, registered, session, inbound, defaultRoute, offer, message>>

Decline(c) ==
  /\ comm[c].status = "pending" /\ ~Due(c)
  /\ comm' = [comm EXCEPT ![c].status = "declined"]
  /\ events' = Appended(events, comm[c].requester, CommEvent("comm.declined", c))
  /\ UNCHANGED <<now, registered, session, inbound, defaultRoute, offer, message>>

\* Either participant ends the grant.
Revoke(c) ==
  /\ comm[c].status = "active" /\ ~Due(c)
  /\ comm' = [comm EXCEPT ![c].status = "revoked"]
  /\ message' = ClosedDeliveries({c}, "revoked")
  /\ events' = Announced(events, "comm.revoked", c)
  /\ UNCHANGED <<now, registered, session, inbound, defaultRoute, offer>>

\* Any lookup of a due session: list, getVisible, requireActive, and the
\* refusing outcomes of accept, decline, revoke, send and validateInjection.
ExpireIfNeeded(c) ==
  /\ Due(c)
  /\ comm' = [comm EXCEPT ![c].status = "expired"]
  /\ message' = ClosedDeliveries({c}, "expired")
  /\ events' = Announced(events, "comm.expired", c)
  /\ UNCHANGED <<now, registered, session, inbound, defaultRoute, offer>>

-------------------------------------------------------------------------------
(* Messages.                                                               *)

\* Mutant of Duplicate: inbox messages are not looked at.
DuplicateInGrants(p, k) ==
  \E m \in Msg : message[m].sender = p /\ message[m].clientId = k /\ message[m].comm # None

\* findDuplicate: the sender already used this clientMessageId.
Duplicate(p, k) ==
  \E m \in Msg : message[m].sender = p /\ message[m].clientId = k

\* Mutant of TargetFor: the recipient's current default route wins.
TargetForCurrentRoute(c, p) ==
  LET current == defaultRoute[comm[c].recipient]
  IN IF p # comm[c].requester THEN comm[c].reply
     ELSE IF current = None THEN comm[c].route ELSE current

\* Where a message of p goes: the frozen route, or back to the frozen reply
\* route of the requester.
TargetFor(c, p) == IF p = comm[c].requester THEN comm[c].route ELSE comm[c].reply

\* Mutant of NextSequence: it counts the open messages.
NextSequenceOfOpen(c) ==
  Cardinality({m \in Msg : message[m].comm = c /\ message[m].status \in OpenStatus}) + 1

\* COALESCE(MAX(sequence), 0) + 1 over the messages of the session.
NextSequence(c) ==
  CHOOSE n \in 1..(Cardinality(Msg) + 1) :
    /\ \A m \in Msg : message[m].comm = c => message[m].sequence < n
    /\ n = 1 \/ \E m \in Msg : message[m].comm = c /\ message[m].sequence = n - 1

\* A send with a new clientMessageId; a repeated one changes nothing.
Send(m, p, c, k) ==
  /\ message[m].status = "none"
  /\ ~Duplicate(p, k)
  /\ comm[c].status = "active" /\ ~Due(c)
  /\ p \in {comm[c].requester, comm[c].recipient}
  /\ message' = [message EXCEPT ![m] =
       [status |-> "queued", comm |-> c, sender |-> p, clientId |-> k,
        target |-> TargetFor(c, p), sequence |-> NextSequence(c),
        expires |-> comm[c].grantExpires]]
  /\ events' = [events EXCEPT ![HostOf[TargetFor(c, p)]] =
       Append(@, [type |-> "message.dispatch", comm |-> c, msg |-> m])]
  /\ UNCHANGED <<now, registered, session, inbound, defaultRoute, offer, comm>>

\* A message to a person's cloud inbox: no grant, no endpoint, no event.
SendInbox(m, p, k) ==
  /\ message[m].status = "none"
  /\ ~Duplicate(p, k)
  /\ message' = [message EXCEPT ![m].status = "inbox_persisted", ![m].sender = p,
                                ![m].clientId = k, ![m].sequence = 1]
  /\ UNCHANGED <<now, registered, session, inbound, defaultRoute, offer, comm, events>>

\* The stream wrote the dispatch event of m to its endpoint.
MarkDispatched(m) ==
  /\ message[m].status = "queued"
  /\ message' = [message EXCEPT ![m].status = Dispatched(@)]
  /\ UNCHANGED <<now, registered, session, inbound, defaultRoute, offer, comm, events>>

\* The device that owns the delivery's endpoint reports a phase.  The grant is
\* not looked up: a grant past its deadline is not expired by an
\* acknowledgement.
Acknowledge(m, phase) ==
  /\ message[m].target # None
  /\ message' = [message EXCEPT ![m].status = Acknowledged(@, phase)]
  /\ UNCHANGED <<now, registered, session, inbound, defaultRoute, offer, comm, events>>

Tick ==
  /\ now < MaxTime
  /\ now' = now + 1
  /\ UNCHANGED <<registered, session, inbound, defaultRoute, offer, comm, message, events>>

-------------------------------------------------------------------------------

Next ==
  \/ \E e \in Endpoint : Register(e)
  \/ \E s \in Session, state \in {"open", "closed"}, allow \in BOOLEAN :
       RegisterSession(s, state, allow) \/ UpdateSession(s, state, allow)
  \/ \E s \in Session : SetDefaultRoute(s)
  \/ \E p \in Principal : ClearDefaultRoute(p)
  \/ \E o \in Offer, s \in Session, p \in Principal : CreateOffer(o, s, p)
  \/ \E o \in Offer : RevokeOffer(o)
  \/ \E c \in Comm, s \in Session, p \in Principal, o \in Offer \cup {None}, n \in TtlChoice :
       Request(c, s, p, o, n)
  \/ \E c \in Comm, s \in Session, t \in 0..MaxTime : Accept(c, s, t)
  \/ \E c \in Comm : Decline(c) \/ Revoke(c) \/ ExpireIfNeeded(c)
  \/ \E m \in Msg, p \in Principal, k \in ClientId :
       SendInbox(m, p, k) \/ \E c \in Comm : Send(m, p, c, k)
  \/ \E m \in Msg : MarkDispatched(m) \/ \E phase \in Phase : Acknowledge(m, phase)
  \/ Tick

Spec == Init /\ [][Next]_vars

-------------------------------------------------------------------------------
(* Properties.                                                             *)

\* A runtime session is the frozen target of at most one grant that is still
\* within its lifetime (accept refuses with runtime_session_already_granted),
\* whichever way each grant resolved its route and however time passes between
\* the two queries of an acceptance.
OneLiveGrantPerRoute ==
  \A c, d \in Comm :
    /\ c # d
    /\ comm[c].status = "active" /\ comm[c].grantExpires > now
    /\ comm[d].status = "active" /\ comm[d].grantExpires > now
    => comm[c].route # comm[d].route

\* Once a grant is revoked, expired or was never given, no message sent under
\* it can still be acted upon: revoke, expireIfNeeded and accept close every
\* open delivery in the transaction that ends the grant.
NoOpenDeliveryUnderEndedGrant ==
  \A m \in Msg :
    message[m].status \in OpenStatus => comm[message[m].comm].status = "active"

\* A message goes to the route frozen when its grant was accepted, or back to
\* the reply route frozen when it was requested, even after the default route
\* moved or the offer was withdrawn (SPEC section 4, route freeze).
MessagesStayOnFrozenRoutes ==
  \A m \in Msg :
    message[m].comm # None =>
      LET c == comm[message[m].comm]
      IN message[m].target = IF message[m].sender = c.requester THEN c.route ELSE c.reply

\* The messages of a session, in both directions and whatever became of them,
\* are numbered 1..n without a gap or a repetition: the bridge orders its
\* injections by these numbers.
SequencesAreDense ==
  \A c \in Comm :
    LET sent == {m \in Msg : message[m].comm = c}
    IN /\ \A m \in sent : message[m].sequence \in 1..Cardinality(sent)
       /\ \A m, n \in sent : message[m].sequence = message[n].sequence => m = n

\* clientMessageId is the idempotency key of a sender across inbox and
\* grant-scoped messages: a retried send never inserts a second message.
OneMessagePerClientId ==
  \A m, n \in Msg :
    /\ message[m].status # "none" /\ message[n].status # "none"
    /\ message[m].sender = message[n].sender
    /\ message[m].clientId = message[n].clientId
    => m = n

\* What a bridge may rely on when it replays its log from any cursor: a dispatch
\* comes after the activation of its grant and never after its end, on the log
\* of the endpoint that hosts its target, in increasing sequence.
LogIsTruthful ==
  \A e \in Endpoint : \A i \in DOMAIN events[e] :
    LET ev == events[e][i]
        earlier == {events[e][j] : j \in 1..(i - 1)}
    IN ev.type = "message.dispatch" =>
         /\ HostOf[message[ev.msg].target] = e
         /\ CommEvent("comm.activated", ev.comm) \in earlier
         /\ CommEvent("comm.revoked", ev.comm) \notin earlier
         /\ CommEvent("comm.expired", ev.comm) \notin earlier
         /\ \A old \in earlier :
              old.type = "message.dispatch" /\ old.comm = ev.comm
              => message[old.msg].sequence < message[ev.msg].sequence

\* The control plane implements the abstract promise: a session that was
\* declined, revoked or expired has ended; a message is open while its
\* delivery is, and inbox messages are no part of it.
Lifecycle == INSTANCE DeliveryLifecycle WITH
  NoComm   <- None,
  grant    <- [c \in Comm |-> IF comm[c].status \in {"none", "pending", "active"}
                              THEN comm[c].status ELSE "ended"],
  home     <- [m \in Msg |-> message[m].comm],
  delivery <- [m \in Msg |->
                 CASE message[m].status \in {"none", "inbox_persisted"} -> "none"
                   [] message[m].status \in OpenStatus -> "open"
                   [] message[m].status = "runtime_acked" -> "accepted"
                   [] OTHER -> "dead"]

ImplementsLifecycle == Lifecycle!Spec
===============================================================================
