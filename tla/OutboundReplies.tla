--------------------------- MODULE OutboundReplies ---------------------------
(***************************************************************************)
(* Replies on their way from the runtime to the control plane.  One loop   *)
(* per managed session reads the adapter's events after a saved cursor and *)
(* stores the replies; one loop of the bridge sends what is stored, in the *)
(* order of the table.  An ended collaboration fails what waits.           *)
(***************************************************************************)
EXTENDS Integers, Sequences, FiniteSets, SequenceRows

CONSTANTS
    Streams,      \* managed sessions of the runtime
    None,
    MaxEvents,    \* bound: events of all sessions
    MaxFaults     \* bound: failed hooks, lost or refused sends, ended collaborations, kills

VARIABLES
    log,       \* the adapter's events of each session, kept in its database
    cursor,    \* adapter_cursors
    storing,   \* sessions whose head event is handled, but its cursor not saved
    table,     \* outbound_replies in the order of rowid: [id, status]
    todo,      \* rows the sending loop has read and not yet tried
    sending,   \* the row in flight
    answer,    \* what came back for it
    received,  \* the control plane's messages, by event id, in the order of their first receipt
    collab,    \* sessions whose collaboration has not ended
    faults

vars == <<log, cursor, storing, table, todo, sending, answer, received, collab, faults>>

Kinds == {"reply", "other"}
Ids == Streams \X (1 .. MaxEvents)
Emitted == {id \in Ids : id[2] <= Len(log[id[1]])}
Statuses == {"pending", "sent", "failed"}

TypeOK ==
    /\ \A n \in Streams : log[n] \in Seq(Kinds) /\ cursor[n] \in 0 .. Len(log[n])
    /\ storing \subseteq Streams
    /\ \A i \in DOMAIN table : table[i] \in [id: Ids, status: Statuses]
    /\ \A i \in DOMAIN todo : todo[i] \in Ids
    /\ sending \in Ids \cup {None}
    /\ answer \in {None, "ok", "terminal", "retry"}
    /\ collab \subseteq Streams

Init ==
    /\ log = [n \in Streams |-> <<>>] /\ cursor = [n \in Streams |-> 0] /\ storing = {}
    /\ table = <<>> /\ todo = <<>> /\ sending = None /\ answer = None
    /\ received = <<>> /\ collab = Streams /\ faults = 0

Fault == faults < MaxFaults /\ faults' = faults + 1

-----------------------------------------------------------------------------
(* Reading the adapter's events. *)

\* The runtime replies; or its turn fails, or it replies to what takes no answer or is not in the spool.
Emit(n, kind) ==
    /\ Cardinality(Emitted) < MaxEvents
    /\ log' = [log EXCEPT ![n] = Append(@, kind)]
    /\ UNCHANGED <<cursor, storing, table, todo, sending, answer, received, collab, faults>>

HeadEvent(n) == log[n][cursor[n] + 1]
EventId(n) == <<n, cursor[n] + 1>>
Stored(id) == \E i \in DOMAIN table : table[i].id = id

\* INSERT OR IGNORE by event id: an event read again does not make a second row.
StoreOutboundReply(id) ==
    table' = IF Stored(id) THEN table ELSE Append(table, [id |-> id, status |-> "pending"])

\* The head event is handled; only a reply that is wanted leaves a row.
HandleEvent(n) ==
    /\ n \notin storing /\ cursor[n] < Len(log[n])
    /\ IF HeadEvent(n) = "reply" THEN StoreOutboundReply(EventId(n)) ELSE UNCHANGED table
    /\ storing' = storing \cup {n}
    /\ UNCHANGED <<log, cursor, todo, sending, answer, received, collab, faults>>

\* As the control plane's events are handled: a bad event is skipped.
EgressSkips(n) ==
    /\ Fault
    /\ n \notin storing /\ cursor[n] < Len(log[n]) /\ HeadEvent(n) = "reply"
    /\ storing' = storing \cup {n}
    /\ UNCHANGED <<log, cursor, table, todo, sending, answer, received, collab>>

\* beforeMessageEgress throws: the stream is opened again at the same cursor.
EgressFails(n) ==
    /\ Fault
    /\ n \notin storing /\ cursor[n] < Len(log[n]) /\ HeadEvent(n) = "reply"
    /\ UNCHANGED <<log, cursor, storing, table, todo, sending, answer, received, collab>>

SaveAdapterCursor(n) ==
    /\ n \in storing
    /\ cursor' = [cursor EXCEPT ![n] = @ + 1]
    /\ storing' = storing \ {n}
    /\ UNCHANGED <<log, table, todo, sending, answer, received, collab, faults>>

-----------------------------------------------------------------------------
(* Sending. *)

PendingIds ==
    LET waiting == Kept(table, [id: Ids, status: {"pending"}]) IN [i \in DOMAIN waiting |-> waiting[i].id]

ListPending ==
    /\ todo = <<>> /\ sending = None
    /\ PendingIds # <<>>
    /\ todo' = PendingIds
    /\ UNCHANGED <<log, cursor, storing, table, sending, answer, received, collab, faults>>

SendNext ==
    /\ sending = None /\ todo # <<>>
    /\ sending' = Head(todo) /\ todo' = Tail(todo)
    /\ UNCHANGED <<log, cursor, storing, table, answer, received, collab, faults>>

\* The control plane stores the message, once per clientMessageId.
Receive ==
    received' = IF \E i \in DOMAIN received : received[i] = sending THEN received ELSE Append(received, sending)

Accepted ==
    /\ sending # None /\ answer = None
    /\ Receive /\ answer' = "ok"
    /\ UNCHANGED <<log, cursor, storing, table, todo, sending, collab, faults>>

\* Refused for good (4xx), or for now (408, 429, 5xx, no answer, with or without effect).
NotAccepted ==
    /\ Fault
    /\ sending # None /\ answer = None
    /\ \/ answer' \in {"terminal", "retry"} /\ UNCHANGED received
       \/ answer' = "retry" /\ Receive
    /\ UNCHANGED <<log, cursor, storing, table, todo, sending, collab>>

SetStatus(id, status) ==
    table' = [i \in DOMAIN table |-> IF table[i].id = id THEN [table[i] EXCEPT !.status = status] ELSE table[i]]

MarkOutboundSent ==
    /\ answer = "ok" /\ SetStatus(sending, "sent")
    /\ UNCHANGED todo

\* The pass goes on after a send that must be repeated.
AttemptWithoutBreak ==
    /\ answer \in {"terminal", "retry"}
    /\ SetStatus(sending, IF answer = "terminal" THEN "failed" ELSE "pending")
    /\ UNCHANGED todo

\* A refusal for now ends the pass: later rows must not overtake this one.
MarkOutboundAttempt ==
    \/ answer = "terminal" /\ SetStatus(sending, "failed") /\ UNCHANGED todo
    \/ answer = "retry" /\ SetStatus(sending, "pending") /\ todo' = <<>>

Recorded ==
    /\ MarkOutboundSent \/ MarkOutboundAttempt
    /\ sending' = None /\ answer' = None
    /\ UNCHANGED <<log, cursor, storing, received, collab, faults>>

\* blockCollaboration: what waits fails, what the sending loop has read is sent all the same.
BlockCollaboration(n) ==
    /\ Fault
    /\ n \in collab /\ collab' = collab \ {n}
    /\ table' = [i \in DOMAIN table |-> IF table[i].id[1] = n /\ table[i].status = "pending"
                                        THEN [table[i] EXCEPT !.status = "failed"] ELSE table[i]]
    /\ UNCHANGED <<log, cursor, storing, todo, sending, answer, received>>

\* The bridge is killed, a request in flight may or may not arrive.
Crash ==
    /\ Fault
    /\ storing' = {} /\ todo' = <<>> /\ sending' = None /\ answer' = None
    /\ UNCHANGED <<log, cursor, table, collab>>
    /\ \/ UNCHANGED received
       \/ sending # None /\ answer = None /\ Receive

Next ==
    \/ \E n \in Streams : \/ \E kind \in Kinds : Emit(n, kind)
                          \/ HandleEvent(n) \/ EgressFails(n) \/ SaveAdapterCursor(n)
                          \/ BlockCollaboration(n)
    \/ ListPending \/ SendNext \/ Accepted \/ NotAccepted \/ Recorded \/ Crash

Fairness ==
    /\ \A n \in Streams : WF_vars(HandleEvent(n)) /\ WF_vars(SaveAdapterCursor(n))
    /\ WF_vars(ListPending) /\ WF_vars(SendNext) /\ WF_vars(Accepted) /\ WF_vars(Recorded)

Spec == Init /\ [][Next]_vars /\ Fairness

-----------------------------------------------------------------------------
(* Properties. *)

\* The control plane gets the replies of a session in the order the runtime gave them: the
\* table keeps the order, a pass stops at a send that must be repeated, a replay adds nothing.
RepliesInOrder ==
    \A i, j \in DOMAIN received :
        i < j /\ received[i][1] = received[j][1] => received[i][2] < received[j][2]

\* A reply the runtime gave is sent or refused for good, through reconnections and kills:
\* the cursor passes it only when it is stored.
Handed == {id \in Emitted : log[id[1]][id[2]] = "reply"}
Done == {table[i].id : i \in {j \in DOMAIN table : table[j].status # "pending"}}
RepliesSettle == []<>(Handed \subseteq Done)

=============================================================================
