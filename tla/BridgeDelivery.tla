---------------------------- MODULE BridgeDelivery ----------------------------
(***************************************************************************)
(* One bridge injecting the messages addressed to it: the event loop that  *)
(* spools and blocks, the injector that validates, delivers and reports,   *)
(* the durable spool between them, and the control plane at the other end  *)
(* of an unreliable connection.                                            *)
(*                                                                         *)
(* The two loops share one thread and interleave at every await.  A step   *)
(* of the bridge is the code from one await to the next.  A request is     *)
(* processed by the control plane in a step of its own; the bridge then    *)
(* sees the answer, or an error whether or not it was processed, and an    *)
(* abandoned acknowledgement may still be processed later.                 *)
(*                                                                         *)
(* The process may die between any two steps.  The spool and the cursor    *)
(* survive; the queues, the pending requests and the runtime do not.       *)
(*                                                                         *)
(* Left out: payloads, result codes, telemetry, the grant cache (nothing   *)
(* reads it), delegations and outbound replies, the bridge's clock         *)
(* differing from the server's.                                            *)
(***************************************************************************)
EXTENDS Naturals, Sequences, SequencesExt, FiniteSets, DeliveryTable, SequenceRows

CONSTANTS
  Comm,         \* communication sessions whose grants were accepted
  Msg,          \* messages addressed to this bridge
  CommOf,       \* [Msg -> Comm]
  SequenceOf,   \* [Msg -> Nat]: the sequence number within the session
  Unreadable,   \* messages whose dispatch event the handler throws on
  Collaborating,\* sessions whose collaboration may complete before the grant ends
  None,         \* no message
  MaxAttempts,  \* MAX_INJECTION_ATTEMPTS
  MaxCrash,     \* bound: how often the process dies
  MaxPush       \* bound: how often a message is put in the runtime's queue

ASSUME MessageAssumption ==
  /\ CommOf \in [Msg -> Comm]
  /\ SequenceOf \in [Msg -> Nat]
  /\ \A m, n \in Msg : CommOf[m] = CommOf[n] /\ SequenceOf[m] = SequenceOf[n] => m = n
  /\ Unreadable \subseteq Msg /\ Collaborating \subseteq Comm
  /\ None \notin Msg
ASSUME BoundAssumption == MaxAttempts \in Nat /\ MaxCrash \in Nat /\ MaxPush \in Nat

VARIABLES
  \* the control plane and the network
  grant,        \* [Comm -> {"active", "revoked", "expired"}]
  lapsed,       \* sessions past grantExpiresAt, which is also their messages' expiresAt
  open,         \* the target session is open and allows inbound messages
  delivery,     \* [Msg -> DeliveryStatus]
  log,          \* the endpoint's event log
  late,         \* abandoned acknowledgements the control plane may still process
  \* the spool
  status,       \* [Msg -> SpoolStatus]
  attempts,     \* [Msg -> Nat]: attempt_count
  unreported,   \* injection attempts not reported yet, oldest first
  cursor,       \* the last event handled
  \* the process
  up,           \* the process runs
  known,        \* the target session's handle is in #serverToNative
  crashes,      \* how often it died
  evPc,         \* the event loop: "idle", or awaiting "ack" or "release"
  evAnswer,     \* "none", or "ok" once the awaited request was processed
  pc,           \* the injector: see Pc
  cur,          \* the message the injector works on
  answer,       \* the control plane's or the runtime's answer to the injector
  reports,      \* runOnce's snapshot of unreported
  received,     \* runOnce's snapshot of the rows to acknowledge
  injectable,   \* runOnce's snapshot of the rows to inject
  lapsedThen,   \* lapsed when ackReceived read the clock
  \* history
  pushed,       \* [Msg -> Nat]: how often the message was put in the runtime's queue
  accepted,     \* messages whose turn the runtime accepted in time
  overdue       \* messages pushed after their grant ended

serverVars == <<grant, lapsed, open, delivery, log>>
spoolVars == <<status, attempts, unreported, cursor>>
processVars == <<up, known, crashes>>
eventVars == <<evPc, evAnswer>>
injectorVars == <<pc, cur, answer, reports, received, injectable, lapsedThen>>
historyVars == <<pushed, accepted, overdue>>
vars == <<serverVars, late, spoolVars, processVars, eventVars, injectorVars, historyVars>>

\* "absent" stands for no row.
SpoolStatus == {"absent", "received", "device_acked", "runtime_pending", "injecting",
                "injected_unreported", "injected", "failed", "blocked", "blocked_offline"}
\* Mutant of Injectable: a row that a crash left at injecting is tried again.
InjectableAgain == {"device_acked", "runtime_pending", "blocked_offline", "injecting"}
Injectable == {"device_acked", "runtime_pending", "blocked_offline"}
Settled == {"injected", "failed", "blocked"}

\* Where the injector is.  The last word of a name says what it awaits.
ValidatePc == {"flush_validate", "inject_validate"}
AckPc == {"flush_ack", "receive_ack", "turn_ack", "busy_ack", "retry_ack", "failure_ack"}
Pc == {"idle", "flush", "receive", "inject", "inject_deliver", "deliver_accept"}
      \cup ValidatePc \cup AckPc

Report == [msg : Msg, phase : Phase]
LogEntry == [type : {"dispatch"}, msg : Msg]
            \cup [type : {"closed", "collaboration"}, comm : Comm]

TypeOK ==
  /\ grant \in [Comm -> {"active", "revoked", "expired"}]
  /\ lapsed \subseteq Comm /\ lapsedThen \subseteq Comm
  /\ open \in BOOLEAN /\ up \in BOOLEAN /\ known \in BOOLEAN
  /\ delivery \in [Msg -> DeliveryStatus]
  /\ log \in Seq(LogEntry) /\ cursor \in 0..Len(log)
  /\ late \subseteq Report
  /\ status \in [Msg -> SpoolStatus]
  /\ attempts \in [Msg -> 0..MaxAttempts]
  /\ unreported \in Seq(Report) /\ reports \in Seq(Report)
  /\ crashes \in 0..MaxCrash
  /\ evPc \in {"idle", "ack", "release"} /\ evAnswer \in {"none", "ok"}
  /\ pc \in Pc /\ cur \in Msg \cup {None}
  /\ answer \in {"none", "ok", "valid", "invalid", "accepted"}
  /\ received \subseteq Msg /\ injectable \subseteq Msg
  /\ pushed \in [Msg -> Nat]
  /\ accepted \subseteq Msg
  /\ overdue \subseteq Msg

Init ==
  /\ grant = [c \in Comm |-> "active"]
  /\ lapsed = {} /\ open = TRUE
  /\ delivery = [m \in Msg |-> "none"]
  /\ log = <<>> /\ late = {}
  /\ status = [m \in Msg |-> "absent"]
  /\ attempts = [m \in Msg |-> 0]
  /\ unreported = <<>> /\ cursor = 0
  /\ up = TRUE /\ known = TRUE /\ crashes = 0
  /\ evPc = "idle" /\ evAnswer = "none"
  /\ pc = "idle" /\ cur = None /\ answer = "none"
  /\ reports = <<>> /\ received = {} /\ injectable = {} /\ lapsedThen = {}
  /\ pushed = [m \in Msg |-> 0]
  /\ accepted = {} /\ overdue = {}

-------------------------------------------------------------------------------
(* The control plane (see ControlPlane) as this bridge meets it.           *)

bridgeVars == <<spoolVars, processVars, eventVars, injectorVars, historyVars>>

Send(m) ==
  LET c == CommOf[m]
  IN /\ delivery[m] = "none"
     /\ grant[c] = "active" /\ c \notin lapsed
     /\ \A n \in Msg : CommOf[n] = c /\ SequenceOf[n] < SequenceOf[m] => delivery[n] # "none"
     /\ delivery' = [delivery EXCEPT ![m] = "queued"]
     /\ log' = Append(log, [type |-> "dispatch", msg |-> m])
     /\ UNCHANGED <<grant, lapsed, open, late, bridgeVars>>

\* The stream marks a dispatch after writing it: the bridge may be faster.
MarkDispatched(m) ==
  /\ delivery[m] = "queued"
  /\ delivery' = [delivery EXCEPT ![m] = Dispatched(@)]
  /\ UNCHANGED <<grant, lapsed, open, log, late, bridgeVars>>

\* The clock passes grantExpiresAt; nobody notices yet.
Lapse(c) ==
  /\ grant[c] = "active" /\ c \notin lapsed
  /\ lapsed' = lapsed \cup {c}
  /\ UNCHANGED <<grant, open, delivery, log, late, bridgeVars>>

EndGrant(c, why) ==
  /\ grant' = [grant EXCEPT ![c] = why]
  /\ delivery' = [m \in Msg |-> IF CommOf[m] = c THEN ClosedBy(delivery[m], why)
                                ELSE delivery[m]]
  /\ log' = Append(log, [type |-> "closed", comm |-> c])

Revoke(c) ==
  /\ grant[c] = "active" /\ c \notin lapsed
  /\ EndGrant(c, "revoked")
  /\ UNCHANGED <<lapsed, open, late, bridgeVars>>

\* Somebody else looks the lapsed grant up.
ExpireIfNeeded(c) ==
  /\ grant[c] = "active" /\ c \in lapsed
  /\ EndGrant(c, "expired")
  /\ UNCHANGED <<lapsed, open, late, bridgeVars>>

\* The hosted control plane announces the end of a collaboration.  The grant
\* stands.
CompleteCollaboration(c) ==
  LET event == [type |-> "collaboration", comm |-> c]
  IN /\ c \in Collaborating /\ ~Contains(log, event)
     /\ log' = Append(log, event)
     /\ UNCHANGED <<grant, lapsed, open, delivery, late, bridgeVars>>

\* The owner closes or withholds the target session, or opens it again.
ToggleSession ==
  /\ open' = ~open
  /\ UNCHANGED <<grant, lapsed, delivery, log, late, bridgeVars>>

ProcessLate(r) ==
  /\ r \in late
  /\ late' = late \ {r}
  /\ delivery' = [delivery EXCEPT ![r.msg] = Acknowledged(@, r.phase)]
  /\ UNCHANGED <<grant, lapsed, open, log, bridgeVars>>

\* The acknowledgement the injector awaits.
Request ==
  [msg   |-> cur,
   phase |-> CASE pc = "receive_ack" -> "device_ack"
               [] pc = "flush_ack"   -> Head(reports).phase
               [] pc = "turn_ack"    -> "runtime_ack"
               [] pc \in {"busy_ack", "retry_ack"} -> "runtime_pending"
               [] OTHER -> "runtime_failed"]

\* The device acknowledgement the event loop awaits.
EventRequest == [msg |-> log[cursor + 1].msg, phase |-> "device_ack"]

ServeAcknowledge ==
  /\ pc \in AckPc /\ answer = "none"
  /\ delivery' = [delivery EXCEPT ![cur] = Acknowledged(@, Request.phase)]
  /\ answer' = "ok"
  /\ UNCHANGED <<grant, lapsed, open, log, late, spoolVars, processVars, eventVars,
                 pc, cur, reports, received, injectable, lapsedThen, historyVars>>

ServeEventAcknowledge ==
  /\ evPc = "ack" /\ evAnswer = "none"
  /\ delivery' = [delivery EXCEPT ![EventRequest.msg] = Acknowledged(@, "device_ack")]
  /\ evAnswer' = "ok"
  /\ UNCHANGED <<grant, lapsed, open, log, late, spoolVars, processVars, evPc,
                 injectorVars, historyVars>>

\* Mutant of ServeValidate: the grant is trusted since the message was queued.
ServeValidateSessionOnly ==
  /\ pc \in ValidatePc /\ answer = "none"
  /\ answer' = IF open THEN "valid" ELSE "invalid"
  /\ UNCHANGED <<serverVars, late, spoolVars, processVars, eventVars,
                 pc, cur, reports, received, injectable, lapsedThen, historyVars>>

\* validateInjection.  Looking the grant up expires it when it is due.
ServeValidate ==
  LET c == CommOf[cur]
  IN /\ pc \in ValidatePc /\ answer = "none"
     /\ answer' = IF /\ grant[c] = "active" /\ c \notin lapsed
                     /\ delivery[cur] \notin TerminalStatus
                     /\ open
                  THEN "valid" ELSE "invalid"
     /\ IF grant[c] = "active" /\ c \in lapsed
        THEN EndGrant(c, "expired")
        ELSE UNCHANGED <<grant, delivery, log>>
     /\ UNCHANGED <<lapsed, open, late, spoolVars, processVars, eventVars,
                    pc, cur, reports, received, injectable, lapsedThen, historyVars>>

-------------------------------------------------------------------------------
(* The event loop: one event at a time, the cursor saved after each.       *)

Event == log[cursor + 1]
HasEvent == up /\ evPc = "idle" /\ cursor < Len(log)

\* Mutant of HandleDispatch: an expired message is not stored.
HandleDispatchDropsExpired ==
  /\ HasEvent /\ Event.type = "dispatch"
  /\ LET m == Event.msg
     IN IF m \in Unreadable \/ CommOf[m] \in lapsed
        THEN cursor' = cursor + 1 /\ UNCHANGED <<evPc, status>>
        ELSE /\ evPc' = "ack" /\ UNCHANGED cursor
             /\ status' = [status EXCEPT ![m] = IF @ = "absent" THEN "received" ELSE @]
  /\ UNCHANGED <<serverVars, late, attempts, unreported, processVars, evAnswer,
                 injectorVars, historyVars>>

\* Mutant of HandleDispatch: an event whose handler throws is retried.
HandleDispatchRetries ==
  /\ HasEvent /\ Event.type = "dispatch"
  /\ LET m == Event.msg
     IN /\ status' = IF m \notin Unreadable /\ status[m] = "absent"
                     THEN [status EXCEPT ![m] = "received"] ELSE status
        /\ IF m \in Unreadable THEN UNCHANGED <<cursor, evPc>>
           ELSE IF CommOf[m] \in lapsed THEN cursor' = cursor + 1 /\ UNCHANGED evPc
           ELSE evPc' = "ack" /\ UNCHANGED cursor
  /\ UNCHANGED <<serverVars, late, attempts, unreported, processVars, evAnswer,
                 injectorVars, historyVars>>

\* A device acknowledgement is awaited before the cursor moves, unless the
\* message has expired.  A handler that throws only moves the cursor.
HandleDispatch ==
  /\ HasEvent /\ Event.type = "dispatch"
  /\ LET m == Event.msg
     IN /\ status' = IF m \notin Unreadable /\ status[m] = "absent"
                     THEN [status EXCEPT ![m] = "received"] ELSE status
        /\ IF m \in Unreadable \/ CommOf[m] \in lapsed
           THEN cursor' = cursor + 1 /\ UNCHANGED evPc
           ELSE evPc' = "ack" /\ UNCHANGED cursor
  /\ UNCHANGED <<serverVars, late, attempts, unreported, processVars, evAnswer,
                 injectorVars, historyVars>>

FinishEvent ==
  /\ evPc' = "idle" /\ evAnswer' = "none"
  /\ cursor' = cursor + 1
  /\ UNCHANGED <<serverVars, attempts, unreported, processVars,
                 injectorVars, historyVars>>

EventAcknowledged ==
  /\ evPc = "ack" /\ evAnswer = "ok"
  /\ status' = [status EXCEPT ![Event.msg] = IF @ = "received" THEN "device_acked" ELSE @]
  /\ FinishEvent /\ UNCHANGED late

\* Mutant of EventAcknowledgeFails: the row advances although the request failed.
EventAcknowledgeFailsSilently ==
  /\ evPc = "ack"
  /\ late' = IF evAnswer = "none" THEN late \cup {EventRequest} ELSE late
  /\ status' = [status EXCEPT ![Event.msg] = IF @ = "received" THEN "device_acked" ELSE @]
  /\ FinishEvent

EventAcknowledgeFails ==
  /\ evPc = "ack"
  /\ late' = IF evAnswer = "none" THEN late \cup {EventRequest} ELSE late
  /\ FinishEvent /\ UNCHANGED status

\* Mutant of BlockCommunicationSession: only the rows still to be injected.
BlockInjectable ==
  /\ HasEvent /\ Event.type \in {"closed", "collaboration"}
  /\ LET c == Event.comm
     IN /\ status' = [m \in Msg |-> IF CommOf[m] = c /\ status[m] \in Injectable \cup {"received"}
                                    THEN "blocked" ELSE status[m]]
        /\ unreported' = Kept(unreported, {r \in Report : CommOf[r.msg] # c})
  /\ evPc' = "release"
  /\ UNCHANGED <<serverVars, late, attempts, cursor, processVars, evAnswer,
                 injectorVars, historyVars>>

\* The rows of c are blocked and their reports dropped before the runtime is
\* asked to release the session.  A completed collaboration blocks the sessions
\* it has rows in, which comes to the same.
BlockCommunicationSession ==
  /\ HasEvent /\ Event.type \in {"closed", "collaboration"}
  /\ LET c == Event.comm
     IN /\ status' = [m \in Msg |-> IF CommOf[m] = c /\ status[m] \notin Settled \cup {"absent"}
                                    THEN "blocked" ELSE status[m]]
        /\ unreported' = Kept(unreported, {r \in Report : CommOf[r.msg] # c})
  /\ evPc' = "release"
  /\ UNCHANGED <<serverVars, late, attempts, cursor, processVars, evAnswer,
                 injectorVars, historyVars>>

\* releaseCommunicationSession returned or threw.
Released ==
  /\ evPc = "release"
  /\ FinishEvent /\ UNCHANGED <<late, status>>

EventLoop ==
  \/ HandleDispatch \/ EventAcknowledged \/ EventAcknowledgeFails
  \/ BlockCommunicationSession \/ Released

-------------------------------------------------------------------------------
(* The injector.                                                           *)

\* markResult overwrites the row whatever its status is.
MarkResult(m, s) == status' = [status EXCEPT ![m] = s]

\* The message at hand is done with; the loop at p goes on.
Proceed(p) == pc' = p /\ cur' = None /\ answer' = "none"

Await(p, m) == pc' = p /\ cur' = m /\ answer' = "none"

\* Mutant of ListInjectable: only injectable rows hold back later ones.
ListInjectablePastReceived ==
  {m \in Msg : /\ status[m] \in Injectable
               /\ \A n \in Msg : CommOf[n] = CommOf[m] /\ SequenceOf[n] < SequenceOf[m]
                                 => status[n] \notin Injectable}

\* Injectable rows with no earlier unsettled row in their session.
ListInjectable ==
  {m \in Msg : /\ status[m] \in Injectable
               /\ \A n \in Msg : CommOf[n] = CommOf[m] /\ SequenceOf[n] < SequenceOf[m]
                                 => status[n] \in Settled \cup {"absent"}}

\* runOnce reads its three lists before the first await.
RunOnce ==
  /\ up /\ pc = "idle"
  /\ reports' = unreported
  /\ received' = {m \in Msg : status[m] = "received"}
  /\ injectable' = ListInjectable
  /\ unreported # <<>> \/ received' # {} \/ injectable' # {}
  /\ Proceed("flush")
  /\ UNCHANGED <<serverVars, late, spoolVars, processVars, eventVars, lapsedThen, historyVars>>

\* flushPendingReports, one report per round; any failed request ends it.
FlushNext ==
  /\ pc = "flush" /\ reports # <<>>
  /\ LET r == Head(reports)
     IN IF status[r.msg] = "blocked"
        THEN /\ unreported' = RemoveFirst(unreported, r)
             /\ reports' = Tail(reports)
             /\ UNCHANGED <<pc, cur, answer>>
        ELSE /\ Await("flush_validate", r.msg)
             /\ UNCHANGED <<unreported, reports>>
  /\ UNCHANGED <<serverVars, late, status, attempts, cursor, processVars, eventVars,
                 received, injectable, lapsedThen, historyVars>>

FlushValidated ==
  /\ pc = "flush_validate" /\ answer \in {"valid", "invalid"}
  /\ IF answer = "valid"
     THEN /\ Await("flush_ack", cur)
          /\ UNCHANGED <<status, unreported, reports>>
     ELSE /\ MarkResult(cur, "blocked")
          /\ unreported' = RemoveFirst(unreported, Head(reports))
          /\ reports' = Tail(reports)
          /\ Proceed("flush")
  /\ UNCHANGED <<serverVars, late, attempts, cursor, processVars, eventVars,
                 received, injectable, lapsedThen, historyVars>>

FlushAcknowledged ==
  /\ pc = "flush_ack" /\ answer = "ok"
  /\ IF Head(reports).phase = "runtime_ack"
     THEN MarkResult(cur, "injected")
     ELSE UNCHANGED status
  /\ unreported' = RemoveFirst(unreported, Head(reports))
  /\ reports' = Tail(reports)
  /\ Proceed("flush")
  /\ UNCHANGED <<serverVars, late, attempts, cursor, processVars, eventVars,
                 received, injectable, lapsedThen, historyVars>>

FlushDone ==
  /\ pc = "flush" /\ reports = <<>>
  /\ lapsedThen' = lapsed
  /\ Proceed("receive")
  /\ UNCHANGED <<serverVars, late, spoolVars, processVars, eventVars, reports, received,
                 injectable, historyVars>>

\* ackReceived, in the order of the sequence numbers.
ReceiveNext(m) ==
  /\ pc = "receive" /\ m \in received
  /\ \A n \in received : SequenceOf[m] <= SequenceOf[n]
  /\ received' = received \ {m}
  /\ IF CommOf[m] \in lapsedThen
     THEN MarkResult(m, "blocked") /\ UNCHANGED <<pc, cur, answer>>
     ELSE Await("receive_ack", m) /\ UNCHANGED status
  /\ UNCHANGED <<serverVars, late, attempts, unreported, cursor, processVars, eventVars,
                 reports, injectable, lapsedThen, historyVars>>

ReceiveAcknowledged ==
  /\ pc = "receive_ack" /\ answer = "ok"
  /\ status' = [status EXCEPT ![cur] = IF @ = "received" THEN "device_acked" ELSE @]
  /\ Proceed("receive")
  /\ UNCHANGED <<serverVars, late, attempts, unreported, cursor, processVars, eventVars,
                 reports, received, injectable, lapsedThen, historyVars>>

ReceiveDone ==
  /\ pc = "receive" /\ received = {}
  /\ lapsedThen' = {}
  /\ Proceed("inject")
  /\ UNCHANGED <<serverVars, late, spoolVars, processVars, eventVars, reports, received,
                 injectable, historyVars>>

\* recordAttempt and markResult, then the acknowledgement is awaited at p.
Record(m, phase, s, p) ==
  /\ unreported' = Append(unreported, [msg |-> m, phase |-> phase])
  /\ MarkResult(m, s)
  /\ Await(p, m)

ReportFailure(m, retryable) ==
  IF retryable THEN Record(m, "runtime_pending", "runtime_pending", "retry_ack")
               ELSE Record(m, "runtime_failed", "failed", "failure_ack")

\* Mutant of InjectNext: one attempt too many.
InjectNextOnceMore(m) ==
  /\ pc = "inject" /\ m \in injectable
  /\ injectable' = injectable \ {m}
  /\ IF attempts[m] > MaxAttempts
     THEN ReportFailure(m, FALSE)
     ELSE Await("inject_validate", m) /\ UNCHANGED <<status, unreported>>
  /\ UNCHANGED <<serverVars, late, attempts, cursor, processVars, eventVars, reports,
                 received, lapsedThen, historyVars>>

InjectNext(m) ==
  /\ pc = "inject" /\ m \in injectable
  /\ injectable' = injectable \ {m}
  /\ IF attempts[m] >= MaxAttempts
     THEN ReportFailure(m, FALSE)
     ELSE Await("inject_validate", m) /\ UNCHANGED <<status, unreported>>
  /\ UNCHANGED <<serverVars, late, attempts, cursor, processVars, eventVars, reports,
                 received, lapsedThen, historyVars>>

InjectRefused ==
  /\ pc = "inject_validate"
  /\ answer = "invalid" \/ (answer = "valid" /\ ~known)
  /\ ReportFailure(cur, FALSE)
  /\ UNCHANGED <<serverVars, late, attempts, cursor, processVars, eventVars, reports,
                 received, injectable, lapsedThen, historyVars>>

\* Mutant of InjectValidated: the attempt is not counted.
InjectValidatedUncounted ==
  /\ pc = "inject_validate" /\ answer = "valid" /\ known
  /\ status' = [status EXCEPT ![cur] = IF @ \in Injectable THEN "injecting" ELSE @]
  /\ Await("inject_deliver", cur)
  /\ UNCHANGED <<serverVars, late, attempts, unreported, cursor, processVars, eventVars,
                 reports, received, injectable, lapsedThen, historyVars>>

\* markInjecting counts an attempt and moves the row only if it is still
\* injectable; deliverToSession is called either way.
InjectValidated ==
  /\ pc = "inject_validate" /\ answer = "valid" /\ known
  /\ IF status[cur] \in Injectable
     THEN /\ status' = [status EXCEPT ![cur] = "injecting"]
          /\ attempts' = [attempts EXCEPT ![cur] = @ + 1]
     ELSE UNCHANGED <<status, attempts>>
  /\ Await("inject_deliver", cur)
  /\ UNCHANGED <<serverVars, late, unreported, cursor, processVars, eventVars,
                 reports, received, injectable, lapsedThen, historyVars>>

\* Mutant of DeliveryRefused: a busy runtime counts as an acceptance.
DeliveryRefusedBusyIsAccepted ==
  /\ pc = "inject_deliver"
  /\ \/ Record(cur, "runtime_ack", "injected_unreported", "turn_ack")
     \/ \E retryable \in BOOLEAN : ReportFailure(cur, retryable)
  /\ UNCHANGED <<serverVars, late, attempts, cursor, processVars, eventVars, reports,
                 received, injectable, lapsedThen, historyVars>>

\* The adapter refuses without touching the runtime: queued_busy, a status that
\* reports a failure (session_not_found, permission_required, ...), or
\* runtime_unavailable.
DeliveryRefused ==
  /\ pc = "inject_deliver"
  /\ \/ Record(cur, "runtime_pending", "runtime_pending", "busy_ack")
     \/ \E retryable \in BOOLEAN : ReportFailure(cur, retryable)
  /\ UNCHANGED <<serverVars, late, attempts, cursor, processVars, eventVars, reports,
                 received, injectable, lapsedThen, historyVars>>

\* The adapter puts the message in the runtime's queue and waits for the turn.
PushTurn ==
  /\ pc = "inject_deliver" /\ pushed[cur] < MaxPush
  /\ Await("deliver_accept", cur)
  /\ pushed' = [pushed EXCEPT ![cur] = @ + 1]
  /\ overdue' = IF grant[CommOf[cur]] # "active" THEN overdue \cup {cur} ELSE overdue
  /\ UNCHANGED <<serverVars, late, spoolVars, processVars, eventVars, reports,
                 received, injectable, lapsedThen, accepted>>

\* The runtime accepts the turn; the bridge has not recorded it yet.
AcceptTurn ==
  /\ pc = "deliver_accept" /\ answer = "none"
  /\ answer' = "accepted"
  /\ accepted' = accepted \cup {cur}
  /\ UNCHANGED <<serverVars, late, spoolVars, processVars, eventVars, pc, cur, reports,
                 received, injectable, lapsedThen, pushed, overdue>>

\* The timer wins, or the queue is reset: runtime_unavailable, although the
\* runtime may still take the turn.
TurnTimeout ==
  /\ pc = "deliver_accept" /\ answer = "none"
  /\ ReportFailure(cur, TRUE)
  /\ UNCHANGED <<serverVars, late, attempts, cursor, processVars, eventVars, reports,
                 received, injectable, lapsedThen, historyVars>>

RecordTurn ==
  /\ pc = "deliver_accept" /\ answer = "accepted"
  /\ Record(cur, "runtime_ack", "injected_unreported", "turn_ack")
  /\ UNCHANGED <<serverVars, late, attempts, cursor, processVars, eventVars, reports,
                 received, injectable, lapsedThen, historyVars>>

\* The attempt just recorded is the last one, unless the event loop dropped the
\* session's reports meanwhile.
Reported ==
  /\ pc \in {"turn_ack", "busy_ack", "retry_ack", "failure_ack"} /\ answer = "ok"
  /\ unreported' = IF unreported # <<>> /\ Last(unreported) = Request
                   THEN Front(unreported) ELSE unreported
  /\ IF pc = "turn_ack" THEN MarkResult(cur, "injected") ELSE UNCHANGED status
  /\ Proceed("inject")
  /\ UNCHANGED <<serverVars, late, attempts, cursor, processVars, eventVars, reports,
                 received, injectable, lapsedThen, historyVars>>

InjectDone ==
  /\ pc = "inject" /\ injectable = {}
  /\ Proceed("idle")
  /\ UNCHANGED <<serverVars, late, spoolVars, processVars, eventVars, reports, received,
                 injectable, lapsedThen, historyVars>>

\* The acknowledgements in flight that the control plane has not processed.
InFlight ==
  (IF pc \in AckPc /\ answer = "none" THEN {Request} ELSE {})
  \cup (IF evPc = "ack" /\ evAnswer = "none" THEN {EventRequest} ELSE {})

\* The request the injector awaits fails.
RequestFails ==
  /\ pc \in ValidatePc \cup AckPc
  /\ late' = IF pc \in AckPc /\ answer = "none" THEN late \cup {Request} ELSE late
  /\ CASE pc \in {"flush_validate", "flush_ack"} ->
            \* flushPendingReports returns
            /\ Proceed("flush") /\ reports' = <<>> /\ UNCHANGED status
       [] pc = "receive_ack" ->
            /\ Proceed("receive") /\ UNCHANGED <<reports, status>>
       [] pc \in {"inject_validate", "retry_ack"} ->
            /\ MarkResult(cur, "blocked_offline")
            /\ Proceed("inject") /\ UNCHANGED reports
       [] OTHER ->
            /\ Proceed("inject") /\ UNCHANGED <<reports, status>>
  /\ UNCHANGED <<serverVars, attempts, unreported, cursor, processVars, eventVars,
                 received, injectable, lapsedThen, historyVars>>

Injector ==
  \/ RunOnce
  \/ FlushNext \/ FlushValidated \/ FlushAcknowledged \/ FlushDone
  \/ ReceiveAcknowledged \/ ReceiveDone
  \/ \E m \in Msg : ReceiveNext(m) \/ InjectNext(m)
  \/ InjectRefused \/ InjectValidated \/ RecordTurn \/ Reported \/ InjectDone

Runtime == DeliveryRefused \/ PushTurn \/ AcceptTurn \/ TurnTimeout

-------------------------------------------------------------------------------
(* The process.                                                            *)

\* Everything volatile is gone; requests in flight may still arrive.
Die ==
  /\ up /\ crashes < MaxCrash
  /\ up' = FALSE /\ crashes' = crashes + 1 /\ UNCHANGED known
  /\ late' = late \cup InFlight
  /\ evPc' = "idle" /\ evAnswer' = "none"
  /\ Proceed("idle")
  /\ reports' = <<>> /\ received' = {} /\ injectable' = {} /\ lapsedThen' = {}
  /\ UNCHANGED <<serverVars, attempts, cursor, historyVars>>

Crash == Die /\ UNCHANGED <<status, unreported>>

\* Death between recordAttempt and markResult, which are two transactions.
CrashRecording ==
  /\ pc = "deliver_accept" /\ answer = "accepted"
  /\ Die
  /\ unreported' = Append(unreported, [msg |-> cur, phase |-> "runtime_ack"])
  /\ UNCHANGED status

\* start: the session is mapped to its old handle again, or registered anew
\* when its update fails.  Rows left at injecting stay there.
Restart ==
  /\ ~up
  /\ up' = TRUE /\ known' \in BOOLEAN /\ UNCHANGED crashes
  /\ UNCHANGED <<serverVars, late, spoolVars, eventVars, injectorVars, historyVars>>

ControlPlane ==
  \/ \E m \in Msg : Send(m) \/ MarkDispatched(m)
  \/ \E c \in Comm : Lapse(c) \/ Revoke(c) \/ ExpireIfNeeded(c) \/ CompleteCollaboration(c)
  \/ ToggleSession
  \/ \E r \in late : ProcessLate(r)
  \/ ServeAcknowledge \/ ServeEventAcknowledge \/ ServeValidate

Next ==
  \/ ControlPlane \/ EventLoop \/ Injector \/ Runtime \/ RequestFails
  \/ Crash \/ CrashRecording \/ Restart

Spec == Init /\ [][Next]_vars

\* The loops keep running while the process is up and a stopped process is
\* started again; every awaited call returns, because requests, the runtime's
\* acceptance and the adapter's reset all have timeouts; and the control plane
\* is eventually reachable for good.  Nothing is assumed of users, of the clock
\* or of what the runtime answers.
Connected == <>[][~RequestFails /\ ~EventAcknowledgeFails]_vars
Fairness ==
  /\ WF_vars(EventLoop)
  /\ WF_vars(Injector) /\ WF_vars(Runtime)
  /\ WF_vars(ServeAcknowledge \/ ServeValidate) /\ WF_vars(ServeEventAcknowledge)
  /\ WF_vars(Restart)
  /\ Connected

FairSpec == Spec /\ Fairness

-------------------------------------------------------------------------------
(* Properties.                                                             *)

\* "A slow or failing control plane can never ... replay an already-accepted
\* turn" (SPEC section 3): once the runtime accepted a message in time, the
\* injector never hands it over again, although reports are lost, the process
\* dies before it records the acceptance, and the row is overwritten.
AcceptedTurnIsNeverReplayed ==
  [][\A m \in accepted : pushed'[m] = pushed[m]]_vars

\* Delivery-time validation leaves one message in flight at most: after a grant
\* ended, no second message of it reaches the runtime, and none twice
\* (Injector.inject validates before every delivery, one message at a time).
AtMostOneOverduePush ==
  \A m, n \in overdue : CommOf[m] = CommOf[n] => m = n

\* A message reaches the runtime only when every earlier message of its session
\* is settled or had an unreadable event (the NOT EXISTS of listInjectable),
\* whatever the event loop inserted or blocked since the list was read.
InjectionInOrder ==
  [][\A m \in Msg : pushed'[m] # pushed[m] =>
       \A n \in Msg : CommOf[n] = CommOf[m] /\ SequenceOf[n] < SequenceOf[m] =>
         status[n] \in Settled \/ n \in Unreadable]_vars

\* What the sender is told is what happened: runtime_acked only for an accepted
\* turn, failed never for one, although acknowledgements are late, lost and
\* repeated.
ReportsAreTruthful ==
  \A m \in Msg : /\ delivery[m] = "runtime_acked" => m \in accepted
                 /\ delivery[m] = "failed" => m \notin accepted

\* The bridge never runs ahead of the control plane: a row past `received` has a
\* recorded device acknowledgement, without which a runtime_ack would be
\* dropped silently; and a row at `injected` was reported, or its grant ended.
SpoolFollowsControlPlane ==
  \A m \in Msg :
    /\ status[m] \notin {"absent", "received", "blocked"}
         => delivery[m] \notin {"none", "queued", "dispatched"}
    /\ status[m] = "injected" => delivery[m] \in {"runtime_acked", "revoked", "expired"}

\* The cursor passes no readable dispatch that is not in the spool, wherever the
\* process died.
NothingSkipped ==
  \A i \in 1..cursor :
    log[i].type = "dispatch" /\ log[i].msg \notin Unreadable
    => status[log[i].msg] # "absent"

\* A row that a crash left at `injecting` is never picked up again and holds back
\* its session; only the end of the grant clears it.  Once the bridge handled
\* that event no row of the session is left there, nor put there by an injection
\* that was validated before.
EndedGrantHasNoStuckRow ==
  \A i \in 1..cursor : \A m \in Msg :
    log[i] = [type |-> "closed", comm |-> CommOf[m]] => status[m] # "injecting"

\* Without a crash, every spooled message is eventually injected, failed or
\* blocked, whatever the runtime answers and the users do.
SpooledIsSettled ==
  \A m \in Msg : status[m] # "absent" ~> status[m] \in Settled

\* A bad event, a failed acknowledgement or a refused release never wedges the
\* stream (SPEC section 3): however the log grows, which is finite here, every
\* event of it is handled in the end.
StreamIsDrained == []<>(cursor = Len(log))

\* "Reports a validation rejection so the requester does not wait forever"
\* (injector.test.ts line 51).  When the rejection comes while a report is
\* flushed, the row is blocked and nothing is reported: the delivery stays
\* pending for as long as nobody looks the grant up.
PendingIsResolved ==
  \A m \in Msg : delivery[m] = "runtime_pending" ~> delivery[m] # "runtime_pending"
===============================================================================
