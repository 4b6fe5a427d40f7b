-------------------------- MODULE BridgeSpoolProofs --------------------------
(***************************************************************************)
(* What the bridge's spool promises, for any messages, sessions, number of *)
(* crashes and number of attempts.                                         *)
(***************************************************************************)
EXTENDS BridgeDeliveryProofs, SequenceLemmas

-------------------------------------------------------------------------------
(* Types, and where the two loops stand.                                   *)

ServerOK ==
  /\ grant \in [Comm -> {"active", "revoked", "expired"}]
  /\ lapsed \subseteq Comm /\ open \in BOOLEAN
  /\ delivery \in [Msg -> DeliveryStatus]
  /\ log \in Seq(LogEntry) /\ late \subseteq Report

SpoolOK ==
  /\ status \in [Msg -> SpoolStatus]
  /\ attempts \in [Msg -> 0..MaxAttempts]
  /\ unreported \in Seq(Report)
  /\ cursor \in 0..Len(log)

ProcessOK == up \in BOOLEAN /\ known \in BOOLEAN /\ crashes \in 0..MaxCrash

\* The event loop awaits something only for the event after the cursor.
EventOK ==
  /\ evPc \in {"idle", "ack", "release"} /\ evAnswer \in {"none", "ok"}
  /\ evAnswer = "ok" => evPc = "ack"
  /\ evPc # "idle" => cursor < Len(log)
  /\ evPc = "ack" => Event.type = "dispatch" /\ Event.msg \notin Unreadable
  /\ evPc = "release" => Event.type # "dispatch"

\* Where the injector has a message at hand.
Working == {"inject_deliver", "deliver_accept"} \cup ValidatePc \cup AckPc
Flushing == {"flush_validate", "flush_ack"}

\* A flushed report is the first of the snapshot; a message is injected only
\* with an attempt left.
InjectorOK ==
  /\ pc \in Pc /\ cur \in Msg \cup {None}
  /\ answer \in {"none", "ok", "valid", "invalid", "accepted"}
  /\ reports \in Seq(Report)
  /\ received \subseteq Msg /\ injectable \subseteq Msg /\ lapsedThen \subseteq Comm
  /\ pc \in Working => cur \in Msg
  /\ pc \in Flushing => reports # <<>> /\ cur = Head(reports).msg
  /\ pc = "inject_validate" => attempts[cur] < MaxAttempts
  /\ answer # "none" => pc \in Working

HistoryOK ==
  pushed \in [Msg -> Nat] /\ accepted \subseteq Msg /\ overdue \subseteq Msg

TInv == ServerOK /\ SpoolOK /\ ProcessOK /\ EventOK /\ InjectorOK /\ HistoryOK

LEMMA TInvTypes == TInv => TypeOK
  BY DEF TInv, TypeOK, ServerOK, SpoolOK, ProcessOK, EventOK, InjectorOK, HistoryOK

LEMMA InitTypes == Init => TInv
  BY BoundAssumption
  DEF Init, TInv, ServerOK, SpoolOK, ProcessOK, EventOK, InjectorOK, HistoryOK,
      DeliveryStatus, SpoolStatus, Pc, Working, Flushing, ValidatePc, AckPc

LEMMA AcknowledgedType ==
  ASSUME NEW s \in DeliveryStatus, NEW phase \in Phase
  PROVE  Acknowledged(s, phase) \in DeliveryStatus
  BY DEF Acknowledged, AckedTo, Phase, DeliveryStatus, TerminalStatus, OpenStatus

LEMMA RequestType ==
  ASSUME TInv, pc \in AckPc
  PROVE  Request \in Report
<1>1. cur \in Msg
  BY DEF TInv, InjectorOK, Working
<1>2. pc = "flush_ack" => Head(reports) \in Report
  BY DEF TInv, InjectorOK, Flushing
<1> QED
  BY <1>1, <1>2 DEF Request, Report, AckPc, Phase

LEMMA EventRequestType ==
  ASSUME TInv, evPc = "ack"
  PROVE  EventRequest \in Report
<1>1. log[cursor + 1] \in LogEntry
  BY DEF TInv, EventOK, SpoolOK, ServerOK
<1>2. log[cursor + 1].msg \in Msg
  BY <1>1 DEF TInv, EventOK, Event, LogEntry
<1> QED
  BY <1>2 DEF EventRequest, Report, Phase

\* The log only grows.
LogGrows ==
  Len(log) <= Len(log') /\ \A i \in 1..Len(log) : log'[i] = log[i]

LEMMA AppendGrows ==
  ASSUME TInv, NEW e \in LogEntry, log' = Append(log, e)
  PROVE  log' \in Seq(LogEntry) /\ LogGrows /\ Len(log') = Len(log) + 1
  BY DEF TInv, ServerOK, LogGrows

\* What is appended to the log, and by whom.
LogMoves ==
  \/ UNCHANGED log
  \/ \E m \in Msg : Send(m)
  \/ \E c \in Comm : CompleteCollaboration(c)
  \/ \E c \in Comm, why \in {"revoked", "expired"} : EndGrant(c, why)

LEMMA LogSteps ==
  ASSUME TInv, [Next]_vars
  PROVE  LogMoves
<1> USE DEF serverVars, LogMoves
<1>1. CASE ControlPlane
  <2>1. ASSUME NEW m \in Msg, MarkDispatched(m)  PROVE LogMoves
    BY <2>1 DEF MarkDispatched
  <2>2. ASSUME NEW c \in Comm, Lapse(c) \/ Revoke(c) \/ ExpireIfNeeded(c)
        PROVE  LogMoves
    BY <2>2 DEF Lapse, Revoke, ExpireIfNeeded
  <2>3. CASE ToggleSession \/ ServeAcknowledge \/ ServeEventAcknowledge
    BY <2>3 DEF ToggleSession, ServeAcknowledge, ServeEventAcknowledge
  <2>4. ASSUME NEW r \in late, ProcessLate(r)  PROVE LogMoves
    BY <2>4 DEF ProcessLate
  <2>5. CASE ServeValidate
    <3>1. cur \in Msg
      BY <2>5 DEF ServeValidate, TInv, InjectorOK, Working
    <3>2. CommOf[cur] \in Comm
      BY <3>1, MessageAssumption
    <3>3. CASE grant[CommOf[cur]] = "active" /\ CommOf[cur] \in lapsed
      BY <2>5, <3>2, <3>3 DEF ServeValidate
    <3>4. CASE ~(grant[CommOf[cur]] = "active" /\ CommOf[cur] \in lapsed)
      BY <2>5, <3>4 DEF ServeValidate
    <3> QED
      BY <3>3, <3>4
  <2> QED
    BY <1>1, <2>1, <2>2, <2>3, <2>4, <2>5 DEF ControlPlane
<1>2. CASE EventLoop
  BY <1>2 DEF EventLoop, HandleDispatch, EventAcknowledged, EventAcknowledgeFails,
              BlockCommunicationSession, Released, FinishEvent
<1>3. CASE Injector
  BY <1>3 DEF Injector, RunOnce, FlushNext, FlushValidated, FlushAcknowledged,
              FlushDone, ReceiveAcknowledged, ReceiveDone, ReceiveNext, InjectNext,
              InjectRefused, InjectValidated, RecordTurn, Reported, InjectDone
<1>4. CASE Runtime \/ RequestFails
  BY <1>4 DEF Runtime, DeliveryRefused, PushTurn, AcceptTurn, TurnTimeout, RequestFails
<1>5. CASE Crash \/ CrashRecording \/ Restart
  BY <1>5 DEF Crash, CrashRecording, Die, Restart
<1>6. CASE UNCHANGED vars
  BY <1>6 DEF vars
<1> QED
  BY <1>1, <1>2, <1>3, <1>4, <1>5, <1>6 DEF Next

LEMMA LogOnlyGrows ==
  ASSUME TInv, [Next]_vars
  PROVE  LogGrows /\ log' \in Seq(LogEntry)
<1>1. CASE UNCHANGED log
  BY <1>1 DEF TInv, ServerOK, LogGrows
<1>2. CASE \E e \in LogEntry : log' = Append(log, e)
  BY <1>2, AppendGrows
<1>3. LogMoves => UNCHANGED log \/ \E e \in LogEntry : log' = Append(log, e)
  BY DEF LogMoves, Send, CompleteCollaboration, EndGrant, LogEntry
<1> QED
  BY <1>1, <1>2, <1>3, LogSteps

\* The entry a step adds, if any, is the last one.
LEMMA NewEntry ==
  ASSUME TInv, [Next]_vars, NEW i \in 1..Len(log'), i \notin 1..Len(log)
  PROVE  /\ i = Len(log) + 1
         /\ log'[i].type = "dispatch" => log'[i].msg \in Msg /\ Send(log'[i].msg)
         /\ log'[i].type = "closed"
              => \E c \in Comm, why \in {"revoked", "expired"} :
                   EndGrant(c, why) /\ log'[i] = [type |-> "closed", comm |-> c]
<1>1. log \in Seq(LogEntry)
  BY DEF TInv, ServerOK
<1>2. ~UNCHANGED log
  OBVIOUS
<1>3. ASSUME NEW e, log' = Append(log, e)  PROVE i = Len(log) + 1 /\ log'[i] = e
  BY <1>1, <1>3
<1>4. CASE \E m \in Msg : Send(m)
  <2>1. PICK m \in Msg : Send(m)
    BY <1>4
  <2>2. i = Len(log) + 1 /\ log'[i] = [type |-> "dispatch", msg |-> m]
    BY <1>3, <2>1 DEF Send
  <2> QED
    BY <2>1, <2>2
<1>5. CASE \E c \in Comm : CompleteCollaboration(c)
  BY <1>3, <1>5 DEF CompleteCollaboration
<1>6. CASE \E c \in Comm, why \in {"revoked", "expired"} : EndGrant(c, why)
  <2>1. PICK c \in Comm, why \in {"revoked", "expired"} : EndGrant(c, why)
    BY <1>6
  <2>2. i = Len(log) + 1 /\ log'[i] = [type |-> "closed", comm |-> c]
    BY <1>3, <2>1 DEF EndGrant
  <2> QED
    BY <2>1, <2>2
<1> QED
  BY <1>2, <1>4, <1>5, <1>6, LogSteps DEF LogMoves

LEMMA ServerTypes ==
  ASSUME TInv, [Next]_vars
  PROVE  ServerOK'
<1> USE DEF serverVars, spoolVars, processVars, eventVars, injectorVars, historyVars,
            bridgeVars
<1>1. log' \in Seq(LogEntry)
  BY LogOnlyGrows
<1>2. CASE UNCHANGED <<grant, lapsed, open, delivery, late>>
  BY <1>1, <1>2 DEF TInv, ServerOK
<1>3. ASSUME NEW c \in Comm, NEW why \in {"revoked", "expired"}, EndGrant(c, why)
      PROVE  /\ grant' \in [Comm -> {"active", "revoked", "expired"}]
             /\ delivery' \in [Msg -> DeliveryStatus]
  BY <1>3 DEF EndGrant, ClosedBy, TInv, ServerOK, DeliveryStatus, TerminalStatus
<1>4. CASE ControlPlane
  <2>1. ASSUME NEW m \in Msg, Send(m)  PROVE ServerOK'
    BY <1>1, <2>1 DEF Send, TInv, ServerOK, DeliveryStatus, OpenStatus
  <2>2. ASSUME NEW m \in Msg, MarkDispatched(m)  PROVE ServerOK'
    BY <1>1, <2>2 DEF MarkDispatched, Dispatched, TInv, ServerOK, DeliveryStatus, OpenStatus
  <2>3. ASSUME NEW c \in Comm, Lapse(c)  PROVE ServerOK'
    BY <1>1, <2>3 DEF Lapse, TInv, ServerOK
  <2>4. ASSUME NEW c \in Comm, Revoke(c)  PROVE ServerOK'
    BY <1>1, <1>3, <2>4 DEF Revoke, TInv, ServerOK
  <2>5. ASSUME NEW c \in Comm, ExpireIfNeeded(c)  PROVE ServerOK'
    BY <1>1, <1>3, <2>5 DEF ExpireIfNeeded, TInv, ServerOK
  <2>6. ASSUME NEW c \in Comm, CompleteCollaboration(c)  PROVE ServerOK'
    BY <1>1, <2>6 DEF CompleteCollaboration, TInv, ServerOK
  <2>7. CASE ToggleSession
    BY <1>1, <2>7 DEF ToggleSession, TInv, ServerOK
  <2>8. ASSUME NEW r \in late, ProcessLate(r)  PROVE ServerOK'
    <3>1. r.msg \in Msg /\ r.phase \in Phase
      BY DEF TInv, ServerOK, Report
    <3>2. delivery' \in [Msg -> DeliveryStatus]
      BY <2>8, <3>1, AcknowledgedType DEF ProcessLate, TInv, ServerOK
    <3> QED
      BY <1>1, <2>8, <3>2 DEF ProcessLate, TInv, ServerOK
  <2>9. CASE ServeAcknowledge
    <3>1. Request \in Report
      BY <2>9, RequestType DEF ServeAcknowledge
    <3>2. Request.phase \in Phase
      BY <3>1 DEF Report
    <3>3. delivery' \in [Msg -> DeliveryStatus]
      BY <2>9, <3>2, AcknowledgedType DEF ServeAcknowledge, TInv, ServerOK
    <3> QED
      BY <1>1, <2>9, <3>3 DEF ServeAcknowledge, TInv, ServerOK
  <2>10. CASE ServeEventAcknowledge
    <3>1. delivery' \in [Msg -> DeliveryStatus]
      BY <2>10, AcknowledgedType DEF ServeEventAcknowledge, TInv, ServerOK, Phase
    <3> QED
      BY <1>1, <2>10, <3>1 DEF ServeEventAcknowledge, TInv, ServerOK
  <2>11. CASE ServeValidate
    <3>1. CommOf[cur] \in Comm
      BY <2>11, MessageAssumption DEF ServeValidate, TInv, InjectorOK, Working
    <3>2. CASE grant[CommOf[cur]] = "active" /\ CommOf[cur] \in lapsed
      BY <1>1, <1>3, <2>11, <3>1, <3>2 DEF ServeValidate, TInv, ServerOK
    <3>3. CASE ~(grant[CommOf[cur]] = "active" /\ CommOf[cur] \in lapsed)
      BY <1>2, <2>11, <3>3 DEF ServeValidate
    <3> QED
      BY <3>2, <3>3
  <2> QED
    BY <1>4, <2>1, <2>2, <2>3, <2>4, <2>5, <2>6, <2>7, <2>8, <2>9, <2>10, <2>11
    DEF ControlPlane
<1>5. CASE EventLoop
  <2>1. CASE EventAcknowledgeFails
    BY <1>1, <2>1, EventRequestType DEF EventAcknowledgeFails, FinishEvent, TInv, ServerOK
  <2>2. CASE ~EventAcknowledgeFails
    BY <1>2, <1>5, <2>2 DEF EventLoop, HandleDispatch, EventAcknowledged,
       BlockCommunicationSession, Released, FinishEvent
  <2> QED
    BY <2>1, <2>2
<1>6. CASE Injector
  BY <1>6, <1>2 DEF Injector, RunOnce, FlushNext, FlushValidated, FlushAcknowledged,
              FlushDone, ReceiveAcknowledged, ReceiveDone, ReceiveNext, InjectNext,
              InjectRefused, InjectValidated, RecordTurn, Reported, InjectDone
<1>7. CASE Runtime
  BY <1>7, <1>2 DEF Runtime, DeliveryRefused, PushTurn, AcceptTurn, TurnTimeout
<1>8. CASE RequestFails
  BY <1>1, <1>8, RequestType DEF RequestFails, TInv, ServerOK
<1>9. CASE Restart \/ UNCHANGED vars
  BY <1>9, <1>2 DEF Restart, vars
<1>10. CASE Crash \/ CrashRecording
  <2>1. InFlight \subseteq Report
    BY RequestType, EventRequestType DEF InFlight
  <2> QED
    BY <1>1, <1>10, <2>1 DEF Crash, CrashRecording, Die, TInv, ServerOK
<1> QED
  BY <1>4, <1>5, <1>6, <1>7, <1>8, <1>9, <1>10 DEF Next

\* What the event loop and the injector do to the spool's rows.
LEMMA SpoolTypes ==
  ASSUME TInv, [Next]_vars
  PROVE  SpoolOK'
<1> USE DEF serverVars, spoolVars, processVars, eventVars, injectorVars, historyVars,
            bridgeVars, MarkResult
<1>1. Len(log) <= Len(log') /\ Len(log) \in Nat /\ Len(log') \in Nat
  BY LogOnlyGrows DEF LogGrows, TInv, ServerOK
<1>2. CASE UNCHANGED <<status, attempts, unreported, cursor>>
  BY <1>1, <1>2 DEF TInv, SpoolOK
<1>3. ControlPlane => UNCHANGED <<status, attempts, unreported, cursor>>
  BY DEF ControlPlane, Send, MarkDispatched, Lapse, Revoke, ExpireIfNeeded,
         CompleteCollaboration, ToggleSession, ProcessLate, ServeAcknowledge,
         ServeEventAcknowledge, ServeValidate
<1>4. CASE EventLoop
  <2>0. evPc # "idle" \/ HasEvent => cursor + 1 \in 0..Len(log)
    BY DEF TInv, SpoolOK, EventOK, HasEvent
  <2>1. CASE HandleDispatch
    BY <1>1, <2>0, <2>1 DEF HandleDispatch, TInv, SpoolOK, SpoolStatus
  <2>2. CASE EventAcknowledged
    BY <1>1, <2>0, <2>2 DEF EventAcknowledged, FinishEvent, TInv, SpoolOK, SpoolStatus
  <2>3. CASE EventAcknowledgeFails \/ Released
    BY <1>1, <2>0, <2>3 DEF EventAcknowledgeFails, Released, FinishEvent, TInv, SpoolOK
  <2>4. CASE BlockCommunicationSession
    <3>1. unreported' \in Seq(Report)
      BY <2>4, KeptElements DEF BlockCommunicationSession, TInv, SpoolOK
    <3>2. status' \in [Msg -> SpoolStatus]
      BY <2>4 DEF BlockCommunicationSession, TInv, SpoolOK, SpoolStatus
    <3> QED
      BY <1>1, <2>4, <3>1, <3>2 DEF BlockCommunicationSession, TInv, SpoolOK
  <2> QED
    BY <1>4, <2>1, <2>2, <2>3, <2>4 DEF EventLoop
<1>5. \A r : RemoveFirst(unreported, r) \in Seq(Report)
  BY RemoveFirstElements DEF TInv, SpoolOK
<1>6. CASE Injector
  <2>1. ASSUME NEW m \in Msg, NEW phase \in Phase, NEW s \in SpoolStatus, NEW p,
               Record(m, phase, s, p)
        PROVE  unreported' \in Seq(Report) /\ status' \in [Msg -> SpoolStatus]
    BY <2>1 DEF Record, TInv, SpoolOK, Report
  <2>2. ASSUME NEW m \in Msg, NEW retryable, ReportFailure(m, retryable)
        PROVE  unreported' \in Seq(Report) /\ status' \in [Msg -> SpoolStatus]
    BY <2>2, <2>1 DEF ReportFailure, Phase, SpoolStatus
  <2>3. CASE RunOnce \/ FlushDone \/ ReceiveDone \/ InjectDone
    BY <2>3, <1>2 DEF RunOnce, FlushDone, ReceiveDone, InjectDone
  <2>4. CASE FlushNext \/ FlushValidated \/ FlushAcknowledged
    BY <2>4, <1>1, <1>5 DEF FlushNext, FlushValidated, FlushAcknowledged, TInv, SpoolOK,
                            SpoolStatus
  <2>5. CASE ReceiveAcknowledged
    BY <2>5, <1>1 DEF ReceiveAcknowledged, TInv, SpoolOK, SpoolStatus
  <2>6. ASSUME NEW m \in Msg, ReceiveNext(m)  PROVE SpoolOK'
    BY <2>6, <1>1 DEF ReceiveNext, TInv, SpoolOK, SpoolStatus
  <2>7. ASSUME NEW m \in Msg, InjectNext(m)  PROVE SpoolOK'
    BY <2>7, <2>2, <1>1 DEF InjectNext, TInv, SpoolOK
  <2>8. CASE InjectRefused
    BY <2>8, <2>2, <1>1 DEF InjectRefused, TInv, SpoolOK, InjectorOK, Working, ValidatePc
  <2>9. CASE InjectValidated
    <3>1. cur \in Msg /\ attempts[cur] + 1 \in 0..MaxAttempts
      BY <2>9, BoundAssumption DEF InjectValidated, TInv, SpoolOK, InjectorOK, Working, ValidatePc
    <3> QED
      BY <2>9, <3>1, <1>1 DEF InjectValidated, TInv, SpoolOK, SpoolStatus
  <2>10. CASE RecordTurn
    BY <2>10, <2>1, <1>1 DEF RecordTurn, TInv, SpoolOK, InjectorOK, Working, Phase, SpoolStatus
  <2>11. CASE Reported
    <3>1. unreported # <<>> => Front(unreported) \in Seq(Report)
      BY DEF Front, TInv, SpoolOK
    <3> QED
      BY <2>11, <3>1, <1>1 DEF Reported, TInv, SpoolOK, SpoolStatus
  <2> QED
    BY <1>6, <2>3, <2>4, <2>5, <2>6, <2>7, <2>8, <2>9, <2>10, <2>11 DEF Injector
<1>7. CASE Runtime
  <2>1. CASE DeliveryRefused \/ TurnTimeout
    <3>1. \E phase \in Phase, s \in SpoolStatus, p \in Pc : Record(cur, phase, s, p)
      BY <2>1 DEF DeliveryRefused, TurnTimeout, ReportFailure, Phase, SpoolStatus, Pc, AckPc
    <3>2. cur \in Msg
      BY <2>1 DEF DeliveryRefused, TurnTimeout, TInv, InjectorOK, Working
    <3>3. unreported' \in Seq(Report) /\ status' \in [Msg -> SpoolStatus]
      BY <3>1, <3>2 DEF Record, TInv, SpoolOK, Report
    <3> QED
      BY <2>1, <3>3, <1>1 DEF DeliveryRefused, TurnTimeout, TInv, SpoolOK
  <2>2. CASE PushTurn \/ AcceptTurn
    BY <2>2, <1>2 DEF PushTurn, AcceptTurn
  <2> QED
    BY <1>7, <2>1, <2>2 DEF Runtime
<1>8. CASE RequestFails
  <2>1. status' = status \/ status' = [status EXCEPT ![cur] = "blocked_offline"]
    BY <1>8 DEF RequestFails, ValidatePc, AckPc
  <2> QED
    BY <1>8, <2>1, <1>1 DEF RequestFails, TInv, SpoolOK, SpoolStatus
<1>9. CASE Crash \/ Restart \/ UNCHANGED vars
  BY <1>9, <1>2 DEF Crash, Die, Restart, vars
<1>10. CASE CrashRecording
  <2>1. unreported' \in Seq(Report)
    BY <1>10 DEF CrashRecording, TInv, SpoolOK, InjectorOK, Working, Report, Phase
  <2> QED
    BY <1>10, <2>1, <1>1 DEF CrashRecording, Die, TInv, SpoolOK
<1> QED
  BY <1>2, <1>3, <1>4, <1>6, <1>7, <1>8, <1>9, <1>10 DEF Next

LEMMA ProcessTypes ==
  ASSUME TInv, [Next]_vars
  PROVE  ProcessOK'
<1> USE DEF serverVars, spoolVars, processVars, eventVars, injectorVars, historyVars,
            bridgeVars
<1>1. CASE UNCHANGED <<up, known, crashes>>
  BY <1>1 DEF TInv, ProcessOK
<1>2. CASE Crash \/ CrashRecording
  <2>1. Die
    BY <1>2 DEF Crash, CrashRecording
  <2>2. crashes' \in 0..MaxCrash
    BY <2>1, BoundAssumption DEF Die, TInv, ProcessOK
  <2>3. up' \in BOOLEAN /\ known' \in BOOLEAN
    BY <2>1 DEF Die, TInv, ProcessOK
  <2> QED
    BY <2>2, <2>3 DEF ProcessOK
<1>3. CASE Restart
  BY <1>3 DEF Restart, TInv, ProcessOK
<1>4. CASE ControlPlane
  BY <1>1, <1>4 DEF ControlPlane, Send, MarkDispatched, Lapse, Revoke, ExpireIfNeeded,
         CompleteCollaboration, ToggleSession, ProcessLate, ServeAcknowledge,
         ServeEventAcknowledge, ServeValidate
<1>5. CASE EventLoop
  BY <1>5, <1>1 DEF EventLoop, HandleDispatch, EventAcknowledged, EventAcknowledgeFails,
              BlockCommunicationSession, Released, FinishEvent
<1>6. CASE Injector
  BY <1>6, <1>1 DEF Injector, RunOnce, FlushNext, FlushValidated, FlushAcknowledged,
              FlushDone, ReceiveAcknowledged, ReceiveDone, ReceiveNext, InjectNext,
              InjectRefused, InjectValidated, RecordTurn, Reported, InjectDone
<1>7. CASE Runtime \/ RequestFails \/ UNCHANGED vars
  BY <1>7, <1>1 DEF Runtime, DeliveryRefused, PushTurn, AcceptTurn, TurnTimeout,
              RequestFails, vars
<1> QED
  BY <1>2, <1>3, <1>4, <1>5, <1>6, <1>7 DEF Next

LEMMA EventTypes ==
  ASSUME TInv, [Next]_vars
  PROVE  EventOK'
<1> USE DEF serverVars, spoolVars, processVars, eventVars, injectorVars, historyVars,
            bridgeVars
<1>1. LogGrows /\ Len(log) \in Nat /\ Len(log') \in Nat /\ cursor \in 0..Len(log)
  BY LogOnlyGrows DEF TInv, ServerOK, SpoolOK
<1>2. CASE /\ UNCHANGED <<evPc, cursor>> /\ evAnswer' \in {"none", "ok"}
           /\ evAnswer' = "ok" => evPc = "ack"
  <2>1. evPc # "idle" => log'[cursor + 1] = log[cursor + 1]
    BY <1>1 DEF LogGrows, TInv, EventOK
  <2>2. evPc # "idle" => cursor' < Len(log') /\ Event' = Event
    BY <1>1, <1>2, <2>1 DEF LogGrows, TInv, EventOK, Event
  <2> QED
    BY <1>2, <2>2 DEF TInv, EventOK
<1>3. CASE evPc' = "idle" /\ evAnswer' = "none"
  BY <1>3 DEF EventOK
<1>4. evAnswer \in {"none", "ok"} /\ (evAnswer = "ok" => evPc = "ack")
  BY DEF TInv, EventOK
<1>5. CASE ControlPlane
  BY <1>2, <1>4, <1>5 DEF ControlPlane, Send, MarkDispatched, Lapse, Revoke, ExpireIfNeeded,
         CompleteCollaboration, ToggleSession, ProcessLate, ServeAcknowledge,
         ServeEventAcknowledge, ServeValidate
<1>6. CASE HandleDispatch
  <2>1. CASE UNCHANGED evPc
    BY <1>6, <2>1 DEF HandleDispatch, HasEvent, TInv, EventOK
  <2>2. CASE evPc' = "ack" /\ UNCHANGED <<log, cursor, evAnswer>> /\ Event.msg \notin Unreadable
    BY <1>6, <2>2 DEF HandleDispatch, HasEvent, TInv, EventOK, Event
  <2> QED
    BY <1>6, <2>1, <2>2 DEF HandleDispatch
<1>7. CASE BlockCommunicationSession
  BY <1>7 DEF BlockCommunicationSession, HasEvent, TInv, EventOK, Event
<1>8. CASE EventAcknowledged \/ EventAcknowledgeFails \/ Released
  BY <1>8, <1>3 DEF EventAcknowledged, EventAcknowledgeFails, Released, FinishEvent
<1>9. CASE Injector
  BY <1>2, <1>4, <1>9 DEF Injector, RunOnce, FlushNext, FlushValidated, FlushAcknowledged,
              FlushDone, ReceiveAcknowledged, ReceiveDone, ReceiveNext, InjectNext,
              InjectRefused, InjectValidated, RecordTurn, Reported, InjectDone
<1>10. CASE Runtime \/ RequestFails \/ Restart \/ UNCHANGED vars
  BY <1>2, <1>4, <1>10 DEF Runtime, DeliveryRefused, PushTurn, AcceptTurn, TurnTimeout,
              RequestFails, Restart, vars
<1>11. CASE Crash \/ CrashRecording
  BY <1>3, <1>11 DEF Crash, CrashRecording, Die
<1> QED
  BY <1>5, <1>6, <1>7, <1>8, <1>9, <1>10, <1>11 DEF Next, EventLoop

LEMMA InjectorTypes ==
  ASSUME TInv, [Next]_vars
  PROVE  InjectorOK'
<1> USE DEF serverVars, spoolVars, processVars, eventVars, injectorVars, historyVars,
            bridgeVars, Await, Proceed, Pc, Working, Flushing, ValidatePc, AckPc
<1>1. CASE UNCHANGED <<injectorVars, attempts>>
  BY <1>1 DEF TInv, InjectorOK
<1>2. CASE ControlPlane
  <2>1. CASE ServeAcknowledge \/ ServeValidate
    BY <2>1 DEF ServeAcknowledge, ServeValidate, TInv, InjectorOK
  <2>2. CASE ~(ServeAcknowledge \/ ServeValidate)
    BY <1>1, <1>2, <2>2 DEF ControlPlane, Send, MarkDispatched, Lapse, Revoke,
         ExpireIfNeeded, CompleteCollaboration, ToggleSession, ProcessLate,
         ServeEventAcknowledge
  <2> QED
    BY <2>1, <2>2
<1>3. CASE EventLoop
  BY <1>1, <1>3 DEF EventLoop, HandleDispatch, EventAcknowledged, EventAcknowledgeFails,
              BlockCommunicationSession, Released, FinishEvent
<1>4. reports # <<>> => Tail(reports) \in Seq(Report) /\ Head(reports) \in Report
  BY DEF TInv, InjectorOK
<1>5. CASE Injector
  <2>1. CASE RunOnce
    BY <2>1 DEF RunOnce, ListInjectable, TInv, InjectorOK, SpoolOK
  <2>2. CASE FlushNext
    <3>1. Head(reports) \in Report /\ Head(reports).msg \in Msg
      BY <2>2, <1>4 DEF FlushNext, Report
    <3> QED
      BY <2>2, <3>1, <1>4 DEF FlushNext, TInv, InjectorOK
  <2>3. CASE FlushValidated
    BY <2>3, <1>4 DEF FlushValidated, TInv, InjectorOK
  <2>4. CASE FlushAcknowledged
    BY <2>4, <1>4 DEF FlushAcknowledged, TInv, InjectorOK
  <2>5. CASE FlushDone
    BY <2>5 DEF FlushDone, TInv, InjectorOK, ServerOK
  <2>6. CASE ReceiveAcknowledged \/ ReceiveDone
    BY <2>6 DEF ReceiveAcknowledged, ReceiveDone, TInv, InjectorOK
  <2>7. ASSUME NEW m \in Msg, ReceiveNext(m)  PROVE InjectorOK'
    BY <2>7 DEF ReceiveNext, TInv, InjectorOK
  <2>8. ASSUME NEW m \in Msg, InjectNext(m)  PROVE InjectorOK'
    <3>1. attempts[m] \in Nat /\ MaxAttempts \in Nat
      BY BoundAssumption DEF TInv, SpoolOK
    <3>2. CASE attempts[m] >= MaxAttempts
      BY <2>8, <3>2 DEF InjectNext, ReportFailure, Record, TInv, InjectorOK
    <3>3. CASE ~(attempts[m] >= MaxAttempts)
      <4>1. /\ pc' = "inject_validate" /\ cur' = m /\ answer' = "none"
            /\ injectable' = injectable \ {m}
            /\ UNCHANGED <<attempts, reports, received, lapsedThen>>
        BY <2>8, <3>3 DEF InjectNext
      <4>2. attempts'[cur'] < MaxAttempts
        BY <3>1, <3>3, <4>1
      <4> QED
        BY <4>1, <4>2 DEF TInv, InjectorOK
    <3> QED
      BY <3>2, <3>3
  <2>9. CASE InjectRefused
    BY <2>9 DEF InjectRefused, ReportFailure, Record, TInv, InjectorOK
  <2>10. CASE InjectValidated
    BY <2>10 DEF InjectValidated, TInv, InjectorOK
  <2>11. CASE RecordTurn
    BY <2>11 DEF RecordTurn, Record, TInv, InjectorOK
  <2>12. CASE Reported \/ InjectDone
    BY <2>12 DEF Reported, InjectDone, TInv, InjectorOK
  <2> QED
    BY <1>5, <2>1, <2>2, <2>3, <2>4, <2>5, <2>6, <2>7, <2>8, <2>9, <2>10, <2>11, <2>12
    DEF Injector
<1>6. CASE Runtime
  <2>1. CASE DeliveryRefused \/ TurnTimeout
    <3>1. /\ pc' \in AckPc \ {"flush_ack"} /\ cur' = cur /\ cur \in Msg /\ answer' = "none"
          /\ UNCHANGED <<reports, received, injectable, lapsedThen>>
      BY <2>1 DEF DeliveryRefused, TurnTimeout, ReportFailure, Record, TInv, InjectorOK
    <3> QED
      BY <3>1 DEF TInv, InjectorOK
  <2>2. CASE PushTurn
    BY <2>2 DEF PushTurn, TInv, InjectorOK
  <2>3. CASE AcceptTurn
    BY <2>3 DEF AcceptTurn, TInv, InjectorOK
  <2> QED
    BY <1>6, <2>1, <2>2, <2>3 DEF Runtime
<1>7. CASE RequestFails
  <2>1. /\ pc' \in {"flush", "receive", "inject"} /\ cur' = None /\ answer' = "none"
        /\ reports' \in {<<>>, reports}
        /\ UNCHANGED <<received, injectable, lapsedThen>>
    BY <1>7 DEF RequestFails
  <2>2. <<>> \in Seq(Report)
    OBVIOUS
  <2>3. reports' \in Seq(Report)
    BY <2>1, <2>2 DEF TInv, InjectorOK
  <2> QED
    BY <2>1, <2>3 DEF TInv, InjectorOK
<1>8. CASE Crash \/ CrashRecording
  <2>1. /\ pc' = "idle" /\ cur' = None /\ answer' = "none"
        /\ reports' = <<>> /\ received' = {} /\ injectable' = {} /\ lapsedThen' = {}
    <3>1. Die
      BY <1>8 DEF Crash, CrashRecording
    <3> QED
      BY <3>1 DEF Die
  <2>2. <<>> \in Seq(Report)
    OBVIOUS
  <2> QED
    BY <2>1, <2>2 DEF InjectorOK
<1>9. CASE Restart \/ UNCHANGED vars
  BY <1>1, <1>9 DEF Restart, vars
<1> QED
  BY <1>2, <1>3, <1>5, <1>6, <1>7, <1>8, <1>9 DEF Next

LEMMA HistoryTypes ==
  ASSUME TInv, [Next]_vars
  PROVE  HistoryOK'
<1> USE DEF serverVars, spoolVars, processVars, eventVars, injectorVars, historyVars,
            bridgeVars
<1>1. CASE UNCHANGED <<pushed, accepted, overdue>>
  BY <1>1 DEF TInv, HistoryOK
<1>2. CASE ControlPlane
  BY <1>1, <1>2 DEF ControlPlane, Send, MarkDispatched, Lapse, Revoke, ExpireIfNeeded,
         CompleteCollaboration, ToggleSession, ProcessLate, ServeAcknowledge,
         ServeEventAcknowledge, ServeValidate
<1>3. CASE EventLoop
  BY <1>1, <1>3 DEF EventLoop, HandleDispatch, EventAcknowledged, EventAcknowledgeFails,
              BlockCommunicationSession, Released, FinishEvent
<1>4. CASE Injector
  BY <1>1, <1>4 DEF Injector, RunOnce, FlushNext, FlushValidated, FlushAcknowledged,
              FlushDone, ReceiveAcknowledged, ReceiveDone, ReceiveNext, InjectNext,
              InjectRefused, InjectValidated, RecordTurn, Reported, InjectDone
<1>5. CASE Runtime
  <2>1. CASE PushTurn \/ AcceptTurn
    BY <2>1 DEF PushTurn, AcceptTurn, TInv, HistoryOK, InjectorOK, Working
  <2>2. CASE DeliveryRefused \/ TurnTimeout
    BY <1>1, <2>2 DEF DeliveryRefused, TurnTimeout
  <2> QED
    BY <1>5, <2>1, <2>2 DEF Runtime
<1>6. CASE RequestFails \/ Restart \/ Crash \/ CrashRecording \/ UNCHANGED vars
  BY <1>1, <1>6 DEF RequestFails, Restart, Crash, CrashRecording, Die, vars
<1> QED
  BY <1>2, <1>3, <1>4, <1>5, <1>6 DEF Next

\* Every variable keeps its type, and the two loops stand where their
\* variables say.
LEMMA TypesInvariant == Spec => []TInv
<1>1. Init => TInv
  BY InitTypes
<1>2. TInv /\ [Next]_vars => TInv'
  BY ServerTypes, SpoolTypes, ProcessTypes, EventTypes, InjectorTypes, HistoryTypes DEF TInv
<1> QED
  BY <1>1, <1>2, PTL DEF Spec

\* The type invariant of the bridge.
THEOREM BridgeTypes == Spec => []TypeOK
  BY TypesInvariant, TInvTypes, PTL

-------------------------------------------------------------------------------
(* What a step may do to a delivery, a row, the message at hand and the    *)
(* reports.  The invariants below follow from these facts, whatever the    *)
(* action was.                                                             *)

\* The injector has a message of its list at hand.
AtHand == {"inject_validate", "inject_deliver", "deliver_accept", "turn_ack", "busy_ack",
           "retry_ack", "failure_ack"}

ReportOf(m, phase) == [msg |-> m, phase |-> phase]

\* An acknowledgement of m that the control plane may process now.
Acknowledgeable(m, phase) ==
  \/ ReportOf(m, phase) \in late
  \/ pc \in AckPc /\ answer = "none" /\ cur = m /\ Request = ReportOf(m, phase)
  \/ evPc = "ack" /\ evAnswer = "none" /\ EventRequest = ReportOf(m, phase)

DeliveryMoves(m) ==
  \/ delivery'[m] = delivery[m]
  \/ delivery[m] = "none" /\ delivery'[m] = "queued" /\ log' = Append(log, [type |-> "dispatch", msg |-> m])
  \/ delivery[m] = "queued" /\ delivery'[m] = "dispatched"
  \/ delivery[m] \in OpenStatus /\ delivery'[m] \in {"revoked", "expired"}
  \/ \E phase \in Phase : /\ Acknowledgeable(m, phase)
                          /\ delivery'[m] = Acknowledged(delivery[m], phase)

LEMMA DeliverySteps ==
  ASSUME TInv, [Next]_vars, NEW m \in Msg
  PROVE  DeliveryMoves(m)
<1> USE DEF serverVars
<1>1. CASE delivery' = delivery
  BY <1>1 DEF DeliveryMoves
<1>2. ASSUME NEW c \in Comm, NEW why \in {"revoked", "expired"}, EndGrant(c, why)
      PROVE  DeliveryMoves(m)
  BY <1>2 DEF EndGrant, ClosedBy, DeliveryMoves
<1>3. delivery \in [Msg -> DeliveryStatus]
  BY DEF TInv, ServerOK
<1>4. CASE ControlPlane
  <2>1. ASSUME NEW n \in Msg, Send(n)  PROVE DeliveryMoves(m)
    BY <1>3, <2>1 DEF Send, DeliveryMoves
  <2>2. ASSUME NEW n \in Msg, MarkDispatched(n)  PROVE DeliveryMoves(m)
    BY <1>3, <2>2 DEF MarkDispatched, Dispatched, DeliveryMoves
  <2>3. ASSUME NEW c \in Comm, Lapse(c) \/ CompleteCollaboration(c)  PROVE DeliveryMoves(m)
    BY <1>1, <2>3 DEF Lapse, CompleteCollaboration
  <2>4. ASSUME NEW c \in Comm, Revoke(c) \/ ExpireIfNeeded(c)  PROVE DeliveryMoves(m)
    BY <1>2, <2>4 DEF Revoke, ExpireIfNeeded
  <2>5. CASE ToggleSession
    BY <1>1, <2>5 DEF ToggleSession
  <2>6. ASSUME NEW r \in late, ProcessLate(r)  PROVE DeliveryMoves(m)
    <3>1. r \in Report /\ r.phase \in Phase /\ r = ReportOf(r.msg, r.phase)
      BY DEF TInv, ServerOK, Report, ReportOf
    <3>2. CASE r.msg = m
      BY <1>3, <2>6, <3>1, <3>2 DEF ProcessLate, DeliveryMoves, Acknowledgeable
    <3>3. CASE r.msg # m
      BY <1>3, <2>6, <3>3 DEF ProcessLate, DeliveryMoves
    <3> QED
      BY <3>2, <3>3
  <2>7. CASE ServeAcknowledge
    <3>1. pc \in AckPc /\ answer = "none"
          /\ delivery' = [delivery EXCEPT ![cur] = Acknowledged(@, Request.phase)]
      BY <2>7 DEF ServeAcknowledge
    <3>2. Request \in Report
      BY <3>1, RequestType
    <3>3. Request.phase \in Phase /\ Request = ReportOf(cur, Request.phase)
      BY <3>2 DEF Report, ReportOf, Request
    <3>4. CASE cur = m
      BY <1>3, <3>1, <3>3, <3>4 DEF DeliveryMoves, Acknowledgeable
    <3>5. CASE cur # m
      BY <1>3, <3>1, <3>5 DEF DeliveryMoves
    <3> QED
      BY <3>4, <3>5
  <2>8. CASE ServeEventAcknowledge
    <3>1. /\ evPc = "ack" /\ evAnswer = "none"
          /\ delivery' = [delivery EXCEPT ![EventRequest.msg] = Acknowledged(@, "device_ack")]
      BY <2>8 DEF ServeEventAcknowledge
    <3>2. EventRequest = ReportOf(EventRequest.msg, "device_ack")
      BY DEF EventRequest, ReportOf
    <3>3. CASE EventRequest.msg = m
      BY <1>3, <3>1, <3>2, <3>3 DEF DeliveryMoves, Acknowledgeable, Phase
    <3>4. CASE EventRequest.msg # m
      BY <1>3, <3>1, <3>4 DEF DeliveryMoves
    <3> QED
      BY <3>3, <3>4
  <2>9. CASE ServeValidate
    <3>1. CommOf[cur] \in Comm
      BY <2>9, MessageAssumption DEF ServeValidate, TInv, InjectorOK, Working
    <3>2. CASE grant[CommOf[cur]] = "active" /\ CommOf[cur] \in lapsed
      BY <1>2, <2>9, <3>1, <3>2 DEF ServeValidate
    <3>3. CASE ~(grant[CommOf[cur]] = "active" /\ CommOf[cur] \in lapsed)
      BY <1>1, <2>9, <3>3 DEF ServeValidate
    <3> QED
      BY <3>2, <3>3
  <2> QED
    BY <1>4, <2>1, <2>2, <2>3, <2>4, <2>5, <2>6, <2>7, <2>8, <2>9 DEF ControlPlane
<1>5. CASE EventLoop
  BY <1>5, <1>1 DEF EventLoop, HandleDispatch, EventAcknowledged, EventAcknowledgeFails,
              BlockCommunicationSession, Released, FinishEvent
<1>6. CASE Injector
  BY <1>6, <1>1 DEF Injector, RunOnce, FlushNext, FlushValidated, FlushAcknowledged,
              FlushDone, ReceiveAcknowledged, ReceiveDone, ReceiveNext, InjectNext,
              InjectRefused, InjectValidated, RecordTurn, Reported, InjectDone
<1>7. CASE Runtime \/ RequestFails
  BY <1>7, <1>1 DEF Runtime, DeliveryRefused, PushTurn, AcceptTurn, TurnTimeout, RequestFails
<1>8. CASE Crash \/ CrashRecording \/ Restart \/ UNCHANGED vars
  BY <1>8, <1>1 DEF Crash, CrashRecording, Die, Restart, vars
<1> QED
  BY <1>4, <1>5, <1>6, <1>7, <1>8 DEF Next

\* Once the device acknowledged a message, or its grant ended, it stays so.
Acked == {"device_acked", "runtime_pending", "runtime_acked", "failed", "revoked", "expired"}
Ended == {"runtime_acked", "revoked", "expired"}

LEMMA DeliveryIsMonotone ==
  ASSUME TInv, [Next]_vars, NEW m \in Msg
  PROVE  /\ delivery[m] # "none" => delivery'[m] # "none"
         /\ delivery[m] # "inbox_persisted" => delivery'[m] # "inbox_persisted"
         /\ delivery[m] \in Acked => delivery'[m] \in Acked
         /\ delivery[m] \in Ended => delivery'[m] \in Ended
<1>1. DeliveryMoves(m)
  BY DeliverySteps
<1>2. delivery[m] \in DeliveryStatus
  BY DEF TInv, ServerOK
<1>3. ASSUME NEW phase \in Phase, delivery'[m] = Acknowledged(delivery[m], phase)
      PROVE  /\ delivery[m] # "none" => delivery'[m] # "none"
             /\ delivery[m] # "inbox_persisted" => delivery'[m] # "inbox_persisted"
             /\ delivery[m] \in Acked => delivery'[m] \in Acked
             /\ delivery[m] \in Ended => delivery'[m] \in Ended
  <2>1. AckedTo(phase) \in {"device_acked", "runtime_pending", "runtime_acked", "failed"}
    BY DEF AckedTo, Phase
  <2>2. AckedFrom(phase) \cap Ended = {}
    BY DEF AckedFrom, Phase, OpenStatus, Ended
  <2> QED
    BY <1>3, <2>1, <2>2 DEF Acknowledged, Acked
<1> QED
  BY <1>1, <1>2, <1>3 DEF DeliveryMoves, Acked, Ended, OpenStatus

\* What becomes of a row.
StatusMoves(m) ==
  \/ status'[m] = status[m]
  \/ /\ status[m] = "absent" /\ status'[m] = "received"
     /\ HasEvent /\ Event.type = "dispatch" /\ Event.msg = m /\ UNCHANGED log
  \/ /\ status[m] = "received" /\ status'[m] = "device_acked"
     /\ \/ evPc = "ack" /\ evAnswer = "ok" /\ Event.msg = m
        \/ pc = "receive_ack" /\ answer = "ok" /\ cur = m
  \/ /\ status'[m] = "blocked"
     /\ \/ status[m] # "absent"
        \/ m \in received
        \/ pc = "flush_validate" /\ cur = m
  \/ status'[m] = "failed" /\ pc = "inject" /\ m \in injectable
  \/ /\ pc \in AtHand /\ cur = m /\ pc' # pc
     /\ \/ status'[m] = "injecting" /\ pc = "inject_validate" /\ answer = "valid"
           /\ status[m] \in Injectable
        \/ /\ status'[m] \in {"runtime_pending", "failed", "blocked_offline"}
           /\ \/ pc \in {"inject_validate", "inject_deliver", "retry_ack"}
              \/ pc = "deliver_accept" /\ answer = "none"
        \/ status'[m] = "injected_unreported" /\ pc = "deliver_accept"
        \/ status'[m] = "injected" /\ pc = "turn_ack" /\ answer = "ok"
  \/ /\ status'[m] = "injected" /\ cur = m
     /\ pc = "flush_ack" /\ answer = "ok" /\ Head(reports).phase = "runtime_ack"

LEMMA StatusSteps ==
  ASSUME TInv, [Next]_vars, NEW m \in Msg
  PROVE  StatusMoves(m)
<1> USE DEF spoolVars, MarkResult, Await, Proceed
<1>1. CASE status' = status
  BY <1>1 DEF StatusMoves
<1>2. status \in [Msg -> SpoolStatus]
  BY DEF TInv, SpoolOK
<1>3. pc \in Working => cur \in Msg
  BY DEF TInv, InjectorOK
<1>4. CASE EventLoop
  <2>1. CASE HandleDispatch
    BY <1>2, <2>1 DEF HandleDispatch, StatusMoves, serverVars
  <2>2. CASE EventAcknowledged
    BY <1>2, <2>2 DEF EventAcknowledged, StatusMoves
  <2>3. CASE BlockCommunicationSession
    BY <1>2, <2>3 DEF BlockCommunicationSession, StatusMoves
  <2>4. CASE EventAcknowledgeFails \/ Released
    BY <1>1, <2>4 DEF EventAcknowledgeFails, Released
  <2> QED
    BY <1>4, <2>1, <2>2, <2>3, <2>4 DEF EventLoop
<1>5. CASE Injector
  <2>1. CASE RunOnce \/ FlushNext \/ FlushDone \/ ReceiveDone \/ InjectDone
    BY <1>1, <2>1 DEF RunOnce, FlushNext, FlushDone, ReceiveDone, InjectDone
  <2>2. CASE FlushValidated
    BY <1>2, <2>2 DEF FlushValidated, StatusMoves
  <2>3. CASE FlushAcknowledged
    BY <1>2, <2>3 DEF FlushAcknowledged, StatusMoves
  <2>4. CASE ReceiveAcknowledged
    BY <1>2, <2>4 DEF ReceiveAcknowledged, StatusMoves
  <2>5. ASSUME NEW n \in Msg, ReceiveNext(n)  PROVE StatusMoves(m)
    BY <1>2, <2>5 DEF ReceiveNext, StatusMoves
  <2>6. ASSUME NEW n \in Msg, InjectNext(n)  PROVE StatusMoves(m)
    BY <1>2, <2>6 DEF InjectNext, ReportFailure, Record, StatusMoves
  <2>7. CASE InjectRefused
    BY <1>2, <2>7 DEF InjectRefused, ReportFailure, Record, StatusMoves, AtHand
  <2>8. CASE InjectValidated
    BY <1>2, <2>8 DEF InjectValidated, StatusMoves, AtHand
  <2>9. CASE RecordTurn
    BY <1>2, <2>9 DEF RecordTurn, Record, StatusMoves, AtHand
  <2>10. CASE Reported
    BY <1>2, <2>10 DEF Reported, StatusMoves, AtHand
  <2> QED
    BY <1>5, <2>1, <2>2, <2>3, <2>4, <2>5, <2>6, <2>7, <2>8, <2>9, <2>10 DEF Injector
<1>6. CASE Runtime
  <2>1. CASE DeliveryRefused
    BY <1>2, <2>1 DEF DeliveryRefused, ReportFailure, Record, StatusMoves, AtHand
  <2>2. CASE TurnTimeout
    BY <1>2, <2>2 DEF TurnTimeout, ReportFailure, Record, StatusMoves, AtHand
  <2>3. CASE PushTurn \/ AcceptTurn
    BY <1>1, <2>3 DEF PushTurn, AcceptTurn
  <2> QED
    BY <1>6, <2>1, <2>2, <2>3 DEF Runtime
<1>7. CASE RequestFails
  <2>1. \/ status' = status
        \/ /\ pc \in {"inject_validate", "retry_ack"} /\ pc' = "inject"
           /\ status' = [status EXCEPT ![cur] = "blocked_offline"]
    BY <1>7 DEF RequestFails, ValidatePc, AckPc
  <2> QED
    BY <1>1, <1>2, <2>1 DEF StatusMoves, AtHand
<1>8. CASE ControlPlane
  BY <1>1, <1>8 DEF ControlPlane, Send, MarkDispatched, Lapse, Revoke, ExpireIfNeeded,
         CompleteCollaboration, ToggleSession, ProcessLate, ServeAcknowledge,
         ServeEventAcknowledge, ServeValidate, bridgeVars
<1>9. CASE Crash \/ CrashRecording \/ Restart \/ UNCHANGED vars
  BY <1>1, <1>9 DEF Crash, CrashRecording, Restart, vars
<1> QED
  BY <1>4, <1>5, <1>6, <1>7, <1>8, <1>9 DEF Next

\* The ways of a message at hand.
Onward ==
  {<<"inject_validate", "inject_deliver">>, <<"inject_validate", "failure_ack">>,
   <<"inject_deliver", "deliver_accept">>, <<"inject_deliver", "busy_ack">>,
   <<"inject_deliver", "retry_ack">>, <<"inject_deliver", "failure_ack">>,
   <<"deliver_accept", "turn_ack">>, <<"deliver_accept", "retry_ack">>}

\* How a message comes to hand and stays there.  A list is read anew only when
\* no message is at hand.
HandMoves ==
  /\ \/ pc' \notin AtHand
     \/ pc \in AtHand /\ cur' = cur /\ (pc' = pc \/ <<pc, pc'>> \in Onward)
     \/ /\ pc = "inject" /\ cur' \in injectable /\ injectable' = injectable \ {cur'}
        /\ pc' \in {"inject_validate", "failure_ack"}
  /\ \/ injectable' \subseteq injectable
     \/ injectable' = ListInjectable /\ pc' = "flush" /\ UNCHANGED <<status, log>>
  /\ pc = "deliver_accept" /\ answer = "accepted"
       => pc' \notin Trying \/ (pc' = "deliver_accept" /\ answer' = "accepted")
  /\ pc' = "inject_deliver"
       => pc = "inject_deliver" \/ (pc = "inject_validate" /\ answer = "valid")

LEMMA HandSteps ==
  ASSUME TInv, [Next]_vars
  PROVE  HandMoves
<1> USE DEF injectorVars, Await, Proceed, AtHand, Onward, Trying
<1>1. CASE UNCHANGED <<pc, cur, injectable>> /\ (answer = "accepted" => answer' = answer)
  BY <1>1 DEF HandMoves
<1>2. CASE ControlPlane
  BY <1>1, <1>2 DEF ControlPlane, Send, MarkDispatched, Lapse, Revoke, ExpireIfNeeded,
         CompleteCollaboration, ToggleSession, ProcessLate, ServeAcknowledge,
         ServeEventAcknowledge, ServeValidate, bridgeVars
<1>3. CASE EventLoop
  BY <1>1, <1>3 DEF EventLoop, HandleDispatch, EventAcknowledged, EventAcknowledgeFails,
              BlockCommunicationSession, Released, FinishEvent
<1>4. CASE Injector
  <2>1. CASE RunOnce
    BY <2>1 DEF RunOnce, HandMoves, serverVars, spoolVars
  <2>2. CASE FlushNext \/ FlushValidated \/ FlushAcknowledged \/ FlushDone
    BY <2>2 DEF FlushNext, FlushValidated, FlushAcknowledged, FlushDone, HandMoves
  <2>3. CASE ReceiveAcknowledged \/ ReceiveDone \/ \E n \in Msg : ReceiveNext(n)
    BY <2>3 DEF ReceiveAcknowledged, ReceiveDone, ReceiveNext, HandMoves
  <2>4. ASSUME NEW n \in Msg, InjectNext(n)  PROVE HandMoves
    BY <2>4 DEF InjectNext, ReportFailure, Record, HandMoves
  <2>5. CASE InjectRefused \/ InjectValidated
    BY <2>5 DEF InjectRefused, InjectValidated, ReportFailure, Record, HandMoves
  <2>6. CASE RecordTurn \/ Reported \/ InjectDone
    BY <2>6 DEF RecordTurn, Reported, InjectDone, Record, HandMoves
  <2> QED
    BY <1>4, <2>1, <2>2, <2>3, <2>4, <2>5, <2>6 DEF Injector
<1>5. CASE Runtime
  BY <1>5 DEF Runtime, DeliveryRefused, PushTurn, AcceptTurn, TurnTimeout, ReportFailure,
              Record, HandMoves
<1>6. CASE RequestFails
  <2>1. pc' \in {"flush", "receive", "inject"} /\ UNCHANGED injectable
    BY <1>6 DEF RequestFails
  <2> QED
    BY <2>1 DEF HandMoves
<1>7. CASE Crash \/ CrashRecording
  <2>1. Die
    BY <1>7 DEF Crash, CrashRecording
  <2> QED
    BY <2>1 DEF Die, HandMoves
<1>8. CASE Restart \/ UNCHANGED vars
  BY <1>1, <1>8 DEF Restart, vars
<1> QED
  BY <1>2, <1>3, <1>4, <1>5, <1>6, <1>7, <1>8 DEF Next

\* Reports are made of the message at hand, kept, retried and abandoned.
NewReport(r) ==
  \/ r = ReportOf(cur, "runtime_ack") /\ pc = "deliver_accept" /\ answer = "accepted"
     /\ pc' \in {"turn_ack", "idle"}
  \/ r = ReportOf(cur, "runtime_pending") /\ pc \in AtHand
  \/ /\ r = ReportOf(cur', "runtime_failed") /\ pc' = "failure_ack"
     /\ status'[cur'] = "failed"
     /\ \/ pc = "inject" /\ cur' \in injectable
        \/ pc \in {"inject_validate", "inject_deliver"} /\ cur' = cur

ReportMoves ==
  /\ \A r \in ToSet(unreported') : r \in ToSet(unreported) \/ NewReport(r)
  /\ \A r \in ToSet(reports') : r \in ToSet(reports) \cup ToSet(unreported)
  /\ \A r \in late' : \/ r \in late
                      \/ pc \in AckPc /\ answer = "none" /\ r = Request
                      \/ evPc = "ack" /\ r = EventRequest
  /\ pc' \in AckPc =>
       \/ pc \in AckPc /\ Request' = Request
       \/ pc = "flush_validate" /\ Request' = Head(reports)
       \/ pc' = "receive_ack"
       \/ NewReport(Request')

LEMMA ToSetOfSteps ==
  ASSUME NEW S, NEW s \in Seq(S)
  PROVE  /\ \A e \in S : ToSet(Append(s, e)) = ToSet(s) \cup {e}
         /\ s # <<>> => ToSet(Tail(s)) \subseteq ToSet(s)
         /\ s # <<>> => ToSet(Front(s)) \subseteq ToSet(s)
         /\ s # <<>> => Head(s) \in ToSet(s)
         /\ \A e : ToSet(RemoveFirst(s, e)) \subseteq ToSet(s)
         /\ \A K : ToSet(Kept(s, K)) \subseteq ToSet(s)
         /\ ToSet(s) \subseteq S
<1>1. ASSUME NEW e \in S  PROVE ToSet(Append(s, e)) = ToSet(s) \cup {e}
  <2>1. /\ DOMAIN Append(s, e) = 1..(Len(s) + 1) /\ DOMAIN s = 1..Len(s) /\ Len(s) \in Nat
        /\ \A i \in 1..Len(s) : Append(s, e)[i] = s[i]
        /\ Append(s, e)[Len(s) + 1] = e
    OBVIOUS
  <2>2. ToSet(s) \cup {e} \subseteq ToSet(Append(s, e))
    BY <2>1 DEF ToSet
  <2>3. ASSUME NEW i \in 1..(Len(s) + 1)  PROVE Append(s, e)[i] \in ToSet(s) \cup {e}
    <3>1. CASE i = Len(s) + 1
      BY <2>1, <3>1
    <3>2. CASE i \in 1..Len(s)
      BY <2>1, <3>2 DEF ToSet
    <3> QED
      BY <2>1, <3>1, <3>2
  <2> QED
    BY <2>1, <2>2, <2>3 DEF ToSet
<1>2. ASSUME s # <<>>
      PROVE  ToSet(Tail(s)) \subseteq ToSet(s) /\ Head(s) \in ToSet(s)
  BY <1>2 DEF ToSet
<1>3. ASSUME s # <<>>  PROVE ToSet(Front(s)) \subseteq ToSet(s)
  BY <1>3 DEF ToSet, Front
<1>4. ASSUME NEW e  PROVE ToSet(RemoveFirst(s, e)) \subseteq ToSet(s)
  <2> DEFINE t == RemoveFirst(s, e)
  <2>1. t \in Seq(S) /\ \A i \in 1..Len(t) : \E j \in 1..Len(s) : t[i] = s[j]
    BY RemoveFirstElements
  <2> HIDE DEF t
  <2> QED
    BY <2>1 DEF ToSet, t
<1>5. ASSUME NEW K  PROVE ToSet(Kept(s, K)) \subseteq ToSet(s)
  <2> DEFINE t == Kept(s, K)
  <2>1. t \in Seq(S) /\ \A i \in 1..Len(t) : \E j \in 1..Len(s) : t[i] = s[j]
    BY KeptElements
  <2> HIDE DEF t
  <2> QED
    BY <2>1 DEF ToSet, t
<1>6. ToSet(s) \subseteq S
  BY DEF ToSet
<1> QED
  BY <1>1, <1>2, <1>3, <1>4, <1>5, <1>6

LEMMA ReportSteps ==
  ASSUME TInv, [Next]_vars
  PROVE  ReportMoves
<1> USE DEF spoolVars, injectorVars, Await, Proceed
<1>0. unreported \in Seq(Report) /\ reports \in Seq(Report)
  BY DEF TInv, SpoolOK, InjectorOK
<1>1. CASE UNCHANGED <<unreported, reports, late, pc, cur>>
  BY <1>1 DEF ReportMoves, Request
<1>2. CASE ControlPlane
  <2>1. CASE \E r \in late : ProcessLate(r)
    BY <2>1 DEF ProcessLate, ReportMoves, Request, bridgeVars
  <2>2. CASE ~ \E r \in late : ProcessLate(r)
    BY <1>1, <1>2, <2>2 DEF ControlPlane, Send, MarkDispatched, Lapse, Revoke,
         ExpireIfNeeded, CompleteCollaboration, ToggleSession, ServeAcknowledge,
         ServeEventAcknowledge, ServeValidate, bridgeVars
  <2> QED
    BY <2>1, <2>2
<1>3. CASE EventLoop
  <2>1. CASE BlockCommunicationSession
    BY <1>0, <2>1, ToSetOfSteps DEF BlockCommunicationSession, ReportMoves, Request
  <2>2. CASE EventAcknowledgeFails
    BY <2>2 DEF EventAcknowledgeFails, FinishEvent, ReportMoves, Request
  <2>3. CASE HandleDispatch \/ EventAcknowledged \/ Released
    BY <1>1, <2>3 DEF HandleDispatch, EventAcknowledged, Released, FinishEvent
  <2> QED
    BY <1>3, <2>1, <2>2, <2>3 DEF EventLoop
<1>4. ASSUME NEW m \in Msg, NEW phase \in Phase, NEW s, NEW p \in AckPc \ {"flush_ack"},
             Record(m, phase, s, p), UNCHANGED <<reports, late>>,
             Request' = ReportOf(m, phase), NewReport(ReportOf(m, phase))
      PROVE  ReportMoves
  <2>1. ReportOf(m, phase) \in Report /\ unreported' = Append(unreported, ReportOf(m, phase))
    BY <1>4 DEF Record, ReportOf, Report
  <2>2. ToSet(unreported') = ToSet(unreported) \cup {ReportOf(m, phase)}
    BY <1>0, <2>1, ToSetOfSteps
  <2> QED
    BY <1>4, <2>2 DEF ReportMoves
<1>5. ASSUME NEW m \in Msg, Record(m, "runtime_failed", "failed", "failure_ack"),
             UNCHANGED <<reports, late>>,
             \/ pc = "inject" /\ m \in injectable
             \/ pc \in {"inject_validate", "inject_deliver"} /\ m = cur
      PROVE  ReportMoves
  <2>1. /\ pc' = "failure_ack" /\ cur' = m /\ Request' = ReportOf(m, "runtime_failed")
        /\ status'[m] = "failed"
    BY <1>5 DEF Record, MarkResult, Request, ReportOf, TInv, SpoolOK
  <2>2. NewReport(ReportOf(m, "runtime_failed"))
    BY <1>5, <2>1 DEF NewReport
  <2> QED
    BY <1>4, <1>5, <2>1, <2>2 DEF Phase, AckPc
<1>6. ASSUME NEW s, NEW p \in {"busy_ack", "retry_ack"}, cur \in Msg,
             Record(cur, "runtime_pending", s, p), pc \in AtHand, UNCHANGED <<reports, late>>
      PROVE  ReportMoves
  <2>1. pc' = p /\ cur' = cur /\ Request' = ReportOf(cur, "runtime_pending")
    BY <1>6 DEF Record, Request, ReportOf
  <2>2. NewReport(ReportOf(cur, "runtime_pending"))
    BY <1>6 DEF NewReport
  <2> QED
    BY <1>4, <1>6, <2>1, <2>2 DEF Phase, AckPc
<1>7. CASE Injector
  <2>1. CASE RunOnce
    BY <2>1 DEF RunOnce, ReportMoves, AckPc
  <2>2. CASE FlushNext
    BY <1>0, <2>2, ToSetOfSteps DEF FlushNext, ReportMoves, AckPc
  <2>3. CASE FlushValidated
    <3>1. cur = Head(reports).msg /\ Head(reports) \in Report /\ reports # <<>>
      BY <2>3, <1>0 DEF FlushValidated, TInv, InjectorOK, Flushing
    <3>2. Head(reports) = ReportOf(cur, Head(reports).phase)
      BY <3>1 DEF Report, ReportOf
    <3>3. CASE answer = "valid"
      <4>1. pc' = "flush_ack" /\ cur' = cur /\ UNCHANGED <<unreported, reports, late>>
        BY <2>3, <3>3 DEF FlushValidated
      <4>2. Request' = Head(reports)
        BY <3>2, <4>1 DEF Request, ReportOf
      <4> QED
        BY <2>3, <4>1, <4>2 DEF FlushValidated, ReportMoves
    <3>4. CASE answer # "valid"
      BY <1>0, <2>3, <3>1, <3>4, ToSetOfSteps DEF FlushValidated, ReportMoves, AckPc
    <3> QED
      BY <3>3, <3>4
  <2>4. CASE FlushAcknowledged
    <3>1. reports # <<>>
      BY <2>4 DEF FlushAcknowledged, TInv, InjectorOK, Flushing
    <3> QED
      BY <1>0, <2>4, <3>1, ToSetOfSteps DEF FlushAcknowledged, ReportMoves, AckPc
  <2>5. CASE FlushDone \/ ReceiveAcknowledged \/ ReceiveDone \/ InjectDone
    BY <2>5 DEF FlushDone, ReceiveAcknowledged, ReceiveDone, InjectDone, ReportMoves, AckPc
  <2>6. ASSUME NEW n \in Msg, ReceiveNext(n)  PROVE ReportMoves
    BY <2>6 DEF ReceiveNext, ReportMoves, AckPc
  <2>7. ASSUME NEW n \in Msg, InjectNext(n)  PROVE ReportMoves
    <3>1. CASE attempts[n] >= MaxAttempts
      BY <1>5, <2>7, <3>1 DEF InjectNext, ReportFailure
    <3>2. CASE ~(attempts[n] >= MaxAttempts)
      BY <2>7, <3>2 DEF InjectNext, ReportMoves, AckPc
    <3> QED
      BY <3>1, <3>2
  <2>8. CASE InjectRefused
    <3>1. cur \in Msg
      BY <2>8 DEF InjectRefused, TInv, InjectorOK, Working, ValidatePc
    <3> QED
      BY <1>5, <2>8, <3>1 DEF InjectRefused, ReportFailure
  <2>9. CASE InjectValidated
    BY <2>9 DEF InjectValidated, ReportMoves, AckPc
  <2>10. CASE RecordTurn
    <3>1. cur \in Msg
      BY <2>10 DEF RecordTurn, TInv, InjectorOK, Working
    <3>2. pc' = "turn_ack" /\ cur' = cur /\ Request' = ReportOf(cur, "runtime_ack")
      BY <2>10 DEF RecordTurn, Record, Request, ReportOf
    <3>3. NewReport(ReportOf(cur, "runtime_ack"))
      BY <2>10, <3>2 DEF RecordTurn, NewReport
    <3> QED
      BY <1>4, <2>10, <3>1, <3>2, <3>3 DEF RecordTurn, Phase, AckPc
  <2>11. CASE Reported
    BY <1>0, <2>11, ToSetOfSteps DEF Reported, ReportMoves, AckPc
  <2> QED
    BY <1>7, <2>1, <2>2, <2>3, <2>4, <2>5, <2>6, <2>7, <2>8, <2>9, <2>10, <2>11 DEF Injector
<1>8. CASE Runtime
  <2>1. CASE DeliveryRefused
    <3>1. cur \in Msg /\ pc = "inject_deliver" /\ UNCHANGED <<reports, late>>
      BY <2>1 DEF DeliveryRefused, TInv, InjectorOK, Working
    <3>2. \/ Record(cur, "runtime_pending", "runtime_pending", "busy_ack")
          \/ Record(cur, "runtime_pending", "runtime_pending", "retry_ack")
          \/ Record(cur, "runtime_failed", "failed", "failure_ack")
      BY <2>1 DEF DeliveryRefused, ReportFailure
    <3> QED
      BY <1>5, <1>6, <3>1, <3>2 DEF AtHand
  <2>2. CASE TurnTimeout
    <3>1. /\ cur \in Msg /\ pc = "deliver_accept" /\ UNCHANGED <<reports, late>>
          /\ Record(cur, "runtime_pending", "runtime_pending", "retry_ack")
      BY <2>2 DEF TurnTimeout, ReportFailure, TInv, InjectorOK, Working
    <3> QED
      BY <1>6, <3>1 DEF AtHand
  <2>3. CASE PushTurn
    BY <2>3 DEF PushTurn, ReportMoves, AckPc
  <2>4. CASE AcceptTurn
    BY <2>4, <1>1 DEF AcceptTurn
  <2> QED
    BY <1>8, <2>1, <2>2, <2>3, <2>4 DEF Runtime
<1>9. CASE RequestFails
  <2>1. pc' \in {"flush", "receive", "inject"} /\ reports' \in {<<>>, reports}
    BY <1>9 DEF RequestFails
  <2>2. ToSet(<<>>) = {}
    BY DEF ToSet
  <2> QED
    BY <1>9, <2>1, <2>2 DEF RequestFails, ReportMoves, AckPc
<1>10. CASE Crash \/ CrashRecording
  <2>1. /\ pc' = "idle" /\ reports' = <<>> /\ late' = late \cup InFlight
    BY <1>10 DEF Crash, CrashRecording, Die
  <2>2. ToSet(<<>>) = {}
    BY DEF ToSet
  <2>3. \A r \in ToSet(unreported') : r \in ToSet(unreported) \/ NewReport(r)
    <3>1. CASE Crash
      BY <3>1 DEF Crash
    <3>2. CASE CrashRecording
      <4>1. ReportOf(cur, "runtime_ack") \in Report
            /\ unreported' = Append(unreported, ReportOf(cur, "runtime_ack"))
        BY <3>2 DEF CrashRecording, ReportOf, Report, Phase, TInv, InjectorOK, Working
      <4>2. NewReport(ReportOf(cur, "runtime_ack"))
        BY <2>1, <3>2 DEF CrashRecording, NewReport
      <4> QED
        BY <1>0, <4>1, <4>2, ToSetOfSteps
    <3> QED
      BY <1>10, <3>1, <3>2
  <2> QED
    BY <2>1, <2>2, <2>3 DEF ReportMoves, AckPc, InFlight
<1>11. CASE Restart \/ UNCHANGED vars
  BY <1>1, <1>11 DEF Restart, vars
<1> QED
  BY <1>2, <1>3, <1>7, <1>8, <1>9, <1>10, <1>11 DEF Next

\* Who answers, and what the injector acknowledges receipt of.
AnswerMoves ==
  /\ answer' # "none" =>
       \/ answer' = answer /\ UNCHANGED <<pc, cur, reports>>
       \/ answer' = "ok" /\ ServeAcknowledge
       \/ answer' \in {"valid", "invalid"} /\ ServeValidate
       \/ answer' = "accepted" /\ AcceptTurn
  /\ evAnswer' = "ok" =>
       evPc' = evPc /\ cursor' = cursor /\ (evAnswer = "ok" \/ ServeEventAcknowledge)
  /\ received' \subseteq received \/ received' = {m \in Msg : status[m] = "received"}
  /\ pc' = "receive_ack" => (pc = "receive_ack" /\ cur' = cur) \/ cur' \in received
  /\ accepted' = accepted \/ AcceptTurn

LEMMA AnswerSteps ==
  ASSUME TInv, [Next]_vars
  PROVE  AnswerMoves
<1> USE DEF injectorVars, eventVars, historyVars, spoolVars, Await, Proceed
<1>1. CASE UNCHANGED <<answer, pc, cur, reports, evAnswer, evPc, cursor, received, accepted>>
  BY <1>1 DEF AnswerMoves, TInv, EventOK
<1>2. CASE ControlPlane
  <2>1. CASE ServeAcknowledge
    BY <2>1 DEF ServeAcknowledge, AnswerMoves, TInv, EventOK
  <2>2. CASE ServeValidate
    BY <2>2 DEF ServeValidate, AnswerMoves, TInv, EventOK
  <2>3. CASE ServeEventAcknowledge
    BY <2>3 DEF ServeEventAcknowledge, AnswerMoves
  <2>4. CASE ~(ServeAcknowledge \/ ServeValidate \/ ServeEventAcknowledge)
    BY <1>1, <1>2, <2>4 DEF ControlPlane, Send, MarkDispatched, Lapse, Revoke,
         ExpireIfNeeded, CompleteCollaboration, ToggleSession, ProcessLate, bridgeVars
  <2> QED
    BY <2>1, <2>2, <2>3, <2>4
<1>3. CASE EventLoop
  <2>1. UNCHANGED <<answer, pc, cur, reports, received, accepted>>
    BY <1>3 DEF EventLoop, HandleDispatch, EventAcknowledged, EventAcknowledgeFails,
              BlockCommunicationSession, Released, FinishEvent
  <2>2. evAnswer' # "ok"
    BY <1>3 DEF EventLoop, HandleDispatch, EventAcknowledged, EventAcknowledgeFails,
              BlockCommunicationSession, Released, FinishEvent, HasEvent, TInv, EventOK
  <2> QED
    BY <2>1, <2>2 DEF AnswerMoves
<1>4. CASE /\ UNCHANGED <<evAnswer, evPc, cursor, accepted>>
           /\ answer' = "none" \/ UNCHANGED <<answer, pc, cur, reports>>
           /\ received' \subseteq received \/ received' = {m \in Msg : status[m] = "received"}
           /\ pc' = "receive_ack" => (pc = "receive_ack" /\ cur' = cur) \/ cur' \in received
  BY <1>4 DEF AnswerMoves, TInv, EventOK
<1>5. CASE Injector
  <2>1. UNCHANGED <<evAnswer, evPc, cursor, accepted>>
    BY <1>5 DEF Injector, RunOnce, FlushNext, FlushValidated, FlushAcknowledged,
              FlushDone, ReceiveAcknowledged, ReceiveDone, ReceiveNext, InjectNext,
              InjectRefused, InjectValidated, RecordTurn, Reported, InjectDone
  <2>2. CASE RunOnce
    BY <1>4, <2>1, <2>2 DEF RunOnce
  <2>3. ASSUME NEW m \in Msg, ReceiveNext(m)  PROVE AnswerMoves
    BY <1>4, <2>1, <2>3 DEF ReceiveNext
  <2>4. CASE FlushNext
    <3>1. CASE status[Head(reports).msg] = "blocked"
      <4>1. UNCHANGED <<answer, pc, cur, received>> /\ pc = "flush"
        BY <2>4, <3>1 DEF FlushNext
      <4>2. answer = "none"
        BY <4>1 DEF TInv, InjectorOK, Working, ValidatePc, AckPc
      <4> QED
        BY <1>4, <2>1, <4>1, <4>2
    <3>2. CASE status[Head(reports).msg] # "blocked"
      BY <1>4, <2>1, <2>4, <3>2 DEF FlushNext
    <3> QED
      BY <3>1, <3>2
  <2>5. CASE FlushValidated \/ FlushAcknowledged \/ FlushDone \/ ReceiveAcknowledged \/ ReceiveDone
    BY <1>4, <2>1, <2>5 DEF FlushValidated, FlushAcknowledged, FlushDone,
              ReceiveAcknowledged, ReceiveDone
  <2>6. ASSUME NEW m \in Msg, InjectNext(m)  PROVE AnswerMoves
    BY <1>4, <2>1, <2>6 DEF InjectNext, ReportFailure, Record
  <2>7. CASE InjectRefused \/ InjectValidated
    BY <1>4, <2>1, <2>7 DEF InjectRefused, InjectValidated, ReportFailure, Record
  <2>8. CASE RecordTurn \/ Reported \/ InjectDone
    BY <1>4, <2>1, <2>8 DEF RecordTurn, Reported, InjectDone, Record
  <2> QED
    BY <1>5, <2>2, <2>3, <2>4, <2>5, <2>6, <2>7, <2>8 DEF Injector
<1>6. CASE Runtime
  <2>1. CASE AcceptTurn
    BY <2>1 DEF AcceptTurn, AnswerMoves, TInv, EventOK
  <2>2. CASE PushTurn
    BY <1>4, <2>2 DEF PushTurn
  <2>3. CASE DeliveryRefused \/ TurnTimeout
    BY <1>4, <2>3 DEF DeliveryRefused, TurnTimeout, ReportFailure, Record
  <2> QED
    BY <1>6, <2>1, <2>2, <2>3 DEF Runtime
<1>7. CASE RequestFails
  <2>1. /\ pc' \in {"flush", "receive", "inject"} /\ answer' = "none"
        /\ UNCHANGED <<received, evAnswer, evPc, cursor, accepted>>
    BY <1>7 DEF RequestFails
  <2> QED
    BY <1>4, <2>1
<1>8. CASE Crash \/ CrashRecording
  <2>1. Die
    BY <1>8 DEF Crash, CrashRecording
  <2> QED
    BY <2>1 DEF Die, AnswerMoves
<1>9. CASE Restart \/ UNCHANGED vars
  BY <1>1, <1>9 DEF Restart, vars
<1> QED
  BY <1>2, <1>3, <1>5, <1>6, <1>7, <1>8, <1>9 DEF Next

-------------------------------------------------------------------------------
(* The spool never runs ahead of the control plane, and reports are true.  *)

\* A message the bridge holds has been sent; one past `received` was
\* acknowledged, wherever the bridge keeps it.
DeliveriesLead ==
  /\ \A m \in Msg : delivery[m] # "inbox_persisted"
  /\ \A i \in 1..Len(log) : log[i].type = "dispatch" => delivery[log[i].msg] # "none"
  /\ \A m \in Msg : status[m] # "absent" => delivery[m] # "none"
  /\ \A m \in Msg : status[m] \notin {"absent", "received", "blocked"}
                    => delivery[m] \in Acked
  /\ \A m \in received : delivery[m] # "none"
  /\ pc = "receive_ack" => delivery[cur] # "none"
  /\ \A m \in injectable : delivery[m] \in Acked
  /\ pc \in AtHand => delivery[cur] \in Acked
  /\ \A m \in accepted : delivery[m] \in Acked
  /\ \A r \in ToSet(unreported) \cup ToSet(reports) : delivery[r.msg] \in Acked
  /\ evPc = "ack" /\ evAnswer = "ok" => delivery[Event.msg] \in Acked
  /\ pc = "receive_ack" /\ answer = "ok" => delivery[cur] \in Acked

\* No list and no row lets the injector try m again (what AcceptedIsClosed says
\* of an accepted message).
Closed(m) ==
  /\ status[m] \notin Untried \cup Injectable
  /\ m \notin injectable
  /\ pc \in Trying /\ cur = m => pc = "deliver_accept" /\ answer = "accepted"

\* m was given up: it is not accepted and will not be.
GivenUp(m) == Closed(m) /\ m \notin accepted

Truthful(r) ==
  /\ r.phase = "runtime_ack" => r.msg \in accepted
  /\ r.phase = "runtime_failed" => GivenUp(r.msg)

\* Every report, wherever it is, tells what happened; a delivery and a row are
\* settled by such reports only.
ReportsHold ==
  /\ pc = "deliver_accept" /\ answer = "accepted" => cur \in accepted
  /\ \A r \in ToSet(unreported) \cup ToSet(reports) \cup late : Truthful(r)
  /\ pc \in AckPc => Truthful(Request)
  /\ \A m \in Msg : /\ delivery[m] = "runtime_acked" => m \in accepted
                    /\ delivery[m] = "failed" => GivenUp(m)
  /\ pc = "turn_ack" /\ answer = "ok" => delivery[cur] \in Ended
  /\ pc = "flush_ack" /\ answer = "ok" /\ Head(reports).phase = "runtime_ack"
       => delivery[cur] \in Ended
  /\ \A m \in Msg : status[m] = "injected" => delivery[m] \in Ended

LEMMA InitLeads == Init => DeliveriesLead
  BY DEF Init, DeliveriesLead, AtHand, ToSet

\* After a device acknowledgement was processed, the message is acknowledged.
LEMMA DeviceAcknowledges ==
  ASSUME NEW s \in DeliveryStatus \ {"none", "inbox_persisted"}
  PROVE  Acknowledged(s, "device_ack") \in Acked
  BY DEF Acknowledged, AckedFrom, AckedTo, Acked, DeliveryStatus, TerminalStatus, OpenStatus

LEMMA ReportsTyped ==
  ASSUME TInv
  PROVE  \A r \in ToSet(unreported) \cup ToSet(reports) :
           r \in Report /\ r.msg \in Msg /\ r.phase \in Phase
<1>1. unreported \in Seq(Report) /\ reports \in Seq(Report)
  BY DEF TInv, SpoolOK, InjectorOK
<1>2. ToSet(unreported) \cup ToSet(reports) \subseteq Report
  BY <1>1, ToSetOfSteps
<1> QED
  BY <1>2 DEF Report

LEMMA LeadsPreserved ==
  ASSUME TInv, DeliveriesLead, [Next]_vars
  PROVE  DeliveriesLead'
<1>1. \A m \in Msg : /\ delivery[m] # "none" => delivery'[m] # "none"
                     /\ delivery[m] # "inbox_persisted" => delivery'[m] # "inbox_persisted"
                     /\ delivery[m] \in Acked => delivery'[m] \in Acked
  BY DeliveryIsMonotone
<1>2. /\ pc \in Working => cur \in Msg
      /\ received \subseteq Msg /\ injectable \subseteq Msg /\ accepted \subseteq Msg
      /\ cursor \in 0..Len(log) /\ log \in Seq(LogEntry)
      /\ delivery \in [Msg -> DeliveryStatus] /\ status \in [Msg -> SpoolStatus]
  BY DEF TInv, InjectorOK, SpoolOK, ServerOK, HistoryOK
<1>3. \A r \in ToSet(unreported) \cup ToSet(reports) : r.msg \in Msg
  BY ReportsTyped
<1>4. AtHand \subseteq Working /\ "receive_ack" \in Working
  BY DEF AtHand, Working, ValidatePc, AckPc
<1>5. \A m \in Msg : delivery[m] \in Acked => delivery[m] # "none"
  BY DEF Acked
<1>6. /\ \A m \in Msg : StatusMoves(m)
      /\ HandMoves /\ ReportMoves /\ AnswerMoves
      /\ LogGrows /\ log' \in Seq(LogEntry)
  BY StatusSteps, HandSteps, ReportSteps, AnswerSteps, LogOnlyGrows
\* The event at hand stays what it is.
<1>7. cursor < Len(log) => /\ log'[cursor + 1] = log[cursor + 1]
                           /\ cursor + 1 \in 1..Len(log)
  BY <1>2, <1>6 DEF LogGrows
<1>8. (\A m \in Msg : delivery[m] # "inbox_persisted")'
  BY <1>1 DEF DeliveriesLead
<1>9. ASSUME NEW i \in 1..Len(log'), log'[i].type = "dispatch"
      PROVE  delivery'[log'[i].msg] # "none"
  <2>1. CASE i \in 1..Len(log)
    <3>1. log'[i] = log[i] /\ log[i] \in LogEntry
      BY <1>2, <1>6, <2>1 DEF LogGrows
    <3>2. log[i].msg \in Msg
      BY <1>9, <3>1 DEF LogEntry
    <3> QED
      BY <1>1, <1>9, <2>1, <3>1, <3>2 DEF DeliveriesLead
  <2>2. CASE i \notin 1..Len(log)
    <3>1. log'[i].msg \in Msg /\ Send(log'[i].msg)
      BY <1>9, <2>2, NewEntry
    <3> QED
      BY <1>2, <3>1 DEF Send
  <2> QED
    BY <2>1, <2>2
<1>10. ASSUME NEW m \in Msg, status'[m] # "absent"
       PROVE  delivery'[m] # "none"
  <2>1. delivery[m] # "none"
    <3>1. CASE status[m] # "absent"
      BY <3>1 DEF DeliveriesLead
    <3>2. CASE HasEvent /\ Event.type = "dispatch" /\ Event.msg = m
      BY <1>2, <1>7, <3>2 DEF HasEvent, Event, DeliveriesLead
    <3>3. CASE m \in received \/ m \in injectable
      BY <1>2, <1>5, <3>3 DEF DeliveriesLead
    <3>4. CASE pc \in AtHand /\ cur = m
      BY <1>2, <1>5, <3>4 DEF DeliveriesLead
    <3>5. CASE pc \in Flushing /\ cur = m
      <4>1. Head(reports) \in ToSet(reports) /\ Head(reports).msg = m
        BY <3>5, ToSetOfSteps DEF TInv, InjectorOK
      <4> QED
        BY <1>5, <4>1 DEF DeliveriesLead
    <3> QED
      BY <1>6, <1>10, <3>1, <3>2, <3>3, <3>4, <3>5 DEF StatusMoves, Flushing
  <2> QED
    BY <1>1, <2>1
<1>11. ASSUME NEW m \in Msg, status'[m] \notin {"absent", "received", "blocked"}
       PROVE  delivery'[m] \in Acked
  <2>1. delivery[m] \in Acked
    <3>1. CASE status[m] \notin {"absent", "received", "blocked"}
      BY <3>1 DEF DeliveriesLead
    <3>2. CASE evPc = "ack" /\ evAnswer = "ok" /\ Event.msg = m
      BY <3>2 DEF DeliveriesLead
    <3>3. CASE pc = "receive_ack" /\ answer = "ok" /\ cur = m
      BY <3>3 DEF DeliveriesLead
    <3>4. CASE m \in injectable
      BY <3>4 DEF DeliveriesLead
    <3>5. CASE pc \in AtHand /\ cur = m
      BY <3>5 DEF DeliveriesLead
    <3>6. CASE pc \in Flushing /\ cur = m
      <4>1. Head(reports) \in ToSet(reports) /\ Head(reports).msg = m
        BY <3>6, ToSetOfSteps DEF TInv, InjectorOK
      <4> QED
        BY <4>1 DEF DeliveriesLead
    <3> QED
      BY <1>6, <1>11, <3>1, <3>2, <3>3, <3>4, <3>5, <3>6 DEF StatusMoves, Flushing
  <2> QED
    BY <1>1, <2>1
<1>12. ASSUME NEW m \in received'  PROVE delivery'[m] # "none"
  <2>1. m \in received \/ (m \in Msg /\ status[m] = "received")
    BY <1>6, <1>12 DEF AnswerMoves
  <2> QED
    BY <1>1, <1>2, <2>1 DEF DeliveriesLead
<1>13. ASSUME pc' = "receive_ack"  PROVE delivery'[cur'] # "none"
  BY <1>1, <1>2, <1>4, <1>6, <1>13 DEF AnswerMoves, DeliveriesLead
<1>14. ASSUME NEW m \in injectable'  PROVE delivery'[m] \in Acked
  <2>1. m \in injectable \/ (m \in Msg /\ status[m] \in Injectable)
    BY <1>6, <1>14 DEF HandMoves, ListInjectable
  <2> QED
    BY <1>1, <1>2, <2>1 DEF DeliveriesLead, Injectable
<1>15. ASSUME pc' \in AtHand  PROVE delivery'[cur'] \in Acked
  BY <1>1, <1>2, <1>4, <1>6, <1>15 DEF HandMoves, DeliveriesLead
<1>16. ASSUME NEW m \in accepted'  PROVE delivery'[m] \in Acked
  <2>1. m \in accepted \/ (pc = "deliver_accept" /\ m = cur)
    BY <1>6, <1>16 DEF AnswerMoves, AcceptTurn
  <2> QED
    BY <1>1, <1>2, <1>4, <2>1 DEF DeliveriesLead, AtHand
<1>17. ASSUME NEW r \in ToSet(unreported') \cup ToSet(reports')
       PROVE  delivery'[r.msg] \in Acked
  <2>1. CASE r \in ToSet(unreported) \cup ToSet(reports)
    BY <1>1, <1>3, <2>1 DEF DeliveriesLead
  <2>2. CASE NewReport(r)
    <3>1. r.msg \in injectable \/ (pc \in AtHand /\ r.msg = cur)
      BY <2>2 DEF NewReport, ReportOf, AtHand
    <3> QED
      BY <1>1, <1>2, <1>4, <3>1 DEF DeliveriesLead
  <2> QED
    BY <1>6, <1>17, <2>1, <2>2 DEF ReportMoves
<1>18. ASSUME evPc' = "ack", evAnswer' = "ok"  PROVE delivery'[Event'.msg] \in Acked
  <2>1. evPc = "ack" /\ cursor' = cursor
    BY <1>6, <1>18 DEF AnswerMoves
  <2>2. /\ cursor + 1 \in 1..Len(log) /\ Event' = Event
        /\ Event.type = "dispatch" /\ Event \in LogEntry
    BY <1>2, <1>7, <2>1 DEF TInv, EventOK, Event
  <2>3. Event.msg \in Msg
    BY <2>2 DEF LogEntry
  <2>4. CASE evAnswer = "ok"
    BY <1>1, <2>1, <2>2, <2>3, <2>4 DEF DeliveriesLead
  <2>5. CASE ServeEventAcknowledge
    <3>1. delivery'[Event.msg] = Acknowledged(delivery[Event.msg], "device_ack")
      BY <1>2, <2>3, <2>5 DEF ServeEventAcknowledge, EventRequest, Event
    <3>2. delivery[Event.msg] \in DeliveryStatus \ {"none", "inbox_persisted"}
      BY <1>2, <2>2, <2>3 DEF DeliveriesLead, Event
    <3> QED
      BY <2>2, <3>1, <3>2, DeviceAcknowledges
  <2> QED
    BY <1>6, <1>18, <2>4, <2>5 DEF AnswerMoves
<1>19. ASSUME pc' = "receive_ack", answer' = "ok"  PROVE delivery'[cur'] \in Acked
  <2>1. CASE answer' = answer /\ UNCHANGED <<pc, cur>>
    BY <1>1, <1>2, <1>4, <1>19, <2>1 DEF DeliveriesLead
  <2>2. CASE ServeAcknowledge
    <3>1. /\ pc = "receive_ack" /\ cur' = cur /\ cur \in Msg
          /\ delivery'[cur] = Acknowledged(delivery[cur], Request.phase)
      BY <1>2, <1>4, <1>19, <2>2 DEF ServeAcknowledge
    <3>2. Request.phase = "device_ack"
      BY <3>1 DEF Request
    <3>3. delivery[cur] \in DeliveryStatus \ {"none", "inbox_persisted"}
      BY <1>2, <3>1 DEF DeliveriesLead
    <3> QED
      BY <3>1, <3>2, <3>3, DeviceAcknowledges
  <2> QED
    BY <1>6, <1>19, <2>1, <2>2 DEF AnswerMoves
<1> QED
  BY <1>8, <1>9, <1>10, <1>11, <1>12, <1>13, <1>14, <1>15, <1>16, <1>17, <1>18, <1>19
  DEF DeliveriesLead

\* A message that cannot be tried again never will be.
LEMMA ClosedStays ==
  ASSUME TInv, [Next]_vars, NEW m \in Msg, Closed(m)
  PROVE  Closed(m)'
<1>1. StatusMoves(m) /\ HandMoves
  BY StatusSteps, HandSteps
<1>2. status[m] \in SpoolStatus
  BY DEF TInv, SpoolOK
<1>3. pc \in Trying /\ cur = m => pc = "deliver_accept" /\ answer = "accepted"
  BY DEF Closed
<1>4. status'[m] \notin Untried \cup Injectable
  <2>1. ~(status'[m] \in {"runtime_pending", "failed", "blocked_offline"} /\ cur = m
          /\ \/ pc \in {"inject_validate", "inject_deliver", "retry_ack"}
             \/ pc = "deliver_accept" /\ answer = "none")
    BY <1>3 DEF Trying
  <2> QED
    BY <1>1, <2>1 DEF StatusMoves, Closed, Untried, Injectable
<1>5. m \notin injectable'
  BY <1>1 DEF HandMoves, ListInjectable, Closed
<1>6. ASSUME pc' \in Trying, cur' = m
      PROVE  pc' = "deliver_accept" /\ answer' = "accepted"
  <2>1. pc \in AtHand /\ cur = m /\ (pc' = pc \/ <<pc, pc'>> \in Onward)
    <3>1. pc' \in AtHand /\ m \notin injectable
      BY <1>6 DEF AtHand, Trying, Closed
    <3> QED
      BY <1>1, <1>6, <3>1 DEF HandMoves
  <2>2. pc \in Trying
    BY <1>6, <2>1 DEF Onward, Trying
  <2> QED
    BY <1>1, <1>3, <1>6, <2>1, <2>2 DEF HandMoves
<1> QED
  BY <1>4, <1>5, <1>6 DEF Closed

LEMMA GivenUpStays ==
  ASSUME TInv, [Next]_vars, NEW m \in Msg, GivenUp(m)
  PROVE  GivenUp(m)'
<1>1. accepted' = accepted \/ AcceptTurn
  BY AnswerSteps DEF AnswerMoves
<1>2. AcceptTurn => m # cur
  BY DEF AcceptTurn, GivenUp, Closed, Trying
<1> QED
  BY <1>1, <1>2, ClosedStays DEF AcceptTurn, GivenUp

LEMMA TruthfulStays ==
  ASSUME TInv, [Next]_vars, NEW r, r.msg \in Msg, Truthful(r)
  PROVE  Truthful(r)'
<1>1. accepted \subseteq accepted'
  BY AnswerSteps DEF AnswerMoves, AcceptTurn
<1> QED
  BY <1>1, GivenUpStays DEF Truthful

\* What the injector reports is so.
LEMMA NewReportIsTruthful ==
  ASSUME TInv, IInv, ReportsHold, [Next]_vars, NEW r, NewReport(r)
  PROVE  Truthful(r)'
<1>1. HandMoves /\ AnswerMoves
  BY HandSteps, AnswerSteps
<1>2. CASE r = ReportOf(cur, "runtime_ack") /\ pc = "deliver_accept" /\ answer = "accepted"
  <2>1. cur \in accepted /\ accepted \subseteq accepted'
    BY <1>1, <1>2 DEF ReportsHold, AnswerMoves, AcceptTurn
  <2> QED
    BY <1>2, <2>1 DEF Truthful, ReportOf
<1>3. CASE r = ReportOf(cur, "runtime_pending")
  BY <1>3 DEF Truthful, ReportOf
<1>4. CASE /\ r = ReportOf(cur', "runtime_failed") /\ pc' = "failure_ack"
           /\ status'[cur'] = "failed"
           /\ \/ pc = "inject" /\ cur' \in injectable
              \/ pc \in {"inject_validate", "inject_deliver"} /\ cur' = cur
  <2>1. cur' \notin accepted
    BY <1>4 DEF IInv, AcceptedIsClosed, Trying
  <2>2. cur' \notin injectable'
    BY <1>1, <1>4 DEF HandMoves, AtHand, IInv, ListWasInjectable, Trying
  <2>3. accepted' = accepted
    BY <1>1, <1>4 DEF AnswerMoves, AcceptTurn
  <2>4. GivenUp(cur)'
    BY <1>4, <2>1, <2>2, <2>3 DEF GivenUp, Closed, Trying, Untried, Injectable
  <2>5. r.msg = cur' /\ r.phase = "runtime_failed"
    BY <1>4 DEF ReportOf
  <2> QED
    BY <2>4, <2>5 DEF Truthful, GivenUp, Closed
<1> QED
  BY <1>2, <1>3, <1>4 DEF NewReport

LEMMA InitReports == Init => ReportsHold
  BY DEF Init, ReportsHold, ToSet, AckPc

LEMMA ReportsPreserved ==
  ASSUME TInv, IInv, DeliveriesLead, ReportsHold, [Next]_vars
  PROVE  ReportsHold'
<1>1. AnswerMoves /\ ReportMoves /\ accepted \subseteq accepted'
  BY AnswerSteps, ReportSteps DEF AnswerMoves, AcceptTurn
<1>2. \A r \in ToSet(unreported) \cup ToSet(reports) \cup late : r.msg \in Msg
  BY ReportsTyped DEF TInv, ServerOK, Report
<1>3. pc \in AckPc => Request \in Report /\ Request.msg \in Msg /\ Request.msg = cur
  BY RequestType DEF Request, Report
<1>4. ASSUME pc' = "deliver_accept", answer' = "accepted"  PROVE cur' \in accepted'
  BY <1>1, <1>4 DEF AnswerMoves, ReportsHold, AcceptTurn
<1>5. ASSUME NEW r \in ToSet(unreported') \cup ToSet(reports') \cup late'
      PROVE  Truthful(r)'
  <2>1. CASE r \in ToSet(unreported) \cup ToSet(reports) \cup late
    <3>1. r.msg \in Msg /\ Truthful(r)
      BY <1>2, <2>1 DEF ReportsHold
    <3> QED
      BY <3>1, TruthfulStays
  <2>2. CASE NewReport(r)
    BY <2>2, NewReportIsTruthful
  <2>3. CASE pc \in AckPc /\ r = Request
    <3>1. r.msg \in Msg /\ Truthful(r)
      BY <1>3, <2>3 DEF ReportsHold
    <3> QED
      BY <3>1, TruthfulStays
  <2>4. CASE r = EventRequest
    BY <2>4 DEF EventRequest, Truthful
  <2> QED
    BY <1>1, <1>5, <2>1, <2>2, <2>3, <2>4 DEF ReportMoves
<1>6. ASSUME pc' \in AckPc  PROVE Truthful(Request)'
  <2>1. CASE pc \in AckPc /\ Request' = Request
    <3>1. Request.msg \in Msg /\ Truthful(Request)
      BY <1>3, <2>1 DEF ReportsHold
    <3>2. \A r : r = Request => r.msg \in Msg /\ Truthful(r)
      BY <3>1
    <3>3. \A r : r = Request => Truthful(r)'
      BY <3>2, TruthfulStays
    <3> QED
      BY <2>1, <3>3 DEF Truthful, GivenUp, Closed
  <2>2. CASE pc = "flush_validate" /\ Request' = Head(reports)
    <3>1. Head(reports) \in ToSet(reports)
      BY <2>2, ToSetOfSteps DEF TInv, InjectorOK, Flushing
    <3>2. \A r : r = Head(reports) => Truthful(r)'
      BY <1>2, <3>1, TruthfulStays DEF ReportsHold
    <3> QED
      BY <2>2, <3>2 DEF Truthful, GivenUp, Closed
  <2>3. CASE pc' = "receive_ack"
    BY <2>3 DEF Truthful, Request
  <2>4. CASE NewReport(Request')
    <3>1. \A r : r = Request' => Truthful(r)'
      BY <2>4, NewReportIsTruthful
    <3> QED
      BY <3>1 DEF Truthful, GivenUp, Closed
  <2> QED
    BY <1>1, <1>6, <2>1, <2>2, <2>3, <2>4 DEF ReportMoves
<1>7. ASSUME NEW m \in Msg
      PROVE  /\ delivery'[m] = "runtime_acked" => m \in accepted'
             /\ delivery'[m] = "failed" => GivenUp(m)'
  <2>1. /\ delivery[m] = "runtime_acked" => m \in accepted
        /\ delivery[m] = "failed" => GivenUp(m)
    BY DEF ReportsHold
  <2>2. CASE delivery'[m] = delivery[m]
    BY <1>1, <2>1, <2>2, GivenUpStays
  <2>3. CASE delivery'[m] \notin {"runtime_acked", "failed"}
    BY <2>3
  <2>4. ASSUME NEW phase \in Phase, Acknowledgeable(m, phase),
               delivery'[m] = Acknowledged(delivery[m], phase), delivery'[m] # delivery[m]
        PROVE  /\ delivery'[m] = "runtime_acked" => m \in accepted'
               /\ delivery'[m] = "failed" => GivenUp(m)'
    <3>1. Truthful(ReportOf(m, phase))
      <4>1. CASE ReportOf(m, phase) \in late \/ (pc \in AckPc /\ Request = ReportOf(m, phase))
        BY <4>1 DEF ReportsHold
      <4>2. CASE EventRequest = ReportOf(m, phase)
        BY <4>2 DEF EventRequest, ReportOf, Truthful
      <4> QED
        BY <2>4, <4>1, <4>2 DEF Acknowledgeable
    <3>2. /\ phase = "runtime_ack" => m \in accepted
          /\ phase = "runtime_failed" => GivenUp(m)
      BY <3>1 DEF Truthful, ReportOf
    <3>3. /\ delivery'[m] = "runtime_acked" => phase = "runtime_ack"
          /\ delivery'[m] = "failed" => phase = "runtime_failed"
      BY <2>4 DEF Acknowledged, AckedTo, Phase
    <3> QED
      BY <1>1, <3>2, <3>3, GivenUpStays
  <2> QED
    BY <2>2, <2>3, <2>4, DeliverySteps DEF DeliveryMoves
\* An acknowledgement of an accepted turn ends an acknowledged delivery.
<1>8. ASSUME NEW m \in Msg, delivery[m] \in Acked, m \in accepted,
             delivery'[m] = Acknowledged(delivery[m], "runtime_ack")
      PROVE  delivery'[m] \in Ended
  <2>1. delivery[m] # "failed"
    BY <1>8 DEF ReportsHold, GivenUp
  <2> QED
    BY <1>8, <2>1 DEF Acked, Ended, Acknowledged, AckedFrom, AckedTo
<1>9. \A m \in Msg : delivery[m] \in Ended => delivery'[m] \in Ended
  BY DeliveryIsMonotone
<1>10. pc \in Working => cur \in Msg
  BY DEF TInv, InjectorOK
<1>11. ASSUME ServeAcknowledge, Request.phase = "runtime_ack", delivery[cur] \in Acked
       PROVE  delivery'[cur] \in Ended
  <2>1. /\ pc \in AckPc /\ cur \in Msg
        /\ delivery'[cur] = Acknowledged(delivery[cur], "runtime_ack")
    BY <1>10, <1>11 DEF ServeAcknowledge, Working, TInv, ServerOK
  <2>2. cur \in accepted
    BY <1>3, <1>11, <2>1 DEF ReportsHold, Truthful
  <2> QED
    BY <1>8, <1>11, <2>1, <2>2
<1>12. ASSUME pc' = "turn_ack", answer' = "ok"  PROVE delivery'[cur'] \in Ended
  <2>1. CASE answer' = answer /\ UNCHANGED <<pc, cur>>
    BY <1>9, <1>10, <1>12, <2>1 DEF ReportsHold, Working, AckPc
  <2>2. CASE ServeAcknowledge
    <3>1. pc = "turn_ack" /\ cur' = cur
      BY <1>12, <2>2 DEF ServeAcknowledge
    <3>2. Request.phase = "runtime_ack" /\ delivery[cur] \in Acked
      BY <3>1 DEF Request, DeliveriesLead, AtHand
    <3> QED
      BY <1>11, <2>2, <3>1, <3>2
  <2> QED
    BY <1>1, <1>12, <2>1, <2>2 DEF AnswerMoves
<1>13. ASSUME pc' = "flush_ack", answer' = "ok", Head(reports').phase = "runtime_ack"
       PROVE  delivery'[cur'] \in Ended
  <2>1. CASE answer' = answer /\ UNCHANGED <<pc, cur, reports>>
    BY <1>9, <1>10, <1>13, <2>1 DEF ReportsHold, Working, AckPc
  <2>2. CASE ServeAcknowledge
    <3>1. pc = "flush_ack" /\ cur' = cur /\ reports' = reports
      BY <1>13, <2>2 DEF ServeAcknowledge
    <3>2. Head(reports) \in ToSet(reports) /\ Head(reports).msg = cur
      BY <3>1, ToSetOfSteps DEF TInv, InjectorOK, Flushing
    <3>3. Request.phase = "runtime_ack" /\ delivery[cur] \in Acked
      BY <1>13, <3>1, <3>2 DEF Request, DeliveriesLead
    <3> QED
      BY <1>11, <2>2, <3>1, <3>3
  <2> QED
    BY <1>1, <1>13, <2>1, <2>2 DEF AnswerMoves
<1>14. ASSUME NEW m \in Msg, status'[m] = "injected"  PROVE delivery'[m] \in Ended
  <2>1. delivery[m] \in Ended
    BY <1>14, StatusSteps DEF StatusMoves, ReportsHold
  <2> QED
    BY <1>9, <2>1
<1> QED
  BY <1>4, <1>5, <1>6, <1>7, <1>12, <1>13, <1>14 DEF ReportsHold

\* The two together with what they rest on.
SInv == TInv /\ IInv /\ DeliveriesLead /\ ReportsHold

LEMMA ReportsInvariant == Spec => []SInv
<1>1. Init => SInv
  BY InitTypes, InitEstablishes, InitLeads, InitReports DEF SInv
<1>2. SInv /\ [Next]_vars => SInv'
  <2>1. TInv /\ [Next]_vars => TInv'
    BY ServerTypes, SpoolTypes, ProcessTypes, EventTypes, InjectorTypes, HistoryTypes DEF TInv
  <2> QED
    BY <2>1, NextPreserves, LeadsPreserved, ReportsPreserved DEF SInv
<1> QED
  BY <1>1, <1>2, PTL DEF Spec

\* What the sender is told is what happened: a message is runtime_acked only
\* when its turn was accepted, and failed only when it was given up for good,
\* whichever acknowledgements are late, lost or repeated.
THEOREM TruthfulReports == Spec => []ReportsAreTruthful
<1>1. SInv => ReportsAreTruthful
  BY DEF SInv, ReportsHold, ReportsAreTruthful, GivenUp
<1> QED
  BY <1>1, ReportsInvariant, PTL

\* The spool never runs ahead of the control plane: a row past `received` has
\* its device acknowledgement recorded, an injected one is reported or its
\* grant ended.
THEOREM SpoolFollows == Spec => []SpoolFollowsControlPlane
<1>1. SInv => SpoolFollowsControlPlane
  BY DEF SInv, DeliveriesLead, ReportsHold, SpoolFollowsControlPlane, Acked, Ended
<1> QED
  BY <1>1, ReportsInvariant, PTL

-------------------------------------------------------------------------------
(* The events are handled in the order of the log, and a message is        *)
(* injected after the earlier ones of its session.                         *)

Before(n, m) == CommOf[n] = CommOf[m] /\ SequenceOf[n] < SequenceOf[m]

\* The control plane logs the messages of a session in their order.
LogInOrder ==
  /\ \A m \in Msg : delivery[m] # "none"
       => \E j \in 1..Len(log) : log[j] = [type |-> "dispatch", msg |-> m]
  /\ \A j \in 1..Len(log) : log[j].type = "dispatch" =>
       \A n \in Msg : Before(n, log[j].msg) =>
         \E i \in 1..Len(log) : i < j /\ log[i] = [type |-> "dispatch", msg |-> n]

\* A row exists from the moment its event is handled, and only then does the
\* injector speak of it.
RowsFollowLog ==
  /\ NothingSkipped
  /\ evPc = "ack" => status[Event.msg] # "absent"
  /\ \A m \in Msg : status[m] # "absent" =>
       \E j \in 1..Len(log) : j <= cursor + 1 /\ log[j] = [type |-> "dispatch", msg |-> m]
  /\ \A m \in received \cup injectable : status[m] # "absent"
  /\ pc \in AtHand \cup {"receive_ack"} => status[cur] # "absent"
  /\ \A r \in ToSet(unreported) \cup ToSet(reports) : status[r.msg] # "absent"

Resolved(n) == status[n] \in Settled \/ n \in Unreadable

\* The list has one message of a session, and none of the one at hand.
OneOfASession ==
  /\ \A m, n \in injectable : CommOf[m] = CommOf[n] => m = n
  /\ pc \in AtHand => \A m \in injectable : CommOf[m] # CommOf[cur]

\* A message is on the list, or at hand and not delivered, after the earlier
\* ones of its session were resolved.
EarlierAreResolved ==
  /\ \A m \in injectable : \A n \in Msg : Before(n, m) => Resolved(n)
  /\ pc \in {"inject_validate", "inject_deliver"}
       => \A n \in Msg : Before(n, cur) => Resolved(n)

\* How the event loop advances.
EventMoves ==
  \/ cursor' = cursor /\ evPc' \in {"idle", evPc}
  \/ cursor' = cursor /\ evPc' = "ack" /\ HandleDispatch
  \/ cursor' = cursor /\ evPc' = "release" /\ BlockCommunicationSession
  \/ /\ cursor' = cursor + 1 /\ evPc' = "idle" /\ cursor < Len(log) /\ UNCHANGED log
     /\ evPc # "idle" \/ HandleDispatch

LEMMA EventSteps ==
  ASSUME TInv, [Next]_vars
  PROVE  EventMoves
<1> USE DEF spoolVars, eventVars, bridgeVars
<1>1. CASE UNCHANGED <<cursor, evPc>>
  BY <1>1 DEF EventMoves
<1>2. CASE ControlPlane
  BY <1>1, <1>2 DEF ControlPlane, Send, MarkDispatched, Lapse, Revoke, ExpireIfNeeded,
         CompleteCollaboration, ToggleSession, ProcessLate, ServeAcknowledge,
         ServeEventAcknowledge, ServeValidate
<1>3. CASE HandleDispatch
  BY <1>3 DEF HandleDispatch, HasEvent, EventMoves, serverVars
<1>4. CASE BlockCommunicationSession
  BY <1>4 DEF BlockCommunicationSession, EventMoves
<1>5. CASE EventAcknowledged \/ EventAcknowledgeFails \/ Released
  <2>1. /\ evPc # "idle" /\ evPc' = "idle" /\ cursor' = cursor + 1 /\ UNCHANGED log
    BY <1>5 DEF EventAcknowledged, EventAcknowledgeFails, Released, FinishEvent, serverVars
  <2> QED
    BY <2>1 DEF EventMoves, TInv, EventOK
<1>6. CASE Injector
  BY <1>6, <1>1 DEF Injector, RunOnce, FlushNext, FlushValidated, FlushAcknowledged,
              FlushDone, ReceiveAcknowledged, ReceiveDone, ReceiveNext, InjectNext,
              InjectRefused, InjectValidated, RecordTurn, Reported, InjectDone
<1>7. CASE Runtime \/ RequestFails \/ Restart \/ UNCHANGED vars
  BY <1>7, <1>1 DEF Runtime, DeliveryRefused, PushTurn, AcceptTurn, TurnTimeout,
              RequestFails, Restart, vars
<1>8. CASE Crash \/ CrashRecording
  BY <1>8 DEF Crash, CrashRecording, Die, EventMoves
<1> QED
  BY <1>2, <1>3, <1>4, <1>5, <1>6, <1>7, <1>8 DEF Next, EventLoop

LEMMA LogInOrderPreserved ==
  ASSUME TInv, LogInOrder, [Next]_vars
  PROVE  LogInOrder'
<1>1. LogGrows /\ log \in Seq(LogEntry) /\ log' \in Seq(LogEntry)
  BY LogOnlyGrows DEF TInv, ServerOK
<1>2. \A j \in 1..Len(log) : j \in 1..Len(log') /\ log'[j] = log[j]
  BY <1>1 DEF LogGrows
<1>3. ASSUME NEW m \in Msg, delivery'[m] # "none"
      PROVE  \E j \in 1..Len(log') : log'[j] = [type |-> "dispatch", msg |-> m]
  <2>1. CASE delivery[m] # "none"
    BY <1>2, <2>1 DEF LogInOrder
  <2>2. CASE delivery[m] = "none" /\ log' = Append(log, [type |-> "dispatch", msg |-> m])
    BY <1>1, <2>2
  <2>3. CASE \E phase \in Phase : delivery'[m] = Acknowledged(delivery[m], phase)
    BY <1>3, <2>1, <2>3 DEF Acknowledged, AckedFrom, Phase, OpenStatus
  <2> QED
    BY <1>3, <2>1, <2>2, <2>3, DeliverySteps DEF DeliveryMoves, OpenStatus
<1>4. ASSUME NEW j \in 1..Len(log'), log'[j].type = "dispatch",
             NEW n \in Msg, Before(n, log'[j].msg)
      PROVE  \E i \in 1..Len(log') : i < j /\ log'[i] = [type |-> "dispatch", msg |-> n]
  <2>1. CASE j \in 1..Len(log)
    <3>1. PICK i \in 1..Len(log) : i < j /\ log[i] = [type |-> "dispatch", msg |-> n]
      BY <1>2, <1>4, <2>1 DEF LogInOrder
    <3> QED
      BY <1>2, <3>1
  <2>2. CASE j \notin 1..Len(log)
    <3>1. j = Len(log) + 1 /\ Send(log'[j].msg)
      BY <1>4, <2>2, NewEntry
    <3>2. delivery[n] # "none"
      BY <1>4, <3>1 DEF Send, Before
    <3>3. PICK i \in 1..Len(log) : log[i] = [type |-> "dispatch", msg |-> n]
      BY <3>2 DEF LogInOrder
    <3>4. i < j
      BY <1>1, <3>1, <3>3
    <3> QED
      BY <1>2, <3>3, <3>4
  <2> QED
    BY <2>1, <2>2
<1> QED
  BY <1>3, <1>4 DEF LogInOrder

LEMMA RowsFollowPreserved ==
  ASSUME TInv, RowsFollowLog, [Next]_vars
  PROVE  RowsFollowLog'
<1>1. /\ \A m \in Msg : StatusMoves(m)
      /\ HandMoves /\ ReportMoves /\ AnswerMoves /\ EventMoves /\ LogGrows
  BY StatusSteps, HandSteps, ReportSteps, AnswerSteps, EventSteps, LogOnlyGrows
<1>2. /\ log \in Seq(LogEntry) /\ cursor \in 0..Len(log) /\ Len(log) \in Nat
      /\ Len(log') \in Nat
      /\ received \subseteq Msg /\ injectable \subseteq Msg
      /\ pc \in Working => cur \in Msg
      /\ status \in [Msg -> SpoolStatus]
  BY LogOnlyGrows DEF TInv, ServerOK, SpoolOK, InjectorOK
<1>3. \A j \in 1..Len(log) : j \in 1..Len(log') /\ log'[j] = log[j]
  BY <1>1, <1>2 DEF LogGrows
<1>4. AtHand \cup {"receive_ack"} \subseteq Working
  BY DEF AtHand, Working, ValidatePc, AckPc
<1>5. \A m \in Msg : status[m] # "absent" => status'[m] # "absent"
  BY <1>1 DEF StatusMoves
\* A row appears only when its event is handled.
<1>6. ASSUME NEW m \in Msg, status[m] = "absent", status'[m] # "absent"
      PROVE  HasEvent /\ Event = [type |-> "dispatch", msg |-> m] /\ UNCHANGED log
  <2>1. m \notin received \cup injectable /\ ~(pc \in AtHand /\ cur = m)
    BY <1>6 DEF RowsFollowLog
  <2>2. ~(pc \in Flushing /\ cur = m)
    <3>1. SUFFICES ASSUME pc \in Flushing, cur = m  PROVE FALSE
      OBVIOUS
    <3>2. Head(reports) \in ToSet(reports) /\ Head(reports).msg = m
      BY <3>1, ToSetOfSteps DEF TInv, InjectorOK
    <3> QED
      BY <1>6, <3>2 DEF RowsFollowLog
  <2>3. HasEvent /\ Event.type = "dispatch" /\ Event.msg = m /\ UNCHANGED log
    BY <1>1, <1>6, <2>1, <2>2 DEF StatusMoves, Flushing, Injectable
  <2>4. Event \in LogEntry
    BY <1>2, <2>3 DEF HasEvent, Event
  <2> QED
    BY <2>3, <2>4 DEF LogEntry
<1>7. cursor < Len(log) => cursor + 1 \in 1..Len(log) /\ Event \in LogEntry
  BY <1>2 DEF Event
<1>8. NothingSkipped'
  <2> SUFFICES ASSUME NEW i \in 1..cursor', log'[i].type = "dispatch",
                      log'[i].msg \notin Unreadable
               PROVE  status'[log'[i].msg] # "absent"
    BY DEF NothingSkipped
  <2>1. CASE i \in 1..cursor
    <3>1. i \in 1..Len(log) /\ log'[i] = log[i] /\ log[i] \in LogEntry
      BY <1>2, <1>3, <2>1
    <3>2. log[i].msg \in Msg /\ status[log[i].msg] # "absent"
      BY <2>1, <3>1 DEF RowsFollowLog, NothingSkipped, LogEntry
    <3> QED
      BY <1>5, <3>1, <3>2
  <2>2. CASE i \notin 1..cursor
    <3>1. /\ cursor' = cursor + 1 /\ cursor < Len(log) /\ UNCHANGED log
          /\ evPc # "idle" \/ HandleDispatch
      BY <1>1, <1>2, <2>2 DEF EventMoves
    <3>2. log'[i] = Event /\ Event.type = "dispatch" /\ Event.msg \in Msg
      BY <1>2, <1>7, <2>2, <3>1 DEF Event, LogEntry
    <3>3. CASE HandleDispatch
      BY <1>2, <3>2, <3>3 DEF HandleDispatch
    <3>4. CASE evPc = "ack"
      BY <1>5, <3>2, <3>4 DEF RowsFollowLog
    <3>5. evPc # "release"
      BY <3>2 DEF TInv, EventOK
    <3> QED
      BY <3>1, <3>3, <3>4, <3>5 DEF TInv, EventOK
  <2> QED
    BY <2>1, <2>2
<1>9. ASSUME evPc' = "ack"  PROVE status'[Event'.msg] # "absent"
  <2>1. /\ cursor' = cursor /\ cursor < Len(log)
        /\ evPc = "ack" \/ HandleDispatch
    BY <1>1, <1>9 DEF EventMoves, TInv, EventOK, HandleDispatch, HasEvent
  <2>2. Event' = Event /\ Event \in LogEntry
    BY <1>3, <1>7, <2>1 DEF Event
  <2>3. CASE evPc = "ack"
    <3>1. Event.msg \in Msg
      BY <2>2, <2>3 DEF TInv, EventOK, LogEntry
    <3> QED
      BY <1>5, <2>2, <2>3, <3>1 DEF RowsFollowLog
  <2>4. CASE HandleDispatch /\ evPc # "ack"
    <3>1. Event.type = "dispatch" /\ Event.msg \notin Unreadable
      BY <1>9, <2>4 DEF HandleDispatch
    <3>2. Event.msg \in Msg
      BY <2>2, <3>1 DEF LogEntry
    <3> QED
      BY <1>2, <2>2, <2>4, <3>1, <3>2 DEF HandleDispatch
  <2> QED
    BY <2>1, <2>3, <2>4
<1>10. ASSUME NEW m \in Msg, status'[m] # "absent"
       PROVE  \E j \in 1..Len(log') :
                j <= cursor' + 1 /\ log'[j] = [type |-> "dispatch", msg |-> m]
  <2>1. cursor' = cursor \/ cursor' = cursor + 1
    BY <1>1 DEF EventMoves
  <2>2. \E j \in 1..Len(log) : j <= cursor + 1 /\ log[j] = [type |-> "dispatch", msg |-> m]
    <3>1. CASE status[m] # "absent"
      BY <3>1 DEF RowsFollowLog
    <3>2. CASE status[m] = "absent"
      BY <1>2, <1>6, <1>7, <1>10, <3>2 DEF HasEvent, Event
    <3> QED
      BY <3>1, <3>2
  <2>3. PICK j \in 1..Len(log) : j <= cursor + 1 /\ log[j] = [type |-> "dispatch", msg |-> m]
    BY <2>2
  <2>4. j <= cursor' + 1
    BY <1>2, <2>1, <2>3
  <2> QED
    BY <1>3, <2>3, <2>4
<1>11. ASSUME NEW m \in received' \cup injectable'  PROVE status'[m] # "absent"
  <2>1. \/ m \in received \cup injectable
        \/ m \in Msg /\ status[m] \in Injectable \cup {"received"}
    BY <1>1, <1>11 DEF AnswerMoves, HandMoves, ListInjectable
  <2>2. m \in Msg /\ status[m] # "absent"
    BY <1>2, <2>1 DEF RowsFollowLog, Injectable
  <2> QED
    BY <1>5, <2>2
<1>12. ASSUME pc' \in AtHand \cup {"receive_ack"}  PROVE status'[cur'] # "absent"
  <2>1. \/ cur' \in received \cup injectable
        \/ pc \in AtHand \cup {"receive_ack"} /\ cur' = cur
    BY <1>1, <1>12 DEF HandMoves, AnswerMoves, AtHand
  <2>2. cur' \in Msg /\ status[cur'] # "absent"
    BY <1>2, <1>4, <2>1 DEF RowsFollowLog
  <2> QED
    BY <1>5, <2>2
<1>13. ASSUME NEW r \in ToSet(unreported') \cup ToSet(reports')
       PROVE  status'[r.msg] # "absent"
  <2>1. CASE r \in ToSet(unreported) \cup ToSet(reports)
    BY <1>5, <2>1, ReportsTyped DEF RowsFollowLog
  <2>2. CASE NewReport(r)
    <3>1. r.msg \in injectable \/ (pc \in AtHand /\ r.msg = cur)
      BY <2>2 DEF NewReport, ReportOf, AtHand
    <3>2. r.msg \in Msg /\ status[r.msg] # "absent"
      BY <1>2, <1>4, <3>1 DEF RowsFollowLog
    <3> QED
      BY <1>5, <3>2
  <2> QED
    BY <1>1, <1>13, <2>1, <2>2 DEF ReportMoves
<1> QED
  BY <1>8, <1>9, <1>10, <1>11, <1>12, <1>13 DEF RowsFollowLog

LEMMA OneOfASessionPreserved ==
  ASSUME TInv, RowsFollowLog, OneOfASession, [Next]_vars
  PROVE  OneOfASession'
<1>1. HandMoves
  BY HandSteps
<1>2. pc' \in AtHand => pc' # "flush"
  BY DEF AtHand
<1>3. CASE injectable' \subseteq injectable
  BY <1>1, <1>3 DEF HandMoves, OneOfASession
<1>4. CASE injectable' = ListInjectable /\ pc' = "flush"
  <2>1. ASSUME NEW m \in ListInjectable, NEW n \in ListInjectable, CommOf[m] = CommOf[n]
        PROVE  m = n
    <3>1. /\ m \in Msg /\ n \in Msg
          /\ status[m] \notin Settled \cup {"absent"}
          /\ status[n] \notin Settled \cup {"absent"}
      BY DEF ListInjectable, Injectable, Settled
    <3>2. ~(SequenceOf[m] < SequenceOf[n]) /\ ~(SequenceOf[n] < SequenceOf[m])
      BY <2>1, <3>1 DEF ListInjectable
    <3>3. SequenceOf[m] \in Nat /\ SequenceOf[n] \in Nat
      BY <3>1, MessageAssumption
    <3>4. SequenceOf[m] = SequenceOf[n]
      BY <3>2, <3>3
    <3> QED
      BY <2>1, <3>1, <3>4, MessageAssumption
  <2> QED
    BY <1>2, <1>4, <2>1 DEF OneOfASession
<1> QED
  BY <1>1, <1>3, <1>4 DEF HandMoves

\* An earlier message is resolved once it has a settled row: its event comes
\* before that of the later one.
LEMMA EarlierHaveRows ==
  ASSUME TInv, LogInOrder, RowsFollowLog,
         NEW m \in Msg, NEW n \in Msg, Before(n, m), status[m] # "absent"
  PROVE  status[n] # "absent" \/ n \in Unreadable
<1>1. cursor \in 0..Len(log) /\ Len(log) \in Nat
  BY DEF TInv, ServerOK, SpoolOK
<1>2. PICK j \in 1..Len(log) : j <= cursor + 1 /\ log[j] = [type |-> "dispatch", msg |-> m]
  BY DEF RowsFollowLog
<1>3. PICK i \in 1..Len(log) : i < j /\ log[i] = [type |-> "dispatch", msg |-> n]
  BY <1>2 DEF LogInOrder
<1>4. i \in 1..cursor
  BY <1>1, <1>2, <1>3
<1> QED
  BY <1>3, <1>4 DEF RowsFollowLog, NothingSkipped

LEMMA ResolvedStays ==
  ASSUME TInv, RowsFollowLog, [Next]_vars,
         NEW n \in Msg, Resolved(n), ~(pc \in AtHand /\ cur = n)
  PROVE  Resolved(n)'
  BY StatusSteps DEF StatusMoves, Resolved, Settled

LEMMA EarlierAreResolvedPreserved ==
  ASSUME TInv, IInv, LogInOrder, RowsFollowLog, OneOfASession, EarlierAreResolved,
         [Next]_vars
  PROVE  EarlierAreResolved'
<1>1. HandMoves
  BY HandSteps
<1>2. injectable \subseteq Msg /\ (pc \in Working => cur \in Msg) /\ AtHand \subseteq Working
  BY DEF TInv, InjectorOK, AtHand, Working, ValidatePc, AckPc
<1>3. \A n \in Msg : SequenceOf[n] \in Nat
  BY MessageAssumption
<1>4. ASSUME NEW m \in injectable, NEW n \in Msg, Before(n, m)
      PROVE  Resolved(n)'
  <2>1. ~(pc \in AtHand /\ cur = n)
    BY <1>2, <1>4 DEF OneOfASession, Before
  <2>2. Resolved(n)
    BY <1>4 DEF EarlierAreResolved
  <2> QED
    BY <2>1, <2>2, ResolvedStays
<1>5. ASSUME NEW m \in injectable', NEW n \in Msg, Before(n, m)
      PROVE  Resolved(n)'
  <2>1. CASE m \in injectable
    BY <1>4, <1>5, <2>1
  <2>2. CASE m \in ListInjectable /\ UNCHANGED status
    <3>1. m \in Msg /\ status[m] # "absent" /\ status[n] \in Settled \cup {"absent"}
      BY <1>5, <2>2 DEF ListInjectable, Injectable, Before
    <3>2. Resolved(n)
      BY <1>5, <3>1, EarlierHaveRows DEF Resolved
    <3> QED
      BY <2>2, <3>2 DEF Resolved
  <2> QED
    BY <1>1, <1>5, <2>1, <2>2 DEF HandMoves
<1>6. ASSUME pc' \in {"inject_validate", "inject_deliver"}, NEW n \in Msg, Before(n, cur')
      PROVE  Resolved(n)'
  <2>1. CASE pc = "inject" /\ cur' \in injectable
    BY <1>4, <1>6, <2>1
  <2>2. CASE pc \in AtHand /\ cur' = cur /\ (pc' = pc \/ <<pc, pc'>> \in Onward)
    <3>1. pc \in {"inject_validate", "inject_deliver"}
      BY <1>6, <2>2 DEF Onward
    <3>2. Resolved(n)
      BY <1>6, <2>2, <3>1 DEF EarlierAreResolved
    <3>3. cur # n
      BY <1>3, <1>6, <2>2 DEF Before
    <3> QED
      BY <3>2, <3>3, ResolvedStays
  <2> QED
    BY <1>1, <1>6, <2>1, <2>2 DEF HandMoves, AtHand
<1> QED
  BY <1>5, <1>6 DEF EarlierAreResolved, Before

OInv == LogInOrder /\ RowsFollowLog /\ OneOfASession /\ EarlierAreResolved

LEMMA OrderInvariant == Spec => []OInv
<1>1. Init => OInv
  BY DEF Init, OInv, LogInOrder, RowsFollowLog, NothingSkipped, OneOfASession,
         EarlierAreResolved, AtHand, ToSet
<1>2. TInv /\ IInv /\ OInv /\ [Next]_vars => OInv'
  BY LogInOrderPreserved, RowsFollowPreserved, OneOfASessionPreserved,
     EarlierAreResolvedPreserved DEF OInv
<1> QED
  BY <1>1, <1>2, TypesInvariant, InjectorInvariant, PTL DEF Spec

\* The cursor passes no readable dispatch that is not in the spool, wherever
\* the process died.
THEOREM NothingIsSkipped == Spec => []NothingSkipped
<1>1. OInv => NothingSkipped
  BY DEF OInv, RowsFollowLog
<1> QED
  BY <1>1, OrderInvariant, PTL

\* A message reaches the runtime after every earlier message of its session was
\* settled or had an unreadable event, whatever the event loop inserted or
\* blocked since the list was read.
THEOREM InOrder == Spec => InjectionInOrder
<1> DEFINE Ordered ==
      \A m \in Msg : pushed'[m] # pushed[m] =>
        \A n \in Msg : CommOf[n] = CommOf[m] /\ SequenceOf[n] < SequenceOf[m] =>
          status[n] \in Settled \/ n \in Unreadable
<1>1. TInv /\ OInv /\ [Next]_vars => Ordered
  <2> SUFFICES ASSUME TInv, OInv, [Next]_vars  PROVE Ordered
    OBVIOUS
  <2>1. CASE PushTurn
    BY <2>1 DEF PushTurn, TInv, HistoryOK, OInv, EarlierAreResolved, Resolved, Before
  <2>2. CASE ~PushTurn
    BY <2>2, OnlyPushTurnPushes
  <2> QED
    BY <2>1, <2>2
<1>2. TInv /\ OInv /\ [Next]_vars => [Ordered]_vars
  BY <1>1
<1> QED
  BY <1>2, TypesInvariant, OrderInvariant, PTL DEF Spec, InjectionInOrder

-------------------------------------------------------------------------------
(* After the end of a grant.                                               *)

\* The event loop blocked the rows of c because its grant ended.
EndHandled(c) ==
  \E i \in 1..Len(log) :
    /\ log[i] = [type |-> "closed", comm |-> c]
    /\ i <= cursor \/ (i = cursor + 1 /\ evPc = "release")

\* The injector may still start an attempt for m: the control plane answered.
Validated(m) == pc = "inject_validate" /\ answer = "valid" /\ cur = m

\* A closed grant is not active; once its end was handled, no row of it is at
\* `injecting` nor will an answered validation put one there.
EndIsFinal ==
  /\ \A i \in 1..Len(log) : log[i].type = "closed" => grant[log[i].comm] # "active"
  /\ \A m \in Msg : EndHandled(CommOf[m]) =>
       status[m] # "injecting" /\ ~(Validated(m) /\ status[m] \in Injectable)

\* The grant of an overdue message ended, and no other message of it was
\* validated before.
OverdueIsAlone ==
  /\ AtMostOneOverduePush
  /\ \A m \in overdue :
       /\ grant[CommOf[m]] # "active"
       /\ \A n \in Msg : Validated(n) \/ (pc = "inject_deliver" /\ cur = n)
            => CommOf[n] # CommOf[m]

\* A grant that ended does not come back.
LEMMA GrantSteps ==
  ASSUME TInv, [Next]_vars, NEW c \in Comm, grant[c] # "active"
  PROVE  grant'[c] # "active"
<1> USE DEF serverVars
<1>1. CASE grant' = grant
  BY <1>1
<1>2. ASSUME NEW d \in Comm, NEW why \in {"revoked", "expired"}, EndGrant(d, why)
      PROVE  grant'[c] # "active"
  BY <1>2 DEF EndGrant, TInv, ServerOK
<1>3. CASE ControlPlane
  <2>1. ASSUME NEW d \in Comm, Revoke(d) \/ ExpireIfNeeded(d)  PROVE grant'[c] # "active"
    BY <1>2, <2>1 DEF Revoke, ExpireIfNeeded
  <2>2. CASE ServeValidate
    <3>1. CommOf[cur] \in Comm
      BY <2>2, MessageAssumption DEF ServeValidate, TInv, InjectorOK, Working
    <3>2. CASE grant[CommOf[cur]] = "active" /\ CommOf[cur] \in lapsed
      BY <1>2, <2>2, <3>1, <3>2 DEF ServeValidate
    <3>3. CASE ~(grant[CommOf[cur]] = "active" /\ CommOf[cur] \in lapsed)
      BY <1>1, <2>2, <3>3 DEF ServeValidate
    <3> QED
      BY <3>2, <3>3
  <2>3. CASE /\ ~ \E d \in Comm : Revoke(d) \/ ExpireIfNeeded(d)
             /\ ~ServeValidate
    BY <1>1, <1>3, <2>3 DEF ControlPlane, Send, MarkDispatched, Lapse, CompleteCollaboration,
         ToggleSession, ProcessLate, ServeAcknowledge, ServeEventAcknowledge
  <2> QED
    BY <2>1, <2>2, <2>3
<1>4. CASE EventLoop
  BY <1>4, <1>1 DEF EventLoop, HandleDispatch, EventAcknowledged, EventAcknowledgeFails,
              BlockCommunicationSession, Released, FinishEvent
<1>5. CASE Injector
  BY <1>5, <1>1 DEF Injector, RunOnce, FlushNext, FlushValidated, FlushAcknowledged,
              FlushDone, ReceiveAcknowledged, ReceiveDone, ReceiveNext, InjectNext,
              InjectRefused, InjectValidated, RecordTurn, Reported, InjectDone
<1>6. CASE Runtime \/ RequestFails
  BY <1>6, <1>1 DEF Runtime, DeliveryRefused, PushTurn, AcceptTurn, TurnTimeout, RequestFails
<1>7. CASE Crash \/ CrashRecording \/ Restart \/ UNCHANGED vars
  BY <1>7, <1>1 DEF Crash, CrashRecording, Die, Restart, vars
<1> QED
  BY <1>3, <1>4, <1>5, <1>6, <1>7 DEF Next

\* The end of a grant is handled when BlockCommunicationSession starts.
LEMMA EndHandledSteps ==
  ASSUME TInv, [Next]_vars, NEW c \in Comm, EndHandled(c)'
  PROVE  EndHandled(c) \/ (BlockCommunicationSession /\ Event.comm = c)
<1>1. EventMoves /\ LogGrows
  BY EventSteps, LogOnlyGrows
<1>2. log \in Seq(LogEntry) /\ cursor \in 0..Len(log) /\ Len(log) \in Nat
  BY DEF TInv, ServerOK, SpoolOK
<1>3. PICK i \in 1..Len(log') :
        /\ log'[i] = [type |-> "closed", comm |-> c]
        /\ i <= cursor' \/ (i = cursor' + 1 /\ evPc' = "release")
  BY DEF EndHandled
<1>4. i \in 1..Len(log) => log'[i] = log[i]
  BY <1>1 DEF LogGrows
<1>5. CASE cursor' = cursor /\ evPc' \in {"idle", evPc}
  <2>1. i \in 1..Len(log)
    BY <1>2, <1>3, <1>5 DEF TInv, EventOK
  <2> QED
    BY <1>3, <1>4, <1>5, <2>1 DEF EndHandled
<1>6. CASE cursor' = cursor /\ evPc' = "ack"
  <2>1. i \in 1..Len(log) /\ i <= cursor
    BY <1>2, <1>3, <1>6
  <2> QED
    BY <1>3, <1>4, <2>1 DEF EndHandled
<1>7. CASE cursor' = cursor /\ evPc' = "release" /\ BlockCommunicationSession
  <2>1. cursor < Len(log)
    BY <1>7 DEF BlockCommunicationSession, HasEvent
  <2>2. CASE i <= cursor
    <3>1. i \in 1..Len(log)
      BY <1>2, <2>2
    <3> QED
      BY <1>3, <1>4, <2>2, <3>1 DEF EndHandled
  <2>3. CASE i = cursor + 1
    <3>1. i \in 1..Len(log) /\ Event = [type |-> "closed", comm |-> c]
      BY <1>2, <1>3, <1>4, <2>1, <2>3 DEF Event
    <3> QED
      BY <1>7, <3>1
  <2> QED
    BY <1>3, <1>7, <2>2, <2>3
<1>8. CASE /\ cursor' = cursor + 1 /\ evPc' = "idle" /\ UNCHANGED log
           /\ evPc # "idle" \/ HandleDispatch
  <2>1. i \in 1..Len(log) /\ log[i] = [type |-> "closed", comm |-> c] /\ i <= cursor + 1
    BY <1>3, <1>8
  <2>2. i = cursor + 1 => evPc = "release"
    <3>1. i = cursor + 1 => Event.type = "closed"
      BY <2>1 DEF Event
    <3> QED
      BY <1>8, <3>1 DEF TInv, EventOK, HandleDispatch
  <2>3. i <= cursor \/ i = cursor + 1
    BY <1>2, <2>1
  <2> QED
    BY <2>1, <2>2, <2>3 DEF EndHandled
<1> QED
  BY <1>1, <1>5, <1>6, <1>7, <1>8 DEF EventMoves

\* Validation refuses the messages of a grant that ended.
LEMMA ValidatedSteps ==
  ASSUME TInv, [Next]_vars, NEW m \in Msg, Validated(m)'
  PROVE  \/ Validated(m) /\ UNCHANGED <<pc, cur, answer>>
         \/ /\ ServeValidate /\ pc = "inject_validate" /\ cur = m
            /\ grant[CommOf[m]] = "active" /\ UNCHANGED <<log, status, overdue>>
<1>1. pc' = "inject_validate" /\ answer' = "valid" /\ cur' = m
  BY DEF Validated
<1>2. CASE answer' = answer /\ UNCHANGED <<pc, cur>>
  BY <1>1, <1>2 DEF Validated
<1>3. CASE ServeValidate
  <2>1. /\ pc' = pc /\ cur' = cur
        /\ grant[CommOf[cur]] = "active" /\ CommOf[cur] \notin lapsed
        /\ UNCHANGED <<status, overdue>>
    BY <1>1, <1>3 DEF ServeValidate, spoolVars, historyVars
  <2> QED
    BY <1>1, <1>3, <2>1 DEF ServeValidate
<1> QED
  BY <1>1, <1>2, <1>3, AnswerSteps DEF AnswerMoves

LEMMA EndIsFinalPreserved ==
  ASSUME TInv, IInv, EndIsFinal, [Next]_vars
  PROVE  EndIsFinal'
<1>1. LogGrows /\ log \in Seq(LogEntry) /\ log' \in Seq(LogEntry)
  BY LogOnlyGrows DEF TInv, ServerOK
<1>2. ASSUME NEW i \in 1..Len(log'), log'[i].type = "closed"
      PROVE  grant'[log'[i].comm] # "active"
  <2>1. CASE i \in 1..Len(log)
    <3>1. log'[i] = log[i] /\ log[i] \in LogEntry
      BY <1>1, <2>1 DEF LogGrows
    <3>2. log[i].comm \in Comm /\ grant[log[i].comm] # "active"
      BY <1>2, <2>1, <3>1 DEF EndIsFinal, LogEntry
    <3> QED
      BY <3>1, <3>2, GrantSteps
  <2>2. CASE i \notin 1..Len(log)
    <3>1. PICK c \in Comm, why \in {"revoked", "expired"} :
            EndGrant(c, why) /\ log'[i] = [type |-> "closed", comm |-> c]
      BY <1>2, <2>2, NewEntry
    <3>2. grant' = [grant EXCEPT ![c] = why] /\ log'[i].comm = c
      BY <3>1 DEF EndGrant
    <3> QED
      BY <3>2 DEF TInv, ServerOK
  <2> QED
    BY <2>1, <2>2
<1>3. ASSUME NEW m \in Msg, EndHandled(CommOf[m])'
      PROVE  status'[m] # "injecting" /\ ~(Validated(m)' /\ status'[m] \in Injectable)
  <2>1. CommOf[m] \in Comm /\ status[m] \in SpoolStatus
    BY MessageAssumption DEF TInv, SpoolOK
  <2>2. StatusMoves(m)
    BY StatusSteps
  <2>3. CASE EndHandled(CommOf[m])
    <3>1. status[m] # "injecting" /\ ~(Validated(m) /\ status[m] \in Injectable)
      BY <2>3 DEF EndIsFinal
    <3>2. status'[m] # "injecting"
      BY <2>2, <3>1 DEF StatusMoves, Validated
    <3>3. SUFFICES ASSUME Validated(m)'  PROVE status'[m] \notin Injectable
      BY <3>2
    <3>4. CASE Validated(m) /\ UNCHANGED pc
      <4>1. status[m] \notin Untried
        BY <3>4 DEF Validated, IInv, ListWasInjectable, Trying
      <4> QED
        BY <2>2, <3>1, <3>4, <4>1 DEF StatusMoves, Untried, Injectable, Validated
    <3>5. CASE grant[CommOf[m]] = "active"
      BY <2>3, <3>5 DEF EndHandled, EndIsFinal
    <3> QED
      BY <3>3, <3>4, <3>5, ValidatedSteps
  <2>4. CASE BlockCommunicationSession /\ Event.comm = CommOf[m]
    <3>1. status'[m] \in Settled \cup {"absent"}
      BY <2>4 DEF BlockCommunicationSession, Settled
    <3> QED
      BY <3>1 DEF Settled, Injectable
  <2> QED
    BY <1>3, <2>1, <2>3, <2>4, EndHandledSteps
<1> QED
  BY <1>2, <1>3 DEF EndIsFinal

LEMMA OverdueIsAlonePreserved ==
  ASSUME TInv, OverdueIsAlone, [Next]_vars
  PROVE  OverdueIsAlone'
<1>1. HandMoves
  BY HandSteps
<1>2. overdue \subseteq Msg /\ \A m \in Msg : CommOf[m] \in Comm
  BY MessageAssumption DEF TInv, HistoryOK
<1>3. \A m \in overdue : grant'[CommOf[m]] # "active"
  BY <1>2, GrantSteps DEF OverdueIsAlone
<1>4. CASE PushTurn
  <2>1. /\ pc = "inject_deliver" /\ pc' = "deliver_accept" /\ cur \in Msg
        /\ UNCHANGED grant
        /\ overdue' = IF grant[CommOf[cur]] # "active" THEN overdue \cup {cur} ELSE overdue
    BY <1>4 DEF PushTurn, Await, serverVars, TInv, InjectorOK, Working
  <2>2. \A m \in overdue : CommOf[cur] # CommOf[m]
    BY <2>1 DEF OverdueIsAlone
  <2>3. AtMostOneOverduePush'
    BY <2>1, <2>2 DEF AtMostOneOverduePush, OverdueIsAlone
  <2>4. \A m \in overdue' : grant'[CommOf[m]] # "active"
    BY <1>3, <2>1
  <2>5. \A n \in Msg : ~(Validated(n)' \/ (pc' = "inject_deliver" /\ cur' = n))
    BY <2>1 DEF Validated
  <2> QED
    BY <2>3, <2>4, <2>5 DEF OverdueIsAlone
<1>5. CASE ~PushTurn
  <2>1. UNCHANGED overdue
    BY <1>5, OnlyPushTurnPushes
  <2>2. ASSUME NEW m \in overdue, NEW n \in Msg,
               Validated(n)' \/ (pc' = "inject_deliver" /\ cur' = n)
        PROVE  CommOf[n] # CommOf[m]
    <3>1. CASE Validated(n) \/ (pc = "inject_deliver" /\ cur = n)
      BY <3>1 DEF OverdueIsAlone
    <3>2. CASE Validated(n)' /\ grant[CommOf[n]] = "active"
      BY <3>2 DEF OverdueIsAlone
    <3>3. CASE pc' = "inject_deliver" /\ cur' = n
      BY <1>1, <3>1, <3>3 DEF HandMoves, Validated, AtHand
    <3> QED
      BY <2>2, <3>1, <3>2, <3>3, ValidatedSteps
  <2>3. AtMostOneOverduePush'
    BY <2>1 DEF AtMostOneOverduePush, OverdueIsAlone
  <2> QED
    BY <1>3, <2>1, <2>2, <2>3 DEF OverdueIsAlone
<1> QED
  BY <1>4, <1>5

LEMMA EndInvariant == Spec => [](EndIsFinal /\ OverdueIsAlone)
<1>1. Init => EndIsFinal /\ OverdueIsAlone
  BY DEF Init, EndIsFinal, EndHandled, OverdueIsAlone, AtMostOneOverduePush
<1>2. TInv /\ IInv /\ (EndIsFinal /\ OverdueIsAlone) /\ [Next]_vars
      => (EndIsFinal /\ OverdueIsAlone)'
  BY EndIsFinalPreserved, OverdueIsAlonePreserved
<1> QED
  BY <1>1, <1>2, TypesInvariant, InjectorInvariant, PTL DEF Spec

\* Once the bridge handled the end of a grant, none of its rows is left at
\* `injecting`, nor put there by a validation that was answered before.
THEOREM NoStuckRow == Spec => []EndedGrantHasNoStuckRow
<1>1. TInv /\ EndIsFinal => EndedGrantHasNoStuckRow
  <2> SUFFICES ASSUME TInv, EndIsFinal, NEW i \in 1..cursor, NEW m \in Msg,
                      log[i] = [type |-> "closed", comm |-> CommOf[m]]
               PROVE  status[m] # "injecting"
    BY DEF EndedGrantHasNoStuckRow
  <2>1. i \in 1..Len(log) /\ i <= cursor
    BY DEF TInv, SpoolOK, ServerOK
  <2> QED
    BY <2>1 DEF EndIsFinal, EndHandled
<1> QED
  BY <1>1, EndInvariant, TypesInvariant, PTL

\* After a grant ended, at most one message of it reaches the runtime: the one
\* whose validation was answered before.
THEOREM OneOverdueAtMost == Spec => []AtMostOneOverduePush
<1>1. OverdueIsAlone => AtMostOneOverduePush
  BY DEF OverdueIsAlone
<1> QED
  BY <1>1, EndInvariant, PTL
===============================================================================
