------------------------- MODULE BridgeDeliveryProofs -------------------------
(***************************************************************************)
(* The injector never hands an accepted message to the runtime again, for  *)
(* any messages, sessions, number of crashes and number of attempts.       *)
(*                                                                         *)
(* AcceptedTurnIsNeverReplayed is no consequence of the row's status alone *)
(* -- markResult overwrites it -- nor of the lists, which are stale.  The  *)
(* argument is that the injector holds a message it may still push in one  *)
(* place only: its row while no list holds it, one list entry, or the      *)
(* message at hand.                                                        *)
(***************************************************************************)
EXTENDS BridgeDelivery, TLAPS

\* Statuses of a row that was never at `injecting`.
Untried == {"absent", "received"}

\* The injector is between taking a message off its list and the last await
\* after which the message may be tried again.
Trying == {"inject_validate", "inject_deliver", "deliver_accept", "busy_ack", "retry_ack"}

Typed ==
  /\ status \in [Msg -> SpoolStatus]
  /\ pushed \in [Msg -> Nat]
  /\ accepted \subseteq Msg
  /\ injectable \subseteq Msg
  /\ pc \in Trying => cur \in Msg

\* The list was read from injectable rows, and nothing takes a row back.
ListWasInjectable ==
  /\ \A m \in injectable : status[m] \notin Untried
  /\ pc \in Trying => cur \notin injectable /\ status[cur] \notin Untried

\* From markInjecting on, the row at hand is not injectable.
RowIsTaken ==
  pc \in {"inject_deliver", "deliver_accept"} => status[cur] \notin Injectable

\* Nobody holds an accepted message for another push.
AcceptedIsClosed ==
  /\ \A m \in accepted : status[m] \notin Untried \cup Injectable
  /\ accepted \cap injectable = {}
  /\ pc \in Trying /\ ~(pc = "deliver_accept" /\ answer = "accepted") => cur \notin accepted

IInv == Typed /\ ListWasInjectable /\ RowIsTaken /\ AcceptedIsClosed

\* The variables IInv speaks of.
iVars == <<status, pushed, accepted, injectable, pc, cur, answer>>

-------------------------------------------------------------------------------

LEMMA InitEstablishes == Init => IInv
  BY DEF Init, IInv, Typed, ListWasInjectable, RowIsTaken, AcceptedIsClosed,
         SpoolStatus, Trying

\* The control plane answers requests and otherwise changes nothing of the
\* bridge.
LEMMA ControlPlanePreserves ==
  ASSUME IInv, ControlPlane
  PROVE  IInv'
<1> USE DEF bridgeVars, spoolVars, injectorVars, historyVars
<1>1. CASE UNCHANGED iVars
  BY <1>1 DEF iVars, IInv, Typed, ListWasInjectable, RowIsTaken, AcceptedIsClosed
<1>2. CASE ServeAcknowledge \/ ServeValidate
  <2>1. UNCHANGED <<status, pushed, accepted, injectable, pc, cur>>
    BY <1>2 DEF ServeAcknowledge, ServeValidate
  <2>2. pc # "deliver_accept"
    BY <1>2 DEF ServeAcknowledge, ServeValidate, AckPc, ValidatePc
  <2> QED
    BY <2>1, <2>2 DEF IInv, Typed, ListWasInjectable, RowIsTaken, AcceptedIsClosed
<1>3. ASSUME NEW m \in Msg, Send(m) \/ MarkDispatched(m)  PROVE UNCHANGED iVars
  BY <1>3 DEF Send, MarkDispatched, iVars
<1>4. ASSUME NEW c \in Comm,
             Lapse(c) \/ Revoke(c) \/ ExpireIfNeeded(c) \/ CompleteCollaboration(c)
      PROVE  UNCHANGED iVars
  BY <1>4 DEF Lapse, Revoke, ExpireIfNeeded, CompleteCollaboration, iVars
<1>5. ASSUME NEW r \in late, ProcessLate(r)  PROVE UNCHANGED iVars
  BY <1>5 DEF ProcessLate, iVars
<1>6. ASSUME ToggleSession \/ ServeEventAcknowledge  PROVE UNCHANGED iVars
  BY <1>6 DEF ToggleSession, ServeEventAcknowledge, iVars
<1> QED
  BY <1>1, <1>2, <1>3, <1>4, <1>5, <1>6 DEF ControlPlane

\* The event loop inserts absent rows, acknowledges received ones and blocks
\* others: a row that was tried becomes no more injectable than it is.
LEMMA EventLoopPreserves ==
  ASSUME IInv, EventLoop
  PROVE  IInv'
<1> USE DEF injectorVars, historyVars
<1>1. UNCHANGED <<pushed, accepted, injectable, pc, cur, answer>>
  BY DEF EventLoop, HandleDispatch, EventAcknowledged, EventAcknowledgeFails,
         BlockCommunicationSession, Released, FinishEvent
<1>2. /\ status' \in [Msg -> SpoolStatus]
      /\ \A m \in Msg : status[m] \notin Untried
           => status'[m] = status[m] \/ status'[m] = "blocked"
  <2>1. CASE HandleDispatch
    BY <2>1 DEF HandleDispatch, IInv, Typed, SpoolStatus, Untried
  <2>2. CASE EventAcknowledged
    BY <2>2 DEF EventAcknowledged, FinishEvent, IInv, Typed, SpoolStatus, Untried
  <2>3. CASE EventAcknowledgeFails \/ Released
    BY <2>3 DEF EventAcknowledgeFails, Released, IInv, Typed
  <2>4. CASE BlockCommunicationSession
    BY <2>4 DEF BlockCommunicationSession, IInv, Typed, SpoolStatus
  <2> QED
    BY <2>1, <2>2, <2>3, <2>4 DEF EventLoop
<1>3. Typed'
  BY <1>1, <1>2 DEF IInv, Typed
<1>4. ListWasInjectable'
  BY <1>1, <1>2 DEF IInv, Typed, ListWasInjectable, Untried
<1>5. RowIsTaken'
  BY <1>1, <1>2 DEF IInv, Typed, ListWasInjectable, RowIsTaken, Injectable, Trying
<1>6. AcceptedIsClosed'
  BY <1>1, <1>2 DEF IInv, Typed, AcceptedIsClosed, Untried, Injectable
<1> QED
  BY <1>3, <1>4, <1>5, <1>6 DEF IInv

\* Flushing blocks a row or finds it injected; acknowledging receipt blocks it
\* or moves it from received.
LEMMA FlushAndReceivePreserve ==
  ASSUME IInv,
         \/ FlushNext \/ FlushValidated \/ FlushAcknowledged \/ FlushDone
         \/ ReceiveAcknowledged \/ ReceiveDone
         \/ \E m \in Msg : ReceiveNext(m)
  PROVE  IInv'
<1> USE DEF Await, Proceed, MarkResult, spoolVars, historyVars
<1>1. UNCHANGED <<pushed, accepted, injectable>>
  BY DEF FlushNext, FlushValidated, FlushAcknowledged, FlushDone,
         ReceiveAcknowledged, ReceiveDone, ReceiveNext
<1>2. pc' \notin Trying
  BY DEF FlushNext, FlushValidated, FlushAcknowledged, FlushDone,
         ReceiveAcknowledged, ReceiveDone, ReceiveNext, Trying
<1>3. /\ status' \in [Msg -> SpoolStatus]
      /\ \A m \in Msg : status[m] \notin Untried
           => status'[m] = status[m] \/ status'[m] \in {"blocked", "injected"}
  <2>1. CASE FlushNext \/ FlushDone \/ ReceiveDone
    BY <2>1 DEF FlushNext, FlushDone, ReceiveDone, IInv, Typed
  <2>2. CASE FlushValidated
    BY <2>2 DEF FlushValidated, IInv, Typed, SpoolStatus
  <2>3. CASE FlushAcknowledged
    BY <2>3 DEF FlushAcknowledged, IInv, Typed, SpoolStatus
  <2>4. CASE ReceiveAcknowledged
    BY <2>4 DEF ReceiveAcknowledged, IInv, Typed, SpoolStatus, Untried
  <2>5. ASSUME NEW n \in Msg, ReceiveNext(n)
        PROVE  status' = status \/ status' = [status EXCEPT ![n] = "blocked"]
    BY <2>5 DEF ReceiveNext
  <2>6. CASE \E n \in Msg : ReceiveNext(n)
    BY <2>5, <2>6 DEF IInv, Typed, SpoolStatus
  <2> QED
    BY <2>1, <2>2, <2>3, <2>4, <2>6
<1>4. Typed'
  BY <1>1, <1>2, <1>3 DEF IInv, Typed
<1>5. ListWasInjectable' /\ RowIsTaken'
  BY <1>1, <1>2, <1>3 DEF IInv, Typed, ListWasInjectable, RowIsTaken, Untried, Trying
<1>6. AcceptedIsClosed'
  BY <1>1, <1>2, <1>3 DEF IInv, Typed, AcceptedIsClosed, Untried, Injectable
<1> QED
  BY <1>4, <1>5, <1>6 DEF IInv

\* A message the injector may try again is not an accepted one.
LEMMA InjectionPreserves ==
  ASSUME IInv,
         \/ RunOnce \/ InjectRefused \/ InjectValidated \/ RecordTurn \/ Reported
         \/ InjectDone \/ Runtime \/ RequestFails
         \/ \E m \in Msg : InjectNext(m)
  PROVE  IInv'
<1> USE DEF Await, Proceed, MarkResult, Record, ReportFailure, spoolVars, historyVars,
            Trying, Untried, Injectable
<1>1. CASE RunOnce
  <2>1. /\ injectable' = {m \in Msg : m \in ListInjectable}
        /\ pc' = "flush"
        /\ UNCHANGED <<status, pushed, accepted>>
    BY <1>1 DEF RunOnce, ListInjectable
  <2> QED
    BY <2>1 DEF ListInjectable, IInv, Typed, ListWasInjectable, RowIsTaken,
                AcceptedIsClosed
<1>2. ASSUME NEW m \in Msg, InjectNext(m)  PROVE IInv'
  <2>1. CASE attempts[m] >= MaxAttempts
    BY <1>2, <2>1 DEF InjectNext, IInv, Typed, ListWasInjectable, RowIsTaken,
                      AcceptedIsClosed, SpoolStatus
  <2>2. CASE ~(attempts[m] >= MaxAttempts)
    BY <1>2, <2>2 DEF InjectNext, IInv, Typed, ListWasInjectable, RowIsTaken,
                      AcceptedIsClosed, SpoolStatus
  <2> QED
    BY <2>1, <2>2
<1>3. CASE InjectRefused
  BY <1>3 DEF InjectRefused, IInv, Typed, ListWasInjectable, RowIsTaken,
              AcceptedIsClosed, SpoolStatus
<1>4. CASE InjectValidated
  BY <1>4 DEF InjectValidated, IInv, Typed, ListWasInjectable, RowIsTaken,
              AcceptedIsClosed, SpoolStatus
<1>5. CASE RecordTurn
  BY <1>5 DEF RecordTurn, IInv, Typed, ListWasInjectable, RowIsTaken,
              AcceptedIsClosed, SpoolStatus
<1>6. CASE Reported
  <2>1. /\ UNCHANGED <<pushed, accepted, injectable>>
        /\ pc' = "inject"
        /\ status' = status \/ status' = [status EXCEPT ![cur] = "injected"]
    BY <1>6 DEF Reported
  <2> QED
    BY <2>1 DEF IInv, Typed, ListWasInjectable, RowIsTaken, AcceptedIsClosed, SpoolStatus
<1>7. CASE InjectDone
  BY <1>7 DEF InjectDone, IInv, Typed, ListWasInjectable, RowIsTaken, AcceptedIsClosed
<1>8. CASE DeliveryRefused
  BY <1>8 DEF DeliveryRefused, IInv, Typed, ListWasInjectable, RowIsTaken,
              AcceptedIsClosed, SpoolStatus
<1>9. CASE PushTurn
  BY <1>9 DEF PushTurn, IInv, Typed, ListWasInjectable, RowIsTaken, AcceptedIsClosed
<1>10. CASE AcceptTurn
  BY <1>10 DEF AcceptTurn, IInv, Typed, ListWasInjectable, RowIsTaken, AcceptedIsClosed
<1>11. CASE TurnTimeout
  BY <1>11 DEF TurnTimeout, IInv, Typed, ListWasInjectable, RowIsTaken,
               AcceptedIsClosed, SpoolStatus
<1>12. CASE RequestFails
  <2>1. /\ UNCHANGED <<pushed, accepted, injectable>>
        /\ pc' \notin Trying
        /\ \/ status' = status
           \/ /\ pc \in {"inject_validate", "retry_ack"}
              /\ status' = [status EXCEPT ![cur] = "blocked_offline"]
    BY <1>12 DEF RequestFails, ValidatePc, AckPc
  <2> QED
    BY <2>1 DEF IInv, Typed, ListWasInjectable, RowIsTaken, AcceptedIsClosed, SpoolStatus
<1> QED
  BY <1>1, <1>2, <1>3, <1>4, <1>5, <1>6, <1>7, <1>8, <1>9, <1>10, <1>11, <1>12
  DEF Runtime

\* A crash empties the lists; the rows stay as they are.
LEMMA ProcessPreserves ==
  ASSUME IInv, Crash \/ CrashRecording \/ Restart
  PROVE  IInv'
<1> USE DEF historyVars, injectorVars, spoolVars
<1>1. CASE Crash \/ CrashRecording
  <2>1. /\ UNCHANGED <<status, pushed, accepted>>
        /\ pc' = "idle" /\ injectable' = {}
    BY <1>1 DEF Crash, CrashRecording, Die, Proceed
  <2> QED
    BY <2>1 DEF IInv, Typed, ListWasInjectable, RowIsTaken, AcceptedIsClosed, Trying
<1>2. CASE Restart
  BY <1>2 DEF Restart, IInv, Typed, ListWasInjectable, RowIsTaken, AcceptedIsClosed
<1> QED
  BY <1>1, <1>2

LEMMA StutterPreserves ==
  ASSUME IInv, UNCHANGED vars
  PROVE  IInv'
  BY DEF vars, spoolVars, injectorVars, historyVars, IInv, Typed, ListWasInjectable,
         RowIsTaken, AcceptedIsClosed

LEMMA NextPreserves ==
  ASSUME IInv, [Next]_vars
  PROVE  IInv'
  BY ControlPlanePreserves, EventLoopPreserves, FlushAndReceivePreserve,
     InjectionPreserves, ProcessPreserves, StutterPreserves
  DEF Next, Injector

LEMMA OnlyPushTurnPushes ==
  ASSUME [Next]_vars, ~PushTurn
  PROVE  UNCHANGED <<pushed, overdue>>
<1> USE DEF bridgeVars, historyVars
<1>1. CASE ControlPlane
  BY <1>1 DEF ControlPlane, Send, MarkDispatched, Lapse, Revoke, ExpireIfNeeded,
              CompleteCollaboration, ToggleSession, ProcessLate, ServeAcknowledge,
              ServeEventAcknowledge, ServeValidate
<1>2. CASE EventLoop
  BY <1>2 DEF EventLoop, HandleDispatch, EventAcknowledged, EventAcknowledgeFails,
              BlockCommunicationSession, Released, FinishEvent
<1>3. CASE Injector
  BY <1>3 DEF Injector, RunOnce, FlushNext, FlushValidated, FlushAcknowledged,
              FlushDone, ReceiveAcknowledged, ReceiveDone, ReceiveNext, InjectNext,
              InjectRefused, InjectValidated, RecordTurn, Reported, InjectDone
<1>4. CASE Runtime \/ RequestFails
  BY <1>4 DEF Runtime, DeliveryRefused, AcceptTurn, TurnTimeout, RequestFails
<1>5. CASE Crash \/ CrashRecording \/ Restart
  BY <1>5 DEF Crash, CrashRecording, Die, Restart
<1>6. CASE UNCHANGED vars
  BY <1>6 DEF vars
<1> QED
  BY <1>1, <1>2, <1>3, <1>4, <1>5, <1>6 DEF Next

\* The message handed over is not an accepted one.
LEMMA PushIsNoReplay ==
  ASSUME IInv, [Next]_vars
  PROVE  \A m \in accepted : pushed'[m] = pushed[m]
<1>1. CASE PushTurn
  BY <1>1 DEF PushTurn, Await, IInv, Typed, AcceptedIsClosed, Trying
<1>2. CASE ~PushTurn
  BY <1>2, OnlyPushTurnPushes
<1> QED
  BY <1>1, <1>2

\* IInv is an invariant of the bridge.
THEOREM InjectorInvariant == Spec => []IInv
<1>1. Init => IInv
  BY InitEstablishes
<1>2. IInv /\ [Next]_vars => IInv'
  BY NextPreserves
<1> QED
  BY <1>1, <1>2, PTL DEF Spec

\* SPEC section 3: a turn the runtime accepted is never replayed, whatever is
\* lost, late or repeated and wherever the process dies.
THEOREM NoReplay == Spec => AcceptedTurnIsNeverReplayed
<1>1. IInv /\ [Next]_vars => [\A m \in accepted : pushed'[m] = pushed[m]]_vars
  BY PushIsNoReplay
<1> QED
  BY <1>1, InjectorInvariant, PTL DEF Spec, AcceptedTurnIsNeverReplayed
===============================================================================
