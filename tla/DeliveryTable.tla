---------------------------- MODULE DeliveryTable ----------------------------
(***************************************************************************)
(* The status column of the control plane's `deliveries` table and the     *)
(* guarded UPDATEs that move it.  Every writer of the column goes through  *)
(* one of these operators, so the modules that need a delivery's status    *)
(* (ControlPlane, BridgeDelivery) share them.                              *)
(*                                                                         *)
(* "none" stands for a message that has not been inserted.  The statuses   *)
(* `rejected`, `handled` and `replied` of contracts.ts are written by no   *)
(* statement of the repository and are left out.                           *)
(***************************************************************************)

\* A delivery the recipient may still act on: what revoke and expiry close.
OpenStatus == {"queued", "dispatched", "device_acked", "runtime_pending"}

\* Statuses for which an acknowledgement is recorded in the audit only.
TerminalStatus == {"failed", "expired", "revoked"}

DeliveryStatus ==
  {"none", "inbox_persisted", "runtime_acked"} \cup OpenStatus \cup TerminalStatus

\* The phases a bridge reports with acknowledgeDelivery.
Phase == {"device_ack", "runtime_pending", "runtime_ack", "runtime_failed"}

\* Mutant of AckedFrom: a late runtime_ack overrides the revocation.
AckedFromRevoked(phase) ==
  CASE phase = "device_ack"      -> {"queued", "dispatched"}
    [] phase = "runtime_pending" -> {"device_acked", "runtime_pending"}
    [] phase = "runtime_ack"     -> {"device_acked", "runtime_pending", "revoked"}
    [] phase = "runtime_failed"  -> OpenStatus

\* The statuses from which each phase moves the delivery (the AND status IN
\* (...) of its UPDATE), and the status it moves to.
AckedFrom(phase) ==
  CASE phase = "device_ack"      -> {"queued", "dispatched"}
    [] phase = "runtime_pending" -> {"device_acked", "runtime_pending"}
    [] phase = "runtime_ack"     -> {"device_acked", "runtime_pending"}
    [] phase = "runtime_failed"  -> OpenStatus

AckedTo(phase) ==
  CASE phase = "device_ack"      -> "device_acked"
    [] phase = "runtime_pending" -> "runtime_pending"
    [] phase = "runtime_ack"     -> "runtime_acked"
    [] phase = "runtime_failed"  -> "failed"

\* The delivery's status after an acknowledgement.  A terminal delivery, and
\* one whose status the phase does not start from, keeps its status.
Acknowledged(status, phase) ==
  IF status \in AckedFrom(phase) THEN AckedTo(phase) ELSE status

\* The event carrying the message was written to the endpoint's stream.
Dispatched(status) == IF status = "queued" THEN "dispatched" ELSE status

\* Mutant of ClosedBy: the list of statuses to close misses runtime_pending.
ClosedByForgetsPending(status, why) ==
  IF status \in OpenStatus \ {"runtime_pending"} THEN why ELSE status

\* The grant the message was sent under ended; why is "revoked" or "expired".
ClosedBy(status, why) == IF status \in OpenStatus THEN why ELSE status
=============================================================================
