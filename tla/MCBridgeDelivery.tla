--------------------------- MODULE MCBridgeDelivery ---------------------------
(***************************************************************************)
(* Small instances of BridgeDelivery: one communication session with one   *)
(* or two messages.                                                        *)
(***************************************************************************)
EXTENDS BridgeDelivery

CONSTANTS c1, m1, m2

MCCommOf == [m \in Msg |-> c1]
MCSequenceOf == [m \in Msg |-> IF m = m2 THEN 2 ELSE 1]

\* Bounds of the larger runs.
SessionStaysOpen == open
NobodyLapses == lapsed = {}
===============================================================================
