-------------------------- MODULE MCCounterTracking --------------------------
(***************************************************************************)
(* Instance of CounterTracking for TLC.  One counter moves; the other is   *)
(* that of an operation nobody performs and competes for the only entry.   *)
(***************************************************************************)
EXTENDS CounterTracking

ServedBound == [k \in Keys |-> IF k = "pdu_total" THEN 3 ELSE 0]
=============================================================================
