----------------------------- MODULE MCSdkTimer -----------------------------
(* Values for the constants of SdkTimer. *)
EXTENDS SdkTimer
CONSTANTS beat, conn
Periods == [t \in Triggers |-> IF t = beat THEN 1 ELSE 2]
=============================================================================
