---------------------------- MODULE TimerPromise ----------------------------
(***************************************************************************)
(* What a timer promises its users (the interface of CNVSTimer): one       *)
(* callback runs at a time, and only that of a trigger that is armed; when *)
(* a cancellation has returned, the callback of its trigger is not running *)
(* and will not run until the trigger is registered again.                 *)
(*                                                                         *)
(* What it does not promise where the address of an item can be given out  *)
(* again: that a trigger stays armed until it is cancelled itself.         *)
(***************************************************************************)
CONSTANTS
  Triggers,  \* the triggers
  Repeated,  \* those registered as enRepeated
  Stray,     \* a cancellation may disarm another trigger than its own
  None       \* nobody

VARIABLES
  armed,      \* triggers that may fire
  cancelling, \* triggers that somebody is cancelling
  busy        \* the trigger whose callback runs

vars == <<armed, cancelling, busy>>

Init == armed = {} /\ cancelling = {} /\ busy = None

Register(t) ==
  /\ t \notin armed \cup cancelling /\ busy # t
  /\ armed' = armed \cup {t} /\ UNCHANGED <<cancelling, busy>>

\* A trigger that fires once is not armed any more.
Fire(t) ==
  /\ t \in armed /\ busy = None /\ busy' = t
  /\ armed' = IF t \in Repeated THEN armed ELSE armed \ {t}
  /\ UNCHANGED cancelling

Return == busy # None /\ busy' = None /\ UNCHANGED <<armed, cancelling>>

BeginCancel(t) == cancelling' = cancelling \cup {t} /\ UNCHANGED <<armed, busy>>
Disarm(t) ==
  /\ t \in cancelling \/ (Stray /\ cancelling # {})
  /\ armed' = armed \ {t} /\ UNCHANGED <<cancelling, busy>>
EndCancel(t) ==
  /\ t \in cancelling \ armed /\ busy # t
  /\ cancelling' = cancelling \ {t} /\ UNCHANGED <<armed, busy>>

Next ==
  \/ Return
  \/ \E t \in Triggers :
       Register(t) \/ Fire(t) \/ BeginCancel(t) \/ Disarm(t) \/ EndCancel(t)

Spec == Init /\ [][Next]_vars
=============================================================================
