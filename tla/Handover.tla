------------------------------- MODULE Handover -------------------------------
(***************************************************************************)
(* What the switch of services promises: the transports run one at a time, *)
(* and one is started only after the other has been paused.                *)
(***************************************************************************)
CONSTANT Transports

VARIABLE running

Init == running = {}
Start == \E t \in Transports : running = {} /\ running' = {t}
Pause == running # {} /\ running' = {}

Spec == Init /\ [][Start \/ Pause]_running
=============================================================================
