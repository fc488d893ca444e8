------------------------------ MODULE EventBridge ------------------------------
(***************************************************************************)
(* event_bridge.cpp: the queue between whoever posts and the event task.   *)
(* A thread that posts to a full queue waits; esp_event never lets its own *)
(* task wait, nor an interrupt, and tells them instead that the event was  *)
(* not queued, which no caller looks at.  An event says who posted it.  It *)
(* carries nothing else: the payload is a union, and post writes from over *)
(* the volume.                                                             *)
(***************************************************************************)
EXTENDS Threads, Naturals

CONSTANT QueueSize

ASSUME QueueAssumption == QueueSize \in Nat \ {0}

VARIABLES
  queue,
  lost     (* history: a service command was dropped by a full queue       *)

bridgeVars == <<queue, lost>>

Bases == {"APPLICATION", "NET_TRANSPORT", "BT_TRANSPORT"}
(* VOL_DATA stands for VOL_DATA_MIC and VOL_DATA_SPK.                      *)
Commands == {"VOL_DATA", "VOL_DATA_RQ", "SVC_START", "SVC_PAUSE",
             "CTL_SWITCH_SVC"}
Event(base, id, from) == [base |-> base, id |-> id, from |-> from]
Events == [base : Bases, id : Commands, from : Bases \cup {"CTL_PERIPH"}]

BridgeInit == queue = <<>> /\ lost = FALSE

Full == Len(queue) = QueueSize
Queued(e) == queue' = Append(queue, e)

(* Mutant: the queue has no end. *)
PostWaitingUnbounded(e) == Queued(e) /\ UNCHANGED lost

(* post, from a thread of its own. *)
PostWaiting(e) == ~Full /\ Queued(e) /\ UNCHANGED lost


(* post, from a handler the event task runs. *)
PostOwn(e) ==
  \/ PostWaiting(e)
  \/ /\ Full
     /\ lost' = (lost \/ e.id \in {"SVC_START", "SVC_PAUSE"})
     /\ UNCHANGED queue

post_isr(e) == \/ PostWaiting(e)
               \/ Full /\ UNCHANGED bridgeVars
=============================================================================
