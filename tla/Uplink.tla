-------------------------------- MODULE Uplink --------------------------------
(***************************************************************************)
(* What net_transport needs of wifi_util: connect comes to an end, "up"    *)
(* only with an address obtained since it was called, and a service that   *)
(* is up can be shut down.  The device goes down with a service only when  *)
(* connect failed, or when the driver refused to connect again after a     *)
(* disconnection; a connect in progress need not end after a refusal.      *)
(***************************************************************************)
VARIABLES phase,   (* of the service, or "down": the program was aborted    *)
          address, (* was an address obtained since connect was called      *)
          refused  (* has the driver refused to connect again since then    *)

Init == phase = "off" /\ address = FALSE /\ refused = FALSE

Start == phase = "off" /\ phase' = "trying" /\ address' = FALSE
         /\ refused' = FALSE

Obtain == phase \notin {"off", "down"} /\ address' = TRUE
          /\ UNCHANGED <<phase, refused>>

Succeed == phase = "trying" /\ address /\ phase' = "up"
           /\ UNCHANGED <<address, refused>>

Fail == phase = "trying" /\ phase' = "failed" /\ UNCHANGED <<address, refused>>

Refuse == phase \notin {"off", "down"} /\ refused' = TRUE
          /\ phase' \in {phase, "down"} /\ UNCHANGED address

Stop == phase \in {"up", "failed"} /\ phase' = "off"
        /\ UNCHANGED <<address, refused>>

GoDown == phase = "failed" /\ phase' = "down" /\ UNCHANGED <<address, refused>>

Restart == phase = "down" /\ phase' = "off" /\ address' = FALSE
           /\ refused' = FALSE

Next == \/ Start \/ Obtain \/ Succeed \/ Fail \/ Refuse
        \/ Stop \/ GoDown \/ Restart

Contract == Init /\ [][Next]_<<phase, address, refused>>

Spec == /\ Contract
        /\ WF_<<phase, address, refused>>(~refused /\ (Succeed \/ Fail))
=============================================================================
