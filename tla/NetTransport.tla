----------------------------- MODULE NetTransport -----------------------------
(***************************************************************************)
(* net_transport.cpp as the rest of the device meets it: its listener on   *)
(* the event task, the state it shares with the callback on the receive    *)
(* task, and the loop of that task.  The commands and the state towards    *)
(* the server are in Headset, the inside of connect and shutdown is in     *)
(* WifiUtil: here wifi has the phases of Uplink, which WifiUtil implements. *)
(***************************************************************************)
EXTENDS StreamBridge

VARIABLES
  net_state,
  wifi,      (* "off", "trying", "up", "failed" or, aborted, "down"         *)
  recv_on,   (* receiver.cpp's g_cur_state                                  *)
  recv,      (* where the receive task is                                   *)
  revived    (* history: the receive task gave a paused service a state     *)

recvVars == <<recv, revived>>
netVars == <<net_state, wifi, recv_on, recvVars>>

NetStates == {"CL_UNINIT", "CL_NOCONN", "CL_REQUESTING", "CL_CONNECTED"}
Phases == {"off", "trying", "up", "failed", "down"}
RecvPCs == {"top", "recvfrom", "store_requesting", "store_connected"}

NetInit ==
  /\ net_state = "CL_UNINIT" /\ wifi = "off"
  /\ recv_on = FALSE /\ recv = "top" /\ revived = FALSE

NetCall(op) == Call(op, "net", "")

-----------------------------------------------------------------------------
(* event_cb, on the event task.  What it calls is done one call at a time; *)
(* endpoint_set_*, thread_launch and thread_terminate have no effect here. *)

StartCalls ==
  <<NetCall("connect")>> \o configure_sink("net") \o configure_source("net")
  \o <<NetCall("receiver_start"), NetCall("set_endpoint"),
       NetCall("set_requesting"), NetCall("set_cmd")>>

PauseCalls ==
  (IF net_state = "CL_CONNECTED"
     THEN <<NetCall("set_noconn"), NetCall("set_cmd")>> ELSE <<>>)
  \o <<NetCall("reset"), NetCall("shutdown"), NetCall("set_uninit")>>

(* A start of a service that has a state, a pause of one that has none and *)
(* every other event do nothing.                                           *)
net_event_cb(e) ==
  \/ /\ e.id = "SVC_START" /\ net_state = "CL_UNINIT"
     /\ wifi' = "trying"
     /\ Runs("event", StartCalls)
  \/ /\ e.id = "SVC_PAUSE" /\ net_state # "CL_UNINIT"
     /\ Runs("event", PauseCalls)
     /\ UNCHANGED wifi
  \/ /\ e.id = "SVC_START" => net_state # "CL_UNINIT"
     /\ e.id = "SVC_PAUSE" => net_state = "CL_UNINIT"
     /\ UNCHANGED <<todo, wifi>>

NetReturns(op) == At("event", op) /\ Returns("event")

(* Nobody looks at what connect returned. *)
ConnectReturns ==
  /\ NetReturns("connect")
  /\ wifi' \in {"up", "failed"}
  /\ UNCHANGED <<net_state, recv_on, recvVars>>

(* sender::set_endpoint and net_controller::set_cmd change nothing here.   *)
(* They wait for the sender's mutex, set_cmd for its task too, and like    *)
(* connect they may never return: no step of the event task is fair.       *)
SenderReturns ==
  /\ NetReturns("set_endpoint") \/ NetReturns("set_cmd")
  /\ UNCHANGED netVars

SwitchReceiver ==
  /\ \/ NetReturns("receiver_start") /\ recv_on' = TRUE
     \/ NetReturns("reset") /\ recv_on' = FALSE
  /\ UNCHANGED <<net_state, wifi, recvVars>>

(* Unregistering a shutdown handler that connect has not registered        *)
(* aborts the program.                                                     *)
Shutdown ==
  /\ NetReturns("shutdown")
  /\ wifi' = IF wifi = "up" THEN "off" ELSE "down"
  /\ UNCHANGED <<net_state, recv_on, recvVars>>

SetState ==
  /\ \/ NetReturns("set_requesting") /\ net_state' = "CL_REQUESTING"
     \/ NetReturns("set_noconn") /\ net_state' = "CL_NOCONN"
     \/ NetReturns("set_uninit") /\ net_state' = "CL_UNINIT"
  /\ UNCHANGED <<wifi, recv_on, recvVars>>

NetCalls ==
  ConnectReturns \/ SenderReturns \/ SwitchReceiver \/ Shutdown \/ SetState

-----------------------------------------------------------------------------
(* The receive task: g_cur_state is looked at before recvfrom and not after. *)

RecvTop ==
  /\ recv = "top" /\ recv_on
  /\ recv' = "recvfrom"
  /\ UNCHANGED <<todo, net_state, wifi, recv_on, revived>>

(* A packet, of this service or, left in the socket, of the one before;    *)
(* with a failed connect none comes in.  If it carries a command or an     *)
(* acknowledgement, remote_cmd_cb is gone through up to its store into     *)
(* net_state: after ST_DISCONNECT line 49 has compared, after any other    *)
(* line 55.                                                                *)
ReceivePacket ==
  /\ recv = "recvfrom" /\ wifi # "failed"
  /\ \/ recv' = "top"
     \/ net_state # "CL_NOCONN" /\ recv' = "store_requesting"
     \/ net_state # "CL_CONNECTED" /\ recv' = "store_connected"
  /\ UNCHANGED <<todo, net_state, wifi, recv_on, revived>>

StoreState ==
  /\ \/ recv = "store_requesting" /\ net_state' = "CL_REQUESTING"
     \/ recv = "store_connected" /\ net_state' = "CL_CONNECTED"
  /\ recv' = "top"
  /\ revived' = (revived \/ (net_state = "CL_UNINIT" /\ wifi = "off"))
  /\ UNCHANGED <<todo, wifi, recv_on>>

ReceiveTask == RecvTop \/ ReceivePacket \/ StoreState

-----------------------------------------------------------------------------
(* The driver refuses to connect again after a disconnection, and          *)
(* wifi_util aborts the program.                                           *)
ReconnectRefused ==
  /\ wifi \in {"trying", "up"}
  /\ wifi' = "down"
  /\ UNCHANGED <<todo, net_state, recv_on, recvVars>>
=============================================================================
