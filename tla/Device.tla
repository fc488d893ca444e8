-------------------------------- MODULE Device --------------------------------
(***************************************************************************)
(* The headphones as one program: app_main, the button, the event task     *)
(* that runs main_event_cb and the listeners of the two transports, the    *)
(* Bluetooth thread, and the receive task of net_transport.                *)
(***************************************************************************)
EXTENDS BtTransport, NetTransport

CONSTANTS
  MaxPresses,  (* bound: presses of the button                             *)
  EarlyCost    (* bound: for how many of them one counts that comes before *)
               (* the program is up                                        *)

ASSUME DeviceAssumption == {MaxPresses, EarlyCost} \subseteq Nat

VARIABLES
  cur_trt,     (* index of the current transport                           *)
  app_main,    (* where app_main is, and the index it has read             *)
  presses,     (* presses so far, each counted with its cost               *)
  early        (* history: a switch was served before the program was up   *)

mainVars == <<cur_trt, app_main, presses, early>>
vars == <<todo, streamVars, bridgeVars, btVars, netVars, mainVars>>

trts == <<"NET_TRANSPORT", "BT_TRANSPORT">>
trt_count == Len(trts)

Init ==
  /\ todo = [t \in Threads |-> <<>>]
  /\ StreamInit /\ BridgeInit /\ BtInit /\ NetInit
  /\ cur_trt = 1 /\ presses = 0 /\ early = FALSE
  /\ app_main = "listen"

-----------------------------------------------------------------------------
(* app_main, from the moment the interrupt and the Bluetooth thread live:  *)
(* it registers main_event_cb, reads trts[cur_trt] and posts the start.    *)
SetListener ==
  /\ app_main = "listen"
  /\ app_main' = "load"
  /\ UNCHANGED <<todo, streamVars, bridgeVars, btVars, netVars, cur_trt,
                 presses, early>>

LoadTransport ==
  /\ app_main = "load"
  /\ app_main' = trts[cur_trt]
  /\ UNCHANGED <<todo, streamVars, bridgeVars, btVars, netVars, cur_trt,
                 presses, early>>

PostStart ==
  /\ app_main \in Bases
  /\ PostWaiting(Event(app_main, "SVC_START", "APPLICATION"))
  /\ app_main' = "up"
  /\ UNCHANGED <<todo, streamVars, btVars, netVars, cur_trt, presses, early>>

AppMain == SetListener \/ LoadTransport \/ PostStart

ProgramUp == app_main = "up" /\ stack_ready

(* An edge 100 to 1000 ms after the last one; any other only restarts the  *)
(* count.                                                                  *)
btn_isr_handler ==
  /\ presses' = presses + IF ProgramUp THEN 1 ELSE EarlyCost
  /\ presses' <= MaxPresses
  /\ post_isr(Event("APPLICATION", "CTL_SWITCH_SVC", "CTL_PERIPH"))
  /\ UNCHANGED <<todo, streamVars, btVars, netVars, cur_trt, app_main, early>>

-----------------------------------------------------------------------------
(* The event task. *)

NextTransport == IF cur_trt + 1 > trt_count THEN 1 ELSE cur_trt + 1

(* Mutants: cur_trt is advanced first; the start is posted first. *)
main_event_cbAdvancesFirst(e) ==
  \/ /\ e.id = "CTL_SWITCH_SVC"
     /\ Runs("event", <<Call("post", trts[NextTransport], "SVC_PAUSE"),
                        Call("post", trts[NextTransport], "SVC_START")>>)
     /\ cur_trt' = NextTransport
     /\ early' = (early \/ ~ProgramUp)
  \/ /\ e.id # "CTL_SWITCH_SVC"
     /\ UNCHANGED <<todo, cur_trt, early>>

main_event_cbStartsFirst(e) ==
  \/ /\ e.id = "CTL_SWITCH_SVC"
     /\ Runs("event", <<Call("post", trts[NextTransport], "SVC_START"),
                        Call("post", trts[cur_trt], "SVC_PAUSE")>>)
     /\ cur_trt' = NextTransport
     /\ early' = (early \/ ~ProgramUp)
  \/ /\ e.id # "CTL_SWITCH_SVC"
     /\ UNCHANGED <<todo, cur_trt, early>>

(* Volumes end in the empty stubs of stream_bridge. *)
main_event_cb(e) ==
  \/ /\ e.id = "VOL_DATA_RQ"
     /\ Runs("event", <<Call("post", e.from, "VOL_DATA"),
                        Call("post", e.from, "VOL_DATA")>>)
     /\ UNCHANGED <<cur_trt, early>>
  \/ /\ e.id = "CTL_SWITCH_SVC"
     /\ Runs("event", <<Call("post", trts[cur_trt], "SVC_PAUSE"),
                        Call("post", trts[NextTransport], "SVC_START")>>)
     /\ cur_trt' = NextTransport
     /\ early' = (early \/ ~ProgramUp)
  \/ /\ e.id = "VOL_DATA"
     /\ UNCHANGED <<todo, cur_trt, early>>

(* The loop takes the next event once the handler of the last one is done. *)
Dispatch ==
  /\ Idle("event") /\ queue # <<>>
  /\ queue' = Tail(queue)
  /\ LET e == Head(queue) IN
       \/ /\ e.base = "APPLICATION" /\ app_main # "listen"
          /\ main_event_cb(e)
          /\ UNCHANGED <<btVars, wifi>>
       \/ /\ e.base = "APPLICATION" /\ app_main = "listen"
          /\ UNCHANGED <<todo, btVars, cur_trt, early, wifi>>
       \/ /\ e.base = "NET_TRANSPORT"
          /\ net_event_cb(e)
          /\ UNCHANGED <<btVars, cur_trt, early>>
       \/ /\ e.base = "BT_TRANSPORT"
          /\ bt_stack_event_handler(e)
          /\ UNCHANGED <<cur_trt, early, wifi>>
  /\ UNCHANGED <<lost, streamVars, app_main, presses, net_state, recv_on,
                 recvVars>>

PostFromHandler ==
  /\ At("event", "post")
  /\ PostOwn(Event(Current("event").on, Current("event").arg, "APPLICATION"))
  /\ Returns("event")
  /\ UNCHANGED <<streamVars, btVars, netVars, mainVars>>

EventTask ==
  \/ Dispatch \/ PostFromHandler
  \/ NetCalls /\ UNCHANGED <<streamVars, bridgeVars, btVars, mainVars>>
  \/ Reconfigure("event") /\ UNCHANGED <<bridgeVars, btVars, netVars, mainVars>>

-----------------------------------------------------------------------------
(* The Bluetooth thread. *)

PostFromBt ==
  /\ At("bt", "post")
  /\ PostWaiting(Event(Current("bt").on, Current("bt").arg, "BT_TRANSPORT"))
  /\ Returns("bt")
  /\ UNCHANGED <<streamVars, btVars, netVars, mainVars>>

BtThread ==
  \/ StackReady /\ UNCHANGED <<streamVars, bridgeVars, netVars, mainVars>>
  \/ Reconfigure("bt") /\ UNCHANGED <<bridgeVars, btVars, netVars, mainVars>>
  \/ PostFromBt

BtPacket == PacketHandler /\ UNCHANGED <<streamVars, bridgeVars, netVars, mainVars>>

(* The receive task and the driver. *)
NetPacket == /\ ReceiveTask \/ ReconnectRefused
             /\ UNCHANGED <<streamVars, bridgeVars, btVars, mainVars>>

-----------------------------------------------------------------------------

(* An ESP_ERROR_CHECK has failed, of stream_bridge or of wifi_util. *)
Halted == i2s_failed \/ wifi = "down"

Next ==
  /\ ~Halted
  /\ \/ AppMain \/ btn_isr_handler \/ EventTask
     \/ BtThread \/ BtPacket \/ NetPacket

Spec == Init /\ [][Next]_vars

-----------------------------------------------------------------------------
(* Properties. *)

NetOps == {"connect", "receiver_start", "set_endpoint", "set_requesting",
           "set_cmd", "set_noconn", "reset", "shutdown", "set_uninit"}
Ops == StreamOps \cup NetOps \cup {"post"}

(* Every variable keeps its type. *)
TypeOK ==
  /\ \A t \in Threads : \A i \in DOMAIN todo[t] : todo[t][i].op \in Ops
  /\ queue \in Seq(Events) /\ Len(queue) <= QueueSize
  /\ enabled \subseteq Channels
  /\ sink_cfg \in {"net", "a2dp"} \cup Codecs
  /\ codec_current \in Codecs \cup {"null"}
  /\ decoder \in {"null", "music", "call"}
  /\ stream \in {"none", "configured", "open", "started"}
  /\ {acl_handle, sco_handle} \subseteq 0..1
  /\ net_state \in NetStates /\ wifi \in Phases /\ recv \in RecvPCs
  /\ {i2s_failed, overlapped, lost, power, stack_ready, sbc_configured,
      recv_on, revived, early} \subseteq BOOLEAN
  /\ cur_trt \in 1..trt_count /\ presses \in 0..MaxPresses
  /\ app_main \in {"listen", "load", "up"} \cup Bases

(* A service runs from its start to the shutdown of what it runs on, also  *)
(* when connect has failed.                                                *)
Running == (IF wifi \in {"off", "down"} THEN {} ELSE {"NET_TRANSPORT"})
           \cup (IF power THEN {"BT_TRANSPORT"} ELSE {})

(* What the switch can stumble over: a command that found the queue full,  *)
(* a button pressed before the program was up, a paused service that the   *)
(* receive task gave a state, so that its next start does nothing, and the *)
(* end of the program.                                                     *)
Undisturbed == ~lost /\ ~early /\ ~revived /\ wifi # "down"

(* Otherwise, whatever the receive task stores and whatever comes between  *)
(* a pause and a start, once the event task has nothing left to do exactly *)
(* the transport that cur_trt names runs.                                  *)
CurrentRuns ==
  Idle("event") /\ queue = <<>> /\ ProgramUp /\ Undisturbed =>
    Running = {trts[cur_trt]}

(* Under the same conditions the transports are handed over one by one.    *)
H == INSTANCE Handover WITH
       Transports <- {trts[i] : i \in 1..trt_count},
       running <- IF Undisturbed THEN Running ELSE {}

ImplementsHandover == H!Spec

(* While a call is up the codec that its packets and its microphone go     *)
(* through exists, and the decoder context is set up for who uses it.      *)
CodecServesCall ==
  /\ InCall => codec_current # "null"
  /\ InCall /\ codec_current = "MSBC" => decoder = "call"
  /\ stream = "started" => decoder = "music"

(* Between calls the sink is configured for the music, once there is any,  *)
(* or was taken over by the network service.                               *)
MusicSinkRestored ==
  Idle("bt") /\ ~InCall /\ sbc_configured => sink_cfg \in {"a2dp", "net"}

(* A reconfiguration fails only when two threads are at the same channel,  *)
(* or at the end of a call from a phone that never configured a stream.    *)
ReconfigurationFails ==
  i2s_failed => overlapped \/ (\E t \in Threads : todo[t] # <<>>
                                /\ Current(t).arg = "unset")

=============================================================================
