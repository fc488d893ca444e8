------------------------------ MODULE BtTransport ------------------------------
(***************************************************************************)
(* bt_transport.cpp with sco_util.cpp: the packet handlers, which BTstack's *)
(* run loop calls one after the other on the Bluetooth thread, and what    *)
(* the event task does to the stack.  BTstack and the phone are not under  *)
(* src/: a service level connection carries at most one call, a stream is  *)
(* configured, established and started in this order, and after power off  *)
(* there are only releases.  One phone, one handle.                        *)
(***************************************************************************)
EXTENDS StreamBridge, EventBridge

CONSTANTS
  Codecs,             (* hf_codecs: what the build offers for calls        *)
  CallsSuspendMusic   (* does the phone suspend its stream for a call      *)

ASSUME BtAssumption ==
  /\ Codecs \subseteq {"CVSD", "MSBC", "LC3_SWB"}
  /\ CallsSuspendMusic \in BOOLEAN

VARIABLES
  power,                (* HCI power                                       *)
  stack_ready,          (* bt_stack_thread is in its run loop              *)
  acl_handle, sco_handle,
  codec_current,
  sbc_configured,       (* has a2dp_conn_info got a configuration          *)
  decoder,              (* who initialised sbc_decoder_context last        *)
  stream                (* the A2DP stream, as BTstack knows it            *)

callVars == <<sco_handle, codec_current>>
musicVars == <<sbc_configured, decoder, stream>>
btVars == <<power, stack_ready, callVars, musicVars, acl_handle>>

HCI_CON_HANDLE_INVALID == 0

BtInit ==
  /\ power = FALSE /\ stack_ready = FALSE
  /\ acl_handle = HCI_CON_HANDLE_INVALID
  /\ sco_handle = HCI_CON_HANDLE_INVALID /\ codec_current = "null"
  /\ sbc_configured = FALSE /\ decoder = "null" /\ stream = "none"

Connected == acl_handle # HCI_CON_HANDLE_INVALID
InCall == sco_handle # HCI_CON_HANDLE_INVALID

PostApplication(id) == <<Call("post", "APPLICATION", id)>>

(* The run loop hands out a packet once the handler of the last one is done. *)
Packet == stack_ready /\ Idle("bt") /\ UNCHANGED <<power, stack_ready>>

-----------------------------------------------------------------------------
(* bt_stack_thread: it powers the controller off on its way into the loop. *)
StackReady ==
  /\ ~stack_ready
  /\ stack_ready' = TRUE
  /\ power' = FALSE
  /\ UNCHANGED <<todo, callVars, musicVars, acl_handle>>

(* hfp_hf_cb *)

SlcEstablished ==
  /\ Packet /\ power /\ ~Connected
  /\ acl_handle' = 1
  /\ Runs("bt", PostApplication("VOL_DATA_RQ"))
  /\ UNCHANGED <<callVars, musicVars>>

SlcReleased ==
  /\ Packet /\ Connected /\ ~InCall
  /\ acl_handle' = HCI_CON_HANDLE_INVALID
  /\ UNCHANGED <<todo, callVars, musicVars>>

(* sco_util::set_codec; the decoder of mSBC works on the context that the  *)
(* music has too.                                                          *)
set_codec(codec) ==
  /\ codec_current' = codec
  /\ Runs("bt", configure_source(codec) \o configure_sink(codec)
                \o PostApplication("VOL_DATA_RQ"))

init(codec) == decoder' = IF codec = "MSBC" THEN "call" ELSE decoder

AudioEstablished(codec) ==
  /\ Packet /\ power /\ Connected /\ ~InCall
  /\ CallsSuspendMusic => stream # "started"
  /\ sco_handle' = 1
  /\ set_codec(codec) /\ init(codec)
  /\ UNCHANGED <<acl_handle, sbc_configured, stream>>

(* Mutant: the sink keeps the format of the call. *)
AudioReleasedOnly ==
  /\ Packet /\ InCall
  /\ sco_handle' = HCI_CON_HANDLE_INVALID
  /\ codec_current' = "null"
  /\ Runs("bt", PostApplication("VOL_DATA_RQ"))
  /\ UNCHANGED <<acl_handle, musicVars>>

AudioReleased ==
  /\ Packet /\ InCall
  /\ sco_handle' = HCI_CON_HANDLE_INVALID
  /\ codec_current' = "null"
  /\ Runs("bt", configure_sink(IF sbc_configured THEN "a2dp" ELSE "unset")
                \o PostApplication("VOL_DATA_RQ"))
  /\ UNCHANGED <<acl_handle, musicVars>>

(* A volume the phone has set, after the two it sends with the connection, *)
(* which are not counted here.                                             *)
VolumeReceived ==
  /\ Packet /\ power /\ Connected
  /\ Runs("bt", PostApplication("VOL_DATA"))
  /\ UNCHANGED <<callVars, musicVars, acl_handle>>

(* avrcp_target_cb; the AVRCP connection itself changes nothing here.      *)
VolumeChanged ==
  /\ Packet /\ power
  /\ Runs("bt", PostApplication("VOL_DATA"))
  /\ UNCHANGED <<callVars, musicVars, acl_handle>>

(* a2dp_sink_cb *)

(* The configuration, or a new one of a stream that does not play. *)
SbcConfiguration ==
  /\ Packet /\ power /\ stream # "started"
  /\ sbc_configured' = TRUE
  /\ stream' = IF stream = "none" THEN "configured" ELSE stream
  /\ Runs("bt", configure_sink("a2dp"))
  /\ UNCHANGED <<callVars, acl_handle, decoder>>

StreamEstablished ==
  /\ Packet /\ power /\ stream = "configured"
  /\ stream' = "open"
  /\ Runs("bt", PostApplication("VOL_DATA_RQ"))
  /\ UNCHANGED <<callVars, acl_handle, decoder, sbc_configured>>

(* Mutant: the decoder is initialised once. *)
StreamStartedKeepsDecoder ==
  /\ Packet /\ power /\ stream = "open"
  /\ CallsSuspendMusic => ~InCall
  /\ stream' = "started"
  /\ decoder' = IF decoder = "null" THEN "music" ELSE decoder
  /\ UNCHANGED <<todo, callVars, acl_handle, sbc_configured>>

StreamStarted ==
  /\ Packet /\ power /\ stream = "open"
  /\ CallsSuspendMusic => ~InCall
  /\ stream' = "started"
  /\ decoder' = "music"
  /\ UNCHANGED <<todo, callVars, acl_handle, sbc_configured>>

StreamStopped ==
  /\ Packet
  /\ \/ stream = "started" /\ stream' = "open"
     \/ stream # "none" /\ stream' = "none"
  /\ UNCHANGED <<todo, callVars, acl_handle, decoder, sbc_configured>>

PacketHandler ==
  \/ SlcEstablished \/ SlcReleased \/ AudioReleased
  \/ \E codec \in Codecs : AudioEstablished(codec)
  \/ VolumeReceived \/ VolumeChanged
  \/ SbcConfiguration \/ StreamEstablished \/ StreamStarted \/ StreamStopped

(* bt_stack_event_handler, on the event task.  Without a connection the    *)
(* volumes go nowhere; with one they go to the phone.                      *)
bt_stack_event_handler(e) ==
  /\ power' = CASE e.id = "SVC_START" -> TRUE
                [] e.id = "SVC_PAUSE" -> FALSE
                [] OTHER -> power
  /\ UNCHANGED <<todo, stack_ready, callVars, musicVars, acl_handle>>
=============================================================================
