------------------------------ MODULE Microphone ------------------------------
(***************************************************************************)
(* The way from the microphone out: the read side of stream_bridge.cpp     *)
(* with the interrupt of its channel, and the two that read, the send task *)
(* of the network service (send_cb of net_transport.cpp) and, in a call,   *)
(* the Bluetooth thread (sco_util.cpp).  The event task switches between   *)
(* the services; a read or a call of the old one may outlive the switch.   *)
(* A call is up while codec_current is set, which Device shows; the sink   *)
(* and the events are left to Device.                                      *)
(***************************************************************************)
EXTENDS StreamBridge, Integers

CONSTANTS
  DmaSize,    (* event->size: what one buffer of the channel holds         *)
  ReadLen,    (* what a reader asks for                                    *)
  SizeMax,    (* bound: size_t wraps above it                              *)
  Prebuffer   (* for each codec of the build, SCO_PREBUFFER_MS in bytes    *)

Codecs == DOMAIN Prebuffer

ASSUME MicrophoneAssumption ==
  /\ {DmaSize, ReadLen, SizeMax} \subseteq Nat \ {0}
  /\ ReadLen <= DmaSize /\ DmaSize < SizeMax
  /\ "null" \notin Codecs
  /\ Prebuffer \in [Codecs -> Nat]

VARIABLES
  available_read,
  service,             (* "net" or "bt", or "none" during the switch       *)
  codec_current,
  audio_input_paused,
  can_send,            (* a request for SCO_CAN_SEND_NOW is pending        *)
  part_encoded         (* hfp_codec holds less than a payload, and one     *)
                       (* frame more completes it                          *)

callVars == <<codec_current, audio_input_paused, can_send, part_encoded>>
vars == <<todo, streamVars, available_read, service, callVars>>

Init ==
  /\ todo = [t \in Threads |-> <<>>]
  /\ StreamInit
  /\ available_read = 0
  /\ service = "net"
  /\ codec_current = "null" /\ audio_input_paused = FALSE
  /\ can_send = FALSE /\ part_encoded = FALSE

InCall == codec_current # "null"

-----------------------------------------------------------------------------
(* stream_bridge::read: the driver's answer, then the counter, which the   *)
(* interrupt may store into in between.                                    *)

read == <<Call("read", "rx", "buffer")>>

Reads(t, op) == Accesses(t, op) /\ UNCHANGED <<enabled, sink_cfg, i2s_failed>>

ReadFull(t) ==
  /\ Reads(t, "read")
  /\ "rx" \in enabled
  /\ ContinuesWith(t, "compare")
  /\ UNCHANGED available_read

(* A channel that is disabled, or has not got the bytes, gives less.       *)
ReadShort(t) ==
  /\ Reads(t, "read")
  /\ available_read' = 0
  /\ Returns(t)

(* Mutant: it subtracts without comparing.                    *)
CompareNot(t) ==
  /\ Reads(t, "compare")
  /\ ContinuesWith(t, "subtract")
  /\ UNCHANGED available_read

Compare(t) ==
  /\ Reads(t, "compare")
  /\ ContinuesWith(t, IF ReadLen > available_read THEN "zero" ELSE "subtract")
  /\ UNCHANGED available_read

Zero(t) ==
  /\ Reads(t, "zero")
  /\ available_read' = 0
  /\ Returns(t)

(* Mutant: the counter does not wrap.                        *)
SubtractSigned(t) ==
  /\ Reads(t, "subtract")
  /\ available_read' = available_read - ReadLen
  /\ Returns(t)

Subtract(t) ==
  /\ Reads(t, "subtract")
  /\ available_read' = (available_read - ReadLen) % (SizeMax + 1)
  /\ Returns(t)

Updates(t) == ReadFull(t) \/ Compare(t) \/ Zero(t) \/ Subtract(t)

i2s_rx_callback ==
  /\ "rx" \in enabled
  /\ available_read' = DmaSize
  /\ UNCHANGED <<todo, streamVars, service, callVars>>

-----------------------------------------------------------------------------
(* The event task: SVC_PAUSE of one service, SVC_START of the other.       *)

PauseService ==
  /\ Idle("event") /\ service # "none"
  /\ service' = "none"
  /\ Runs("event", IF service = "net" THEN <<Call("power_on", "hci", "")>>
                   ELSE configure_source("net")
                        \o <<Call("set_requesting", "net_state", "")>>)
  /\ UNCHANGED <<streamVars, available_read, callVars>>

ServiceStarted ==
  /\ \/ At("event", "power_on") /\ service' = "bt"
     \/ At("event", "set_requesting") /\ service' = "net"
  /\ Returns("event")
  /\ UNCHANGED <<streamVars, available_read, callVars>>

EventTask ==
  \/ ServiceStarted
  \/ Reconfigure("event") /\ UNCHANGED <<available_read, service, callVars>>

(* The send task polls send_cb until the service is reset. *)
SendCb ==
  /\ Idle("send") /\ service = "net" /\ available_read # 0
  /\ Runs("send", read)
  /\ UNCHANGED <<streamVars, available_read, service, callVars>>

SendTask ==
  \/ SendCb
  \/ (Updates("send") \/ ReadShort("send")) /\ UNCHANGED <<service, callVars>>

-----------------------------------------------------------------------------
(* The Bluetooth thread. *)

(* sco_util::set_codec, with the request of hfp_hf_cb that follows it.     *)
set_codec(codec) ==
  /\ Idle("bt") /\ service = "bt" /\ ~InCall
  /\ codec_current' = codec
  /\ audio_input_paused' = TRUE
  /\ can_send' = TRUE /\ part_encoded' = FALSE
  /\ Runs("bt", configure_source(codec))
  /\ UNCHANGED <<streamVars, available_read, service>>

close ==
  /\ Idle("bt") /\ InCall
  /\ codec_current' = "null"
  /\ UNCHANGED <<todo, streamVars, available_read, service,
                 audio_input_paused, can_send, part_encoded>>

(* Mutant: a pre-buffer of twice the time.                       *)
LiveTwice == audio_input_paused => available_read >= 2 * Prebuffer[codec_current]

(* sco_util::send: it resumes when the pre-buffer is there, has the codec  *)
(* fill the payload and asks for its next turn.                            *)
Live == audio_input_paused => available_read >= Prebuffer[codec_current]

(* cvsd_fill_payload reads in any case; codec_fill_payload when there is a *)
(* frame to encode.  Where the encoder is still short of a payload then,   *)
(* zeros are sent and the microphone is paused again; a payload takes two  *)
(* frames at most.                                                         *)
FillFromMicrophone ==
  /\ Live
  /\ codec_current = "CVSD" \/ available_read >= ReadLen
  /\ Runs("bt", read)
  /\ part_encoded' \in IF codec_current = "CVSD" \/ part_encoded
                       THEN {FALSE} ELSE BOOLEAN
  /\ audio_input_paused' = part_encoded'

(* codec_fill_payload, out of what the encoder still holds. *)
FillFromEncoder ==
  /\ Live /\ codec_current # "CVSD" /\ ~part_encoded
  /\ audio_input_paused' = FALSE
  /\ UNCHANGED <<todo, part_encoded>>

(* Zeros, with nothing read: paused, or no frame and too little in the     *)
(* encoder.                                                                *)
FillWithZeros ==
  /\ Live => codec_current # "CVSD" /\ available_read < ReadLen
  /\ audio_input_paused' = TRUE
  /\ UNCHANGED <<todo, part_encoded>>

send ==
  /\ Idle("bt") /\ can_send
  /\ can_send' = InCall
  /\ \/ InCall /\ (FillFromMicrophone \/ FillFromEncoder \/ FillWithZeros)
     \/ ~InCall /\ UNCHANGED <<todo, audio_input_paused, part_encoded>>
  /\ UNCHANGED <<streamVars, available_read, service, codec_current>>

(* cvsd_fill_payload got less than it asked for; the other codecs do not   *)
(* look.                                                                   *)
ReadInCallShort ==
  /\ ReadShort("bt")
  /\ audio_input_paused' = (audio_input_paused \/ codec_current = "CVSD")
  /\ UNCHANGED <<service, codec_current, can_send, part_encoded>>

BtThread ==
  \/ Reconfigure("bt") /\ UNCHANGED <<available_read, service, callVars>>
  \/ Updates("bt") /\ UNCHANGED <<service, callVars>>
  \/ ReadInCallShort

-----------------------------------------------------------------------------

(* Nothing runs any more once an ESP_ERROR_CHECK has failed. *)
Up(A) == ~i2s_failed /\ A

Next ==
  Up(\/ PauseService \/ EventTask \/ SendTask
     \/ \E codec \in Codecs : set_codec(codec)
     \/ close \/ send \/ BtThread \/ i2s_rx_callback)

(* Every thread runs, a channel that is enabled fills its buffers, and     *)
(* BTstack hands out a pending request; the user and the phone are free.   *)
Fairness ==
  /\ WF_vars(Up(EventTask)) /\ WF_vars(Up(SendTask)) /\ WF_vars(Up(BtThread))
  /\ WF_vars(Up(send)) /\ WF_vars(Up(i2s_rx_callback))

Spec == Init /\ [][Next]_vars /\ Fairness

-----------------------------------------------------------------------------
(* Properties. *)

(* Every variable keeps its type. *)
TypeOK ==
  /\ DOMAIN todo = Threads
  /\ \A t \in Threads : \A i \in DOMAIN todo[t] :
       todo[t][i].op \in StreamOps \cup {"power_on", "set_requesting"}
  /\ enabled \subseteq Channels
  /\ available_read \in 0..SizeMax
  /\ service \in {"net", "bt", "none"}
  /\ codec_current \in Codecs \cup {"null"}
  /\ {i2s_failed, overlapped, audio_input_paused, can_send, part_encoded}
       \subseteq BOOLEAN

(* However the interrupt falls between comparison and subtraction, no more *)
(* bytes are promised than a buffer holds, if one thread reads at a time.  *)
NeverPromisesMore == available_read <= DmaSize \/ overlapped

(* In a call whose microphone is paused the buffer of the receive channel  *)
(* comes to hold enough to resume it, unless the network service is back   *)
(* and reads from the same channel.                                        *)
MicrophoneResumes ==
  InCall /\ audio_input_paused ~>
    ~InCall \/ ~audio_input_paused \/ service # "bt" \/ i2s_failed \/ overlapped
=============================================================================
