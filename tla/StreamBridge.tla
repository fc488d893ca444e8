----------------------------- MODULE StreamBridge -----------------------------
(***************************************************************************)
(* stream_bridge.cpp: the two I2S channels, "tx" to the sink and "rx" from *)
(* the source, reconfigured by several threads.  Each I2S call holds a     *)
(* lock of the driver, so it is one step.  Of what configure_* is given, a *)
(* configuration keeps who asked for it.  Microphone has the read side.    *)
(***************************************************************************)
EXTENDS Threads

VARIABLES
  enabled,         (* the channels that run                                *)
  sink_cfg,        (* who the sink is configured for                       *)
  i2s_failed,      (* an ESP_ERROR_CHECK of a reconfiguration has aborted  *)
  overlapped       (* history: two threads were inside stream_bridge       *)

streamVars == <<enabled, sink_cfg, i2s_failed, overlapped>>

Channels == {"tx", "rx"}
StreamOps == {"disable", "slot", "clock", "enable",
              "read", "compare", "subtract", "zero"}

(* i2s_channel_init_std_mode gives both channels what the network uses.    *)
StreamInit ==
  /\ enabled = Channels
  /\ sink_cfg = "net"
  /\ i2s_failed = FALSE /\ overlapped = FALSE

(* Mutant: the channel is reconfigured while it runs. *)
ConfigureRunning(channel, cfg) ==
  <<Call("slot", channel, cfg), Call("clock", channel, cfg)>>

Configure(channel, cfg) ==
  <<Call("disable", channel, cfg), Call("slot", channel, cfg),
    Call("clock", channel, cfg), Call("enable", channel, cfg)>>

configure_sink(cfg) == Configure("tx", cfg)
configure_source(cfg) == Configure("rx", cfg)

(* Does another thread have a call on the channel of t still to do?        *)
Meets(t) ==
  \E u \in Threads \ {t} : \E i \in DOMAIN todo[u] :
    todo[u][i].op \in StreamOps /\ todo[u][i].on = Current(t).on

Accesses(t, op) ==
  /\ At(t, op)
  /\ overlapped' = (overlapped \/ Meets(t))

(* Disabling a channel that is disabled is an error nobody looks at.       *)
Disable(t) ==
  /\ Accesses(t, "disable")
  /\ enabled' = enabled \ {Current(t).on}
  /\ Returns(t)
  /\ UNCHANGED <<sink_cfg, i2s_failed>>

(* The driver refuses a running channel and a configuration of zeros.      *)
Refused(t) == Current(t).on \in enabled \/ Current(t).arg = "unset"

ReconfigSlot(t) ==
  /\ Accesses(t, "slot")
  /\ IF Refused(t)
       THEN i2s_failed' = TRUE /\ UNCHANGED todo
       ELSE Returns(t) /\ UNCHANGED i2s_failed
  /\ UNCHANGED <<enabled, sink_cfg>>

ReconfigClock(t) ==
  /\ Accesses(t, "clock")
  /\ IF Refused(t)
       THEN i2s_failed' = TRUE /\ UNCHANGED <<todo, sink_cfg>>
       ELSE /\ Returns(t)
            /\ sink_cfg' = IF Current(t).on = "tx" THEN Current(t).arg
                                                   ELSE sink_cfg
            /\ UNCHANGED i2s_failed
  /\ UNCHANGED <<enabled>>

Enable(t) ==
  /\ Accesses(t, "enable")
  /\ enabled' = enabled \cup {Current(t).on}
  /\ Returns(t)
  /\ UNCHANGED <<sink_cfg, i2s_failed>>

Reconfigure(t) ==
  Disable(t) \/ ReconfigSlot(t) \/ ReconfigClock(t) \/ Enable(t)
=============================================================================
