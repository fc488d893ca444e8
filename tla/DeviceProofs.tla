----------------------------- MODULE DeviceProofs -----------------------------
(* Theorems about Device, for every size of the queue, every set of codecs *)
(* and any number of presses.                                              *)
EXTENDS Device, SequenceTheorems, TLAPS

Formats == {"net", "a2dp", "unset"} \cup Codecs

ConfigCalls == [op : {"disable", "slot", "clock", "enable"}, on : Channels,
                arg : Formats]
PostCalls == [op : {"post"}, on : Bases, arg : Commands]
NetworkCalls == [op : NetOps, on : {"net"}, arg : {""}]
Calls == ConfigCalls \cup PostCalls \cup NetworkCalls

(* Whoever asks for the volumes can be answered. *)
Posted == {e \in Events : e.id = "VOL_DATA_RQ" => e.from \in Bases}

(* A channel is disabled right before its slot is set, and then its clock. *)
Linked(s) ==
  \A i \in 2..Len(s) :
    /\ s[i].op = "slot" => s[i-1].op = "disable" /\ s[i-1].on = s[i].on
    /\ s[i].op = "clock" => s[i-1].op = "slot" /\ s[i-1].on = s[i].on

TodoInv ==
  /\ todo \in [Threads -> Seq(Calls)]
  /\ \A t \in Threads : Linked(todo[t])

(* What a handler may have its thread do. *)
Fresh(calls) ==
  /\ calls \in Seq(Calls) /\ Linked(calls)
  /\ 1 \in 1..Len(calls) => calls[1].op \notin {"slot", "clock"}

StateInv ==
  /\ queue \in Seq(Posted) /\ Len(queue) <= QueueSize
  /\ enabled \subseteq Channels
  /\ sink_cfg \in {"net", "a2dp"} \cup Codecs
  /\ codec_current \in Codecs \cup {"null"}
  /\ decoder \in {"null", "music", "call"}
  /\ stream \in {"none", "configured", "open", "started"}
  /\ {acl_handle, sco_handle} \subseteq 0..1
  /\ cur_trt \in 1..trt_count /\ presses \in 0..MaxPresses
  /\ app_main \in {"listen", "load", "up"} \cup Bases
  /\ net_state \in NetStates /\ wifi \in Phases /\ recv \in RecvPCs

FlagInv ==
  {i2s_failed, overlapped, lost, power, stack_ready, sbc_configured,
   recv_on, revived, early} \subseteq BOOLEAN

OnlyOf(t) == \A u \in Threads \ {t} : todo'[u] = todo[u]

-----------------------------------------------------------------------------
(* The lists of calls that handlers give their threads. *)

LEMMA FreshOne ==
  ASSUME NEW c \in Calls, c.op \notin {"slot", "clock"}
  PROVE  Fresh(<<c>>)
  BY DEF Fresh, Linked

LEMMA FreshConcat ==
  ASSUME NEW s1, NEW s2, Fresh(s1), Fresh(s2)
  PROVE  Fresh(s1 \o s2)
<1> DEFINE s == s1 \o s2
<1>1. s1 \in Seq(Calls) /\ s2 \in Seq(Calls)
  BY DEF Fresh
<1>2. /\ s \in Seq(Calls)
      /\ Len(s) = Len(s1) + Len(s2)
      /\ \A i \in 1..Len(s1) + Len(s2) :
           s[i] = IF i <= Len(s1) THEN s1[i] ELSE s2[i - Len(s1)]
  BY <1>1, ConcatProperties
<1> HIDE DEF s
<1>3. ASSUME 1 \in 1..Len(s) PROVE s[1].op \notin {"slot", "clock"}
  <2>1. CASE Len(s1) = 0
    <3>1. s[1] = s2[1] /\ 1 \in 1..Len(s2)
      BY <1>1, <1>2, <1>3, <2>1
    <3> QED
      BY <3>1 DEF Fresh
  <2>2. CASE Len(s1) # 0
    <3>1. s[1] = s1[1] /\ 1 \in 1..Len(s1)
      BY <1>1, <1>2, <1>3, <2>2
    <3> QED
      BY <3>1 DEF Fresh
  <2> QED
    BY <2>1, <2>2
<1>4. ASSUME NEW i \in 2..Len(s)
      PROVE  /\ s[i].op = "slot" => s[i-1].op = "disable" /\ s[i-1].on = s[i].on
             /\ s[i].op = "clock" => s[i-1].op = "slot" /\ s[i-1].on = s[i].on
  <2>1. CASE i <= Len(s1)
    <3>1. s[i] = s1[i] /\ s[i-1] = s1[i-1] /\ i \in 2..Len(s1)
      BY <1>1, <1>2, <2>1
    <3> QED
      BY <3>1 DEF Fresh, Linked
  <2>2. CASE i = Len(s1) + 1
    <3>1. s[i] = s2[1] /\ 1 \in 1..Len(s2)
      BY <1>1, <1>2, <2>2
    <3> QED
      BY <3>1 DEF Fresh
  <2>3. CASE i > Len(s1) + 1
    <3> DEFINE j == i - Len(s1)
    <3>1. s[i] = s2[j] /\ s[i-1] = s2[j-1] /\ j \in 2..Len(s2)
      BY <1>1, <1>2, <2>3
    <3> HIDE DEF j
    <3> QED
      BY <3>1 DEF Fresh, Linked
  <2> QED
    BY <1>1, <2>1, <2>2, <2>3
<1> QED
  BY <1>2, <1>3, <1>4 DEF Fresh, Linked, s

LEMMA FreshConfigure ==
  ASSUME NEW channel \in Channels, NEW cfg \in Formats
  PROVE  Fresh(Configure(channel, cfg))
<1>1. \A op \in {"disable", "slot", "clock", "enable"} :
        Call(op, channel, cfg) \in Calls
  BY DEF Call, Calls, ConfigCalls
<1>2. Configure(channel, cfg) \in Seq(Calls) /\ Len(Configure(channel, cfg)) = 4
  BY <1>1 DEF Configure
<1>3. Linked(Configure(channel, cfg))
  BY <1>2 DEF Linked, Configure, Call
<1> QED
  BY <1>2, <1>3 DEF Fresh, Configure, Call

LEMMA FreshPost ==
  ASSUME NEW base \in Bases, NEW id \in Commands
  PROVE  Call("post", base, id) \in Calls /\ Fresh(<<Call("post", base, id)>>)
<1>1. Call("post", base, id) \in Calls
      /\ Call("post", base, id).op \notin {"slot", "clock"}
  BY DEF Call, Calls, PostCalls
<1> QED
  BY <1>1, FreshOne

LEMMA FreshTwoPosts ==
  ASSUME NEW b1 \in Bases, NEW b2 \in Bases, NEW i1 \in Commands, NEW i2 \in Commands
  PROVE  Fresh(<<Call("post", b1, i1), Call("post", b2, i2)>>)
<1>1. Call("post", b1, i1) \in Calls /\ Call("post", b2, i2) \in Calls
  BY FreshPost
<1>2. Call("post", b1, i1).op = "post" /\ Call("post", b2, i2).op = "post"
  BY DEF Call
<1> QED
  BY <1>1, <1>2 DEF Fresh, Linked

LEMMA FreshNet ==
  ASSUME NEW op \in NetOps
  PROVE  NetCall(op) \in Calls /\ Fresh(<<NetCall(op)>>)
<1>1. NetCall(op) \in Calls /\ NetCall(op).op \notin {"slot", "clock"}
  BY DEF NetCall, Call, Calls, NetworkCalls, NetOps
<1> QED
  BY <1>1, FreshOne

(* Calls that net_transport makes one after the other. *)
NetLists == {s \in Seq(Calls) : \A i \in 1..Len(s) : s[i].op \in NetOps}

LEMMA FreshList ==
  ASSUME NEW s \in NetLists
  PROVE  Fresh(s)
  BY DEF NetLists, NetOps, Fresh, Linked

LEMMA WrittenLists ==
  /\ <<NetCall("connect")>> \in NetLists
  /\ <<NetCall("receiver_start"), NetCall("set_endpoint"),
       NetCall("set_requesting"), NetCall("set_cmd")>> \in NetLists
  /\ <<NetCall("set_noconn"), NetCall("set_cmd")>> \in NetLists
  /\ <<NetCall("reset"), NetCall("shutdown"), NetCall("set_uninit")>> \in NetLists
  /\ <<>> \in NetLists
<1>1. \A op \in NetOps : NetCall(op) \in Calls /\ NetCall(op).op = op
  BY FreshNet DEF NetCall, Call
<1> QED
  BY <1>1 DEF NetLists, NetOps

LEMMA FreshStart == Fresh(StartCalls)
<1> DEFINE a == <<NetCall("connect")>>
           sink == configure_sink("net")
           source == configure_source("net")
           b == <<NetCall("receiver_start"), NetCall("set_endpoint"),
                  NetCall("set_requesting"), NetCall("set_cmd")>>
<1>1. Fresh(a) /\ Fresh(b)
  BY WrittenLists, FreshList
<1>2. Fresh(sink) /\ Fresh(source)
  BY FreshConfigure DEF configure_sink, configure_source, Formats, Channels
<1>3. StartCalls = a \o sink \o source \o b
  BY DEF StartCalls
<1> HIDE DEF a, sink, source, b
<1> QED
  BY <1>1, <1>2, <1>3, FreshConcat

LEMMA FreshPause == Fresh(PauseCalls)
<1> DEFINE a == <<NetCall("set_noconn"), NetCall("set_cmd")>>
           b == <<NetCall("reset"), NetCall("shutdown"), NetCall("set_uninit")>>
<1>1. Fresh(a) /\ Fresh(b) /\ Fresh(<<>>)
  BY WrittenLists, FreshList
<1>2. PauseCalls = a \o b \/ PauseCalls = <<>> \o b
  BY DEF PauseCalls
<1> HIDE DEF a, b
<1> QED
  BY <1>1, <1>2, FreshConcat

-----------------------------------------------------------------------------
(* What the operators of Threads do to todo. *)

LEMMA RunsKeeps ==
  ASSUME TodoInv, NEW t \in Threads, NEW calls, Fresh(calls), Runs(t, calls)
  PROVE  TodoInv' /\ OnlyOf(t) /\ ~At(t, "slot")' /\ ~At(t, "clock")'
<1>1. TodoInv' /\ OnlyOf(t) /\ todo'[t] = calls
  BY DEF TodoInv, Runs, OnlyOf, Fresh
<1>2. calls # <<>> => 1 \in 1..Len(calls) /\ Head(calls) = calls[1]
  BY DEF Fresh
<1> QED
  BY <1>1, <1>2 DEF At, Fresh

LEMMA ReturnsKeeps ==
  ASSUME TodoInv, NEW t \in Threads, todo[t] # <<>>, Returns(t)
  PROVE  /\ TodoInv' /\ OnlyOf(t)
         /\ At(t, "slot")' => Current(t).op = "disable"
                              /\ Current(t)'.on = Current(t).on
         /\ At(t, "clock")' => Current(t).op = "slot"
                               /\ Current(t)'.on = Current(t).on
<1> DEFINE s == todo[t]
           r == Tail(todo[t])
<1>1. /\ s \in Seq(Calls) /\ s # <<>> /\ r \in Seq(Calls)
      /\ Len(r) = Len(s) - 1
      /\ \A i \in 1..Len(r) : r[i] = s[i+1]
  BY HeadTailProperties DEF TodoInv
<1>2. todo' = [todo EXCEPT ![t] = r]
  BY DEF Returns, Runs
<1>3. Linked(s) /\ Head(s) = s[1]
  BY <1>1 DEF TodoInv
<1> HIDE DEF s, r
<1>4. Linked(r)
  <2> SUFFICES ASSUME NEW i \in 2..Len(r)
               PROVE  /\ r[i].op = "slot" => r[i-1].op = "disable"
                                             /\ r[i-1].on = r[i].on
                      /\ r[i].op = "clock" => r[i-1].op = "slot"
                                              /\ r[i-1].on = r[i].on
    BY DEF Linked
  <2>1. /\ r[i] = s[i+1] /\ r[i-1] = s[i] /\ i + 1 \in 2..Len(s)
        /\ (i + 1) - 1 = i
    BY <1>1
  <2> QED
    BY <2>1, <1>3 DEF Linked
<1>5. TodoInv' /\ OnlyOf(t) /\ todo'[t] = r
  BY <1>1, <1>2, <1>4 DEF TodoInv, OnlyOf
<1>6. ASSUME r # <<>> PROVE Head(r) = s[2] /\ 2 \in 2..Len(s) /\ 2 - 1 = 1
  BY <1>1, <1>6
<1> QED
  BY <1>3, <1>5, <1>6 DEF At, Current, Linked, s

-----------------------------------------------------------------------------
(* The four kinds of steps, as the threads and the channels see them. *)

NoCall == UNCHANGED <<todo, streamVars>>

NewWork(t) ==
  /\ Idle(t)
  /\ \E calls : Fresh(calls) /\ Runs(t, calls)
  /\ UNCHANGED streamVars

CallDone(t) ==
  /\ todo[t] # <<>> /\ Current(t).op \in NetOps \cup {"post"}
  /\ Returns(t)
  /\ UNCHANGED streamVars

Shape ==
  NoCall \/ \E t \in Threads : NewWork(t) \/ CallDone(t) \/ Reconfigure(t)

LEMMA Transports ==
  trt_count = 2 /\ \A i \in 1..2 : trts[i] \in Bases
  BY DEF trt_count, trts, Bases

LEMMA DispatchShape ==
  ASSUME StateInv, Dispatch
  PROVE  NoCall \/ NewWork("event")
<1> DEFINE e == Head(queue)
<1>1. e \in Posted
  BY HeadTailProperties DEF StateInv, Dispatch
<1>2. e \in Events /\ (e.id = "VOL_DATA_RQ" => e.from \in Bases)
  BY <1>1 DEF Posted
<1> HIDE DEF e
<1>3. UNCHANGED streamVars /\ Idle("event")
  BY DEF Dispatch
<1>4. CASE main_event_cb(e)
  <2>1. CASE e.id = "VOL_DATA_RQ"
    <3>1. Fresh(<<Call("post", e.from, "VOL_DATA"),
                  Call("post", e.from, "VOL_DATA")>>)
      BY <1>2, <2>1, FreshTwoPosts DEF Commands
    <3> QED
      BY <1>3, <1>4, <2>1, <3>1 DEF main_event_cb, NewWork
  <2>2. CASE e.id = "CTL_SWITCH_SVC"
    <3>1. trts[cur_trt] \in Bases /\ trts[NextTransport] \in Bases
      BY Transports DEF StateInv, NextTransport
    <3>2. Fresh(<<Call("post", trts[cur_trt], "SVC_PAUSE"),
                  Call("post", trts[NextTransport], "SVC_START")>>)
      BY <3>1, FreshTwoPosts DEF Commands
    <3> QED
      BY <1>3, <1>4, <2>2, <3>2 DEF main_event_cb, NewWork
  <2> QED
    BY <1>3, <1>4, <2>1, <2>2 DEF main_event_cb, NoCall
<1>5. CASE net_event_cb(e)
  <2>1. \/ Runs("event", StartCalls) \/ Runs("event", PauseCalls)
        \/ UNCHANGED todo
    BY <1>5 DEF net_event_cb
  <2> QED
    BY <1>3, <2>1, FreshStart, FreshPause DEF NewWork, NoCall
<1>6. CASE UNCHANGED todo
  BY <1>3, <1>6 DEF NoCall
<1> QED
  BY <1>4, <1>5, <1>6 DEF Dispatch, bt_stack_event_handler, e

LEMMA PacketShape ==
  ASSUME StateInv, PacketHandler, UNCHANGED streamVars
  PROVE  NoCall \/ NewWork("bt")
<1>1. Idle("bt")
  BY DEF PacketHandler, Packet, SlcEstablished, SlcReleased, AudioReleased,
     AudioEstablished, VolumeReceived, VolumeChanged, SbcConfiguration,
     StreamEstablished, StreamStarted, StreamStopped
<1>2. \A id \in {"VOL_DATA", "VOL_DATA_RQ"} : Fresh(PostApplication(id))
  BY FreshPost DEF PostApplication, Bases, Commands
<1>3. \A cfg \in Formats :
        Fresh(configure_sink(cfg)) /\ Fresh(configure_source(cfg))
  BY FreshConfigure DEF configure_sink, configure_source, Channels
<1>4. \A cfg \in Formats : Fresh(configure_sink(cfg) \o PostApplication("VOL_DATA_RQ"))
  BY <1>2, <1>3, FreshConcat
<1>5. \A cfg \in Formats : Fresh(configure_source(cfg) \o configure_sink(cfg)
                                 \o PostApplication("VOL_DATA_RQ"))
  BY <1>2, <1>3, FreshConcat
<1>6. UNCHANGED todo \/ \E calls : Fresh(calls) /\ Runs("bt", calls)
  <2>1. CASE SlcEstablished \/ StreamEstablished
    BY <1>2, <2>1 DEF SlcEstablished, StreamEstablished
  <2>2. CASE VolumeReceived \/ VolumeChanged
    BY <1>2, <2>2 DEF VolumeReceived, VolumeChanged
  <2>3. CASE SlcReleased \/ StreamStarted \/ StreamStopped
    BY <2>3 DEF SlcReleased, StreamStarted, StreamStopped
  <2>4. CASE SbcConfiguration
    BY <1>3, <2>4 DEF SbcConfiguration, Formats
  <2>5. CASE AudioReleased
    BY <1>4, <2>5 DEF AudioReleased, Formats
  <2>6. CASE \E codec \in Codecs : AudioEstablished(codec)
    BY <1>5, <2>6 DEF AudioEstablished, set_codec, Formats
  <2> QED
    BY <2>1, <2>2, <2>3, <2>4, <2>5, <2>6 DEF PacketHandler
<1> QED
  BY <1>1, <1>6 DEF NewWork, NoCall

LEMMA NextShape ==
  ASSUME StateInv, [Next]_vars
  PROVE  Shape
<1>0. {"event", "bt", "send"} \subseteq Threads
  BY DEF Threads
<1>1. CASE AppMain \/ btn_isr_handler
  BY <1>1 DEF AppMain, SetListener, LoadTransport, PostStart, btn_isr_handler,
     NoCall, Shape
<1>2. CASE EventTask
  <2>1. CASE Dispatch
    BY <1>0, <2>1, DispatchShape DEF Shape
  <2>2. CASE PostFromHandler
    BY <1>0, <2>2 DEF PostFromHandler, At, Current, CallDone, Shape
  <2>3. CASE NetCalls /\ UNCHANGED streamVars
    <3>1. PICK op \in NetOps : NetReturns(op)
      BY <2>3 DEF NetCalls, ConnectReturns, SenderReturns, SwitchReceiver,
         Shutdown, SetState, NetOps
    <3> QED
      BY <1>0, <2>3, <3>1 DEF NetReturns, At, Current, CallDone, Shape
  <2> QED
    BY <1>0, <1>2, <2>1, <2>2, <2>3 DEF EventTask, Shape
<1>3. CASE BtThread
  <2>1. CASE StackReady /\ UNCHANGED streamVars
    BY <2>1 DEF StackReady, NoCall, Shape
  <2>2. CASE PostFromBt
    BY <1>0, <2>2 DEF PostFromBt, At, Current, CallDone, Shape
  <2> QED
    BY <1>0, <1>3, <2>1, <2>2 DEF BtThread, Shape
<1>4. CASE BtPacket
  BY <1>0, <1>4, PacketShape DEF BtPacket, Shape
<1>5. CASE UNCHANGED vars
  BY <1>5 DEF vars, NoCall, Shape
<1>6. CASE NetPacket
  BY <1>6 DEF NetPacket, ReceiveTask, RecvTop, ReceivePacket, StoreState,
     ReconnectRefused, NoCall, Shape
<1> QED
  BY <1>1, <1>2, <1>3, <1>4, <1>5, <1>6 DEF Next

-----------------------------------------------------------------------------
(* Reconfigurations. *)

(* As long as no two threads have met, a thread that is about to set the   *)
(* slot or the clock of a channel finds it disabled.                       *)
ChannelInv ==
  \/ overlapped
  \/ \A t \in Threads : At(t, "slot") \/ At(t, "clock") => Current(t).on \notin enabled

LEMMA TailDiffers ==
  ASSUME NEW s \in Seq(Calls), s # <<>>
  PROVE  Tail(s) # s
<1>1. Len(Tail(s)) = Len(s) - 1
  BY HeadTailProperties
<1>2. Len(s) \in Nat
  OBVIOUS
<1>3. Len(s) - 1 # Len(s)
  BY <1>2
<1> QED
  BY <1>1, <1>3

(* A channel is enabled by t only: whoever else is about to set it has met t. *)
LEMMA EnableAlone ==
  ASSUME TodoInv, NEW t \in Threads, Accesses(t, "enable"), OnlyOf(t), ~overlapped',
         NEW u \in Threads \ {t}, (At(u, "slot") \/ At(u, "clock"))'
  PROVE  ~overlapped /\ Current(u)' = Current(u) /\ Current(u).on # Current(t).on
         /\ (At(u, "slot") \/ At(u, "clock"))
<1>1. ~overlapped /\ ~Meets(t)
  BY DEF Accesses
<1>2. At(u, "slot") \/ At(u, "clock")
  BY DEF OnlyOf, At
<1>3. Current(u)' = Current(u)
  BY DEF OnlyOf, Current
<1>4. /\ todo[u] \in Seq(Calls) /\ 1 \in DOMAIN todo[u]
      /\ Current(u) = todo[u][1] /\ todo[u][1].op \in StreamOps
  BY <1>2 DEF TodoInv, At, Current, StreamOps
<1>5. Current(u).on # Current(t).on
  BY <1>1, <1>4 DEF Meets
<1> QED
  BY <1>1, <1>2, <1>3, <1>5

LEMMA ReconfigureKeeps ==
  ASSUME TodoInv, ChannelInv, NEW t \in Threads, Reconfigure(t)
  PROVE  TodoInv' /\ ChannelInv'
<1>1. PICK op \in {"disable", "slot", "clock", "enable"} : Accesses(t, op)
  BY DEF Reconfigure, Disable, ReconfigSlot, ReconfigClock, Enable
<1>2. overlapped => overlapped'
  BY <1>1 DEF Accesses
<1>3. todo[t] # <<>> /\ Current(t).op = op
  BY <1>1 DEF Accesses, At, Current
<1>4. CASE UNCHANGED todo
  <2>1. UNCHANGED enabled
    <3>1. op \in {"slot", "clock"}
      <4>1. ASSUME Returns(t) PROVE FALSE
        <5>1. todo[t] \in Seq(Calls) /\ todo'[t] = Tail(todo[t])
          BY <4>1 DEF TodoInv, Returns, Runs
        <5> QED
          BY <1>3, <1>4, <5>1, TailDiffers
      <4> QED
        BY <4>1, <1>3 DEF Reconfigure, Disable, ReconfigSlot, ReconfigClock,
           Enable, Accesses, At, Current
    <3> QED
      BY <3>1, <1>3 DEF Reconfigure, Disable, ReconfigSlot, ReconfigClock,
         Enable, Accesses, At, Current
  <2> QED
    BY <1>2, <1>4, <2>1 DEF TodoInv, ChannelInv, At, Current
<1>5. CASE Returns(t)
  <2>1. /\ TodoInv' /\ OnlyOf(t)
        /\ At(t, "slot")' => op = "disable" /\ Current(t)'.on = Current(t).on
        /\ At(t, "clock")' => op = "slot" /\ Current(t)'.on = Current(t).on
    BY <1>3, <1>5, ReturnsKeeps
  <2>2. ASSUME ~overlapped', NEW u \in Threads, (At(u, "slot") \/ At(u, "clock"))'
        PROVE  Current(u)'.on \notin enabled'
    <3>1. CASE u = t /\ op = "disable"
      <4>1. enabled' = enabled \ {Current(t).on}
        BY <1>3, <3>1 DEF Reconfigure, Disable, ReconfigSlot, ReconfigClock,
           Enable, Accesses, At, Current
      <4> QED
        BY <2>1, <2>2, <3>1, <4>1
    <3>2. CASE u = t /\ op # "disable"
      <4>1. op = "slot" /\ enabled' = enabled
        BY <1>3, <2>1, <2>2, <3>2 DEF Reconfigure, Disable, ReconfigSlot,
           ReconfigClock, Enable, Accesses, At, Current
      <4> QED
        BY <1>1, <1>2, <2>1, <2>2, <3>2, <4>1 DEF ChannelInv, Accesses
    <3>3. CASE u # t /\ op = "enable"
      <4>1. enabled' = enabled \cup {Current(t).on}
        BY <1>3, <3>3 DEF Reconfigure, Disable, ReconfigSlot, ReconfigClock,
           Enable, Accesses, At, Current
      <4> QED
        BY <1>1, <2>1, <2>2, <3>3, <4>1, EnableAlone DEF ChannelInv
    <3>4. CASE u # t /\ op # "enable"
      <4>1. enabled' \subseteq enabled
        BY <1>3, <3>4 DEF Reconfigure, Disable, ReconfigSlot, ReconfigClock,
           Enable, Accesses, At, Current
      <4>2. (At(u, "slot") \/ At(u, "clock")) /\ Current(u)' = Current(u)
        BY <2>1, <2>2, <3>4 DEF OnlyOf, At, Current
      <4> QED
        BY <1>2, <2>2, <4>1, <4>2 DEF ChannelInv
    <3> QED
      BY <3>1, <3>2, <3>3, <3>4
  <2> QED
    BY <2>1, <2>2 DEF ChannelInv
<1> QED
  BY <1>4, <1>5 DEF Reconfigure, Disable, ReconfigSlot, ReconfigClock, Enable

LEMMA ShapeKeeps ==
  ASSUME TodoInv, ChannelInv, Shape
  PROVE  TodoInv' /\ ChannelInv'
<1>1. CASE NoCall
  BY <1>1 DEF NoCall, streamVars, TodoInv, ChannelInv, At, Current
<1>2. ASSUME NEW t \in Threads, NewWork(t) PROVE TodoInv' /\ ChannelInv'
  <2>1. TodoInv' /\ OnlyOf(t) /\ ~At(t, "slot")' /\ ~At(t, "clock")'
    BY <1>2, RunsKeeps DEF NewWork
  <2> QED
    BY <1>2, <2>1 DEF NewWork, streamVars, ChannelInv, OnlyOf, At, Current
<1>3. ASSUME NEW t \in Threads, CallDone(t) PROVE TodoInv' /\ ChannelInv'
  <2>1. TodoInv' /\ OnlyOf(t) /\ ~At(t, "slot")' /\ ~At(t, "clock")'
    BY <1>3, ReturnsKeeps DEF CallDone, NetOps
  <2> QED
    BY <1>3, <2>1 DEF CallDone, streamVars, ChannelInv, OnlyOf, At, Current
<1> QED
  BY <1>1, <1>2, <1>3, ReconfigureKeeps DEF Shape

(* The step that fails. *)
LEMMA FailureHasCause ==
  ASSUME ChannelInv, Shape, ~i2s_failed
  PROVE  ReconfigurationFails'
<1>1. CASE i2s_failed' = i2s_failed
  BY <1>1 DEF ReconfigurationFails
<1>2. ASSUME NEW t \in Threads, Reconfigure(t), i2s_failed' # i2s_failed
      PROVE  ReconfigurationFails'
  <2>1. /\ Refused(t) /\ UNCHANGED todo
        /\ overlapped => overlapped'
        /\ At(t, "slot") \/ At(t, "clock")
    BY <1>2 DEF Reconfigure, Disable, ReconfigSlot, ReconfigClock, Enable, Accesses
  <2>2. CASE Current(t).on \in enabled
    BY <2>1, <2>2 DEF ChannelInv, ReconfigurationFails
  <2>3. CASE Current(t).arg = "unset"
    BY <2>1, <2>3 DEF ReconfigurationFails, Current, At
  <2> QED
    BY <2>1, <2>2, <2>3 DEF Refused
<1> QED
  BY <1>1, <1>2 DEF Shape, NoCall, NewWork, CallDone, streamVars

-----------------------------------------------------------------------------
(* Types. *)

LEMMA PostedEvent ==
  ASSUME NEW base \in Bases, NEW id \in Commands, NEW from \in Bases
  PROVE  Event(base, id, from) \in Posted
<1>1. Event(base, id, from) \in Events
  BY DEF Event, Events
<1> QED
  BY <1>1 DEF Posted, Event

LEMMA QueuedKeeps ==
  ASSUME queue \in Seq(Posted), Len(queue) <= QueueSize, NEW e \in Posted,
         PostWaiting(e) \/ UNCHANGED queue
  PROVE  queue' \in Seq(Posted) /\ Len(queue') <= QueueSize
  BY QueueAssumption DEF PostWaiting, Queued, Full

(* A thread that is at a post has an event to post. *)
LEMMA AtPost ==
  ASSUME TodoInv, NEW t \in Threads, At(t, "post")
  PROVE  todo[t] # <<>> /\ Current(t).on \in Bases /\ Current(t).arg \in Commands
<1>1. Current(t) \in Calls /\ Current(t).op = "post" /\ todo[t] # <<>>
  BY HeadTailProperties DEF TodoInv, At, Current
<1>2. Current(t) \in PostCalls
  BY <1>1 DEF Calls, ConfigCalls, PostCalls, NetworkCalls, NetOps
<1> QED
  BY <1>1, <1>2 DEF PostCalls

LEMMA ReconfigureTypes ==
  ASSUME TodoInv, StateInv, NEW t \in Threads, Reconfigure(t)
  PROVE  enabled' \subseteq Channels
         /\ sink_cfg' \in {"net", "a2dp"} \cup Codecs
<1>1. PICK op \in {"disable", "slot", "clock", "enable"} : At(t, op)
  BY DEF Reconfigure, Disable, ReconfigSlot, ReconfigClock, Enable, Accesses
<1>2. Current(t) \in Calls /\ Current(t).op = op
  BY <1>1, HeadTailProperties DEF TodoInv, At, Current
<1>3. Current(t) \in ConfigCalls
  BY <1>2 DEF Calls, ConfigCalls, PostCalls, NetworkCalls, NetOps
<1>4. Current(t).on \in Channels /\ Current(t).arg \in Formats
  BY <1>3 DEF ConfigCalls
<1>5. enabled' \subseteq Channels
  BY <1>4 DEF Reconfigure, Disable, ReconfigSlot, ReconfigClock, Enable, StateInv
<1>6. \/ sink_cfg' = sink_cfg
      \/ sink_cfg' = Current(t).arg /\ Current(t).arg # "unset"
  BY DEF Reconfigure, Disable, ReconfigSlot, ReconfigClock, Enable, Refused
<1> QED
  BY <1>4, <1>5, <1>6 DEF StateInv, Formats

LEMMA PacketTypes ==
  ASSUME StateInv, PacketHandler
  PROVE  /\ codec_current' \in Codecs \cup {"null"}
         /\ decoder' \in {"null", "music", "call"}
         /\ stream' \in {"none", "configured", "open", "started"}
         /\ {acl_handle', sco_handle'} \subseteq 0..1
<1> USE DEF StateInv, callVars, musicVars, HCI_CON_HANDLE_INVALID
<1>1. CASE SlcEstablished \/ SlcReleased
  BY <1>1 DEF SlcEstablished, SlcReleased
<1>2. CASE AudioReleased
  BY <1>2 DEF AudioReleased
<1>3. CASE \E codec \in Codecs : AudioEstablished(codec)
  BY <1>3 DEF AudioEstablished, set_codec, init
<1>4. CASE VolumeReceived \/ VolumeChanged
  BY <1>4 DEF VolumeReceived, VolumeChanged
<1>5. CASE SbcConfiguration \/ StreamEstablished \/ StreamStarted \/ StreamStopped
  BY <1>5 DEF SbcConfiguration, StreamEstablished, StreamStarted, StreamStopped
<1> QED
  BY <1>1, <1>2, <1>3, <1>4, <1>5 DEF PacketHandler

LEMMA DispatchTypes ==
  ASSUME StateInv, Dispatch
  PROVE  StateInv'
<1>1. queue # <<>> /\ queue' = Tail(queue)
  BY DEF Dispatch
<1>2. queue' \in Seq(Posted) /\ Len(queue') = Len(queue) - 1 /\ Len(queue) \in Nat
  BY <1>1, HeadTailProperties DEF StateInv
<1>3. queue' \in Seq(Posted) /\ Len(queue') <= QueueSize
  BY <1>2, QueueAssumption DEF StateInv
<1>4. cur_trt' = cur_trt \/ cur_trt' = NextTransport
  BY DEF Dispatch, main_event_cb
<1>5. cur_trt' \in 1..trt_count
  BY <1>4, Transports DEF StateInv, NextTransport
<1>6. UNCHANGED <<streamVars, app_main, presses, callVars, musicVars, acl_handle,
                  net_state, recv>>
  BY DEF Dispatch, btVars, bt_stack_event_handler, recvVars
<1>7. wifi' = wifi \/ wifi' = "trying"
  BY DEF Dispatch, net_event_cb
<1> QED
  BY <1>3, <1>5, <1>6, <1>7 DEF StateInv, streamVars, callVars, musicVars, Phases

LEMMA StateStep ==
  ASSUME TodoInv, StateInv, [Next]_vars
  PROVE  StateInv'
<1> USE DEF streamVars, bridgeVars, btVars, callVars, musicVars, mainVars, netVars,
        recvVars
<1>0. {"event", "bt", "send"} \subseteq Threads
  BY DEF Threads
<1>1. CASE SetListener \/ LoadTransport
  BY <1>1, Transports DEF SetListener, LoadTransport, StateInv
<1>2. CASE PostStart
  <2>1. Event(app_main, "SVC_START", "APPLICATION") \in Posted
    BY <1>2, PostedEvent DEF PostStart, Bases, Commands
  <2>2. PostWaiting(Event(app_main, "SVC_START", "APPLICATION"))
    BY <1>2 DEF PostStart
  <2>3. queue' \in Seq(Posted) /\ Len(queue') <= QueueSize
    BY <2>1, <2>2, QueuedKeeps DEF StateInv
  <2> QED
    BY <1>2, <2>3 DEF PostStart, StateInv
<1>3. CASE btn_isr_handler
  <2> DEFINE e == Event("APPLICATION", "CTL_SWITCH_SVC", "CTL_PERIPH")
  <2>1. e \in Events
    BY DEF Event, Events, Bases, Commands
  <2>2. e \in Posted
    BY <2>1 DEF Posted, Event
  <2>3. PostWaiting(e) \/ UNCHANGED queue
    BY <1>3 DEF btn_isr_handler, post_isr
  <2>4. presses' \in 0..MaxPresses
    BY <1>3, DeviceAssumption DEF btn_isr_handler, StateInv
  <2> HIDE DEF e
  <2>5. queue' \in Seq(Posted) /\ Len(queue') <= QueueSize
    BY <2>2, <2>3, QueuedKeeps DEF StateInv
  <2> QED
    BY <1>3, <2>4, <2>5 DEF btn_isr_handler, StateInv
<1>4. CASE Dispatch
  BY <1>4, DispatchTypes
<1>5. CASE PostFromHandler
  <2> DEFINE e == Event(Current("event").on, Current("event").arg, "APPLICATION")
  <2>1. e \in Posted
    BY <1>0, <1>5, AtPost, PostedEvent DEF PostFromHandler, Bases
  <2>2. PostWaiting(e) \/ UNCHANGED queue
    BY <1>5 DEF PostFromHandler, PostOwn
  <2> HIDE DEF e
  <2>3. queue' \in Seq(Posted) /\ Len(queue') <= QueueSize
    BY <2>1, <2>2, QueuedKeeps DEF StateInv
  <2> QED
    BY <1>5, <2>3 DEF PostFromHandler, StateInv
<1>6. CASE NetCalls /\ UNCHANGED <<streamVars, bridgeVars, btVars, mainVars>>
  <2>1. net_state' \in NetStates /\ wifi' \in Phases /\ recv' = recv
    BY <1>6 DEF NetCalls, ConnectReturns, SenderReturns, SwitchReceiver,
       Shutdown, SetState, StateInv, NetStates, Phases
  <2> QED
    BY <1>6, <2>1 DEF StateInv
<1>11. CASE NetPacket
  <2>1. net_state' \in NetStates /\ wifi' \in Phases /\ recv' \in RecvPCs
    BY <1>11 DEF NetPacket, ReceiveTask, RecvTop, ReceivePacket, StoreState,
       ReconnectRefused, StateInv, NetStates, Phases, RecvPCs
  <2> QED
    BY <1>11, <2>1 DEF NetPacket, StateInv
<1>12. CASE UNCHANGED vars
  BY <1>12 DEF vars, StateInv
<1>7. CASE \E t \in {"event", "bt"} :
             Reconfigure(t) /\ UNCHANGED <<bridgeVars, btVars, netVars, mainVars>>
  BY <1>0, <1>7, ReconfigureTypes DEF StateInv
<1>8. CASE StackReady /\ UNCHANGED <<streamVars, bridgeVars, netVars, mainVars>>
  BY <1>8 DEF StackReady, StateInv
<1>9. CASE PostFromBt
  <2> DEFINE e == Event(Current("bt").on, Current("bt").arg, "BT_TRANSPORT")
  <2>1. e \in Posted
    BY <1>0, <1>9, AtPost, PostedEvent DEF PostFromBt, Bases
  <2>2. PostWaiting(e)
    BY <1>9 DEF PostFromBt
  <2> HIDE DEF e
  <2>3. queue' \in Seq(Posted) /\ Len(queue') <= QueueSize
    BY <2>1, <2>2, QueuedKeeps DEF StateInv
  <2> QED
    BY <1>9, <2>3 DEF PostFromBt, StateInv
<1>10. CASE BtPacket
  BY <1>10, PacketTypes DEF BtPacket, StateInv
<1> QED
  BY <1>1, <1>2, <1>3, <1>4, <1>5, <1>6, <1>7, <1>8, <1>9, <1>10, <1>11, <1>12
  DEF Next, AppMain, EventTask, BtThread

LEMMA FlagStep ==
  ASSUME FlagInv, [Next]_vars
  PROVE  FlagInv'
<1> USE DEF streamVars, bridgeVars, btVars, callVars, musicVars, mainVars, netVars,
        recvVars
<1>1. CASE SetListener \/ LoadTransport \/ UNCHANGED vars
  BY <1>1 DEF SetListener, LoadTransport, vars, FlagInv
<1>8. CASE NetCalls /\ UNCHANGED <<streamVars, bridgeVars, btVars, mainVars>>
  <2>1. recv_on' \in BOOLEAN /\ revived' = revived
    BY <1>8 DEF NetCalls, ConnectReturns, SenderReturns, SwitchReceiver,
       Shutdown, SetState, FlagInv
  <2> QED
    BY <1>8, <2>1 DEF FlagInv
<1>9. CASE NetPacket
  <2>1. (revived \/ (net_state = "CL_UNINIT" /\ wifi = "off")) \in BOOLEAN
    OBVIOUS
  <2>2. revived' \in BOOLEAN /\ recv_on' = recv_on
    BY <1>9, <2>1 DEF NetPacket, ReceiveTask, RecvTop, ReceivePacket, StoreState,
       ReconnectRefused, FlagInv
  <2> QED
    BY <1>9, <2>2 DEF NetPacket, FlagInv
<1>2. CASE PostStart \/ btn_isr_handler \/ PostFromBt
  BY <1>2 DEF PostStart, btn_isr_handler, post_isr, PostFromBt, PostWaiting, FlagInv
<1>3. CASE PostFromHandler
  <2> DEFINE e == Event(Current("event").on, Current("event").arg, "APPLICATION")
  <2>1. (lost \/ e.id \in {"SVC_START", "SVC_PAUSE"}) \in BOOLEAN
    OBVIOUS
  <2>2. UNCHANGED lost \/ lost' = (lost \/ e.id \in {"SVC_START", "SVC_PAUSE"})
    BY <1>3 DEF PostFromHandler, PostOwn, PostWaiting
  <2>3. lost' \in BOOLEAN
    BY <2>1, <2>2 DEF FlagInv
  <2> QED
    BY <1>3, <2>3 DEF PostFromHandler, FlagInv
<1>4. CASE Dispatch
  <2> DEFINE e == Head(queue)
  <2>1. (early \/ ~ProgramUp) \in BOOLEAN
    OBVIOUS
  <2>2. early' \in BOOLEAN
    <3>1. UNCHANGED early \/ early' = (early \/ ~ProgramUp)
      BY <1>4 DEF Dispatch, main_event_cb
    <3> QED
      BY <2>1, <3>1 DEF FlagInv
  <2>3. power' \in BOOLEAN
    <3>1. \/ UNCHANGED power
          \/ power' = CASE e.id = "SVC_START" -> TRUE
                        [] e.id = "SVC_PAUSE" -> FALSE
                        [] OTHER -> power
      BY <1>4 DEF Dispatch, bt_stack_event_handler
    <3> QED
      BY <3>1 DEF FlagInv
  <2>4. UNCHANGED <<i2s_failed, overlapped, lost, stack_ready, sbc_configured,
                    recv_on, revived>>
    BY <1>4 DEF Dispatch, bt_stack_event_handler
  <2> QED
    BY <2>2, <2>3, <2>4 DEF FlagInv
<1>5. CASE \E t \in {"event", "bt"} :
             Reconfigure(t) /\ UNCHANGED <<bridgeVars, btVars, netVars, mainVars>>
  <2>1. PICK t : Reconfigure(t)
    BY <1>5
  <2>2. (overlapped \/ Meets(t)) \in BOOLEAN
    OBVIOUS
  <2>3. overlapped' \in BOOLEAN
    BY <2>1, <2>2 DEF Reconfigure, Disable, ReconfigSlot, ReconfigClock, Enable,
       Accesses
  <2>4. i2s_failed' = TRUE \/ i2s_failed' = i2s_failed
    BY <2>1 DEF Reconfigure, Disable, ReconfigSlot, ReconfigClock, Enable
  <2> QED
    BY <1>5, <2>3, <2>4 DEF FlagInv
<1>6. CASE StackReady /\ UNCHANGED <<streamVars, bridgeVars, netVars, mainVars>>
  BY <1>6 DEF StackReady, FlagInv
<1>7. CASE BtPacket
  <2>1. sbc_configured' = TRUE \/ sbc_configured' = sbc_configured
    BY <1>7 DEF BtPacket, PacketHandler, SlcEstablished, SlcReleased,
       AudioReleased, AudioEstablished, VolumeReceived, VolumeChanged,
       SbcConfiguration, StreamEstablished, StreamStarted, StreamStopped
  <2>2. UNCHANGED <<power, stack_ready>>
    BY <1>7 DEF BtPacket, PacketHandler, Packet, SlcEstablished, SlcReleased,
       AudioReleased, AudioEstablished, VolumeReceived, VolumeChanged,
       SbcConfiguration, StreamEstablished, StreamStarted, StreamStopped
  <2> QED
    BY <1>7, <2>1, <2>2 DEF BtPacket, FlagInv
<1> QED
  BY <1>1, <1>2, <1>3, <1>4, <1>5, <1>6, <1>7, <1>8, <1>9
  DEF Next, AppMain, EventTask, BtThread

-----------------------------------------------------------------------------
(* The call and the music. *)

(* With a phone that suspends its music no call and no music play at once, *)
(* which is why they may share the decoder's context.                      *)
CallInv ==
  /\ CodecServesCall
  /\ ~(InCall /\ stream = "started")

LEMMA CallStep ==
  ASSUME CallsSuspendMusic, CallInv, [Next]_vars
  PROVE  CallInv'
<1> USE DEF CallInv, CodecServesCall, InCall, HCI_CON_HANDLE_INVALID
<1>1. CASE UNCHANGED <<callVars, musicVars>>
  BY <1>1 DEF callVars, musicVars
<1>2. CASE BtPacket
  <2>1. CASE \E codec \in Codecs : AudioEstablished(codec)
    <3>1. "null" \notin Codecs
      BY BtAssumption
    <3> QED
      BY <2>1, <3>1 DEF AudioEstablished, set_codec, init
  <2>2. CASE AudioReleased
    BY <2>2 DEF AudioReleased, musicVars
  <2>3. CASE SlcEstablished \/ SlcReleased \/ VolumeReceived \/ VolumeChanged
    BY <2>3 DEF SlcEstablished, SlcReleased, VolumeReceived, VolumeChanged,
       callVars, musicVars
  <2>4. CASE SbcConfiguration \/ StreamEstablished
    BY <2>4 DEF SbcConfiguration, StreamEstablished, callVars
  <2>5. CASE StreamStarted \/ StreamStopped
    BY <2>5 DEF StreamStarted, StreamStopped, callVars
  <2> QED
    BY <1>2, <2>1, <2>2, <2>3, <2>4, <2>5 DEF BtPacket, PacketHandler
<1>3. [Next]_vars => UNCHANGED <<callVars, musicVars>> \/ BtPacket
  BY DEF Next, AppMain, SetListener, LoadTransport, PostStart, btn_isr_handler,
     EventTask, Dispatch, bt_stack_event_handler, PostFromHandler, BtThread,
     StackReady, PostFromBt, NetPacket, btVars, vars
<1> QED
  BY <1>1, <1>2, <1>3

-----------------------------------------------------------------------------
(* The sink. *)

SinkSet(c) == c.op = "clock" /\ c.on = "tx"

(* Between calls the Bluetooth thread only gives the sink the format of    *)
(* the music, and has it still to do when the sink has another one; the    *)
(* event task only gives it that of the network.                           *)
SinkInv ==
  /\ \A i \in 1..Len(todo["event"]) :
       SinkSet(todo["event"][i]) => todo["event"][i].arg = "net"
  /\ ~InCall => \A i \in 1..Len(todo["bt"]) :
       SinkSet(todo["bt"][i]) => todo["bt"][i].arg \in {"a2dp", "unset"}
  /\ ~InCall /\ sbc_configured =>
       \/ sink_cfg \in {"a2dp", "net"}
       \/ \E i \in 1..Len(todo["bt"]) :
            SinkSet(todo["bt"][i]) /\ todo["bt"][i].arg = "a2dp"

(* A call that is not one of them returns. *)
LEMMA TailOf ==
  ASSUME TodoInv, NEW t \in Threads, todo[t] # <<>>, Returns(t)
  PROVE  /\ OnlyOf(t)
         /\ todo[t] \in Seq(Calls) /\ todo'[t] \in Seq(Calls)
         /\ Len(todo'[t]) = Len(todo[t]) - 1
         /\ \A i \in 1..Len(todo'[t]) : todo'[t][i] = todo[t][i+1]
  BY HeadTailProperties DEF TodoInv, Returns, Runs, OnlyOf

LEMMA ReturnKeepsSink ==
  ASSUME TodoInv, SinkInv, NEW t \in {"event", "bt"}, todo[t] # <<>>, Returns(t),
         UNCHANGED <<sco_handle, sbc_configured>>,
         \/ sink_cfg' = sink_cfg /\ (t = "bt" => ~SinkSet(Current(t)))
         \/ SinkSet(Current(t)) /\ Current(t).arg # "unset"
            /\ sink_cfg' = Current(t).arg
  PROVE  SinkInv'
<1> DEFINE s == todo[t]
           r == todo'[t]
<1>0. t \in Threads /\ {"event", "bt"} \subseteq Threads
  BY DEF Threads
<1>1. /\ OnlyOf(t) /\ s \in Seq(Calls) /\ r \in Seq(Calls)
      /\ Len(r) = Len(s) - 1
      /\ \A i \in 1..Len(r) : r[i] = s[i+1] /\ i + 1 \in 1..Len(s)
  BY <1>0, TailOf
<1>2. Current(t) = s[1] /\ 1 \in 1..Len(s)
  BY <1>1 DEF Current
<1>3. InCall' = InCall
  BY DEF InCall
<1>4. CASE t = "event"
  <2>1. todo'["bt"] = todo["bt"]
    BY <1>0, <1>1, <1>4 DEF OnlyOf
  <2>2. sink_cfg' \in {sink_cfg, "net"}
    BY <1>2, <1>4 DEF SinkInv
  <2>3. \A i \in 1..Len(r) : SinkSet(r[i]) => r[i].arg = "net"
    BY <1>1, <1>4 DEF SinkInv
  <2> QED
    BY <1>3, <1>4, <2>1, <2>2, <2>3 DEF SinkInv
<1>5. CASE t = "bt"
  <2>1. todo'["event"] = todo["event"]
    BY <1>0, <1>1, <1>5 DEF OnlyOf
  <2>2. ASSUME ~InCall
        PROVE  \A i \in 1..Len(r) : SinkSet(r[i]) => r[i].arg \in {"a2dp", "unset"}
    BY <1>1, <1>5, <2>2 DEF SinkInv
  <2>3. ASSUME ~InCall, sbc_configured
        PROVE  \/ sink_cfg' \in {"a2dp", "net"}
               \/ \E i \in 1..Len(r) : SinkSet(r[i]) /\ r[i].arg = "a2dp"
    <3>1. CASE SinkSet(Current(t)) /\ Current(t).arg # "unset"
               /\ sink_cfg' = Current(t).arg
      BY <1>2, <1>5, <2>3, <3>1 DEF SinkInv
    <3>2. CASE sink_cfg' = sink_cfg /\ ~SinkSet(Current(t))
      <4>1. CASE sink_cfg \in {"a2dp", "net"}
        BY <3>2, <4>1
      <4>2. CASE sink_cfg \notin {"a2dp", "net"}
        <5>1. PICK i \in 1..Len(s) : SinkSet(s[i]) /\ s[i].arg = "a2dp"
          BY <1>5, <2>3, <4>2 DEF SinkInv
        <5>2. i # 1
          BY <1>2, <3>2, <5>1
        <5>3. i - 1 \in 1..Len(r) /\ (i - 1) + 1 = i
          BY <1>1, <5>1, <5>2
        <5>4. r[i-1] = s[i]
          BY <1>1, <5>3
        <5> QED
          BY <5>1, <5>3, <5>4
      <4> QED
        BY <4>1, <4>2
    <3> QED
      BY <1>5, <3>1, <3>2
  <2> QED
    BY <1>3, <1>5, <2>1, <2>2, <2>3 DEF SinkInv
<1> QED
  BY <1>4, <1>5

(* What a list of calls makes of the sink. *)
OnlySets(calls, A) ==
  calls \in Seq(Calls)
  /\ \A i \in 1..Len(calls) : SinkSet(calls[i]) => calls[i].arg \in A

LEMMA OnlySetsConcat ==
  ASSUME NEW A, NEW s1, NEW s2, OnlySets(s1, A), OnlySets(s2, A)
  PROVE  OnlySets(s1 \o s2, A)
<1> DEFINE s == s1 \o s2
<1>1. /\ s1 \in Seq(Calls) /\ s2 \in Seq(Calls) /\ s \in Seq(Calls)
      /\ Len(s) = Len(s1) + Len(s2)
      /\ \A i \in 1..Len(s1) + Len(s2) :
           s[i] = IF i <= Len(s1) THEN s1[i] ELSE s2[i - Len(s1)]
  BY ConcatProperties DEF OnlySets
<1> HIDE DEF s
<1>2. ASSUME NEW i \in 1..Len(s), SinkSet(s[i]) PROVE s[i].arg \in A
  <2>1. CASE i <= Len(s1)
    <3>1. s[i] = s1[i] /\ i \in 1..Len(s1)
      BY <1>1, <2>1
    <3> QED
      BY <1>2, <3>1 DEF OnlySets
  <2>2. CASE ~(i <= Len(s1))
    <3> DEFINE j == i - Len(s1)
    <3>1. s[i] = s2[j] /\ j \in 1..Len(s2)
      BY <1>1, <2>2
    <3> HIDE DEF j
    <3> QED
      BY <1>2, <3>1 DEF OnlySets
  <2> QED
    BY <2>1, <2>2
<1> QED
  BY <1>1, <1>2 DEF OnlySets, s

LEMMA ConfigureSets ==
  ASSUME NEW cfg \in Formats
  PROVE  /\ OnlySets(configure_sink(cfg), {cfg})
         /\ OnlySets(configure_source(cfg), {})
         /\ Len(configure_sink(cfg)) = 4
         /\ SinkSet(configure_sink(cfg)[3]) /\ configure_sink(cfg)[3].arg = cfg
<1>1. configure_sink(cfg) \in Seq(Calls) /\ configure_source(cfg) \in Seq(Calls)
  BY FreshConfigure DEF configure_sink, configure_source, Channels, Fresh
<1>2. /\ Len(configure_sink(cfg)) = 4 /\ Len(configure_source(cfg)) = 4
      /\ SinkSet(configure_sink(cfg)[3]) /\ configure_sink(cfg)[3].arg = cfg
  BY DEF configure_sink, configure_source, Configure, SinkSet, Call
<1>3. \A i \in 1..4 : configure_sink(cfg)[i].arg = cfg
                     /\ ~SinkSet(configure_source(cfg)[i])
  BY DEF configure_sink, configure_source, Configure, SinkSet, Call
<1> QED
  BY <1>1, <1>2, <1>3 DEF OnlySets

LEMMA OtherSets ==
  ASSUME NEW c \in Calls, c.op # "clock"
  PROVE  OnlySets(<<c>>, {})
  BY DEF OnlySets, SinkSet

LEMMA OnlySetsMore ==
  ASSUME NEW A, NEW B, A \subseteq B, NEW s, OnlySets(s, A)
  PROVE  OnlySets(s, B)
  BY DEF OnlySets

LEMMA PostSets ==
  ASSUME NEW base \in Bases, NEW id \in Commands
  PROVE  OnlySets(<<Call("post", base, id)>>, {})
<1>1. Call("post", base, id) \in Calls /\ Call("post", base, id).op # "clock"
  BY FreshPost DEF Call
<1> QED
  BY <1>1, OtherSets

LEMMA NetSets ==
  ASSUME NEW s \in NetLists
  PROVE  OnlySets(s, {"net"})
  BY DEF NetLists, NetOps, OnlySets, SinkSet

LEMMA StartSets == OnlySets(StartCalls, {"net"})
<1> DEFINE a == <<NetCall("connect")>>
           sink == configure_sink("net")
           source == configure_source("net")
           b == <<NetCall("receiver_start"), NetCall("set_endpoint"),
                  NetCall("set_requesting"), NetCall("set_cmd")>>
           Ok(s) == OnlySets(s, {"net"})
<1>1. Ok(a) /\ Ok(b)
  BY WrittenLists, NetSets
<1>2. Ok(sink) /\ Ok(source)
  BY ConfigureSets, OnlySetsMore DEF Formats
<1>3. StartCalls = a \o sink \o source \o b
  BY DEF StartCalls
<1> HIDE DEF a, sink, source, b
<1> QED
  BY <1>1, <1>2, <1>3, OnlySetsConcat

LEMMA PauseSets == OnlySets(PauseCalls, {"net"})
<1> DEFINE a == <<NetCall("set_noconn"), NetCall("set_cmd")>>
           b == <<NetCall("reset"), NetCall("shutdown"), NetCall("set_uninit")>>
           Ok(s) == OnlySets(s, {"net"})
<1>1. Ok(a) /\ Ok(b) /\ Ok(<<>>)
  BY WrittenLists, NetSets
<1>2. PauseCalls = a \o b \/ PauseCalls = <<>> \o b
  BY DEF PauseCalls
<1> HIDE DEF a, b
<1> QED
  BY <1>1, <1>2, OnlySetsConcat

(* The calls of the event task. *)
LEMMA EventSets ==
  ASSUME StateInv, Dispatch
  PROVE  UNCHANGED todo \/ \E calls : OnlySets(calls, {"net"}) /\ Runs("event", calls)
<1> DEFINE e == Head(queue)
<1>1. e \in Posted
  BY HeadTailProperties DEF StateInv, Dispatch
<1>2. e.id = "VOL_DATA_RQ" => e.from \in Bases
  BY <1>1 DEF Posted
<1>3. trts[cur_trt] \in Bases /\ trts[NextTransport] \in Bases
  BY Transports DEF StateInv, NextTransport
<1>4. OnlySets(StartCalls, {"net"}) /\ OnlySets(PauseCalls, {"net"})
  BY StartSets, PauseSets
<1>5. \A b1, b2 \in Bases : \A i1, i2 \in Commands :
        OnlySets(<<Call("post", b1, i1), Call("post", b2, i2)>>, {"net"})
  <2> TAKE b1, b2 \in Bases
  <2> TAKE i1, i2 \in Commands
  <2>1. Call("post", b1, i1) \in Calls /\ Call("post", b2, i2) \in Calls
    BY FreshPost
  <2>2. ~SinkSet(Call("post", b1, i1)) /\ ~SinkSet(Call("post", b2, i2))
    BY DEF Call, SinkSet
  <2> QED
    BY <2>1, <2>2 DEF OnlySets
<1> HIDE DEF e
<1>6. CASE main_event_cb(e)
  BY <1>2, <1>3, <1>5, <1>6 DEF main_event_cb, Commands
<1>7. CASE net_event_cb(e)
  BY <1>4, <1>7 DEF net_event_cb
<1> QED
  BY <1>6, <1>7 DEF Dispatch, bt_stack_event_handler, e

(* The Bluetooth thread is given work. *)
LEMMA BtRuns ==
  ASSUME TodoInv, SinkInv, NEW calls, Runs("bt", calls),
         InCall' \/ OnlySets(calls, {"a2dp", "unset"}),
         ~InCall' /\ sbc_configured' =>
           \/ sink_cfg' \in {"a2dp", "net"}
           \/ \E i \in 1..Len(calls) : SinkSet(calls[i]) /\ calls[i].arg = "a2dp"
  PROVE  SinkInv'
<1>1. todo'["bt"] = calls /\ todo'["event"] = todo["event"]
  BY DEF TodoInv, Runs, Threads
<1> QED
  BY <1>1 DEF SinkInv, OnlySets

LEMMA PacketSink ==
  ASSUME TodoInv, SinkInv, PacketHandler, UNCHANGED streamVars
  PROVE  SinkInv'
<1> USE DEF InCall, HCI_CON_HANDLE_INVALID, streamVars, callVars, musicVars
<1>0. Idle("bt")
  BY DEF PacketHandler, Packet, SlcEstablished, SlcReleased, AudioReleased,
     AudioEstablished, VolumeReceived, VolumeChanged, SbcConfiguration,
     StreamEstablished, StreamStarted, StreamStopped
<1>1. ~InCall /\ sbc_configured => sink_cfg \in {"a2dp", "net"}
  BY <1>0 DEF Idle, SinkInv
<1>2. \A id \in {"VOL_DATA", "VOL_DATA_RQ"} :
        OnlySets(PostApplication(id), {"a2dp", "unset"})
  BY PostSets, OnlySetsMore DEF PostApplication, Bases, Commands
<1>3. CASE SlcReleased \/ StreamStarted \/ StreamStopped
  BY <1>3 DEF SlcReleased, StreamStarted, StreamStopped, SinkInv
<1>4. CASE SlcEstablished \/ VolumeReceived \/ VolumeChanged \/ StreamEstablished
  <2>1. PICK id \in {"VOL_DATA", "VOL_DATA_RQ"} : Runs("bt", PostApplication(id))
    BY <1>4 DEF SlcEstablished, VolumeReceived, VolumeChanged, StreamEstablished
  <2>2. UNCHANGED <<sco_handle, sbc_configured, sink_cfg>>
    BY <1>4 DEF SlcEstablished, VolumeReceived, VolumeChanged, StreamEstablished
  <2> QED
    BY <1>1, <1>2, <2>1, <2>2, BtRuns
<1>5. CASE SbcConfiguration
  <2>1. Runs("bt", configure_sink("a2dp"))
    BY <1>5 DEF SbcConfiguration
  <2>2. /\ OnlySets(configure_sink("a2dp"), {"a2dp", "unset"})
        /\ 3 \in 1..Len(configure_sink("a2dp"))
        /\ SinkSet(configure_sink("a2dp")[3]) /\ configure_sink("a2dp")[3].arg = "a2dp"
    <3>1. "a2dp" \in Formats /\ {"a2dp"} \subseteq {"a2dp", "unset"}
      BY DEF Formats
    <3>2. OnlySets(configure_sink("a2dp"), {"a2dp", "unset"})
      BY <3>1, ConfigureSets, OnlySetsMore
    <3>3. /\ Len(configure_sink("a2dp")) = 4
          /\ SinkSet(configure_sink("a2dp")[3])
          /\ configure_sink("a2dp")[3].arg = "a2dp"
      BY <3>1, ConfigureSets
    <3> QED
      BY <3>2, <3>3
  <2> QED
    BY <2>1, <2>2, BtRuns
<1>6. CASE AudioReleased
  <2> DEFINE cfg == IF sbc_configured THEN "a2dp" ELSE "unset"
             post == PostApplication("VOL_DATA_RQ")
             calls == configure_sink(cfg) \o post
  <2>1. Runs("bt", calls) /\ sbc_configured' = sbc_configured
    BY <1>6 DEF AudioReleased
  <2>2. cfg \in Formats /\ {cfg} \subseteq {"a2dp", "unset"}
    BY DEF Formats
  <2>3. /\ OnlySets(configure_sink(cfg), {"a2dp", "unset"})
        /\ OnlySets(post, {"a2dp", "unset"})
    BY <1>2, <2>2, ConfigureSets, OnlySetsMore
  <2>4. OnlySets(calls, {"a2dp", "unset"})
    BY <2>3, OnlySetsConcat
  <2>5. /\ Len(configure_sink(cfg)) = 4 /\ SinkSet(configure_sink(cfg)[3])
        /\ configure_sink(cfg)[3].arg = cfg
    BY <2>2, ConfigureSets
  <2>6. configure_sink(cfg) \in Seq(Calls) /\ post \in Seq(Calls)
    BY <2>3 DEF OnlySets
  <2>7. 3 \in 1..Len(calls) /\ calls[3] = configure_sink(cfg)[3]
    <3> DEFINE sink == configure_sink(cfg)
    <3>1. sink \in Seq(Calls) /\ Len(sink) = 4 /\ Len(post) \in Nat
      BY <2>5, <2>6
    <3> HIDE DEF sink, post
    <3>2. /\ Len(sink \o post) = Len(sink) + Len(post)
          /\ \A i \in 1..Len(sink) + Len(post) :
               (sink \o post)[i] = IF i <= Len(sink) THEN sink[i]
                                   ELSE post[i - Len(sink)]
      BY <2>6, <3>1, ConcatProperties
    <3>3. 3 \in 1..Len(sink \o post) /\ (sink \o post)[3] = sink[3]
      BY <3>1, <3>2
    <3> QED
      BY <3>3 DEF sink
  <2>8. sbc_configured => cfg = "a2dp"
    OBVIOUS
  <2> HIDE DEF calls, cfg
  <2> QED
    BY <2>1, <2>4, <2>5, <2>7, <2>8, BtRuns
<1>7. CASE \E codec \in Codecs : AudioEstablished(codec)
  <2>1. PICK calls : Runs("bt", calls)
    BY <1>7 DEF AudioEstablished, set_codec
  <2>2. InCall'
    BY <1>7 DEF AudioEstablished
  <2> QED
    BY <2>1, <2>2, BtRuns
<1> QED
  BY <1>3, <1>4, <1>5, <1>6, <1>7 DEF PacketHandler

LEMMA ReconfigureSink ==
  ASSUME TodoInv, SinkInv, NEW t \in {"event", "bt"}, Reconfigure(t),
         UNCHANGED btVars
  PROVE  SinkInv'
<1> USE DEF btVars, callVars, musicVars
<1>1. PICK op \in {"disable", "slot", "clock", "enable"} : At(t, op)
  BY DEF Reconfigure, Disable, ReconfigSlot, ReconfigClock, Enable, Accesses
<1>2. CASE UNCHANGED <<todo, sink_cfg>>
  BY <1>2 DEF SinkInv, InCall
<1>3. CASE Returns(t) /\ sink_cfg' = sink_cfg /\ ~SinkSet(Current(t))
  BY <1>1, <1>3, ReturnKeepsSink DEF At
<1>4. CASE Returns(t) /\ SinkSet(Current(t)) /\ Current(t).arg # "unset"
           /\ sink_cfg' = Current(t).arg
  BY <1>1, <1>4, ReturnKeepsSink DEF At
<1>5. CASE Disable(t) \/ ReconfigSlot(t) \/ Enable(t)
  BY <1>2, <1>3, <1>5
  DEF Disable, ReconfigSlot, Enable, Accesses, At, Current, SinkSet
<1>6. CASE ReconfigClock(t)
  BY <1>2, <1>3, <1>4, <1>6
  DEF ReconfigClock, Refused, Accesses, At, Current, SinkSet
<1> QED
  BY <1>5, <1>6 DEF Reconfigure

LEMMA SinkStep ==
  ASSUME TodoInv, StateInv, SinkInv, [Next]_vars
  PROVE  SinkInv'
<1> USE DEF streamVars, bridgeVars, btVars, callVars, musicVars, mainVars, netVars,
        recvVars
<1>1. CASE AppMain \/ btn_isr_handler
           \/ (StackReady /\ UNCHANGED streamVars) \/ NetPacket \/ UNCHANGED vars
  <2>1. UNCHANGED <<todo, sco_handle, sbc_configured, sink_cfg>>
    BY <1>1 DEF AppMain, SetListener, LoadTransport, PostStart, btn_isr_handler,
       StackReady, NetPacket, ReceiveTask, RecvTop, ReceivePacket, StoreState,
       ReconnectRefused, vars
  <2> QED
    BY <2>1 DEF SinkInv, InCall
<1>2. CASE Dispatch
  <2>1. UNCHANGED <<sco_handle, sbc_configured, sink_cfg>>
    BY <1>2 DEF Dispatch, bt_stack_event_handler
  <2>2. CASE UNCHANGED todo
    BY <2>1, <2>2 DEF SinkInv, InCall
  <2>3. ASSUME NEW calls, OnlySets(calls, {"net"}), Runs("event", calls)
        PROVE  SinkInv'
    <3>1. todo'["event"] = calls /\ todo'["bt"] = todo["bt"]
      BY <2>3 DEF TodoInv, Runs, Threads
    <3> QED
      BY <2>1, <2>3, <3>1 DEF SinkInv, OnlySets, InCall
  <2> QED
    BY <1>2, <2>2, <2>3, EventSets
<1>3. CASE PostFromHandler
  BY <1>3, ReturnKeepsSink DEF PostFromHandler, At
<1>7. CASE NetCalls /\ UNCHANGED <<streamVars, bridgeVars, btVars, mainVars>>
  <2>1. PICK op \in NetOps : NetReturns(op)
    BY <1>7 DEF NetCalls, ConnectReturns, SenderReturns, SwitchReceiver,
       Shutdown, SetState, NetOps
  <2> QED
    BY <1>7, <2>1, ReturnKeepsSink DEF NetReturns, At
<1>4. CASE PostFromBt
  BY <1>4, ReturnKeepsSink DEF PostFromBt, At, Current, SinkSet
<1>5. CASE \E t \in {"event", "bt"} :
             Reconfigure(t) /\ UNCHANGED <<bridgeVars, btVars, netVars, mainVars>>
  BY <1>5, ReconfigureSink
<1>6. CASE BtPacket
  BY <1>6, PacketSink DEF BtPacket
<1> QED
  BY <1>1, <1>2, <1>3, <1>4, <1>5, <1>6, <1>7 DEF Next, EventTask, BtThread

-----------------------------------------------------------------------------
(* The theorems. *)

IInv == TodoInv /\ StateInv /\ ChannelInv /\ ReconfigurationFails

LEMMA InitInv == Init => IInv /\ FlagInv /\ CallInv /\ SinkInv
<1> SUFFICES ASSUME Init PROVE IInv /\ FlagInv /\ CallInv /\ SinkInv
  OBVIOUS
<1> USE DEF Init, StreamInit, BridgeInit, BtInit, NetInit, HCI_CON_HANDLE_INVALID
<1>1. \A t \in Threads : todo[t] = <<>>
  OBVIOUS
<1>2. TodoInv
  <2>1. todo \in [Threads -> Seq(Calls)]
    OBVIOUS
  <2> QED
    BY <1>1, <2>1 DEF TodoInv, Linked
<1>3. StateInv
  BY Transports, QueueAssumption, DeviceAssumption DEF StateInv, Channels,
     NetStates, Phases, RecvPCs
<1>4. ChannelInv
  BY <1>1 DEF ChannelInv, At
<1>5. ReconfigurationFails
  BY DEF ReconfigurationFails
<1>6. FlagInv
  BY DEF FlagInv
<1>7. CallInv
  BY DEF CallInv, CodecServesCall, InCall
<1>8. SinkInv
  BY <1>1 DEF SinkInv, Threads
<1> QED
  BY <1>2, <1>3, <1>4, <1>5, <1>6, <1>7, <1>8 DEF IInv

LEMMA StepInv == IInv /\ [Next]_vars => IInv'
<1> SUFFICES ASSUME IInv, [Next]_vars PROVE IInv'
  OBVIOUS
<1>1. Shape
  BY NextShape DEF IInv
<1>2. TodoInv' /\ ChannelInv' /\ StateInv'
  BY <1>1, ShapeKeeps, StateStep DEF IInv
<1>3. ReconfigurationFails'
  <2>1. CASE Next
    BY <1>1, <2>1, FailureHasCause DEF IInv, Next, Halted
  <2>2. CASE UNCHANGED vars
    BY <2>2 DEF IInv, ReconfigurationFails, Current, vars, streamVars
  <2> QED
    BY <2>1, <2>2
<1> QED
  BY <1>2, <1>3 DEF IInv

LEMMA Invariant == Spec => []IInv
  BY InitInv, StepInv, PTL DEF Spec

(* Types are kept: threads have only calls they can make, the queue only   *)
(* events that can be answered, and never more than it holds.              *)
THEOREM TypeCorrect == Spec => []TypeOK
<1>1. FlagInv /\ [Next]_vars => FlagInv'
  BY FlagStep
<1>2. IInv /\ FlagInv => TypeOK
  <2> SUFFICES ASSUME IInv, FlagInv PROVE TypeOK
    OBVIOUS
  <2>1. ASSUME NEW t \in Threads, NEW i \in DOMAIN todo[t]
        PROVE  todo[t][i].op \in Ops
    <3>1. todo[t][i] \in Calls
      BY DEF IInv, TodoInv
    <3> QED
      BY <3>1 DEF Calls, ConfigCalls, PostCalls, NetworkCalls, Ops, StreamOps
  <2>2. queue \in Seq(Events)
    BY DEF IInv, StateInv, Posted
  <2> QED
    BY <2>1, <2>2 DEF TypeOK, IInv, StateInv, FlagInv
<1> QED
  BY <1>1, <1>2, InitInv, Invariant, PTL DEF Spec

(* An ESP_ERROR_CHECK of stream_bridge only aborts when two threads have    *)
(* reconfigured the same channel at a time, or when the call of a phone     *)
(* ends that never configured its music.                                    *)
THEOREM FailuresHaveCauses == Spec => []ReconfigurationFails
<1>1. IInv => ReconfigurationFails
  BY DEF IInv
<1> QED
  BY <1>1, Invariant, PTL

(* With a phone that suspends its music for a call, whose packets go        *)
(* through a codec that exists and a decoder set up for it.                 *)
THEOREM CallsAreServed == ASSUME CallsSuspendMusic PROVE Spec => []CodecServesCall
<1>1. CallInv /\ [Next]_vars => CallInv'
  BY CallStep, CallsSuspendMusic
<1>2. CallInv => CodecServesCall
  BY DEF CallInv
<1> QED
  BY <1>1, <1>2, InitInv, PTL DEF Spec

(* Between calls the sink has the format of the music, once there has been *)
(* any, or that of the network service: whatever a call has set is undone  *)
(* by the time the Bluetooth thread has nothing left to do.                *)
THEOREM CallsGiveTheSinkBack == Spec => []MusicSinkRestored
<1>1. IInv /\ SinkInv /\ [Next]_vars => SinkInv'
  BY SinkStep DEF IInv
<1>2. SinkInv => MusicSinkRestored
  BY DEF SinkInv, MusicSinkRestored, Idle
<1> QED
  BY <1>1, <1>2, InitInv, Invariant, PTL DEF Spec
=============================================================================
