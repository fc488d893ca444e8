--------------------------- MODULE MicrophoneProofs ---------------------------
(* Theorems about Microphone, for every size of a buffer, of a read and of *)
(* a pre-buffer, and every set of codecs.                                  *)
EXTENDS Microphone, SequenceTheorems, TLAPS

(* The steps of read behind the driver's answer. *)
Inside == {"compare", "subtract", "zero"}

ReadCalls == [op : {"read"} \cup Inside, on : {"rx"}, arg : {"buffer"}]
ConfigCalls == [op : {"disable", "slot", "clock", "enable"}, on : {"rx"},
                arg : {"net"} \cup Codecs]
SwitchCalls == [op : {"power_on", "set_requesting"}, on : {"hci", "net_state"},
                arg : {""}]
Calls == ReadCalls \cup ConfigCalls \cup SwitchCalls

(* Only the call a thread is at can be a read in progress. *)
TodoInv ==
  /\ todo \in [Threads -> Seq(Calls)]
  /\ \A t \in Threads : \A i \in 2..Len(todo[t]) : todo[t][i].op \notin Inside

StateInv ==
  /\ enabled \subseteq Channels
  /\ available_read \in 0..SizeMax
  /\ service \in {"net", "bt", "none"}
  /\ codec_current \in Codecs \cup {"null"}

(* The flags are kept apart from the rest: they depend on nothing. *)
FlagInv ==
  {i2s_failed, overlapped, audio_input_paused, can_send, part_encoded}
    \subseteq BOOLEAN

(* As long as no two threads have met, a read that has compared finds the  *)
(* bytes it subtracts: the interrupt only ever makes them more.            *)
CountInv ==
  \/ overlapped
  \/ /\ available_read <= DmaSize
     /\ \A t \in Threads : At(t, "subtract") => ReadLen <= available_read

IInv == TodoInv /\ StateInv /\ CountInv

-----------------------------------------------------------------------------
(* What the operators of Threads do to todo. *)

OnlyOf(t) == \A u \in Threads \ {t} : todo'[u] = todo[u]

(* A thread is given new work, none of it a read in progress. *)
LEMMA RunsKeeps ==
  ASSUME TodoInv, NEW t \in Threads, NEW calls \in Seq(Calls), Runs(t, calls),
         \A i \in 1..Len(calls) : calls[i].op \notin Inside
  PROVE  TodoInv' /\ OnlyOf(t) /\ todo'[t] = calls
  BY DEF TodoInv, Runs, OnlyOf

(* A call returns: what follows is not a read in progress. *)
LEMMA ReturnsKeeps ==
  ASSUME TodoInv, NEW t \in Threads, todo[t] # <<>>, Returns(t)
  PROVE  TodoInv' /\ OnlyOf(t) /\ \A op \in Inside : ~At(t, op)'
<1>1. /\ Tail(todo[t]) \in Seq(Calls)
      /\ Len(Tail(todo[t])) = Len(todo[t]) - 1
      /\ \A i \in 1..Len(Tail(todo[t])) : Tail(todo[t])[i] = todo[t][i+1]
  BY HeadTailProperties DEF TodoInv
<1>2. \A i \in 1..Len(Tail(todo[t])) : Tail(todo[t])[i].op \notin Inside
  BY <1>1 DEF TodoInv
<1>3. TodoInv' /\ OnlyOf(t) /\ todo'[t] = Tail(todo[t])
  BY <1>1, <1>2, RunsKeeps DEF Returns
<1>4. ASSUME NEW op \in Inside, At(t, op)' PROVE FALSE
  <2>1. todo'[t] # <<>> /\ Head(todo'[t]).op = op
    BY <1>4 DEF At
  <2>2. Tail(todo[t]) # <<>> /\ Head(Tail(todo[t])) = Tail(todo[t])[1]
        /\ 1 \in 1..Len(Tail(todo[t]))
    BY <2>1, <1>1, <1>3
  <2> QED
    BY <2>1, <2>2, <1>2, <1>3
<1> QED
  BY <1>3, <1>4

(* A read goes on to its next step. *)
LEMMA ContinuesKeeps ==
  ASSUME TodoInv, NEW t \in Threads, NEW was \in {"read"} \cup Inside,
         At(t, was), NEW op \in Inside, ContinuesWith(t, op)
  PROVE  TodoInv' /\ OnlyOf(t) /\ todo'[t] # <<>> /\ Head(todo'[t]).op = op
<1> DEFINE c == [todo[t][1] EXCEPT !.op = op]
           s == [todo[t] EXCEPT ![1] = c]
<1>1. todo[t] \in Seq(Calls) /\ todo[t] # <<>> /\ Head(todo[t]) = todo[t][1]
      /\ 1 \in 1..Len(todo[t]) /\ todo[t][1] \in Calls /\ todo[t][1].op = was
  BY DEF TodoInv, At
<1>2. todo[t][1] \in ReadCalls
  BY <1>1 DEF Calls, ReadCalls, ConfigCalls, SwitchCalls, Inside
<1>3. c \in ReadCalls /\ c \in Calls /\ c.op = op
  BY <1>2 DEF ReadCalls, Calls
<1> HIDE DEF c
<1>4. s \in Seq(Calls) /\ Len(s) = Len(todo[t])
      /\ \A i \in 1..Len(todo[t]) : s[i] = IF i = 1 THEN c ELSE todo[t][i]
  BY <1>1, <1>3, ExceptSeq
<1>5. todo' = [todo EXCEPT ![t] = s]
  BY DEF ContinuesWith, c
<1> HIDE DEF s
<1>6. todo'[t] = s /\ OnlyOf(t) /\ todo' \in [Threads -> Seq(Calls)]
  BY <1>4, <1>5 DEF TodoInv, OnlyOf
<1>7. ASSUME NEW u \in Threads, NEW i \in 2..Len(todo'[u])
      PROVE  todo'[u][i].op \notin Inside
  <2>1. CASE u = t
    <3>1. i \in 2..Len(todo[t]) /\ i \in 1..Len(todo[t]) /\ i # 1
      BY <1>1, <1>4, <1>6, <2>1
    <3>2. todo'[u][i] = todo[t][i]
      BY <1>4, <1>6, <2>1, <3>1
    <3> QED
      BY <3>1, <3>2 DEF TodoInv
  <2>2. CASE u # t
    BY <1>6, <2>2 DEF TodoInv, OnlyOf
  <2> QED
    BY <2>1, <2>2
<1>8. s # <<>> /\ Head(s) = c
  BY <1>1, <1>4
<1> QED
  BY <1>3, <1>6, <1>7, <1>8 DEF TodoInv

-----------------------------------------------------------------------------
(* The counter. *)

(* A step of t that is not in stream_bridge, or does not change the counter *)
(* and does not leave t before a subtraction.                               *)
LEMMA OthersKeepCount ==
  ASSUME CountInv, NEW t \in Threads, OnlyOf(t), ~At(t, "subtract")',
         available_read' = available_read, overlapped => overlapped'
  PROVE  CountInv'
  BY DEF CountInv, OnlyOf, At

(* A step of t inside read that meets nobody: no other thread is about to  *)
(* subtract.                                                               *)
LEMMA AloneInRead ==
  ASSUME TodoInv, NEW t \in Threads, NEW op \in {"read"} \cup Inside,
         Accesses(t, op), OnlyOf(t), ~overlapped'
  PROVE  ~overlapped /\ \A u \in Threads \ {t} : ~At(u, "subtract")'
<1>1. ~overlapped /\ ~Meets(t) /\ At(t, op)
  BY DEF Accesses
<1>2. ASSUME NEW u \in Threads, NEW o \in {"read"} \cup Inside, At(u, o)
      PROVE  /\ 1 \in DOMAIN todo[u] /\ Head(todo[u]) = todo[u][1]
             /\ todo[u][1].op = o /\ todo[u][1].on = "rx"
  <2>1. /\ todo[u] \in Seq(Calls) /\ 1 \in DOMAIN todo[u]
        /\ Head(todo[u]) = todo[u][1] /\ todo[u][1].op = o
        /\ todo[u][1] \in Calls
    BY <1>2 DEF TodoInv, At
  <2>2. todo[u][1] \in ReadCalls
    BY <2>1 DEF Calls, ReadCalls, ConfigCalls, SwitchCalls, Inside
  <2> QED
    BY <2>1, <2>2 DEF ReadCalls
<1>3. ASSUME NEW u \in Threads \ {t}, At(u, "subtract")' PROVE FALSE
  <2>1. At(u, "subtract")
    BY <1>3 DEF OnlyOf, At
  <2>2. Meets(t)
    BY <1>1, <1>2, <2>1 DEF Meets, Current, StreamOps, Inside
  <2> QED
    BY <1>1, <2>2
<1> QED
  BY <1>1, <1>3

-----------------------------------------------------------------------------
(* The steps. *)

(* The call a thread is at. *)
LEMMA CurrentCall ==
  ASSUME TodoInv, NEW t \in Threads, NEW op, At(t, op)
  PROVE  todo[t] # <<>> /\ Current(t) \in Calls /\ Current(t).op = op
  BY HeadTailProperties DEF TodoInv, At, Current

(* Reconfiguring a channel leaves the counter alone. *)
LEMMA ReconfigureInv ==
  ASSUME IInv, NEW t \in Threads, Reconfigure(t),
         UNCHANGED <<available_read, service, codec_current>>
  PROVE  IInv'
<1>1. PICK op \in {"disable", "slot", "clock", "enable"} : At(t, op)
  BY DEF Reconfigure, Disable, ReconfigSlot, ReconfigClock, Enable, Accesses
<1>2. todo[t] # <<>> /\ Current(t).on = "rx"
  BY <1>1, CurrentCall DEF IInv, Calls, ReadCalls, ConfigCalls, SwitchCalls,
     Inside
<1>3. Returns(t) \/ UNCHANGED todo
  BY DEF Reconfigure, Disable, ReconfigSlot, ReconfigClock, Enable
<1>4. TodoInv' /\ OnlyOf(t) /\ ~At(t, "subtract")'
  <2>1. CASE Returns(t)
    BY <1>2, <2>1, ReturnsKeeps DEF IInv, Inside
  <2>2. CASE UNCHANGED todo
    BY <1>1, <2>2 DEF IInv, TodoInv, OnlyOf, At
  <2> QED
    BY <1>3, <2>1, <2>2
<1>5. overlapped => overlapped'
  BY DEF Reconfigure, Disable, ReconfigSlot, ReconfigClock, Enable, Accesses
<1>6. enabled' \subseteq Channels
  BY <1>2 DEF IInv, StateInv, Reconfigure, Disable, ReconfigSlot,
     ReconfigClock, Enable, Channels
<1> QED
  BY <1>4, <1>5, <1>6, OthersKeepCount DEF IInv, StateInv

(* A read that gets less clears the counter. *)
LEMMA ReadShortInv ==
  ASSUME IInv, NEW t \in Threads, ReadShort(t),
         UNCHANGED <<service, codec_current>>
  PROVE  IInv'
<1>1. At(t, "read") /\ Returns(t) /\ available_read' = 0
      /\ enabled' = enabled /\ Accesses(t, "read")
  BY DEF ReadShort, Reads, Accesses
<1>2. TodoInv' /\ OnlyOf(t) /\ ~At(t, "subtract")'
  BY <1>1, CurrentCall, ReturnsKeeps DEF IInv, Inside
<1>3. CountInv'
  BY <1>1, <1>2, AloneInRead, MicrophoneAssumption DEF IInv, CountInv
<1> QED
  BY <1>1, <1>2, <1>3, MicrophoneAssumption DEF IInv, StateInv

(* The other steps of read: comparing and subtracting are two steps, and   *)
(* the comparison holds until the subtraction.                             *)
LEMMA UpdatesInv ==
  ASSUME IInv, NEW t \in Threads, Updates(t),
         UNCHANGED <<service, codec_current>>
  PROVE  IInv'
<1> USE MicrophoneAssumption
<1>1. CASE ReadFull(t)
  <2>1. Accesses(t, "read") /\ At(t, "read") /\ ContinuesWith(t, "compare")
        /\ UNCHANGED <<available_read, enabled>>
    BY <1>1 DEF ReadFull, Reads, Accesses
  <2>2. TodoInv' /\ OnlyOf(t) /\ ~At(t, "subtract")'
    BY <2>1, ContinuesKeeps DEF IInv, Inside, At
  <2> QED
    BY <2>1, <2>2, OthersKeepCount DEF IInv, StateInv, Accesses
<1>2. CASE Compare(t)
  <2> DEFINE next == IF ReadLen > available_read THEN "zero" ELSE "subtract"
  <2>1. Accesses(t, "compare") /\ At(t, "compare") /\ ContinuesWith(t, next)
        /\ UNCHANGED <<available_read, enabled>>
    BY <1>2 DEF Compare, Reads, Accesses
  <2>2. TodoInv' /\ OnlyOf(t) /\ Head(todo'[t]).op = next
    BY <2>1, ContinuesKeeps DEF IInv, Inside
  <2>3. At(t, "subtract")' => ReadLen <= available_read
    BY <2>2 DEF At, IInv, StateInv
  <2>4. CountInv'
    BY <2>1, <2>2, <2>3, AloneInRead DEF IInv, CountInv, Inside
  <2> QED
    BY <2>1, <2>2, <2>4 DEF IInv, StateInv
<1>3. CASE Zero(t)
  <2>1. Accesses(t, "zero") /\ At(t, "zero") /\ Returns(t)
        /\ available_read' = 0 /\ enabled' = enabled
    BY <1>3 DEF Zero, Reads, Accesses
  <2>2. TodoInv' /\ OnlyOf(t) /\ ~At(t, "subtract")'
    BY <2>1, CurrentCall, ReturnsKeeps DEF IInv, Inside
  <2>3. CountInv'
    BY <2>1, <2>2, AloneInRead DEF IInv, CountInv, Inside
  <2> QED
    BY <2>1, <2>2, <2>3 DEF IInv, StateInv
<1>4. CASE Subtract(t)
  <2>1. Accesses(t, "subtract") /\ At(t, "subtract") /\ Returns(t)
        /\ available_read' = (available_read - ReadLen) % (SizeMax + 1)
        /\ enabled' = enabled
    BY <1>4 DEF Subtract, Reads, Accesses
  <2>2. TodoInv' /\ OnlyOf(t) /\ ~At(t, "subtract")'
    BY <2>1, CurrentCall, ReturnsKeeps DEF IInv, Inside
  <2>3. available_read' \in 0..SizeMax
    BY <2>1 DEF IInv, StateInv
  <2>4. ASSUME ~overlapped' PROVE available_read' <= DmaSize
    <3>1. ReadLen <= available_read /\ available_read <= DmaSize
      BY <2>1, <2>2, <2>4, AloneInRead DEF IInv, CountInv, Inside
    <3>2. available_read' = available_read - ReadLen
      BY <2>1, <3>1 DEF IInv, StateInv
    <3> QED
      BY <3>1, <3>2 DEF IInv, StateInv
  <2>5. CountInv'
    BY <2>1, <2>2, <2>4, AloneInRead DEF IInv, CountInv, Inside
  <2> QED
    BY <2>1, <2>2, <2>3, <2>5 DEF IInv, StateInv
<1> QED
  BY <1>1, <1>2, <1>3, <1>4 DEF Updates

(* A thread is given calls to do, and the counter is left alone. *)
LEMMA RunsInv ==
  ASSUME IInv, NEW t \in Threads, NEW calls \in Seq(Calls), Runs(t, calls),
         \A i \in 1..Len(calls) : calls[i].op \notin Inside,
         UNCHANGED <<streamVars, available_read>>,
         service' \in {"net", "bt", "none"},
         codec_current' \in Codecs \cup {"null"}
  PROVE  IInv'
<1>1. TodoInv' /\ OnlyOf(t) /\ todo'[t] = calls
  BY RunsKeeps DEF IInv
<1>2. ~At(t, "subtract")'
  <2>1. calls = <<>> \/ Head(calls).op \notin Inside
    <3>1. calls # <<>> => 1 \in 1..Len(calls) /\ Head(calls) = calls[1]
      OBVIOUS
    <3> QED
      BY <3>1
  <2> QED
    BY <1>1, <2>1 DEF At, Inside
<1> QED
  BY <1>1, <1>2, OthersKeepCount DEF IInv, StateInv, streamVars

(* A step that leaves the threads and the counter alone. *)
LEMMA QuietInv ==
  ASSUME IInv, UNCHANGED <<todo, streamVars, available_read>>,
         service' \in {"net", "bt", "none"},
         codec_current' \in Codecs \cup {"null"}
  PROVE  IInv'
  BY DEF IInv, TodoInv, StateInv, CountInv, At, streamVars

(* What the handlers have their threads do. *)
LEMMA ConfigureCalls ==
  ASSUME NEW cfg \in {"net"} \cup Codecs
  PROVE  /\ configure_source(cfg) \in Seq(Calls)
         /\ Len(configure_source(cfg)) = 4
         /\ \A i \in 1..4 : configure_source(cfg)[i].op \notin Inside
<1>1. \A op \in {"disable", "slot", "clock", "enable"} :
        Call(op, "rx", cfg) \in Calls
  BY DEF Call, Calls, ConfigCalls
<1> QED
  BY <1>1 DEF configure_source, Configure, Call, Inside

LEMMA ReadCall ==
  /\ read \in Seq(Calls)
  /\ \A i \in 1..Len(read) : read[i].op \notin Inside
<1>1. Call("read", "rx", "buffer") \in Calls
  BY DEF Call, Calls, ReadCalls
<1> QED
  BY <1>1 DEF read, Call, Inside

LEMMA InitInv == Init => IInv
<1> SUFFICES ASSUME Init PROVE IInv
  OBVIOUS
<1>1. TodoInv
  <2>1. \A t \in Threads : todo[t] = <<>>
    BY DEF Init
  <2>2. todo \in [Threads -> Seq(Calls)]
    BY DEF Init
  <2> QED
    BY <2>1, <2>2 DEF TodoInv
<1>2. StateInv
  BY MicrophoneAssumption DEF Init, StreamInit, StateInv
<1>3. CountInv
  BY MicrophoneAssumption DEF Init, CountInv, At
<1> QED
  BY <1>1, <1>2, <1>3 DEF IInv

(* A single call. *)
LEMMA OneCall ==
  ASSUME NEW c \in Calls, c.op \notin Inside
  PROVE  /\ <<c>> \in Seq(Calls) /\ Len(<<c>>) = 1
         /\ \A i \in 1..Len(<<c>>) : <<c>>[i].op \notin Inside
  OBVIOUS

LEMMA ConcatCalls ==
  ASSUME NEW s1 \in Seq(Calls), NEW s2 \in Seq(Calls),
         \A i \in 1..Len(s1) : s1[i].op \notin Inside,
         \A i \in 1..Len(s2) : s2[i].op \notin Inside
  PROVE  /\ s1 \o s2 \in Seq(Calls)
         /\ \A i \in 1..Len(s1 \o s2) : (s1 \o s2)[i].op \notin Inside
<1>1. /\ s1 \o s2 \in Seq(Calls)
      /\ Len(s1 \o s2) = Len(s1) + Len(s2)
      /\ \A i \in 1..Len(s1) + Len(s2) :
           (s1 \o s2)[i] = IF i <= Len(s1) THEN s1[i] ELSE s2[i - Len(s1)]
  BY ConcatProperties
<1>2. ASSUME NEW i \in 1..Len(s1) + Len(s2)
      PROVE  (s1 \o s2)[i].op \notin Inside
  <2>1. CASE i <= Len(s1)
    BY <1>1, <2>1
  <2>2. CASE ~(i <= Len(s1))
    <3>1. i - Len(s1) \in 1..Len(s2)
      BY <2>2
    <3> QED
      BY <1>1, <2>2, <3>1
  <2> QED
    BY <2>1, <2>2
<1> QED
  BY <1>1, <1>2

LEMMA PauseInv ==
  ASSUME IInv, PauseService
  PROVE  IInv'
<1> DEFINE off == Call("power_on", "hci", "")
           on == Call("set_requesting", "net_state", "")
<1>1. off \in Calls /\ on \in Calls /\ off.op \notin Inside /\ on.op \notin Inside
  BY DEF Call, Calls, SwitchCalls, Inside
<1>2. /\ \/ Runs("event", <<off>>)
         \/ Runs("event", configure_source("net") \o <<on>>)
      /\ UNCHANGED <<streamVars, available_read, callVars>>
      /\ service' = "none"
  BY DEF PauseService
<1>3. UNCHANGED codec_current /\ "event" \in Threads
  BY <1>2 DEF callVars, Threads
<1> HIDE DEF off, on
<1>4. CASE Runs("event", <<off>>)
  BY <1>1, <1>2, <1>3, <1>4, OneCall, RunsInv DEF IInv, StateInv
<1>5. CASE Runs("event", configure_source("net") \o <<on>>)
  <2> DEFINE calls == configure_source("net") \o <<on>>
  <2>1. calls \in Seq(Calls) /\ \A i \in 1..Len(calls) : calls[i].op \notin Inside
    BY <1>1, OneCall, ConfigureCalls, ConcatCalls
  <2>2. Runs("event", calls)
    BY <1>5
  <2> HIDE DEF calls
  <2> QED
    BY <1>2, <1>3, <2>1, <2>2, RunsInv DEF IInv, StateInv
<1> QED
  BY <1>2, <1>4, <1>5

LEMMA StartedInv ==
  ASSUME IInv, ServiceStarted
  PROVE  IInv'
<1>1. todo["event"] # <<>> /\ Returns("event") /\ service' \in {"bt", "net"}
      /\ UNCHANGED <<streamVars, available_read, callVars>>
  BY DEF ServiceStarted, At
<1>2. TodoInv' /\ OnlyOf("event") /\ ~At("event", "subtract")'
  BY <1>1, ReturnsKeeps DEF IInv, Threads, Inside
<1> QED
  BY <1>1, <1>2, OthersKeepCount DEF IInv, StateInv, Threads, streamVars, callVars

LEMMA SetCodecInv ==
  ASSUME IInv, NEW codec \in Codecs, set_codec(codec)
  PROVE  IInv'
<1>1. /\ Runs("bt", configure_source(codec))
      /\ codec_current' = codec /\ service' = service
      /\ UNCHANGED <<streamVars, available_read>>
  BY DEF set_codec
<1> QED
  BY <1>1, ConfigureCalls, RunsInv DEF IInv, StateInv, Threads

LEMMA SendInv ==
  ASSUME IInv, send
  PROVE  IInv'
<1>1. UNCHANGED <<streamVars, available_read, service, codec_current>>
  BY DEF send
<1>2. UNCHANGED todo \/ Runs("bt", read)
  BY DEF send, FillFromMicrophone, FillFromEncoder, FillWithZeros
<1>3. CASE UNCHANGED todo
  BY <1>1, <1>3, QuietInv DEF IInv, StateInv
<1>4. CASE Runs("bt", read)
  BY <1>1, <1>4, ReadCall, RunsInv DEF IInv, StateInv, Threads
<1> QED
  BY <1>2, <1>3, <1>4

(* The interrupt may store at any point of a read: what is there can only  *)
(* grow, as nobody asks for more than a buffer.                            *)
LEMMA InterruptInv ==
  ASSUME IInv, i2s_rx_callback
  PROVE  IInv'
  BY MicrophoneAssumption
  DEF i2s_rx_callback, IInv, TodoInv, StateInv, CountInv, At, streamVars, callVars

LEMMA StepInv == IInv /\ [Next]_vars => IInv'
<1> SUFFICES ASSUME IInv, [Next]_vars PROVE IInv'
  OBVIOUS
<1>0. {"event", "bt", "send"} \subseteq Threads
  BY DEF Threads
<1>1. CASE PauseService
  BY <1>1, PauseInv
<1>2. CASE EventTask
  BY <1>0, <1>2, StartedInv, ReconfigureInv DEF EventTask, callVars
<1>3. CASE SendTask
  <2>1. CASE SendCb
    BY <1>0, <2>1, ReadCall, RunsInv DEF SendCb, IInv, StateInv, callVars
  <2>2. CASE Updates("send") /\ UNCHANGED <<service, callVars>>
    BY <1>0, <2>2, UpdatesInv DEF callVars
  <2>3. CASE ReadShort("send") /\ UNCHANGED <<service, callVars>>
    BY <1>0, <2>3, ReadShortInv DEF callVars
  <2> QED
    BY <1>3, <2>1, <2>2, <2>3 DEF SendTask
<1>4. CASE \E codec \in Codecs : set_codec(codec)
  BY <1>4, SetCodecInv
<1>5. CASE close
  BY <1>5, QuietInv DEF close, IInv, StateInv
<1>6. CASE send
  BY <1>6, SendInv
<1>7. CASE BtThread
  <2>1. CASE Reconfigure("bt") /\ UNCHANGED <<available_read, service, callVars>>
    BY <1>0, <2>1, ReconfigureInv DEF callVars
  <2>2. CASE Updates("bt") /\ UNCHANGED <<service, callVars>>
    BY <1>0, <2>2, UpdatesInv DEF callVars
  <2>3. CASE ReadInCallShort
    BY <1>0, <2>3, ReadShortInv DEF ReadInCallShort
  <2> QED
    BY <1>7, <2>1, <2>2, <2>3 DEF BtThread
<1>8. CASE i2s_rx_callback
  BY <1>8, InterruptInv
<1>9. CASE UNCHANGED vars
  BY <1>9, QuietInv DEF vars, callVars, IInv, StateInv
<1> QED
  BY <1>1, <1>2, <1>3, <1>4, <1>5, <1>6, <1>7, <1>8, <1>9 DEF Next, Up

LEMMA Invariant == Spec => []IInv
  BY InitInv, StepInv, PTL DEF Spec

-----------------------------------------------------------------------------
(* The theorems. *)

(* No more bytes are promised to a reader than the buffer of a channel     *)
(* holds, however the interrupt falls between the comparison and the       *)
(* subtraction of stream_bridge::read, unless two threads have been inside *)
(* stream_bridge for the channel at a time.                                *)
THEOREM NeverPromisesTooMuch == Spec => []NeverPromisesMore
<1>1. IInv => NeverPromisesMore
  BY DEF IInv, CountInv, NeverPromisesMore
<1> QED
  BY <1>1, Invariant, PTL

-----------------------------------------------------------------------------
(* Types. *)

LEMMA AccessesFlag ==
  ASSUME NEW t, NEW op, overlapped \in BOOLEAN, Accesses(t, op)
  PROVE  overlapped' \in BOOLEAN
<1>1. (overlapped \/ Meets(t)) \in BOOLEAN
  OBVIOUS
<1> QED
  BY <1>1 DEF Accesses

LEMMA ReconfigureFlags ==
  ASSUME FlagInv, NEW t, Reconfigure(t),
         UNCHANGED <<audio_input_paused, can_send, part_encoded>>
  PROVE  FlagInv'
<1>1. overlapped' \in BOOLEAN
  BY AccessesFlag
  DEF FlagInv, Reconfigure, Disable, ReconfigSlot, ReconfigClock, Enable
<1>2. i2s_failed' = TRUE \/ i2s_failed' = i2s_failed
  BY DEF Reconfigure, Disable, ReconfigSlot, ReconfigClock, Enable
<1> QED
  BY <1>1, <1>2 DEF FlagInv

LEMMA ReadFlags ==
  ASSUME FlagInv, NEW t, Updates(t) \/ ReadShort(t),
         audio_input_paused' \in BOOLEAN, UNCHANGED <<can_send, part_encoded>>
  PROVE  FlagInv'
<1>1. PICK op : Reads(t, op)
  BY DEF Updates, ReadFull, ReadShort, Compare, Zero, Subtract
<1>2. overlapped' \in BOOLEAN /\ i2s_failed' = i2s_failed
  BY <1>1, AccessesFlag DEF Reads, FlagInv
<1> QED
  BY <1>2 DEF FlagInv

LEMMA FlagStep == FlagInv /\ [Next]_vars => FlagInv'
<1> SUFFICES ASSUME FlagInv, [Next]_vars PROVE FlagInv'
  OBVIOUS
<1>1. CASE EventTask
  BY <1>1, ReconfigureFlags
  DEF EventTask, ServiceStarted, streamVars, callVars, FlagInv
<1>2. CASE SendTask
  BY <1>2, ReadFlags DEF SendTask, SendCb, streamVars, callVars, FlagInv
<1>3. CASE BtThread
  <2>1. CASE Reconfigure("bt") /\ UNCHANGED <<available_read, service, callVars>>
    BY <2>1, ReconfigureFlags DEF callVars
  <2>2. CASE Updates("bt") /\ UNCHANGED <<service, callVars>>
    BY <2>2, ReadFlags DEF callVars, FlagInv
  <2>3. CASE ReadInCallShort
    <3>1. (audio_input_paused \/ codec_current = "CVSD") \in BOOLEAN
      OBVIOUS
    <3> QED
      BY <2>3, <3>1, ReadFlags DEF ReadInCallShort
  <2> QED
    BY <1>3, <2>1, <2>2, <2>3 DEF BtThread
<1>4. CASE send
  <2>1. InCall \in BOOLEAN
    BY DEF InCall
  <2>2. audio_input_paused' \in BOOLEAN /\ part_encoded' \in BOOLEAN
    BY <1>4 DEF send, FillFromMicrophone, FillFromEncoder, FillWithZeros, FlagInv
  <2> QED
    BY <1>4, <2>1, <2>2 DEF send, streamVars, FlagInv
<1>5. CASE PauseService \/ close \/ i2s_rx_callback \/ UNCHANGED vars
  BY <1>5
  DEF PauseService, close, i2s_rx_callback, vars, streamVars, callVars, FlagInv
<1>6. CASE \E codec \in Codecs : set_codec(codec)
  BY <1>6 DEF set_codec, streamVars, FlagInv
<1> QED
  BY <1>1, <1>2, <1>3, <1>4, <1>5, <1>6 DEF Next, Up

(* Types are kept: a thread is only ever given calls of stream_bridge and  *)
(* of the switch between the services, and the counter wraps.              *)
THEOREM TypeCorrect == Spec => []TypeOK
<1>1. Init => FlagInv
  BY DEF Init, StreamInit, FlagInv
<1>2. IInv /\ FlagInv => TypeOK
  <2> SUFFICES ASSUME IInv, FlagInv PROVE TypeOK
    OBVIOUS
  <2>1. DOMAIN todo = Threads
    BY DEF IInv, TodoInv
  <2>2. ASSUME NEW t \in Threads, NEW i \in DOMAIN todo[t]
        PROVE  todo[t][i].op \in StreamOps \cup {"power_on", "set_requesting"}
    <3>1. todo[t][i] \in Calls
      BY DEF IInv, TodoInv
    <3> QED
      BY <3>1
      DEF Calls, ReadCalls, ConfigCalls, SwitchCalls, Inside, StreamOps
  <2> QED
    BY <2>1, <2>2 DEF TypeOK, IInv, StateInv, FlagInv
<1> QED
  BY <1>1, <1>2, FlagStep, Invariant, PTL DEF Spec
=============================================================================
