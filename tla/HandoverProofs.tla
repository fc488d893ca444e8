---------------------------- MODULE HandoverProofs ----------------------------
(***************************************************************************)
(* Device implements Handover: whatever the length of the queue and        *)
(* however often the button is pressed, one transport runs at a time, and   *)
(* in the end the one that cur_trt names.                                   *)
(***************************************************************************)
EXTENDS DeviceProofs

Service == {"SVC_START", "SVC_PAUSE"}

-----------------------------------------------------------------------------
(* What the events of a queue make of the transports that run. *)

(* The transports in S run when e is served, and those in T after that.    *)
Serves(S, e, T) ==
  \/ e.id = "SVC_START" /\ e.base # "APPLICATION" /\ S = {} /\ T = {e.base}
  \/ e.id = "SVC_PAUSE" /\ e.base # "APPLICATION" /\ S = {e.base} /\ T = {}
  \/ e.id \notin Service /\ T = S

(* No event of s starts a transport while one runs, or pauses one that     *)
(* does not; after all of them those in T run.                             *)
Leads(S, s, T) ==
  \E run \in [0..Len(s) -> SUBSET Bases] :
    /\ run[0] = S /\ run[Len(s)] = T
    /\ \A i \in 1..Len(s) : Serves(run[i-1], s[i], run[i])

LEMMA LeadsEmpty ==
  ASSUME NEW S \in SUBSET Bases, NEW T, NEW s \in Seq(Posted), s = <<>>
  PROVE  Leads(S, s, T) <=> T = S
<1>1. Len(s) = 0
  OBVIOUS
<1>2. ASSUME T = S PROVE Leads(S, s, T)
  <2> DEFINE run == [i \in 0..Len(s) |-> S]
  <2>1. run \in [0..Len(s) -> SUBSET Bases]
    OBVIOUS
  <2>2. run[0] = S /\ run[Len(s)] = T /\ 1..Len(s) = {}
    BY <1>1, <1>2
  <2> HIDE DEF run
  <2> QED
    BY <2>1, <2>2 DEF Leads
<1> QED
  BY <1>1, <1>2 DEF Leads

LEMMA LeadsAppend ==
  ASSUME NEW S, NEW T, NEW s \in Seq(Posted), Leads(S, s, T),
         NEW e \in Posted, NEW U \in SUBSET Bases, Serves(T, e, U)
  PROVE  Leads(S, Append(s, e), U)
<1> DEFINE n == Len(s)
           t == Append(s, e)
<1>1. PICK run \in [0..n -> SUBSET Bases] :
        /\ run[0] = S /\ run[n] = T
        /\ \A i \in 1..n : Serves(run[i-1], s[i], run[i])
  BY DEF Leads
<1>2. /\ n \in Nat /\ Len(t) = n + 1 /\ t[n + 1] = e
      /\ \A i \in 1..n : t[i] = s[i]
  BY AppendProperties, LenProperties
<1> HIDE DEF n, t
<1> DEFINE r == [i \in 0..n+1 |-> IF i = n + 1 THEN U ELSE run[i]]
<1>3. r \in [0..n+1 -> SUBSET Bases]
  BY <1>2
<1>4. r[0] = S /\ r[n+1] = U
  BY <1>1, <1>2
<1>5. ASSUME NEW i \in 1..n+1 PROVE Serves(r[i-1], t[i], r[i])
  <2>1. CASE i = n + 1
    <3>1. r[i-1] = T /\ t[i] = e /\ r[i] = U
      BY <1>1, <1>2, <2>1
    <3> QED
      BY <3>1
  <2>2. CASE i # n + 1
    <3>1. i \in 1..n /\ r[i-1] = run[i-1] /\ r[i] = run[i] /\ t[i] = s[i]
      BY <1>2, <2>2
    <3> QED
      BY <1>1, <3>1
  <2> QED
    BY <2>1, <2>2
<1> HIDE DEF r
<1> QED
  BY <1>2, <1>3, <1>4, <1>5 DEF Leads, t

LEMMA LeadsTail ==
  ASSUME NEW S, NEW T, NEW s \in Seq(Posted), s # <<>>, Leads(S, s, T)
  PROVE  \E R \in SUBSET Bases : Serves(S, Head(s), R) /\ Leads(R, Tail(s), T)
<1> DEFINE n == Len(s)
           t == Tail(s)
<1>1. PICK run \in [0..n -> SUBSET Bases] :
        /\ run[0] = S /\ run[n] = T
        /\ \A i \in 1..n : Serves(run[i-1], s[i], run[i])
  BY DEF Leads
<1>2. /\ n \in Nat /\ n >= 1 /\ Len(t) = n - 1 /\ Head(s) = s[1]
      /\ \A i \in 1..n-1 : t[i] = s[i+1]
  BY HeadTailProperties, LenProperties
<1> HIDE DEF n, t
<1> DEFINE r == [i \in 0..n-1 |-> run[i+1]]
<1>3. r \in [0..n-1 -> SUBSET Bases] /\ run[1] \in SUBSET Bases
  BY <1>2
<1>4. r[0] = run[1] /\ r[n-1] = T
  BY <1>1, <1>2
<1>5. ASSUME NEW i \in 1..n-1 PROVE Serves(r[i-1], t[i], r[i])
  <2>1. /\ i + 1 \in 1..n /\ (i + 1) - 1 = i
        /\ r[i-1] = run[i] /\ r[i] = run[i+1] /\ t[i] = s[i+1]
    BY <1>2
  <2> QED
    BY <1>1, <2>1
<1>6. Serves(S, Head(s), run[1])
  <2>1. 1 \in 1..n /\ 1 - 1 = 0
    BY <1>2
  <2> QED
    BY <1>1, <1>2, <2>1
<1> HIDE DEF r
<1>7. Leads(run[1], t, T)
  BY <1>2, <1>3, <1>4, <1>5 DEF Leads
<1> QED
  BY <1>3, <1>6, <1>7 DEF t

-----------------------------------------------------------------------------
(* The invariant. *)

Work == todo["event"]
Due(op) == \E i \in 1..Len(Work) : Work[i].op = op

(* Calls that have nothing to do with the network and start and pause      *)
(* nothing.                                                                *)
Plain(calls) ==
  /\ calls \in Seq(Calls)
  /\ \A i \in 1..Len(calls) :
       /\ calls[i].op \notin NetOps
       /\ calls[i].op = "post" => calls[i].arg \notin Service

(* Calls that start and pause nothing, and do not take the network down.   *)
Onward(calls) ==
  \A i \in 1..Len(calls) :
    /\ calls[i].op \notin {"set_noconn", "shutdown", "set_uninit"}
    /\ calls[i].op = "post" => calls[i].arg \notin Service

(* What is left of a pause of the network: its last two calls are shutdown *)
(* and set_uninit.                                                         *)
Pauses(calls) ==
  /\ calls # <<>> /\ calls[Len(calls)].op = "set_uninit"
  /\ \A i \in 1..Len(calls)-1 :
       /\ calls[i].op \in {"set_noconn", "set_cmd", "reset", "shutdown"}
       /\ calls[i].op = "shutdown" <=> i = Len(calls) - 1

(* What runs once a pause that has begun is done. *)
Now == IF Pauses(Work) THEN Running \ {"NET_TRANSPORT"} ELSE Running

Chosen == trts[cur_trt]
Former == trts[NextTransport]
Goal == IF app_main = "up" THEN {Chosen} ELSE {}

(* Whether net_transport has a state tells whether it runs, but for the    *)
(* time of its own start and pause; so the next start or pause of it is    *)
(* not ignored.                                                            *)
NetInv ==
  /\ Due("connect") \/ Due("set_requesting") => wifi # "off"
  /\ Pauses(Work) => ~power /\ (wifi = "off" <=> Len(Work) = 1)
  /\ ~Pauses(Work) =>
       /\ wifi = "off" => net_state = "CL_UNINIT"
       /\ wifi # "off" /\ ~Due("set_requesting") => net_state # "CL_UNINIT"

PauseFormer == Call("post", Former, "SVC_PAUSE")
StartChosen == Call("post", Chosen, "SVC_START")

(* The queue leads to the chosen transport, or to where the switch that is *)
(* being served has come.                                                  *)
Handing ==
  \/ Work = <<PauseFormer, StartChosen>> /\ ProgramUp /\ Leads(Now, queue, {Former})
  \/ Work = <<StartChosen>> /\ ProgramUp /\ Leads(Now, queue, {})
  \/ (Onward(Work) \/ Pauses(Work)) /\ Leads(Now, queue, Goal)

(* Until the program is up there is no other service than the network's:   *)
(* bt_stack_thread, when it comes up, powers nothing off.                   *)
ComingUp ==
  ~ProgramUp =>
    /\ cur_trt = 1 /\ app_main \notin {"APPLICATION", "BT_TRANSPORT"}
    /\ ~power
    /\ \A i \in 1..Len(queue) :
         queue[i].id \in Service => queue[i].base = "NET_TRANSPORT"

HandInv ==
  /\ Plain(todo["bt"])
  /\ Undisturbed => NetInv /\ Handing /\ ComingUp

LEMMA TransportFacts ==
  ASSUME StateInv
  PROVE  /\ Chosen \in Bases \ {"APPLICATION"} /\ Former \in Bases \ {"APPLICATION"}
         /\ Chosen # Former
         /\ {Chosen, Former} = {"NET_TRANSPORT", "BT_TRANSPORT"}
         /\ Running \in SUBSET Bases /\ Now \in SUBSET Bases
         /\ Goal \in SUBSET Bases
  BY Transports DEF StateInv, Chosen, Former, NextTransport, trts, Running, Now,
                    Goal, Bases

LEMMA PlainConcat ==
  ASSUME NEW s1, NEW s2, Plain(s1), Plain(s2)
  PROVE  Plain(s1 \o s2)
<1> DEFINE s == s1 \o s2
<1>1. /\ s \in Seq(Calls) /\ Len(s) = Len(s1) + Len(s2)
      /\ Len(s1) \in Nat /\ Len(s2) \in Nat
      /\ \A i \in 1..Len(s1) + Len(s2) :
           s[i] = IF i <= Len(s1) THEN s1[i] ELSE s2[i - Len(s1)]
  BY ConcatProperties, LenProperties DEF Plain
<1> HIDE DEF s
<1>2. ASSUME NEW i \in 1..Len(s)
      PROVE  \/ i \in 1..Len(s1) /\ s[i] = s1[i]
             \/ i - Len(s1) \in 1..Len(s2) /\ s[i] = s2[i - Len(s1)]
  BY <1>1
<1>3. Plain(s)
  BY <1>1, <1>2 DEF Plain
<1> QED
  BY <1>3 DEF s

LEMMA PlainConfigure ==
  ASSUME NEW cfg \in Formats
  PROVE  Plain(configure_sink(cfg)) /\ Plain(configure_source(cfg))
<1>1. configure_sink(cfg) \in Seq(Calls) /\ configure_source(cfg) \in Seq(Calls)
  BY FreshConfigure DEF configure_sink, configure_source, Channels, Fresh
<1> QED
  BY <1>1 DEF Plain, configure_sink, configure_source, Configure, Call, NetOps

LEMMA PlainPosts ==
  ASSUME NEW base \in Bases, NEW id \in Commands \ Service
  PROVE  /\ Plain(<<Call("post", base, id)>>)
         /\ Plain(<<Call("post", base, id), Call("post", base, id)>>)
<1>1. Call("post", base, id) \in Calls
  BY FreshPost
<1>2. Call("post", base, id).op = "post" /\ Call("post", base, id).arg = id
  BY DEF Call
<1> QED
  BY <1>1, <1>2 DEF Plain, NetOps

LEMMA PlainOnward == \A s : Plain(s) => Onward(s)
  BY DEF Plain, Onward, NetOps

LEMMA OnwardNotPauses ==
  ASSUME NEW s \in Seq(Calls), Onward(s)
  PROVE  ~Pauses(s)
<1>1. s # <<>> => Len(s) \in 1..Len(s)
  BY EmptySeq, LenProperties
<1> QED
  BY <1>1 DEF Onward, Pauses

LEMMA OnwardConcat ==
  ASSUME NEW s1 \in Seq(Calls), NEW s2 \in Seq(Calls), Onward(s1), Onward(s2)
  PROVE  /\ Onward(s1 \o s2)
         /\ \A k \in 1..Len(s2) : \E i \in 1..Len(s1 \o s2) : (s1 \o s2)[i] = s2[k]
<1> DEFINE s == s1 \o s2
<1>1. /\ s \in Seq(Calls) /\ Len(s) = Len(s1) + Len(s2)
      /\ Len(s1) \in Nat /\ Len(s2) \in Nat
      /\ \A i \in 1..Len(s1) + Len(s2) :
           s[i] = IF i <= Len(s1) THEN s1[i] ELSE s2[i - Len(s1)]
  BY ConcatProperties, LenProperties
<1> HIDE DEF s
<1>2. ASSUME NEW i \in 1..Len(s)
      PROVE  \/ i \in 1..Len(s1) /\ s[i] = s1[i]
             \/ i - Len(s1) \in 1..Len(s2) /\ s[i] = s2[i - Len(s1)]
  BY <1>1
<1>3. Onward(s)
  BY <1>1, <1>2 DEF Onward
<1>4. ASSUME NEW i \in 1..Len(s2)
      PROVE  Len(s1) + i \in 1..Len(s) /\ s[Len(s1) + i] = s2[i]
  <2>1. /\ Len(s1) + i \in 1..Len(s1) + Len(s2) /\ ~(Len(s1) + i <= Len(s1))
        /\ (Len(s1) + i) - Len(s1) = i
    BY <1>1
  <2> QED
    BY <1>1, <2>1
<1> QED
  BY <1>3, <1>4 DEF s

(* The start of the network. *)
LEMMA OnwardStart ==
  /\ StartCalls \in Seq(Calls) /\ Onward(StartCalls)
  /\ \E i \in 1..Len(StartCalls) : StartCalls[i].op = "set_requesting"
<1> DEFINE a == <<NetCall("connect")>>
           sink == configure_sink("net")
           source == configure_source("net")
           b == <<NetCall("receiver_start"), NetCall("set_endpoint"),
                  NetCall("set_requesting"), NetCall("set_cmd")>>
<1>1. a \in Seq(Calls) /\ b \in Seq(Calls)
  BY WrittenLists DEF NetLists
<1>2. /\ Onward(a) /\ Onward(b)
      /\ 3 \in 1..Len(b) /\ b[3].op = "set_requesting"
  <2>1. \A op \in NetOps : NetCall(op).op = op
    BY DEF NetCall, Call
  <2>2. /\ Len(a) = 1 /\ a[1].op = "connect"
        /\ Len(b) = 4 /\ b[1].op = "receiver_start" /\ b[2].op = "set_endpoint"
        /\ b[3].op = "set_requesting" /\ b[4].op = "set_cmd"
    BY <2>1 DEF NetOps
  <2> HIDE DEF a, b
  <2>3. /\ \A i \in 1..Len(a) : i = 1
        /\ \A i \in 1..Len(b) : i = 1 \/ i = 2 \/ i = 3 \/ i = 4
    BY <2>2
  <2> QED
    BY <2>2, <2>3 DEF Onward
<1>3. /\ sink \in Seq(Calls) /\ Onward(sink)
      /\ source \in Seq(Calls) /\ Onward(source)
  BY PlainConfigure, PlainOnward DEF Formats, Plain
<1>4. StartCalls = a \o sink \o source \o b /\ StartCalls \in Seq(Calls)
  BY FreshStart DEF StartCalls, Fresh
<1> HIDE DEF a, sink, source, b
<1>5. a \o sink \in Seq(Calls) /\ Onward(a \o sink)
  BY <1>1, <1>2, <1>3, OnwardConcat, ConcatProperties
<1>6. a \o sink \o source \in Seq(Calls) /\ Onward(a \o sink \o source)
  BY <1>3, <1>5, OnwardConcat, ConcatProperties
<1>7. \E i \in 1..Len(b) : b[i].op = "set_requesting"
  BY <1>2
<1>8. /\ Onward((a \o sink \o source) \o b)
      /\ \E i \in 1..Len((a \o sink \o source) \o b) :
           ((a \o sink \o source) \o b)[i].op = "set_requesting"
  <2> DEFINE c == a \o sink \o source
  <2>1. c \in Seq(Calls) /\ Onward(c)
    BY <1>6
  <2> HIDE DEF c
  <2>2. Onward(c \o b)
    BY <1>1, <1>2, <2>1, OnwardConcat
  <2>3. PICK k \in 1..Len(b) : b[k].op = "set_requesting"
    BY <1>7
  <2>4. \E i \in 1..Len(c \o b) : (c \o b)[i] = b[k]
    BY <1>1, <1>2, <2>1, OnwardConcat
  <2>5. \E i \in 1..Len(c \o b) : (c \o b)[i].op = "set_requesting"
    BY <2>3, <2>4
  <2> QED
    BY <2>2, <2>5 DEF c
<1> QED
  BY <1>4, <1>8

(* The pause of the network. *)
LEMMA PausesPause ==
  PauseCalls \in Seq(Calls) /\ Pauses(PauseCalls) /\ Len(PauseCalls) > 1
<1> DEFINE a == <<NetCall("set_noconn"), NetCall("set_cmd")>>
           b == <<NetCall("reset"), NetCall("shutdown"), NetCall("set_uninit")>>
<1>1. a \in Seq(Calls) /\ b \in Seq(Calls) /\ <<>> \in Seq(Calls)
  BY WrittenLists DEF NetLists
<1>2. \A i \in 1..Len(a) : a[i].op \in {"set_noconn", "set_cmd"}
  <2>1. Len(a) = 2 /\ a[1].op = "set_noconn" /\ a[2].op = "set_cmd"
    BY DEF NetCall, Call
  <2>2. \A i \in 1..Len(a) : i = 1 \/ i = 2
    BY <2>1
  <2> QED
    BY <2>1, <2>2
<1>3. /\ Len(b) = 3 /\ b[1].op = "reset" /\ b[2].op = "shutdown"
      /\ b[3].op = "set_uninit"
  BY DEF NetCall, Call
<1>4. PauseCalls = a \o b \/ PauseCalls = <<>> \o b
  BY DEF PauseCalls
<1> HIDE DEF a, b
<1>5. ASSUME NEW s \in Seq(Calls),
             \A i \in 1..Len(s) : s[i].op \in {"set_noconn", "set_cmd"}
      PROVE  s \o b \in Seq(Calls) /\ Pauses(s \o b) /\ Len(s \o b) > 1
  <2> DEFINE t == s \o b
  <2>1. /\ t \in Seq(Calls) /\ Len(t) = Len(s) + 3 /\ Len(s) \in Nat
        /\ \A i \in 1..Len(s) + 3 : t[i] = IF i <= Len(s) THEN s[i] ELSE b[i - Len(s)]
    <3>1. /\ t \in Seq(Calls) /\ Len(t) = Len(s) + Len(b) /\ Len(s) \in Nat
          /\ \A i \in 1..Len(s) + Len(b) :
               t[i] = IF i <= Len(s) THEN s[i] ELSE b[i - Len(s)]
      BY <1>1, <1>5, ConcatProperties, LenProperties
    <3> QED
      BY <1>3, <3>1
  <2> HIDE DEF t
  <2>2. /\ t[Len(s) + 1] = b[1] /\ t[Len(s) + 2] = b[2] /\ t[Len(s) + 3] = b[3]
        /\ \A i \in 1..Len(s) : t[i] = s[i]
    BY <2>1
  <2>3. \A i \in 1..Len(t)-1 : i \in 1..Len(s) \/ i = Len(s) + 1 \/ i = Len(s) + 2
    BY <2>1
  <2>4. t # <<>>
    BY <2>1
  <2>5. \A i \in 1..Len(s) : t[i].op \in {"set_noconn", "set_cmd"} /\ i # Len(t) - 1
    BY <1>5, <2>1, <2>2
  <2>6. Len(t) - 1 = Len(s) + 2 /\ Len(t) - 1 # Len(s) + 1
    BY <2>1
  <2>7. Pauses(t)
    BY <1>3, <2>1, <2>2, <2>3, <2>4, <2>5, <2>6 DEF Pauses
  <2> QED
    BY <2>1, <2>7 DEF t
<1>6. \A i \in 1..Len(<<>>) : <<>>[i].op \in {"set_noconn", "set_cmd"}
  OBVIOUS
<1> QED
  BY <1>1, <1>2, <1>4, <1>5, <1>6

LEMMA TailFacts ==
  ASSUME NEW s \in Seq(Calls), s # <<>>
  PROVE  /\ Tail(s) \in Seq(Calls)
         /\ Len(Tail(s)) = Len(s) - 1 /\ Len(s) \in Nat /\ Len(s) >= 1
         /\ Head(s) = s[1]
         /\ \A i \in 1..Len(s) - 1 : Tail(s)[i] = s[i+1]
         /\ Len(s) = 1 => Tail(s) = <<>>
<1>1. /\ Tail(s) \in Seq(Calls)
      /\ Len(Tail(s)) = Len(s) - 1 /\ Len(s) \in Nat /\ Len(s) >= 1
      /\ Head(s) = s[1]
      /\ \A i \in 1..Len(s) - 1 : Tail(s)[i] = s[i+1]
  BY HeadTailProperties, LenProperties
<1> QED
  BY <1>1, EmptySeq

LEMMA OnwardTail ==
  ASSUME NEW s \in Seq(Calls), s # <<>>
  PROVE  /\ Plain(s) => Plain(Tail(s))
         /\ Onward(s) => Onward(Tail(s))
         /\ Plain(s) \/ Onward(s) => (Head(s).op = "post" => Head(s).arg \notin Service)
         /\ Onward(s) => Head(s).op \notin {"set_noconn", "shutdown", "set_uninit"}
<1>1. \A i \in 1..Len(Tail(s)) : i + 1 \in 1..Len(s) /\ Tail(s)[i] = s[i+1]
  BY TailFacts
<1>2. 1 \in 1..Len(s) /\ Head(s) = s[1]
  BY TailFacts
<1>3. Plain(s) => Plain(Tail(s))
  BY <1>1, TailFacts DEF Plain
<1>4. Onward(s) => Onward(Tail(s))
  BY <1>1 DEF Onward
<1> QED
  BY <1>2, <1>3, <1>4 DEF Plain, Onward

LEMMA PausesTail ==
  ASSUME NEW s \in Seq(Calls), s # <<>>, Pauses(s)
  PROVE  /\ Head(s).op \in {"set_noconn", "set_cmd", "reset", "shutdown", "set_uninit"}
         /\ Head(s).op = "shutdown" <=> Len(s) = 2
         /\ Head(s).op = "set_uninit" <=> Len(s) = 1
         /\ Len(s) > 1 => Pauses(Tail(s))
         /\ \A i \in 1..Len(s) : s[i].op \notin {"connect", "set_requesting"}
<1> DEFINE n == Len(s)
           r == Tail(s)
<1>1. /\ n \in Nat /\ n >= 1 /\ Len(r) = n - 1 /\ Head(s) = s[1]
      /\ \A i \in 1..n-1 : r[i] = s[i+1]
  BY TailFacts
<1>2. s[n].op = "set_uninit"
      /\ \A i \in 1..n-1 :
           /\ s[i].op \in {"set_noconn", "set_cmd", "reset", "shutdown"}
           /\ s[i].op = "shutdown" <=> i = n - 1
  BY DEF Pauses
<1> HIDE DEF n, r
<1>3. CASE n = 1
  BY <1>1, <1>2, <1>3 DEF n
<1>4. CASE n > 1
  <2>1. 1 \in 1..n-1 /\ (1 = n - 1 <=> n = 2)
    BY <1>1, <1>4
  <2>2. r[n-1].op = "set_uninit" /\ r # <<>>
    <3>1. n - 1 \in 1..n-1 /\ (n - 1) + 1 = n
      BY <1>1, <1>4
    <3>2. r # <<>>
      BY <1>1, <1>4
    <3> QED
      BY <1>1, <1>2, <3>1, <3>2
  <2>3. ASSUME NEW i \in 1..(n-1)-1
        PROVE  /\ r[i].op \in {"set_noconn", "set_cmd", "reset", "shutdown"}
               /\ r[i].op = "shutdown" <=> i = (n - 1) - 1
    <3>1. i + 1 \in 1..n-1 /\ i \in 1..n-1 /\ (i + 1 = n - 1 <=> i = (n - 1) - 1)
      BY <1>1
    <3> QED
      BY <1>1, <1>2, <3>1
  <2>4. Pauses(r)
    BY <1>1, <2>2, <2>3 DEF Pauses
  <2>5. \A i \in 1..n : i = n \/ i \in 1..n-1
    BY <1>1
  <2> QED
    BY <1>1, <1>2, <1>4, <2>1, <2>4, <2>5 DEF n, r
<1> QED
  BY <1>1, <1>3, <1>4

LEMMA PausesCases ==
  ASSUME NEW s \in Seq(Calls), s # <<>>, Pauses(s)
  PROVE  \/ /\ Head(s).op \in {"set_noconn", "set_cmd", "reset"}
            /\ Pauses(Tail(s)) /\ Len(s) # 1 /\ Len(Tail(s)) # 1
         \/ /\ Head(s).op = "shutdown"
            /\ Pauses(Tail(s)) /\ Len(s) = 2 /\ Len(Tail(s)) = 1
         \/ /\ Head(s).op = "set_uninit"
            /\ Tail(s) = <<>> /\ Len(s) = 1
<1> DEFINE n == Len(s)
           m == Len(Tail(s))
<1>1. n \in Nat /\ n >= 1 /\ m = n - 1 /\ (n = 1 => Tail(s) = <<>>)
  BY TailFacts
<1>2. /\ Head(s).op \in {"set_noconn", "set_cmd", "reset", "shutdown", "set_uninit"}
      /\ Head(s).op = "shutdown" <=> n = 2
      /\ Head(s).op = "set_uninit" <=> n = 1
      /\ n > 1 => Pauses(Tail(s))
  BY PausesTail
<1> HIDE DEF n, m
<1>3. CASE n = 1
  BY <1>1, <1>2, <1>3 DEF n
<1>4. CASE n = 2
  <2>1. m = 1 /\ n > 1
    BY <1>1, <1>4
  <2> QED
    BY <1>2, <1>4, <2>1 DEF n, m
<1>5. CASE n # 1 /\ n # 2
  <2>1. m # 1 /\ n > 1
    BY <1>1, <1>5
  <2> QED
    BY <1>2, <1>5, <2>1 DEF n, m
<1> QED
  BY <1>3, <1>4, <1>5

LEMMA DueTail ==
  ASSUME Work \in Seq(Calls), Work # <<>>, Work' = Tail(Work)
  PROVE  /\ Due("connect")' => Due("connect")
         /\ Due("set_requesting")' => Due("set_requesting")
         /\ Head(Work).op # "set_requesting" =>
              (Due("set_requesting") => Due("set_requesting")')
         /\ Due(Head(Work).op)
<1>1. /\ Len(Work') = Len(Work) - 1 /\ Len(Work) \in Nat /\ Len(Work) >= 1
      /\ Head(Work) = Work[1]
      /\ \A i \in 1..Len(Work) - 1 : Work'[i] = Work[i+1]
  BY TailFacts
<1>2. ASSUME NEW i \in 1..Len(Work')
      PROVE  i + 1 \in 1..Len(Work) /\ Work'[i] = Work[i+1]
  BY <1>1
<1>3. ASSUME NEW i \in 1..Len(Work), i # 1
      PROVE  i - 1 \in 1..Len(Work') /\ Work'[i-1] = Work[i]
  <2>1. i - 1 \in 1..Len(Work) - 1 /\ (i - 1) + 1 = i
    BY <1>1, <1>3
  <2> QED
    BY <1>1, <2>1
<1>4. 1 \in 1..Len(Work)
  BY <1>1
<1> QED
  BY <1>1, <1>2, <1>3, <1>4 DEF Due

LEMMA PostsAreNot ==
  ASSUME Work = <<PauseFormer, StartChosen>> \/ Work = <<StartChosen>>
  PROVE  /\ ~Onward(Work) /\ ~Pauses(Work)
         /\ Work # <<>> /\ Head(Work).op = "post" /\ Head(Work).arg \in Service
         /\ ~Due("connect") /\ ~Due("set_requesting")
<1>1. CASE Work = <<PauseFormer, StartChosen>>
  <2>1. /\ Len(Work) = 2 /\ Work[1] = PauseFormer /\ Work[2] = StartChosen
        /\ 1 \in 1..Len(Work) /\ Head(Work) = PauseFormer /\ Work # <<>>
    BY <1>1
  <2> QED
    BY <2>1 DEF PauseFormer, StartChosen, Call, Service, Onward, Pauses, Due
<1>2. CASE Work = <<StartChosen>>
  <2>1. /\ Len(Work) = 1 /\ Work[1] = StartChosen
        /\ 1 \in 1..Len(Work) /\ Head(Work) = StartChosen /\ Work # <<>>
    BY <1>2
  <2> QED
    BY <2>1 DEF StartChosen, Call, Service, Onward, Pauses, Due
<1> QED
  BY <1>1, <1>2

-----------------------------------------------------------------------------
(* Steps that neither start nor pause a transport. *)

LEMMA LeadsOn ==
  ASSUME StateInv, NEW S, NEW T \in SUBSET Bases, Leads(S, queue, T),
         UNCHANGED queue \/ \E e \in Posted : e.id \notin Service /\ Queued(e)
  PROVE  Leads(S, queue', T)
<1>1. ASSUME NEW e \in Posted, e.id \notin Service, Queued(e)
      PROVE  Leads(S, queue', T)
  <2>1. Serves(T, e, T)
    BY <1>1 DEF Serves
  <2>2. queue \in Seq(Posted) /\ queue' = Append(queue, e)
    BY <1>1 DEF StateInv, Queued
  <2> QED
    BY <2>1, <2>2, LeadsAppend
<1> QED
  BY <1>1

LEMMA ComesUp ==
  ASSUME StateInv, ComingUp, UNCHANGED <<power, cur_trt>>,
         UNCHANGED queue
         \/ \E e \in Posted : /\ e.id \in Service => e.base = "NET_TRANSPORT"
                              /\ Queued(e),
         ProgramUp => ProgramUp',
         app_main' \notin {"APPLICATION", "BT_TRANSPORT"} \/ app_main' = app_main
  PROVE  ComingUp'
<1>1. CASE UNCHANGED queue
  BY <1>1 DEF ComingUp
<1>2. ASSUME NEW e \in Posted, e.id \in Service => e.base = "NET_TRANSPORT", Queued(e)
      PROVE  ComingUp'
  <2>1. /\ queue \in Seq(Posted) /\ Len(queue') = Len(queue) + 1
        /\ \A i \in 1..Len(queue) : queue'[i] = queue[i]
        /\ queue'[Len(queue) + 1] = e
    BY <1>2, AppendProperties DEF StateInv, Queued
  <2>2. Len(queue) \in Nat
    BY <2>1, LenProperties
  <2>3. \A i \in 1..Len(queue') : i = Len(queue) + 1 \/ i \in 1..Len(queue)
    BY <2>1, <2>2
  <2> QED
    BY <1>2, <2>1, <2>3 DEF ComingUp
<1> QED
  BY <1>1, <1>2

LEMMA NetStays ==
  ASSUME TodoInv, NetInv, UNCHANGED <<net_state, wifi, power>>,
         \/ Work' = Work
         \/ /\ Work # <<>> /\ Work' = Tail(Work)
            /\ \/ Onward(Work) /\ Head(Work).op # "set_requesting"
               \/ Pauses(Work) /\ Head(Work).op \notin {"shutdown", "set_uninit"}
  PROVE  NetInv' /\ Running' = Running /\ Now' = Now
<1>1. Running' = Running /\ Work \in Seq(Calls)
  BY DEF Running, TodoInv, Work, Threads
<1>2. CASE Work' = Work
  BY <1>1, <1>2 DEF NetInv, Now, Due
<1>3. CASE /\ Work # <<>> /\ Work' = Tail(Work)
           /\ Onward(Work) /\ Head(Work).op # "set_requesting"
  <2>1. ~Pauses(Work) /\ ~Pauses(Work')
    BY <1>1, <1>3, OnwardTail, OnwardNotPauses, TailFacts
  <2> QED
    BY <1>1, <1>3, <2>1, DueTail DEF NetInv, Now
<1>4. CASE /\ Work # <<>> /\ Work' = Tail(Work)
           /\ Pauses(Work) /\ Head(Work).op \notin {"shutdown", "set_uninit"}
  <2>1. Pauses(Work') /\ Len(Work') # 1 /\ Len(Work) # 1
    BY <1>1, <1>4, PausesCases
  <2> QED
    BY <1>1, <1>4, <2>1, DueTail DEF NetInv, Now
<1> QED
  BY <1>2, <1>3, <1>4

(* The end of what the event task does for net_transport, and every step   *)
(* that is not its own.                                                    *)
LEMMA OtherSteps ==
  ASSUME StateInv, HandInv, Undisturbed, Plain(todo["bt"])',
         NetInv', Now' = Now, UNCHANGED cur_trt, power' = power,
         UNCHANGED queue \/ \E e \in Posted : e.id \notin Service /\ Queued(e),
         \/ Work' = Work
         \/ /\ Onward(Work) \/ Pauses(Work)
            /\ Onward(Work') \/ Pauses(Work'),
         app_main' = "up" <=> app_main = "up",
         ProgramUp => ProgramUp',
         app_main' \notin {"APPLICATION", "BT_TRANSPORT"} \/ app_main' = app_main
  PROVE  HandInv'
<1>1. Goal' = Goal /\ Chosen' = Chosen /\ Former' = Former
  BY DEF Goal, Chosen, Former, NextTransport
<1>2. \A T \in SUBSET Bases : Leads(Now, queue, T) => Leads(Now', queue', T)
  BY LeadsOn
<1>3. {Former} \in SUBSET Bases /\ {} \in SUBSET Bases /\ Goal \in SUBSET Bases
  BY TransportFacts
<1>4. Work' = Work => (Onward(Work') <=> Onward(Work)) /\ (Pauses(Work') <=> Pauses(Work))
  OBVIOUS
<1>5. Handing'
  <2>1. CASE (Onward(Work) \/ Pauses(Work)) /\ Leads(Now, queue, Goal)
    <3>1. Leads(Now', queue', Goal')
      BY <1>1, <1>2, <1>3, <2>1
    <3>2. Onward(Work)' \/ Pauses(Work)'
      BY <1>4, <2>1 DEF Onward, Pauses
    <3> QED
      BY <3>1, <3>2 DEF Handing
  <2>2. CASE ~((Onward(Work) \/ Pauses(Work)) /\ Leads(Now, queue, Goal))
    <3>1. \/ Work = <<PauseFormer, StartChosen>> /\ ProgramUp
             /\ Leads(Now, queue, {Former})
          \/ Work = <<StartChosen>> /\ ProgramUp /\ Leads(Now, queue, {})
      BY <2>2 DEF HandInv, Handing
    <3>2. ~Onward(Work) /\ ~Pauses(Work)
      BY <3>1, PostsAreNot
    <3> QED
      BY <1>1, <1>2, <1>3, <3>1, <3>2 DEF Handing, PauseFormer, StartChosen
  <2> QED
    BY <2>1, <2>2
<1>6. ComingUp'
  BY ComesUp DEF HandInv
<1> QED
  BY <1>5, <1>6 DEF HandInv

(* The Bluetooth thread has volumes to post, and nothing else.              *)
LEMMA PacketPlain ==
  ASSUME PacketHandler
  PROVE  UNCHANGED todo \/ \E calls : Plain(calls) /\ Runs("bt", calls)
<1>1. \A id \in {"VOL_DATA", "VOL_DATA_RQ"} : Plain(PostApplication(id))
  BY PlainPosts DEF PostApplication, Bases, Commands, Service
<1>2. \A cfg \in Formats :
        Plain(configure_sink(cfg)) /\ Plain(configure_source(cfg))
  BY PlainConfigure
<1>3. \A cfg \in Formats :
        /\ Plain(configure_sink(cfg) \o PostApplication("VOL_DATA_RQ"))
        /\ Plain(configure_source(cfg) \o configure_sink(cfg)
                 \o PostApplication("VOL_DATA_RQ"))
  BY <1>1, <1>2, PlainConcat
<1>4. CASE SlcEstablished \/ StreamEstablished
  BY <1>1, <1>4 DEF SlcEstablished, StreamEstablished
<1>5. CASE VolumeReceived \/ VolumeChanged
  BY <1>1, <1>5 DEF VolumeReceived, VolumeChanged
<1>6. CASE SlcReleased \/ StreamStarted \/ StreamStopped
  BY <1>6 DEF SlcReleased, StreamStarted, StreamStopped
<1>7. CASE SbcConfiguration
  BY <1>2, <1>7 DEF SbcConfiguration, Formats
<1>8. CASE AudioReleased
  BY <1>3, <1>8 DEF AudioReleased, Formats
<1>9. CASE \E codec \in Codecs : AudioEstablished(codec)
  BY <1>3, <1>9 DEF AudioEstablished, set_codec, Formats
<1> QED
  BY <1>4, <1>5, <1>6, <1>7, <1>8, <1>9 DEF PacketHandler

(* What a return does to the calls of a thread. *)
LEMMA ReturnCalls ==
  ASSUME TodoInv, NEW t \in {"event", "bt"}, todo[t] # <<>>, Returns(t)
  PROVE  /\ todo[t] \in Seq(Calls) /\ todo'[t] = Tail(todo[t])
         /\ \A u \in {"event", "bt"} \ {t} : todo'[u] = todo[u]
  BY DEF TodoInv, Returns, Runs, Threads

LEMMA RunCalls ==
  ASSUME TodoInv, NEW t \in {"event", "bt"}, NEW calls, Runs(t, calls)
  PROVE  /\ todo'[t] = calls
         /\ \A u \in {"event", "bt"} \ {t} : todo'[u] = todo[u]
  BY DEF TodoInv, Runs, Threads

LEMMA ReconfigureCalls ==
  ASSUME TodoInv, NEW t \in {"event", "bt"}, Reconfigure(t)
  PROVE  /\ todo[t] # <<>> /\ todo[t] \in Seq(Calls)
         /\ Head(todo[t]).op \notin NetOps \cup {"post"}
         /\ UNCHANGED todo \/ Returns(t)
  BY DEF TodoInv, Threads, Reconfigure, Disable, ReconfigSlot, ReconfigClock, Enable,
         Accesses, At, NetOps

LEMMA BtPlain ==
  ASSUME TodoInv, StateInv, Plain(todo["bt"]), [Next]_vars
  PROVE  Plain(todo["bt"])'
<1>1. CASE UNCHANGED todo
  BY <1>1 DEF Plain
<1>2. CASE todo'["bt"] = todo["bt"]
  BY <1>2 DEF Plain
<1>3. CASE todo["bt"] # <<>> /\ Returns("bt")
  BY <1>3, ReturnCalls, OnwardTail DEF Plain
<1>4. ASSUME NEW calls, Plain(calls), Runs("bt", calls)
      PROVE  Plain(todo["bt"])'
  BY <1>4, RunCalls DEF Plain
<1>5. CASE BtPacket
  BY <1>1, <1>4, <1>5, PacketPlain DEF BtPacket
<1>6. CASE Reconfigure("event") \/ PostFromHandler \/ NetCalls
  <2>1. UNCHANGED todo \/ (todo["event"] # <<>> /\ Returns("event"))
    BY <1>6, ReconfigureCalls
       DEF PostFromHandler, At, NetCalls, ConnectReturns, SenderReturns,
           SwitchReceiver, Shutdown, SetState, NetReturns
  <2> QED
    BY <1>1, <1>2, <2>1, ReturnCalls
<1>7. CASE Dispatch
  <2>1. UNCHANGED todo \/ \E calls : Runs("event", calls)
    BY <1>7 DEF Dispatch, main_event_cb, net_event_cb, bt_stack_event_handler
  <2> QED
    BY <1>1, <1>2, <2>1, RunCalls
<1>8. CASE Reconfigure("bt") \/ PostFromBt
  <2>1. UNCHANGED todo \/ (todo["bt"] # <<>> /\ Returns("bt"))
    BY <1>8, ReconfigureCalls DEF PostFromBt, At
  <2> QED
    BY <1>1, <1>3, <2>1
<1> QED
  BY <1>1, <1>5, <1>6, <1>7, <1>8
     DEF Next, AppMain, SetListener, LoadTransport, PostStart, btn_isr_handler,
         EventTask, BtThread, StackReady, vars, NetPacket, ReceiveTask, RecvTop,
         ReceivePacket, StoreState, ReconnectRefused

(* app_main posts the start of the network. *)
LEMMA PostStartHands ==
  ASSUME TodoInv, StateInv, HandInv, Undisturbed, PostStart, Plain(todo["bt"])'
  PROVE  HandInv' /\ Running' = Running
<1> DEFINE e == Event(app_main, "SVC_START", "APPLICATION")
<1>1. /\ app_main \in Bases /\ app_main' = "up" /\ Queued(e) /\ app_main # "up"
      /\ UNCHANGED <<todo, net_state, wifi, power, cur_trt, stack_ready>>
  BY DEF PostStart, PostWaiting, btVars, netVars, Bases
<1>2. cur_trt = 1 /\ app_main = "NET_TRANSPORT" /\ ~ProgramUp
  BY <1>1 DEF HandInv, ComingUp, ProgramUp, Bases
<1>3. e \in Posted /\ e.id = "SVC_START" /\ e.base = "NET_TRANSPORT"
  BY <1>1, <1>2, PostedEvent DEF Event, Bases, Commands
<1>4. Work' = Work /\ NetInv' /\ Running' = Running /\ Now' = Now
  <2>1. Work' = Work
    BY <1>1 DEF Work
  <2> QED
    BY <1>1, <2>1, NetStays DEF HandInv
<1>5. (Onward(Work) \/ Pauses(Work)) /\ Leads(Now, queue, {})
  BY <1>1, <1>2 DEF HandInv, Handing, Goal
<1>6. Serves({}, e, {"NET_TRANSPORT"}) /\ {"NET_TRANSPORT"} \in SUBSET Bases
  BY <1>3 DEF Serves, Bases
<1>7. Leads(Now, queue', {"NET_TRANSPORT"})
  BY <1>1, <1>3, <1>5, <1>6, LeadsAppend DEF StateInv, Queued
<1>8. Goal' = {"NET_TRANSPORT"}
  BY <1>1, <1>2 DEF Goal, Chosen, trts
<1>9. Handing'
  BY <1>4, <1>5, <1>7, <1>8 DEF Handing, Onward, Pauses
<1>10. ComingUp'
  BY <1>1, <1>2, <1>3, ComesUp DEF HandInv, ProgramUp
<1> QED
  BY <1>4, <1>9, <1>10 DEF HandInv

(* A post of the event task.  The switch posts its two, one after the       *)
(* other; one that finds no room is lost.                                  *)
LEMMA HandlerPosts ==
  ASSUME TodoInv, StateInv, HandInv, Undisturbed, Undisturbed', PostFromHandler,
         Plain(todo["bt"])'
  PROVE  HandInv' /\ Running' = Running
<1> DEFINE c == Current("event")
           e == Event(c.on, c.arg, "APPLICATION")
<1>1. /\ Work # <<>> /\ c.op = "post" /\ c = Head(Work)
      /\ Work \in Seq(Calls) /\ Work' = Tail(Work)
      /\ c.on \in Bases /\ c.arg \in Commands
      /\ UNCHANGED <<net_state, wifi, power, cur_trt, app_main, stack_ready, early>>
  BY AtPost, ReturnCalls
     DEF PostFromHandler, At, Current, Work, Threads, mainVars, btVars, netVars
<1>2. e \in Posted /\ e.base = c.on /\ e.id = c.arg
  BY <1>1, PostedEvent DEF Event, Bases
<1>3. PostOwn(e)
  BY DEF PostFromHandler
<1> HIDE DEF c, e
<1>4. \/ ~lost /\ Queued(e)
      \/ ~lost /\ UNCHANGED queue /\ e.id \notin Service
  BY <1>3 DEF PostOwn, PostWaiting, Service, Undisturbed
<1>5. ~Pauses(Work)
  BY <1>1, PausesTail
<1>6. CASE Onward(Work)
  <2>1. e.id \notin Service /\ Onward(Work')
    BY <1>1, <1>2, <1>6, OnwardTail
  <2>2. NetInv' /\ Running' = Running /\ Now' = Now
    BY <1>1, <1>6, NetStays DEF HandInv
  <2> QED
    BY <1>1, <1>2, <1>4, <1>6, <2>1, <2>2, OtherSteps DEF ProgramUp
<1>7. CASE ~Onward(Work)
  <2>1. Running' = Running /\ Former' = Former /\ Chosen' = Chosen
        /\ ProgramUp' = ProgramUp /\ Now = Running
    BY <1>1, <1>5 DEF Running, Former, Chosen, NextTransport, ProgramUp, Now
  <2>2. Chosen \in Bases \ {"APPLICATION"} /\ Former \in Bases \ {"APPLICATION"}
    BY TransportFacts
  <2>3. CASE Work = <<PauseFormer, StartChosen>> /\ ProgramUp
             /\ Leads(Now, queue, {Former})
    <3>1. /\ c = PauseFormer /\ Work' = <<StartChosen>>
          /\ e.id = "SVC_PAUSE" /\ e.base = Former
      BY <1>1, <1>2, <2>3 DEF PauseFormer, Call
    <3>2. Serves({Former}, e, {})
      BY <2>2, <3>1 DEF Serves
    <3>3. Work' = <<StartChosen>>'
      BY <2>1, <3>1 DEF StartChosen
    <3>4. ~Pauses(Work') /\ ~Due("connect")' /\ ~Due("set_requesting")'
      <4>1. Len(Work') = 1 /\ Work'[1].op = "post"
        BY <3>1 DEF StartChosen, Call
      <4> QED
        BY <4>1 DEF Pauses, Due
    <3>5. NetInv' /\ Now' = Now
      <4>1. ~Due("connect") /\ ~Due("set_requesting")
        BY <2>3, PostsAreNot
      <4> QED
        BY <1>1, <1>5, <2>1, <3>4, <4>1 DEF HandInv, NetInv, Now, Pauses
    <3>6. Leads(Now', queue', {})
      <4>1. Queued(e)
        BY <1>4, <3>1 DEF Service
      <4> QED
        BY <1>2, <2>3, <3>2, <3>5, <4>1, LeadsAppend DEF StateInv, Queued
    <3>7. Handing'
      BY <2>1, <2>3, <3>3, <3>6 DEF Handing
    <3> QED
      BY <2>1, <2>3, <3>5, <3>7 DEF HandInv, ComingUp
  <2>4. CASE Work = <<StartChosen>> /\ ProgramUp /\ Leads(Now, queue, {})
    <3>1. /\ c = StartChosen /\ Work' = <<>>
          /\ e.id = "SVC_START" /\ e.base = Chosen
      BY <1>1, <1>2, <2>4 DEF StartChosen, Call
    <3>2. Onward(Work') /\ ~Pauses(Work') /\ ~Due("connect")' /\ ~Due("set_requesting")'
      BY <3>1 DEF Onward, Pauses, Due
    <3>3. NetInv' /\ Now' = Now
      <4>1. ~Due("connect") /\ ~Due("set_requesting")
        BY <2>4, PostsAreNot
      <4> QED
        BY <1>1, <1>5, <2>1, <3>2, <4>1 DEF HandInv, NetInv, Now, Pauses
    <3>4. Serves({}, e, {Chosen}) /\ Goal' = {Chosen}
      BY <1>1, <2>1, <2>2, <2>4, <3>1 DEF Serves, Goal, ProgramUp
    <3>5. Leads(Now', queue', Goal')
      <4>1. Queued(e)
        BY <1>4, <3>1 DEF Service
      <4> QED
        BY <1>2, <2>2, <2>4, <3>3, <3>4, <4>1, LeadsAppend DEF StateInv, Queued
    <3>6. Handing'
      BY <3>2, <3>5 DEF Handing, Onward
    <3> QED
      BY <2>1, <2>4, <3>3, <3>6 DEF HandInv, ComingUp
  <2> QED
    BY <1>5, <1>7, <2>3, <2>4 DEF HandInv, Handing
<1> QED
  BY <1>6, <1>7

(* A call of net_transport returns.  Only shutdown ends what runs.         *)
LEMMA NetCallHands ==
  ASSUME TodoInv, StateInv, HandInv, Undisturbed, Undisturbed', NetCalls,
         UNCHANGED <<streamVars, bridgeVars, btVars, mainVars>>, Plain(todo["bt"])'
  PROVE  HandInv' /\ (Running' = Running \/ Running' = {})
<1>1. /\ Work # <<>> /\ Work \in Seq(Calls) /\ Work' = Tail(Work)
      /\ Head(Work).op \in NetOps
  BY ReturnCalls
     DEF NetCalls, ConnectReturns, SenderReturns, SwitchReceiver, Shutdown,
         SetState, NetReturns, At, Work, NetOps
<1>2. UNCHANGED <<queue, power, cur_trt, app_main, stack_ready>>
  BY DEF bridgeVars, btVars, mainVars
<1>3. Onward(Work) \/ Pauses(Work)
  BY <1>1, PostsAreNot DEF HandInv, Handing, NetOps
<1>4. NetInv /\ wifi # "down" /\ wifi' # "down"
  BY DEF HandInv, Undisturbed
<1>5. ASSUME NetInv', Now' = Now, Onward(Work') \/ Pauses(Work')
      PROVE  HandInv'
  BY <1>2, <1>3, <1>5, OtherSteps DEF ProgramUp
<1>6. CASE UNCHANGED <<net_state, wifi>> /\ Head(Work).op \notin
             {"set_requesting", "shutdown", "set_uninit"}
  <2>1. NetInv' /\ Running' = Running /\ Now' = Now
    BY <1>1, <1>2, <1>3, <1>4, <1>6, NetStays
  <2>2. Onward(Work') \/ Pauses(Work')
    <3>1. CASE Pauses(Work)
      BY <1>1, <1>6, <3>1, PausesCases
    <3>2. CASE Onward(Work)
      BY <1>1, <3>2, OnwardTail
    <3> QED
      BY <1>3, <3>1, <3>2
  <2> QED
    BY <1>5, <2>1, <2>2
<1>7. CASE ConnectReturns \/ (NetReturns("set_requesting") /\ SetState)
  <2>1. /\ Head(Work).op \in {"connect", "set_requesting"}
        /\ Head(Work).op = "connect" =>
             wifi' \in {"up", "failed"} /\ UNCHANGED net_state
        /\ Head(Work).op = "set_requesting" =>
             net_state' = "CL_REQUESTING" /\ UNCHANGED wifi
    BY <1>7 DEF ConnectReturns, SetState, NetReturns, At, Work
  <2>2. Onward(Work)
    BY <1>1, <1>3, <2>1, PausesTail
  <2>3. Onward(Work') /\ ~Pauses(Work') /\ ~Pauses(Work)
    BY <1>1, <2>2, OnwardTail, OnwardNotPauses, TailFacts
  <2>4. wifi # "off" /\ wifi' # "off"
    <3>1. Due("connect") \/ Due("set_requesting")
      BY <1>1, <2>1, DueTail
    <3> QED
      BY <1>4, <2>1, <3>1 DEF NetInv
  <2>5. net_state' # "CL_UNINIT" \/ Due("set_requesting")'
    BY <1>1, <1>4, <2>1, <2>3, <2>4, DueTail DEF NetInv
  <2>6. NetInv'
    BY <2>3, <2>4, <2>5 DEF NetInv
  <2>7. Running' = Running /\ Now' = Now
    BY <1>2, <1>4, <2>3, <2>4 DEF Running, Now
  <2> QED
    BY <1>5, <2>3, <2>6, <2>7
<1>8. CASE Shutdown
  <2>1. /\ Head(Work).op = "shutdown" /\ UNCHANGED net_state
        /\ wifi' = "off"
    BY <1>4, <1>8 DEF Shutdown, NetReturns, At, Work
  <2>2. Pauses(Work)
    BY <1>1, <1>3, <2>1, OnwardTail
  <2>3. /\ Len(Work) = 2 /\ Pauses(Work') /\ Len(Work') = 1
        /\ ~Due("connect")' /\ ~Due("set_requesting")'
    <3>1. Len(Work) = 2 /\ Pauses(Work') /\ Len(Work') = 1
      BY <1>1, <2>1, <2>2, PausesCases
    <3>2. ~Due("connect") /\ ~Due("set_requesting")
      BY <1>1, <2>2, PausesTail DEF Due
    <3> QED
      BY <1>1, <3>1, <3>2, DueTail
  <2>4. NetInv'
    BY <1>2, <1>4, <2>1, <2>2, <2>3 DEF NetInv
  <2>5. Running' = {} /\ Now' = Now
    BY <1>2, <1>4, <2>1, <2>2, <2>3 DEF NetInv, Running, Now
  <2> QED
    BY <1>5, <2>3, <2>4, <2>5
<1>9. CASE SetState /\ (NetReturns("set_noconn") \/ NetReturns("set_uninit"))
  <2>1. /\ Head(Work).op \in {"set_noconn", "set_uninit"} /\ UNCHANGED wifi
        /\ Head(Work).op = "set_uninit" => net_state' = "CL_UNINIT"
    BY <1>9 DEF SetState, NetReturns, At, Work
  <2>2. Pauses(Work)
    BY <1>1, <1>3, <2>1, OnwardTail
  <2>3. Running' = Running
    BY <1>2, <2>1 DEF Running
  <2>4. ~Due("connect")' /\ ~Due("set_requesting")'
    <3>1. ~Due("connect") /\ ~Due("set_requesting")
      BY <1>1, <2>2, PausesTail DEF Due
    <3> QED
      BY <1>1, <3>1, DueTail
  <2>5. CASE Head(Work).op = "set_noconn"
    <3>1. Pauses(Work') /\ Len(Work') # 1 /\ Len(Work) # 1
      BY <1>1, <2>2, <2>5, PausesCases
    <3>2. NetInv'
      BY <1>2, <1>4, <2>1, <2>2, <2>4, <3>1 DEF NetInv
    <3>3. Now' = Now
      BY <2>2, <2>3, <3>1 DEF Now
    <3> QED
      BY <1>5, <2>3, <3>1, <3>2, <3>3
  <2>6. CASE Head(Work).op = "set_uninit"
    <3>1. Len(Work) = 1 /\ Work' = <<>> /\ wifi = "off" /\ ~power
      BY <1>1, <1>4, <2>2, <2>6, PausesCases DEF NetInv
    <3>2. ~Pauses(Work') /\ Onward(Work')
      BY <3>1 DEF Pauses, Onward
    <3>3. NetInv'
      BY <2>1, <2>4, <2>6, <3>1, <3>2 DEF NetInv
    <3>4. Now' = Now
      BY <2>2, <2>3, <3>1, <3>2 DEF Now, Running
    <3> QED
      BY <1>5, <2>3, <3>2, <3>3, <3>4
  <2> QED
    BY <2>1, <2>5, <2>6
<1>10. CASE SenderReturns \/ SwitchReceiver
  <2>1. UNCHANGED <<net_state, wifi>> /\ Head(Work).op \in
          {"set_endpoint", "set_cmd", "receiver_start", "reset"}
    BY <1>10 DEF SenderReturns, SwitchReceiver, NetReturns, At, Work, netVars
  <2> QED
    BY <1>6, <2>1
<1> QED
  BY <1>7, <1>8, <1>9, <1>10 DEF NetCalls, SetState

(* The receive task and the driver: what the task stores it stores into a  *)
(* service that runs, or the service is revived.                           *)
LEMMA NetPacketHands ==
  ASSUME TodoInv, StateInv, HandInv, Undisturbed, Undisturbed', NetPacket,
         Plain(todo["bt"])'
  PROVE  HandInv' /\ Running' = Running
<1>1. /\ UNCHANGED <<todo, queue, power, cur_trt, app_main, stack_ready>>
      /\ Work' = Work
  BY DEF NetPacket, ReceiveTask, RecvTop, ReceivePacket, StoreState, ReconnectRefused,
         bridgeVars, btVars, mainVars, Work
<1>2. NetInv' /\ Running' = Running /\ Now' = Now
  <2>1. CASE RecvTop \/ ReceivePacket
    <3>1. UNCHANGED <<net_state, wifi>>
      BY <2>1 DEF RecvTop, ReceivePacket
    <3> QED
      BY <1>1, <3>1, NetStays DEF HandInv
  <2>2. CASE StoreState
    <3>1. /\ UNCHANGED wifi /\ net_state' \in {"CL_REQUESTING", "CL_CONNECTED"}
          /\ ~(net_state = "CL_UNINIT" /\ wifi = "off")
      BY <2>2 DEF StoreState, Undisturbed
    <3>2. NetInv'
      BY <1>1, <3>1 DEF HandInv, NetInv, Due
    <3> QED
      BY <1>1, <3>1, <3>2 DEF Running, Now
  <2>3. ~ReconnectRefused
    BY DEF ReconnectRefused, Undisturbed
  <2> QED
    BY <2>1, <2>2, <2>3 DEF NetPacket, ReceiveTask
<1> QED
  BY <1>1, <1>2, OtherSteps DEF ProgramUp

-----------------------------------------------------------------------------
(* The event loop serves an event. *)

HandsOver ==
  \/ Running' = Running \/ Running' = {}
  \/ Running = {} /\ \E i \in 1..trt_count : Running' = {trts[i]}

LEMMA Resting ==
  ASSUME Work = <<>>
  PROVE  /\ Onward(Work) /\ ~Pauses(Work) /\ Now = Running
         /\ ~Due("connect") /\ ~Due("set_requesting")
  BY DEF Onward, Pauses, Now, Due

(* What is known when the loop takes the head of the queue. *)
LEMMA Served ==
  ASSUME StateInv, HandInv, Undisturbed, Dispatch
  PROVE  /\ Work = <<>> /\ Now = Running
         /\ Head(queue) \in Posted /\ queue' = Tail(queue)
         /\ \E R \in SUBSET Bases : /\ Serves(Running, Head(queue), R)
                                    /\ Leads(R, queue', Goal)
<1>1. queue # <<>> /\ queue' = Tail(queue) /\ Work = <<>>
  BY DEF Dispatch, Idle, Work
<1>2. queue \in Seq(Posted) /\ Head(queue) \in Posted
  BY <1>1, HeadTailProperties DEF StateInv
<1>3. Now = Running
  BY <1>1, Resting
<1>4. Leads(Running, queue, Goal)
  BY <1>1, <1>3, PostsAreNot DEF HandInv, Handing
<1> QED
  BY <1>1, <1>2, <1>3, <1>4, LeadsTail

LEMMA TailComesUp ==
  ASSUME StateInv, HandInv, Undisturbed, Dispatch,
         ~ProgramUp => UNCHANGED <<power, cur_trt>>,
         UNCHANGED <<app_main, stack_ready>>
  PROVE  ComingUp'
<1>1. queue \in Seq(Posted) /\ queue # <<>> /\ queue' = Tail(queue)
  BY DEF StateInv, Dispatch
<1>2. Len(queue') = Len(queue) - 1 /\ Len(queue) \in Nat
      /\ \A i \in 1..Len(queue') : queue'[i] = queue[i+1]
  BY <1>1, HeadTailProperties, LenProperties
<1>3. \A i \in 1..Len(queue') : i + 1 \in 1..Len(queue)
  BY <1>2
<1> QED
  BY <1>2, <1>3 DEF HandInv, ComingUp, ProgramUp

(* As long as the network is left alone. *)
LEMMA RestingNet ==
  ASSUME NetInv, Work = <<>>, UNCHANGED <<net_state, wifi>>,
         ~Pauses(Work'), ~Due("connect")', ~Due("set_requesting")'
  PROVE  NetInv' /\ Now' = Running'
  BY Resting DEF NetInv, Now

(* main_event_cb, or nobody: no transport is started or paused yet.         *)
LEMMA ApplicationHands ==
  ASSUME TodoInv, StateInv, HandInv, Undisturbed, Undisturbed', Dispatch,
         Head(queue).base = "APPLICATION", Plain(todo["bt"])'
  PROVE  HandInv' /\ Running' = Running
<1> DEFINE e == Head(queue)
<1>1. /\ Work = <<>> /\ Now = Running
      /\ e \in Posted
      /\ Leads(Running, queue', Goal)
  BY Served DEF Serves
<1>2. UNCHANGED <<net_state, wifi, power, app_main, stack_ready, lost>>
  BY DEF Dispatch, btVars
<1>3. Running' = Running /\ NetInv
  BY <1>2 DEF Running, HandInv
<1>4. CASE UNCHANGED <<todo, cur_trt>>
  <2>1. Work' = Work /\ Goal' = Goal
    BY <1>2, <1>4 DEF Work, Goal, Chosen
  <2>2. NetInv' /\ Now' = Running'
    BY <1>1, <1>2, <1>3, <2>1, Resting, RestingNet DEF Pauses, Due
  <2>3. Handing'
    BY <1>1, <1>3, <2>1, <2>2 DEF Handing, Onward
  <2> QED
    BY <1>2, <1>3, <1>4, <2>2, <2>3, TailComesUp DEF HandInv
<1>5. CASE e.id = "VOL_DATA_RQ" /\ main_event_cb(e)
  <2> DEFINE calls == <<Call("post", e.from, "VOL_DATA"),
                        Call("post", e.from, "VOL_DATA")>>
  <2>1. Runs("event", calls) /\ UNCHANGED cur_trt
    BY <1>5 DEF main_event_cb
  <2>2. e.from \in Bases /\ "VOL_DATA" \in Commands \ Service
    BY <1>1, <1>5 DEF Posted, Commands, Service
  <2>3. Plain(calls)
    BY <2>2, PlainPosts
  <2> HIDE DEF calls
  <2>4. Work' = calls /\ Goal' = Goal
    BY <1>2, <2>1, RunCalls DEF Work, Goal, Chosen
  <2>5. Onward(Work') /\ ~Pauses(Work') /\ ~Due("connect")' /\ ~Due("set_requesting")'
    <3>1. Onward(calls) /\ ~Pauses(calls)
      BY <2>3, PlainOnward, OnwardNotPauses DEF Plain
    <3>2. \A i \in 1..Len(Work') : Work'[i].op \notin {"connect", "set_requesting"}
      BY <2>3, <2>4 DEF Plain, NetOps
    <3> QED
      BY <2>4, <3>1, <3>2 DEF Due
  <2>6. NetInv' /\ Now' = Running'
    BY <1>1, <1>2, <1>3, <2>5, RestingNet
  <2>7. Handing'
    BY <1>1, <1>3, <2>4, <2>5, <2>6 DEF Handing, Onward
  <2> QED
    BY <1>2, <1>3, <2>1, <2>6, <2>7, TailComesUp DEF HandInv
<1>6. CASE e.id = "CTL_SWITCH_SVC" /\ main_event_cb(e)
  <2>1. /\ Runs("event", <<Call("post", trts[cur_trt], "SVC_PAUSE"),
                           Call("post", trts[NextTransport], "SVC_START")>>)
        /\ cur_trt' = NextTransport
        /\ ProgramUp
    BY <1>6 DEF main_event_cb, Undisturbed
  <2>2. Former' = Chosen /\ Chosen' = Former /\ ProgramUp'
    BY <1>2, <2>1, Transports
       DEF StateInv, Former, Chosen, NextTransport, ProgramUp
  <2>3. Work' = <<PauseFormer, StartChosen>>'
    BY <2>1, <2>2, RunCalls DEF Work, PauseFormer, StartChosen, Chosen, Former
  <2>4. ~Pauses(Work') /\ ~Due("connect")' /\ ~Due("set_requesting")'
    <3>1. /\ Len(Work') = 2 /\ Work'[1].op = "post" /\ Work'[2].op = "post"
      BY <2>3 DEF PauseFormer, StartChosen, Call
    <3> QED
      BY <3>1 DEF Pauses, Due
  <2>5. NetInv' /\ Now' = Running'
    BY <1>1, <1>2, <1>3, <2>4, RestingNet
  <2>6. Goal = {Former'}
    BY <2>1, <2>2 DEF Goal, ProgramUp
  <2>7. Handing'
    BY <1>1, <1>3, <2>2, <2>3, <2>5, <2>6 DEF Handing
  <2> QED
    BY <1>2, <1>3, <2>1, <2>2, <2>5, <2>7 DEF HandInv, ComingUp
<1> QED
  BY <1>3, <1>4, <1>5, <1>6 DEF Dispatch, main_event_cb

(* event_cb of net_transport: a start finds no state and a pause finds one. *)
LEMMA NetHands ==
  ASSUME TodoInv, StateInv, HandInv, Undisturbed, Dispatch,
         Head(queue).base = "NET_TRANSPORT", Plain(todo["bt"])'
  PROVE  HandInv' /\ HandsOver
<1> DEFINE e == Head(queue)
<1>1. PICK R \in SUBSET Bases : Serves(Running, e, R) /\ Leads(R, queue', Goal)
  BY Served
<1>2. Work = <<>> /\ Now = Running /\ ~Due("set_requesting")
      /\ NetInv /\ ~Pauses(Work) /\ wifi # "down"
  BY Served, Resting DEF HandInv, Undisturbed
<1>3. /\ net_event_cb(e)
      /\ UNCHANGED <<power, app_main, stack_ready, lost, cur_trt, early, net_state>>
  BY DEF Dispatch, btVars
<1>4. Goal' = Goal
  BY <1>3 DEF Goal, Chosen
<1>5. ComingUp'
  BY <1>3, TailComesUp
<1>6. CASE e.id = "SVC_START"
  <2>1. Running = {} /\ R = {"NET_TRANSPORT"}
    BY <1>1, <1>6 DEF Serves, Service
  <2>2. wifi = "off" /\ ~power
    BY <1>2, <2>1 DEF Running
  <2>3. net_state = "CL_UNINIT"
    BY <1>2, <2>2 DEF NetInv
  <2>4. Runs("event", StartCalls) /\ wifi' = "trying"
    BY <1>3, <1>6, <2>3 DEF net_event_cb
  <2>5. Work' = StartCalls
    BY <2>4, RunCalls DEF Work
  <2>6. Onward(Work') /\ ~Pauses(Work') /\ Due("set_requesting")'
    BY <2>5, OnwardStart, OnwardNotPauses DEF Due
  <2>7. NetInv'
    BY <2>4, <2>6 DEF NetInv
  <2>8. Running' = {"NET_TRANSPORT"} /\ Now' = {"NET_TRANSPORT"}
    BY <1>3, <2>2, <2>4, <2>6 DEF Running, Now
  <2>9. Handing'
    BY <1>1, <1>4, <2>1, <2>6, <2>8 DEF Handing, Onward
  <2>10. HandsOver
    <3>1. 1 \in 1..trt_count /\ trts[1] = "NET_TRANSPORT"
      BY Transports DEF trts
    <3> QED
      BY <2>1, <2>8, <3>1 DEF HandsOver
  <2> QED
    BY <1>5, <2>7, <2>9, <2>10 DEF HandInv
<1>7. CASE e.id = "SVC_PAUSE"
  <2>1. Running = {"NET_TRANSPORT"} /\ R = {}
    BY <1>1, <1>7 DEF Serves, Service
  <2>2. wifi # "off" /\ ~power
    BY <2>1 DEF Running
  <2>3. net_state # "CL_UNINIT"
    BY <1>2, <2>2 DEF NetInv
  <2>4. Runs("event", PauseCalls) /\ UNCHANGED wifi
    BY <1>3, <1>7, <2>3 DEF net_event_cb
  <2>5. Work' = PauseCalls
    BY <2>4, RunCalls DEF Work
  <2>6. /\ Pauses(Work') /\ Len(Work') # 1
        /\ ~Due("connect")' /\ ~Due("set_requesting")'
    <3>1. Pauses(PauseCalls) /\ Len(PauseCalls) # 1 /\ PauseCalls # <<>>
      <4>1. Pauses(PauseCalls) /\ Len(PauseCalls) > 1
        BY PausesPause
      <4> QED
        BY <4>1 DEF Pauses
    <3>2. \A i \in 1..Len(PauseCalls) :
            PauseCalls[i].op \notin {"connect", "set_requesting"}
      BY <3>1, PausesPause, PausesTail
    <3> QED
      BY <2>5, <3>1, <3>2 DEF Due
  <2>7. NetInv'
    BY <1>3, <2>2, <2>4, <2>6 DEF NetInv
  <2>8. Running' = Running /\ Now' = {}
    BY <1>3, <2>1, <2>4, <2>6 DEF Running, Now
  <2>9. Handing'
    BY <1>1, <1>4, <2>1, <2>6, <2>8 DEF Handing, Pauses
  <2> QED
    BY <1>5, <2>7, <2>8, <2>9 DEF HandInv, HandsOver
<1>8. CASE e.id \notin Service
  <2>1. R = Running /\ UNCHANGED <<todo, wifi>>
    BY <1>1, <1>3, <1>8 DEF Serves, net_event_cb, Service
  <2>2. Work' = Work /\ Running' = Running
    BY <1>3, <2>1 DEF Running, Work
  <2>3. NetInv' /\ Now' = Running'
    BY <1>2, <1>3, <2>1, <2>2, Resting, RestingNet DEF Pauses, Due
  <2>4. Handing'
    BY <1>1, <1>2, <1>4, <2>1, <2>2, <2>3 DEF Handing, Onward
  <2> QED
    BY <1>5, <2>2, <2>3, <2>4 DEF HandInv, HandsOver
<1> QED
  BY <1>6, <1>7, <1>8 DEF Service

LEMMA BtHands ==
  ASSUME TodoInv, StateInv, HandInv, Undisturbed, Dispatch,
         Head(queue).base = "BT_TRANSPORT", Plain(todo["bt"])'
  PROVE  HandInv' /\ HandsOver
<1> DEFINE e == Head(queue)
<1>1. PICK R \in SUBSET Bases : Serves(Running, e, R) /\ Leads(R, queue', Goal)
  BY Served
<1>2. Work = <<>> /\ Now = Running /\ NetInv /\ wifi # "down"
  BY Served DEF HandInv, Undisturbed
<1>3. /\ power' = CASE e.id = "SVC_START" -> TRUE
                    [] e.id = "SVC_PAUSE" -> FALSE
                    [] OTHER -> power
      /\ UNCHANGED <<todo, net_state, wifi, app_main, stack_ready, lost, cur_trt,
                     early>>
  BY DEF Dispatch, bt_stack_event_handler
<1>4. Goal' = Goal /\ Work' = Work
  BY <1>3 DEF Goal, Chosen, Work
<1>5. NetInv' /\ Now' = Running'
  BY <1>2, <1>3, <1>4, Resting, RestingNet DEF Pauses, Due
<1>6. /\ Running' = R
      /\ e.id = "SVC_START" => Running = {} /\ Running' = {"BT_TRANSPORT"}
      /\ e.id = "SVC_PAUSE" => Running' = {}
      /\ e.id \notin Service => Running' = Running
  <2>1. CASE e.id = "SVC_START"
    <3>1. Running = {} /\ R = {"BT_TRANSPORT"} /\ power' = TRUE
      BY <1>1, <1>3, <2>1 DEF Serves, Service
    <3>2. wifi = "off"
      BY <1>2, <3>1 DEF Running
    <3> QED
      BY <1>3, <2>1, <3>1, <3>2 DEF Running, Service
  <2>2. CASE e.id = "SVC_PAUSE"
    <3>1. Running = {"BT_TRANSPORT"} /\ R = {} /\ power' = FALSE
      BY <1>1, <1>3, <2>2 DEF Serves, Service
    <3>2. wifi = "off"
      BY <1>2, <3>1 DEF Running
    <3> QED
      BY <1>3, <2>2, <3>1, <3>2 DEF Running, Service
  <2>3. CASE e.id \notin Service
    <3>1. R = Running /\ power' = power
      BY <1>1, <1>3, <2>3 DEF Serves, Service
    <3> QED
      BY <1>3, <2>3, <3>1 DEF Running, Service
  <2> QED
    BY <2>1, <2>2, <2>3 DEF Service
<1>7. Handing'
  BY <1>1, <1>2, <1>4, <1>5, <1>6 DEF Handing, Onward
<1>8. ComingUp'
  <2>1. CASE ~ProgramUp
    <3>1. queue # <<>> /\ queue \in Seq(Posted)
      BY DEF Dispatch, StateInv
    <3>2. 1 \in 1..Len(queue) /\ e = queue[1]
      BY <3>1
    <3>3. e.id \notin Service
      BY <2>1, <3>2 DEF HandInv, ComingUp
    <3>4. power' = power
      BY <1>3, <3>3 DEF Service
    <3> QED
      BY <1>3, <3>4, TailComesUp
  <2>2. CASE ProgramUp
    BY <1>3, <2>2, TailComesUp
  <2> QED
    BY <2>1, <2>2
<1>9. HandsOver
  <2>1. 2 \in 1..trt_count /\ trts[2] = "BT_TRANSPORT"
    BY Transports DEF trts
  <2> QED
    BY <1>6, <2>1 DEF HandsOver, Service
<1> QED
  BY <1>5, <1>7, <1>8, <1>9 DEF HandInv

-----------------------------------------------------------------------------
(* The other steps, and the invariant. *)

LEMMA NothingUndone ==
  ASSUME FlagInv, [Next]_vars, Undisturbed'
  PROVE  Undisturbed
<1>1. wifi # "down"
  BY DEF Next, Halted, vars, netVars, Undisturbed
<1>2. revived => revived'
  <2>1. CASE StoreState
    BY <2>1 DEF StoreState, FlagInv
  <2>2. CASE ~StoreState
    BY <2>2 DEF Next, AppMain, SetListener, LoadTransport, PostStart,
                btn_isr_handler, EventTask, Dispatch, PostFromHandler, NetCalls,
                ConnectReturns, SenderReturns, SwitchReceiver, Shutdown, SetState,
                BtThread, PostFromBt, BtPacket, NetPacket, ReceiveTask, RecvTop,
                ReceivePacket, ReconnectRefused, vars, netVars, recvVars
  <2> QED
    BY <2>1, <2>2
<1>3. (lost => lost') /\ (early => early')
  <2>1. CASE Dispatch
    <3>1. UNCHANGED lost /\ (UNCHANGED early \/ early' = (early \/ ~ProgramUp))
      BY <2>1 DEF Dispatch, main_event_cb
    <3>2. early => (early \/ ~ProgramUp)
      OBVIOUS
    <3> QED
      BY <3>1, <3>2 DEF FlagInv
  <2>2. CASE PostFromHandler
    <3>1. UNCHANGED early /\ PostOwn(Event(Current("event").on, Current("event").arg,
                                          "APPLICATION"))
      BY <2>2 DEF PostFromHandler, mainVars
    <3> QED
      BY <3>1 DEF PostOwn, PostWaiting, FlagInv
  <2>3. CASE ~Dispatch /\ ~PostFromHandler
    BY <2>3 DEF Next, AppMain, SetListener, LoadTransport, PostStart,
                btn_isr_handler, post_isr, PostWaiting, EventTask, BtThread,
                PostFromBt, BtPacket, NetPacket, vars, bridgeVars, mainVars
  <2> QED
    BY <2>1, <2>2, <2>3
<1> QED
  BY <1>1, <1>2, <1>3 DEF Undisturbed, FlagInv

(* app_main on its way, the button, and a step of nobody. *)
LEMMA AloneHands ==
  ASSUME TodoInv, StateInv, HandInv, Undisturbed, Plain(todo["bt"])',
         SetListener \/ LoadTransport \/ btn_isr_handler \/ UNCHANGED vars
  PROVE  HandInv' /\ Running' = Running
<1>1. UNCHANGED <<todo, net_state, wifi, power, cur_trt, stack_ready>>
  BY DEF SetListener, LoadTransport, btn_isr_handler, btVars, netVars, mainVars, vars
<1>2. Work' = Work /\ NetInv' /\ Running' = Running /\ Now' = Now
  <2>1. Work' = Work
    BY <1>1 DEF Work
  <2> QED
    BY <1>1, <2>1, NetStays DEF HandInv
<1>3. UNCHANGED queue \/ \E e \in Posted : e.id \notin Service /\ Queued(e)
  <2> DEFINE e == Event("APPLICATION", "CTL_SWITCH_SVC", "CTL_PERIPH")
  <2>1. e \in Posted /\ e.id \notin Service
    BY DEF Event, Posted, Events, Bases, Commands, Service
  <2>2. CASE btn_isr_handler
    BY <2>1, <2>2 DEF btn_isr_handler, post_isr, PostWaiting, bridgeVars
  <2>3. CASE ~btn_isr_handler
    BY <2>3 DEF SetListener, LoadTransport, bridgeVars, vars
  <2> QED
    BY <2>2, <2>3
<1>4. CASE LoadTransport
  <2>1. app_main = "load" /\ ~ProgramUp
    BY <1>4 DEF LoadTransport, ProgramUp
  <2>2. app_main' = "NET_TRANSPORT"
    BY <1>4, <2>1 DEF LoadTransport, HandInv, ComingUp, trts
  <2> QED
    BY <1>1, <1>2, <1>3, <2>1, <2>2, OtherSteps
<1>5. CASE SetListener
  BY <1>1, <1>2, <1>3, <1>5, OtherSteps DEF SetListener, ProgramUp
<1>6. CASE btn_isr_handler \/ UNCHANGED vars
  <2>1. UNCHANGED app_main
    BY <1>6 DEF btn_isr_handler, vars, mainVars
  <2> QED
    BY <1>1, <1>2, <1>3, <2>1, OtherSteps DEF ProgramUp
<1> QED
  BY <1>4, <1>5, <1>6

(* A reconfiguration of the event task belongs to the start of the network. *)
LEMMA ReconfigureHands ==
  ASSUME TodoInv, StateInv, HandInv, Undisturbed, Plain(todo["bt"])',
         Reconfigure("event"), UNCHANGED <<bridgeVars, btVars, netVars, mainVars>>
  PROVE  HandInv' /\ Running' = Running
<1>1. /\ Work # <<>> /\ Work \in Seq(Calls)
      /\ Head(Work).op \notin NetOps \cup {"post"}
      /\ Work' = Work \/ Work' = Tail(Work)
  BY ReconfigureCalls, ReturnCalls DEF Work
<1>2. UNCHANGED <<net_state, wifi, power, cur_trt, app_main, stack_ready, queue>>
  BY DEF bridgeVars, btVars, netVars, mainVars
<1>3. Onward(Work)
  BY <1>1, PostsAreNot, PausesTail DEF HandInv, Handing, NetOps
<1>4. NetInv' /\ Running' = Running /\ Now' = Now
  BY <1>1, <1>2, <1>3, NetStays DEF HandInv, NetOps
<1>5. Work' = Work \/ Onward(Work')
  BY <1>1, <1>3, OnwardTail
<1> QED
  BY <1>2, <1>3, <1>4, <1>5, OtherSteps DEF ProgramUp

(* The Bluetooth thread: bt_stack_thread powers off what nobody has        *)
(* powered on yet, and the handlers post volumes.                           *)
LEMMA BtThreadHands ==
  ASSUME TodoInv, StateInv, HandInv, Undisturbed, Plain(todo["bt"])',
         BtThread \/ BtPacket
  PROVE  HandInv' /\ Running' = Running
<1>1. Work' = Work
  <2>1. CASE PostFromBt \/ Reconfigure("bt")
    <3>1. UNCHANGED todo \/ (todo["bt"] # <<>> /\ Returns("bt"))
      BY <2>1, ReconfigureCalls DEF PostFromBt, At
    <3> QED
      BY <3>1, ReturnCalls DEF Work
  <2>2. CASE BtPacket
    BY <2>2, PacketPlain, RunCalls DEF BtPacket, Work
  <2>3. CASE StackReady
    BY <2>3 DEF StackReady, Work
  <2> QED
    BY <2>1, <2>2, <2>3 DEF BtThread
<1>2. UNCHANGED <<cur_trt, app_main, power>> /\ (ProgramUp => ProgramUp')
  <2>1. CASE StackReady /\ UNCHANGED <<streamVars, bridgeVars, netVars, mainVars>>
    <3>1. ~ProgramUp /\ power' = FALSE
      BY <2>1 DEF StackReady, ProgramUp
    <3>2. power = FALSE
      BY <3>1 DEF HandInv, ComingUp
    <3> QED
      BY <2>1, <3>1, <3>2 DEF mainVars
  <2>2. CASE BtPacket
    <3>1. UNCHANGED <<power, stack_ready>>
      BY <2>2 DEF BtPacket, PacketHandler, Packet, SlcEstablished, SlcReleased,
                  AudioReleased, AudioEstablished, VolumeReceived, VolumeChanged,
                  SbcConfiguration, StreamEstablished, StreamStarted, StreamStopped
    <3> QED
      BY <2>2, <3>1 DEF BtPacket, mainVars, ProgramUp
  <2>3. CASE \/ Reconfigure("bt") /\ UNCHANGED <<bridgeVars, btVars, netVars, mainVars>>
             \/ PostFromBt
    BY <2>3 DEF PostFromBt, btVars, mainVars, ProgramUp
  <2> QED
    BY <2>1, <2>2, <2>3 DEF BtThread
<1>3. UNCHANGED <<net_state, wifi>>
  BY DEF BtThread, PostFromBt, BtPacket, netVars
<1>4. UNCHANGED queue \/ \E e \in Posted : e.id \notin Service /\ Queued(e)
  <2>1. CASE PostFromBt
    <3> DEFINE c == Current("bt")
               e == Event(c.on, c.arg, "BT_TRANSPORT")
    <3>1. /\ c.on \in Bases /\ c.arg \in Commands /\ Queued(e)
          /\ todo["bt"] # <<>> /\ c = Head(todo["bt"]) /\ c.op = "post"
      BY <2>1, AtPost DEF PostFromBt, PostWaiting, At, Current, Threads
    <3>2. c.arg \notin Service
      BY <3>1, OnwardTail DEF HandInv, Plain
    <3>3. e \in Posted /\ e.id = c.arg
      BY <3>1, PostedEvent DEF Event, Bases
    <3> QED
      BY <3>1, <3>2, <3>3
  <2>2. CASE ~PostFromBt
    BY <2>2 DEF BtThread, BtPacket, bridgeVars
  <2> QED
    BY <2>1, <2>2
<1>5. NetInv' /\ Running' = Running /\ Now' = Now
  BY <1>1, <1>2, <1>3, NetStays DEF HandInv
<1> QED
  BY <1>1, <1>2, <1>4, <1>5, OtherSteps

LEMMA StepHands ==
  ASSUME TodoInv, StateInv, FlagInv, HandInv, [Next]_vars, Undisturbed'
  PROVE  HandInv' /\ HandsOver
<1>1. Undisturbed
  BY NothingUndone
<1>2. Plain(todo["bt"])'
  BY BtPlain DEF HandInv
<1>3. CASE Dispatch
  <2>1. Head(queue).base \in Bases
    BY <1>1, <1>3, Served DEF Posted, Events
  <2> QED
    BY <1>1, <1>2, <1>3, <2>1, ApplicationHands, NetHands, BtHands DEF Bases, HandsOver
<1>4. CASE PostFromHandler
  BY <1>1, <1>2, <1>4, HandlerPosts DEF HandsOver
<1>5. CASE NetCalls /\ UNCHANGED <<streamVars, bridgeVars, btVars, mainVars>>
  BY <1>1, <1>2, <1>5, NetCallHands DEF HandsOver
<1>6. CASE PostStart
  BY <1>1, <1>2, <1>6, PostStartHands DEF HandsOver
<1>7. CASE SetListener \/ LoadTransport \/ btn_isr_handler \/ UNCHANGED vars
  BY <1>1, <1>2, <1>7, AloneHands DEF HandsOver
<1>8. CASE Reconfigure("event") /\ UNCHANGED <<bridgeVars, btVars, netVars, mainVars>>
  BY <1>1, <1>2, <1>8, ReconfigureHands DEF HandsOver
<1>9. CASE BtThread \/ BtPacket
  BY <1>1, <1>2, <1>9, BtThreadHands DEF HandsOver
<1>10. CASE NetPacket
  BY <1>1, <1>2, <1>10, NetPacketHands DEF HandsOver
<1> QED
  BY <1>3, <1>4, <1>5, <1>6, <1>7, <1>8, <1>9, <1>10 DEF Next, AppMain, EventTask

LEMMA HandStep ==
  TodoInv /\ StateInv /\ FlagInv /\ HandInv /\ [Next]_vars => HandInv'
  BY StepHands, BtPlain DEF HandInv

LEMMA InitHand == Init => HandInv
<1> SUFFICES ASSUME Init PROVE HandInv
  OBVIOUS
<1>1. /\ Work = <<>> /\ todo["bt"] = <<>> /\ queue = <<>> /\ app_main = "listen"
      /\ net_state = "CL_UNINIT" /\ wifi = "off" /\ power = FALSE /\ cur_trt = 1
  BY DEF Init, Work, BridgeInit, BtInit, NetInit, Threads
<1>2. /\ Onward(Work) /\ ~Pauses(Work) /\ Now = Running
      /\ ~Due("connect") /\ ~Due("set_requesting")
  BY <1>1, Resting
<1>3. Running = {} /\ Goal = {}
  BY <1>1 DEF Running, Goal
<1>4. Leads(Now, queue, Goal)
  <2>1. queue \in Seq(Posted) /\ Now \in SUBSET Bases /\ Goal = Now
    BY <1>1, <1>2, <1>3
  <2> QED
    BY <1>1, <2>1, LeadsEmpty
<1>5. Plain(todo["bt"])
  BY <1>1 DEF Plain
<1>6. ComingUp
  BY <1>1 DEF ComingUp
<1>7. NetInv
  BY <1>1, <1>2 DEF NetInv
<1> QED
  BY <1>2, <1>4, <1>5, <1>6, <1>7 DEF HandInv, Handing

LEMMA HandInvariant == Spec => [](IInv /\ FlagInv /\ HandInv)
<1>1. IInv /\ FlagInv /\ HandInv /\ [Next]_vars => FlagInv' /\ HandInv'
  BY HandStep, FlagStep DEF IInv
<1> QED
  BY <1>1, InitInv, InitHand, Invariant, PTL DEF Spec

-----------------------------------------------------------------------------

(* Once the event task has nothing left to do, the transport that cur_trt  *)
(* names runs and the other does not: whatever the length of the queue,    *)
(* however often the button was pressed and whatever the receive task has  *)
(* stored into net_state meanwhile, if only no command found the queue     *)
(* full, no switch was served before the program was up, no paused service *)
(* was given a state and connect has not failed for good.                  *)
THEOREM TheChosenRuns == Spec => []CurrentRuns
<1>1. IInv /\ HandInv => CurrentRuns
  <2> SUFFICES ASSUME IInv, HandInv, Idle("event"), queue = <<>>, ProgramUp,
                      Undisturbed
               PROVE  Running = {trts[cur_trt]}
    BY DEF CurrentRuns
  <2>1. Work = <<>> /\ Now = Running /\ Goal = {Chosen}
    BY Resting DEF Idle, Work, Goal, ProgramUp
  <2>2. Leads(Running, queue, {Chosen})
    BY <2>1, PostsAreNot DEF HandInv, Handing
  <2>3. Running \in SUBSET Bases
    BY TransportFacts DEF IInv
  <2> QED
    BY <2>2, <2>3, LeadsEmpty DEF IInv, StateInv, Chosen
<1> QED
  BY <1>1, HandInvariant, PTL

(* A step that nothing is disturbed by hands over as Handover says. *)
LEMMA HandoverStep ==
  ASSUME IInv, FlagInv, HandInv, [Next]_vars
  PROVE  [H!Start \/ H!Pause]_(IF Undisturbed THEN Running ELSE {})
<1>1. CASE ~Undisturbed'
  BY <1>1 DEF H!Start, H!Pause
<1>2. CASE Undisturbed'
  <2>1. Undisturbed /\ HandsOver
    BY <1>2, NothingUndone, StepHands DEF IInv
  <2>2. CASE Running' = Running \/ Running' = {}
    BY <1>2, <2>1, <2>2 DEF H!Start, H!Pause
  <2>3. CASE Running = {} /\ \E i \in 1..trt_count : Running' = {trts[i]}
    BY <1>2, <2>1, <2>3 DEF H!Start, H!Pause
  <2> QED
    BY <2>1, <2>2, <2>3 DEF HandsOver
<1> QED
  BY <1>1, <1>2

(* The transports are handed over one by one: none is started before the   *)
(* one that ran has been shut down, through every interleaving of the      *)
(* button, app_main, the event task, the Bluetooth thread and the receive  *)
(* task, under the same conditions.                                        *)
THEOREM OneTransportAtATime == Spec => ImplementsHandover
<1>1. Init => H!Init
  BY DEF Init, BtInit, NetInit, Running, H!Init
<1>2. IInv /\ FlagInv /\ HandInv /\ [Next]_vars =>
        [H!Start \/ H!Pause]_(IF Undisturbed THEN Running ELSE {})
  BY HandoverStep
<1> QED
  BY <1>1, <1>2, HandInvariant, PTL DEF Spec, ImplementsHandover, H!Spec
=============================================================================
