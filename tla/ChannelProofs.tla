----------------------------- MODULE ChannelProofs -----------------------------
(***************************************************************************)
(* CommandLink implements CommandChannel over a network that keeps the     *)
(* order of packets: however many it loses or delivers again, and however  *)
(* often ids wrap, as long as nobody gives up waiting or no id is used      *)
(* twice.                                                                  *)
(***************************************************************************)
EXTENDS CommandLinkProofs

IsAck(p) == p.cmd = CMD_ACK

-----------------------------------------------------------------------------
(* Sequences from which one element is taken. *)

LEMMA RemoveAtElements ==
  ASSUME NEW S, NEW s \in Seq(S), NEW i \in 1..Len(s)
  PROVE  /\ Len(RemoveAt(s, i)) = Len(s) - 1
         /\ \A j \in 1..Len(s) - 1 :
              RemoveAt(s, i)[j] = IF j < i THEN s[j] ELSE s[j + 1]
<1> DEFINE a == SubSeq(s, 1, i - 1)
           b == SubSeq(s, i + 1, Len(s))
<1>1. Len(s) \in Nat /\ \A j \in 1..Len(s) : s[j] \in S
      BY LenProperties, ElementOfSeq
<1>2. /\ a \in Seq(S) /\ Len(a) = i - 1
      /\ \A j \in 1..i - 1 : a[j] = s[j]
      BY <1>1, SubSeqProperties
<1>3. /\ b \in Seq(S) /\ Len(b) = Len(s) - i
      /\ \A j \in 1..Len(s) - i : b[j] = s[i + j]
      BY <1>1, SubSeqProperties
<1>4. /\ Len(a \o b) = Len(a) + Len(b)
      /\ \A j \in 1..Len(a) + Len(b) :
           (a \o b)[j] = IF j <= Len(a) THEN a[j] ELSE b[j - Len(a)]
      BY <1>2, <1>3, ConcatProperties
<1> HIDE DEF a, b
<1>5. RemoveAt(s, i) = a \o b
      BY DEF RemoveAt, a, b
<1>6. ASSUME NEW j \in 1..Len(s) - 1
      PROVE  (a \o b)[j] = IF j < i THEN s[j] ELSE s[j + 1]
  <2>1. CASE j < i
        BY <1>1, <1>2, <1>3, <1>4, <2>1
  <2>2. CASE ~(j < i)
    <3>1. (a \o b)[j] = b[j - (i - 1)]
          BY <1>1, <1>2, <1>3, <1>4, <2>2
    <3>2. j - (i - 1) \in 1..Len(s) - i
          BY <1>1, <2>2
    <3>3. i + (j - (i - 1)) = j + 1
          OBVIOUS
    <3> QED
        BY <1>3, <2>2, <3>1, <3>2, <3>3
  <2> QED
      BY ONLY <2>1, <2>2
<1> QED
    BY <1>1, <1>2, <1>3, <1>4, <1>5, <1>6

(* Nothing is overtaken: two elements were in the same order before.       *)
SubOrder(t, s) ==
  \A i, j \in 1..Len(t) : i < j =>
    \E k, l \in 1..Len(s) : k < l /\ t[i] = s[k] /\ t[j] = s[l]

LEMMA RemoveAtOrder ==
  ASSUME NEW S, NEW s \in Seq(S), NEW i \in 1..Len(s)
  PROVE  SubOrder(RemoveAt(s, i), s)
<1> SUFFICES ASSUME NEW j \in 1..Len(RemoveAt(s, i)),
                    NEW k \in 1..Len(RemoveAt(s, i)), j < k
             PROVE  \E l, m \in 1..Len(s) : /\ l < m
                                            /\ RemoveAt(s, i)[j] = s[l]
                                            /\ RemoveAt(s, i)[k] = s[m]
    BY DEF SubOrder
<1> DEFINE l == IF j < i THEN j ELSE j + 1
           m == IF k < i THEN k ELSE k + 1
<1>1. Len(s) \in Nat
      BY LenProperties
<1>2. j \in 1..Len(s) - 1 /\ k \in 1..Len(s) - 1
      BY RemoveAtElements
<1>3. RemoveAt(s, i)[j] = s[l] /\ RemoveAt(s, i)[k] = s[m]
      BY <1>2, RemoveAtElements
<1>4. l \in 1..Len(s) /\ m \in 1..Len(s) /\ l < m
      BY <1>1, <1>2
<1> QED
    BY <1>3, <1>4

LEMMA SubOrderRefl == \A s : SubOrder(s, s)
  BY DEF SubOrder

LEMMA AppendOrder ==
  ASSUME NEW S, NEW s \in Seq(S), NEW e \in S,
         NEW i \in 1..Len(Append(s, e)), NEW j \in 1..Len(Append(s, e)), i < j
  PROVE  /\ i \in 1..Len(s) /\ Append(s, e)[i] = s[i]
         /\ \/ j \in 1..Len(s) /\ Append(s, e)[j] = s[j]
            \/ Append(s, e)[j] = e
<1>1. /\ Len(Append(s, e)) = Len(s) + 1 /\ Len(s) \in Nat
      /\ \A k \in 1..Len(s) : Append(s, e)[k] = s[k]
      /\ Append(s, e)[Len(s) + 1] = e
      BY AppendProperties, LenProperties
<1> QED
    BY <1>1

LEMMA InToSet ==
  ASSUME NEW S, NEW s \in Seq(S)
  PROVE  /\ \A i \in 1..Len(s) : s[i] \in ToSet(s)
         /\ \A e \in ToSet(s) : \E i \in 1..Len(s) : s[i] = e
  BY LenProperties DEF ToSet

-----------------------------------------------------------------------------
(* What a step does to the packets on their way to a node. *)

NetKept ==
  /\ NetShrinks
  /\ \A m \in Nodes : SubOrder(net'[m], net[m])

LEMMA RemoveKeeps ==
  ASSUME TypeOK, NEW n \in Nodes, NEW i \in 1..Len(net[n]),
         net' = [net EXCEPT ![n] = RemoveAt(@, i)]
  PROVE  NetKept
<1>1. NetShrinks
      BY RemoveShrinks
<1>2. net[n] \in Seq(Packets)
      BY DEF TypeOK
<1>3. SubOrder(RemoveAt(net[n], i), net[n])
      BY <1>2, RemoveAtOrder
<1>4. \A m \in Nodes : net'[m] = IF m = n THEN RemoveAt(net[n], i) ELSE net[m]
      BY DEF TypeOK
<1> QED
    BY <1>1, <1>3, <1>4, SubOrderRefl DEF NetKept

LEMMA UnchangedKeeps == TypeOK /\ UNCHANGED net => NetKept
  BY SubOrderRefl DEF TypeOK, NetKept, NetShrinks

(* In order, the packet taken is the first: those that stay come after it,  *)
(* or are the same again.                                                  *)
LEMMA TakeFirst ==
  ASSUME TypeOK, ~Reorders, NEW n \in Nodes, NEW p, TakesPacket(n, p)
  PROVE  /\ NetKept
         /\ p \in ToSet(net[n])
         /\ 1 \in 1..Len(net[n]) /\ p = net[n][1]
<1>1. PICK i \in 1..Len(net[n]) :
        /\ i > 1 => Reorders
        /\ p = net[n][i]
        /\ net' = [net EXCEPT ![n] = RemoveAt(@, i)] \/ UNCHANGED net
      BY DEF TakesPacket
<1>2. net[n] \in Seq(Packets) /\ Len(net[n]) \in Nat
      BY LenProperties DEF TypeOK
<1>3. i = 1
      BY <1>1, <1>2
<1>4. p \in ToSet(net[n])
      BY <1>1, <1>2, InToSet
<1>5. NetKept
      BY <1>1, RemoveKeeps, UnchangedKeeps
<1> QED
    BY <1>1, <1>3, <1>4, <1>5

(* A packet that leaves goes behind all others, unless it is there already. *)
LEMMA EmitOrder ==
  ASSUME TypeOK, NEW n \in Nodes, EmitPacket(n),
         NEW m \in Nodes,
         NEW i \in 1..Len(net'[m]), NEW j \in 1..Len(net'[m]), i < j
  PROVE  /\ i \in 1..Len(net[m]) /\ net'[m][i] = net[m][i]
         /\ \/ j \in 1..Len(net[m]) /\ net'[m][j] = net[m][j]
            \/ m = Peer[n] /\ net'[m][j] = Packet(n) /\ Packet(n).cmd # CMD_EMPTY
<1>1. CASE net'[m] = net[m]
      BY <1>1
<1>2. CASE net'[m] # net[m]
  <2>1. /\ m = Peer[n]
        /\ Packet(n).cmd # CMD_EMPTY
        /\ net' = [net EXCEPT ![Peer[n]] = Append(@, Packet(n))]
        BY <1>2, LinkAssumption DEF EmitPacket, TypeOK
  <2>2. Packet(n) \in Packets /\ net[m] \in Seq(Packets)
        BY <2>1, PacketType DEF TypeOK
  <2>3. net'[m] = Append(net[m], Packet(n))
        BY <2>1 DEF TypeOK
  <2> QED
      BY <2>1, <2>2, <2>3, AppendOrder
<1> QED
    BY <1>1, <1>2

-----------------------------------------------------------------------------
(* Commands arrive and are executed in the order of issue.  Nothing is said *)
(* of how ids and serial numbers relate, but that equal serial numbers have *)
(* equal ids: that is enough to tell a repetition from the next command.    *)

PacketsOrdered(n) ==
  \A i, j \in 1..Len(net[n]) :
    i < j /\ ~IsAck(net[n][i]) /\ ~IsAck(net[n][j]) =>
      /\ net[n][i].serial <= net[n][j].serial
      /\ net[n][i].serial = net[n][j].serial => net[n][i].cid = net[n][j].cid

(* No packet is older than the last command let through. *)
PacketsAhead(n) ==
  \A p \in ToSet(net[n]) : ~IsAck(p) =>
    /\ recv[n].serial <= p.serial
    /\ recv[n].serial = p.serial => p.cid = recv[n].cid
    /\ p.serial = issued[Peer[n]] => p.cid = cid[Peer[n]]

(* The receive task remembers the last command let through, and that was   *)
(* the last to be executed, if it was at all.                              *)
RecvOrdered(n) ==
  /\ recv[n].serial = issued[Peer[n]] => recv[n].cid = cid[Peer[n]]
  /\ recv[n].serial >= 1 => last_ack_cid[n] = recv[n].cid
  /\ \A s \in Done(Peer[n]) : s <= recv[n].serial
  /\ recv[n].pc = "cmd_cb" => recv[n].serial \notin Done(Peer[n])

OrderInv ==
  \A n \in Nodes : PacketsOrdered(n) /\ PacketsAhead(n) /\ RecvOrdered(n)

SeqInv == TypeOK /\ SerialInv /\ OrderInv

LEMMA SerialTypes ==
  ASSUME TypeOK, SerialInv, NEW n \in Nodes
  PROVE  /\ Peer[n] \in Nodes /\ Peer[n] # n /\ Peer[Peer[n]] = n
         /\ issued[n] \in Nat
         /\ recv[n].serial \in 0..issued[Peer[n]]
         /\ Done(n) \subseteq 1..issued[n]
         /\ net[n] \in Seq(Packets)
         /\ \A i \in 1..Len(net[n]) : net[n][i] \in ToSet(net[n])
         /\ \A p \in ToSet(net[n]) : ~IsAck(p) => p.serial \in 1..issued[Peer[n]]
  BY LinkAssumption, InToSet DEF TypeOK, SerialInv, IsAck

LEMMA InitOrder == Init => OrderInv
<1> SUFFICES ASSUME Init PROVE OrderInv
    OBVIOUS
<1>1. \A n \in Nodes : /\ Len(net[n]) = 0 /\ ToSet(net[n]) = {} /\ Done(n) = {}
                       /\ recv[n].serial = 0 /\ recv[n].cid = 0
                       /\ recv[n].pc = "recvfrom" /\ cid[n] = 0
      BY DEF Init, ControllerInit, CID_INIT, ToSet, Done
<1> QED
    BY <1>1, LinkAssumption
       DEF OrderInv, PacketsOrdered, PacketsAhead, RecvOrdered

LEMMA OrderedKept ==
  ASSUME NetKept, NEW n \in Nodes, PacketsOrdered(n)
  PROVE  PacketsOrdered(n)'
<1> SUFFICES ASSUME NEW i \in 1..Len(net'[n]), NEW j \in 1..Len(net'[n]), i < j,
                    ~IsAck(net'[n][i]), ~IsAck(net'[n][j])
             PROVE  /\ net'[n][i].serial <= net'[n][j].serial
                    /\ net'[n][i].serial = net'[n][j].serial =>
                         net'[n][i].cid = net'[n][j].cid
    BY DEF PacketsOrdered, IsAck
<1>1. PICK k, l \in 1..Len(net[n]) :
        k < l /\ net'[n][i] = net[n][k] /\ net'[n][j] = net[n][l]
      BY DEF NetKept, SubOrder
<1> QED
    BY <1>1 DEF PacketsOrdered

(* Most steps leave the commands and their executions alone.               *)
LEMMA OrderKept ==
  ASSUME TypeOK, OrderInv, NetKept, UNCHANGED <<issued, executed, cid, last_ack_cid>>,
         \A n \in Nodes :
           /\ recv'[n].serial = recv[n].serial /\ recv'[n].cid = recv[n].cid
           /\ recv'[n].pc = "cmd_cb" => recv[n].pc = "cmd_cb"
  PROVE  OrderInv'
<1> SUFFICES ASSUME NEW n \in Nodes
             PROVE  PacketsOrdered(n)' /\ PacketsAhead(n)' /\ RecvOrdered(n)'
    BY DEF OrderInv
<1>1. PacketsOrdered(n)'
      BY OrderedKept DEF OrderInv
<1>2. PacketsAhead(n)'
      BY DEF OrderInv, PacketsAhead, NetKept, NetShrinks, IsAck
<1>3. RecvOrdered(n)'
      BY DEF OrderInv, RecvOrdered, Done
<1> QED
    BY <1>1, <1>2, <1>3

LEMMA GotoKeepsOrder ==
  ASSUME TypeOK, OrderInv, NetKept, UNCHANGED <<issued, executed, cid, last_ack_cid>>,
         NEW n \in Nodes, NEW l, l # "cmd_cb", RecvGoto(n, l)
  PROVE  OrderInv'
<1>1. ASSUME NEW m \in Nodes
      PROVE  /\ recv'[m].serial = recv[m].serial /\ recv'[m].cid = recv[m].cid
             /\ recv'[m].pc = "cmd_cb" => recv[m].pc = "cmd_cb"
      BY GotoKeepsPacket
<1> QED
    BY <1>1, OrderKept

LEMMA SetCmdOrder ==
  ASSUME SeqInv, NEW c \in Callers, SetCmd(c)
  PROVE  OrderInv'
<1> USE DEF SeqInv
<1> SUFFICES ASSUME NEW n \in Nodes
             PROVE  PacketsOrdered(n)' /\ PacketsAhead(n)' /\ RecvOrdered(n)'
    BY DEF OrderInv
<1>1. UNCHANGED <<net, recv, executed, last_ack_cid>>
      BY DEF SetCmd, StoreCmd
<1>2. \/ issued'[Peer[n]] = issued[Peer[n]] /\ cid'[Peer[n]] = cid[Peer[n]]
      \/ issued'[Peer[n]] = issued[Peer[n]] + 1
      BY LinkAssumption DEF SetCmd, StoreCmd, TypeOK, ControllerTypeOK
<1>3. PacketsOrdered(n)'
      BY <1>1 DEF OrderInv, PacketsOrdered, IsAck
<1>4. PacketsAhead(n)'
      BY <1>1, <1>2, SerialTypes DEF OrderInv, PacketsAhead, IsAck
<1>5. RecvOrdered(n)'
      BY <1>1, <1>2, SerialTypes DEF OrderInv, RecvOrdered, Done
<1> QED
    BY <1>3, <1>4, <1>5

LEMMA EmitKeepsOrder ==
  ASSUME SeqInv, NEW n \in Nodes, EmitPacket(n)
  PROVE  OrderInv'
<1> USE DEF SeqInv
<1> SUFFICES ASSUME NEW m \in Nodes
             PROVE  PacketsOrdered(m)' /\ PacketsAhead(m)' /\ RecvOrdered(m)'
    BY DEF OrderInv
<1>1. UNCHANGED <<recv, executed, issued, cid, last_ack_cid>>
      BY DEF EmitPacket, GetMd, history
<1>2. ~IsAck(Packet(n)) => Packet(n).serial = issued[n] /\ Packet(n).cid = cid[n]
      BY DEF Packet, Metadata, IsAck
<1>3. RecvOrdered(m)'
      BY <1>1 DEF OrderInv, RecvOrdered, Done
<1>4. PacketsAhead(m)'
  <2> SUFFICES ASSUME NEW p \in ToSet(net'[m]), ~IsAck(p)
               PROVE  /\ recv[m].serial <= p.serial
                      /\ recv[m].serial = p.serial => p.cid = recv[m].cid
                      /\ p.serial = issued[Peer[m]] => p.cid = cid[Peer[m]]
      BY <1>1 DEF PacketsAhead, IsAck
  <2>1. CASE p \in ToSet(net[m])
        BY <2>1 DEF OrderInv, PacketsAhead
  <2>2. CASE p = Packet(n) /\ m = Peer[n]
    <3>1. p.serial = issued[Peer[m]] /\ p.cid = cid[Peer[m]]
          BY <1>2, <2>2, SerialTypes
    <3> QED
        BY <3>1, SerialTypes DEF OrderInv, RecvOrdered
  <2> QED
      BY <2>1, <2>2, EmitNet
<1>5. PacketsOrdered(m)'
  <2> SUFFICES ASSUME NEW i \in 1..Len(net'[m]), NEW j \in 1..Len(net'[m]), i < j,
                      ~IsAck(net'[m][i]), ~IsAck(net'[m][j])
               PROVE  /\ net'[m][i].serial <= net'[m][j].serial
                      /\ net'[m][i].serial = net'[m][j].serial =>
                           net'[m][i].cid = net'[m][j].cid
      BY DEF PacketsOrdered, IsAck
  <2>1. i \in 1..Len(net[m]) /\ net'[m][i] = net[m][i]
        BY EmitOrder
  <2>2. CASE j \in 1..Len(net[m]) /\ net'[m][j] = net[m][j]
        BY <2>1, <2>2 DEF OrderInv, PacketsOrdered
  <2>3. CASE m = Peer[n] /\ net'[m][j] = Packet(n)
    <3>1. /\ net'[m][j].serial = issued[Peer[m]]
          /\ net'[m][j].cid = cid[Peer[m]]
          BY <1>2, <2>3, SerialTypes
    <3>2. net[m][i] \in ToSet(net[m])
          BY <2>1, SerialTypes
    <3>3. net[m][i].serial \in 1..issued[Peer[m]]
          BY <2>1, <3>2, SerialTypes
    <3> QED
        BY <2>1, <3>1, <3>2, <3>3 DEF OrderInv, PacketsAhead
  <2> QED
      BY <2>2, <2>3, EmitOrder
<1> QED
    BY <1>3, <1>4, <1>5

(* What ReceiveCmd lets through is newer than all that was executed.       *)
LEMMA Newer ==
  ASSUME SeqInv, ~Reorders, NEW n \in Nodes, NEW p, ~IsAck(p),
         TakesPacket(n, p), ~IsRepetition(n, p.cid)
  PROVE  /\ p.serial \in 1..issued[Peer[n]] /\ p.serial > recv[n].serial
         /\ \A s \in Done(Peer[n]) : s < p.serial
         /\ \A q \in ToSet(net[n]) : ~IsAck(q) =>
              /\ p.serial <= q.serial
              /\ p.serial = q.serial => q.cid = p.cid
<1> USE DEF SeqInv
<1>1. p \in ToSet(net[n]) /\ 1 \in 1..Len(net[n]) /\ p = net[n][1]
      BY TakeFirst
<1>2. p.serial \in 1..issued[Peer[n]]
      BY <1>1, SerialTypes
<1>3. recv[n].serial <= p.serial /\ recv[n].serial \in Nat
      BY <1>1, SerialTypes DEF OrderInv, PacketsAhead
<1>4. recv[n].serial # p.serial
  <2> SUFFICES ASSUME recv[n].serial = p.serial PROVE FALSE
      OBVIOUS
  <2>1. p.cid = recv[n].cid /\ last_ack_cid[n] = recv[n].cid
        BY <1>1, <1>2 DEF OrderInv, PacketsAhead, RecvOrdered
  <2> QED
      BY <2>1 DEF IsRepetition
<1>5. ASSUME NEW s \in Done(Peer[n]) PROVE s < p.serial
  <2>1. s \in Nat /\ p.serial \in Nat
        BY <1>2, SerialTypes
  <2>2. s <= recv[n].serial
        BY DEF OrderInv, RecvOrdered
  <2> QED
      BY <1>3, <1>4, <2>1, <2>2
<1>6. ASSUME NEW q \in ToSet(net[n]), ~IsAck(q)
      PROVE  p.serial <= q.serial /\ (p.serial = q.serial => q.cid = p.cid)
  <2>1. PICK j \in 1..Len(net[n]) : net[n][j] = q
        BY SerialTypes, InToSet
  <2>2. CASE j = 1
        BY <1>1, <1>2, <2>1, <2>2
  <2>3. CASE j # 1
        BY <1>1, <1>6, <2>1, <2>3 DEF OrderInv, PacketsOrdered
  <2> QED
      BY <2>2, <2>3
<1> QED
    BY <1>2, <1>3, <1>4, <1>5, <1>6

LEMMA ReceiveCmdOrder ==
  ASSUME SeqInv, ~Reorders, NEW n \in Nodes, ReceiveCmd(n)
  PROVE  OrderInv'
<1> USE DEF SeqInv
<1>1. PICK p \in ToSet(net[n]) :
        /\ ~IsAck(p)
        /\ TakesPacket(n, p)
        /\ \/ /\ AcceptCmd(n, p.cid)
              /\ recv' = [recv EXCEPT ![n] = [pc |-> "cmd_cb", cid |-> p.cid,
                                              serial |-> p.serial]]
           \/ /\ IgnoreCmd(n, p.cid)
              /\ RecvGoto(n, "recvfrom")
      BY DEF ReceiveCmd, IsAck
<1>2. NetKept /\ UNCHANGED <<issued, executed, cid>>
      BY <1>1, TakeFirst
         DEF ReceiveCmd, AcceptCmd, IgnoreCmd, controllerVars, history
<1>3. CASE IgnoreCmd(n, p.cid) /\ RecvGoto(n, "recvfrom")
      BY <1>2, <1>3, GotoKeepsOrder DEF IgnoreCmd, controllerVars
<1>4. CASE /\ AcceptCmd(n, p.cid)
           /\ recv' = [recv EXCEPT ![n] = [pc |-> "cmd_cb", cid |-> p.cid,
                                           serial |-> p.serial]]
  <2>1. /\ p.serial \in 1..issued[Peer[n]]
        /\ \A s \in Done(Peer[n]) : s < p.serial
        /\ \A q \in ToSet(net[n]) : ~IsAck(q) =>
             /\ p.serial <= q.serial
             /\ p.serial = q.serial => q.cid = p.cid
        BY <1>1, <1>4, Newer DEF AcceptCmd
  <2>2. /\ recv'[n] = [pc |-> "cmd_cb", cid |-> p.cid, serial |-> p.serial]
        /\ last_ack_cid'[n] = p.cid
        /\ \A m \in Nodes \ {n} : /\ recv'[m] = recv[m]
                                  /\ last_ack_cid'[m] = last_ack_cid[m]
        BY <1>4 DEF AcceptCmd, TypeOK, ControllerTypeOK
  <2> SUFFICES ASSUME NEW m \in Nodes
               PROVE  PacketsOrdered(m)' /\ PacketsAhead(m)' /\ RecvOrdered(m)'
      BY DEF OrderInv
  <2>3. PacketsOrdered(m)'
        BY <1>2, OrderedKept DEF OrderInv
  <2>4. CASE m # n
    <3>1. PacketsAhead(m)'
          BY <1>2, <2>2, <2>4 DEF OrderInv, PacketsAhead, NetKept, NetShrinks, IsAck
    <3>2. RecvOrdered(m)'
          BY <1>2, <2>2, <2>4 DEF OrderInv, RecvOrdered, Done
    <3> QED
        BY <2>3, <3>1, <3>2
  <2>5. CASE m = n
    <3>1. p.serial = issued[Peer[n]] => p.cid = cid[Peer[n]]
          BY <1>1 DEF OrderInv, PacketsAhead
    <3>2. PacketsAhead(m)'
          BY <1>2, <2>1, <2>2, <2>5
             DEF OrderInv, PacketsAhead, NetKept, NetShrinks, IsAck
    <3>3. Done(Peer[n])' = Done(Peer[n])
          BY <1>2 DEF Done
    <3>4. \A s \in Done(Peer[n]) : s \in Nat
          BY SerialTypes
    <3>5. RecvOrdered(m)'
          BY <1>2, <2>1, <2>2, <2>5, <3>1, <3>3, <3>4 DEF RecvOrdered
    <3> QED
        BY <2>3, <3>2, <3>5
  <2> QED
      BY <2>4, <2>5
<1> QED
    BY <1>1, <1>3, <1>4

LEMMA RunCmdCbOrder ==
  ASSUME SeqInv, NEW n \in Nodes, RunCmdCb(n)
  PROVE  OrderInv'
<1> USE DEF SeqInv
<1>1. /\ recv[n].pc = "cmd_cb"
      /\ UNCHANGED <<net, issued, cid, last_ack_cid>>
      /\ NetKept
      BY UnchangedKeeps DEF RunCmdCb, RecvAt, controllerVars
<1>2. CASE RecvGoto(n, "recvfrom") /\ executed' = executed
      BY <1>1, <1>2, GotoKeepsOrder
<1>3. CASE /\ RecvGoto(n, "note_ack")
           /\ Done(Peer[n])' = Done(Peer[n]) \cup {recv[n].serial}
  <2> SUFFICES ASSUME NEW m \in Nodes
               PROVE  PacketsOrdered(m)' /\ PacketsAhead(m)' /\ RecvOrdered(m)'
      BY DEF OrderInv
  <2>1. /\ recv'[m].serial = recv[m].serial /\ recv'[m].cid = recv[m].cid
        /\ recv'[m].pc = "cmd_cb" => m # n /\ recv[m].pc = "cmd_cb"
        BY <1>3, GotoKeepsPacket
  <2>2. PacketsOrdered(m)' /\ PacketsAhead(m)'
        BY <1>1, <2>1 DEF OrderInv, PacketsOrdered, PacketsAhead, IsAck
  <2>3. CASE m = n
    <3>1. recv[n].serial \in Nat
          BY SerialTypes
    <3> QED
        BY <1>1, <1>3, <2>1, <2>2, <2>3, <3>1 DEF OrderInv, RecvOrdered
  <2>4. CASE m # n
    <3>1. Peer[m] \in Nodes /\ Peer[m] # Peer[n]
          BY <2>4, SerialTypes
    <3>2. Done(Peer[m])' = Done(Peer[m])
          BY <3>1, Executes DEF Done
    <3> QED
        BY <1>1, <2>1, <2>2, <3>2 DEF OrderInv, RecvOrdered
  <2> QED
      BY <2>3, <2>4
<1> QED
    BY <1>2, <1>3, Executes

LEMMA OtherOrder ==
  ASSUME SeqInv, NEW n \in Nodes,
         RecvNoteAck(n) \/ RecvSendMdReturns(n) \/ RunAckCb(n) \/ LosePacket(n)
  PROVE  OrderInv'
<1> USE DEF SeqInv
<1>1. CASE LosePacket(n)
  <2>1. NetKept
        BY <1>1, RemoveKeeps DEF LosePacket
  <2> QED
      BY <1>1, <2>1, OrderKept DEF LosePacket, controllerVars, history
<1>2. CASE ~LosePacket(n)
  <2>1. NetKept
        BY <1>2, UnchangedKeeps DEF RecvNoteAck, RecvSendMdReturns, RunAckCb
  <2>2. RecvGoto(n, "send_md") \/ RecvGoto(n, "recvfrom")
        BY <1>2 DEF RecvNoteAck, RecvSendMdReturns, RunAckCb
  <2> QED
      BY <1>2, <2>1, <2>2, GotoKeepsOrder
         DEF RecvNoteAck, NoteAck, RecvSendMdReturns, RunAckCb, controllerVars,
             history
<1> QED
    BY <1>1, <1>2

LEMMA ReceiveAckOrder ==
  ASSUME SeqInv, ~Reorders, NEW n \in Nodes, ReceiveAck(n)
  PROVE  OrderInv'
<1> USE DEF SeqInv
<1>1. NetKept
      BY TakeFirst DEF ReceiveAck
<1>2. RecvGoto(n, "ack_cb") \/ RecvGoto(n, "recvfrom")
      BY DEF ReceiveAck
<1> QED
    BY <1>1, <1>2, GotoKeepsOrder
       DEF ReceiveAck, AcceptAck, IgnoreAck, controllerVars

LEMMA NextOrder ==
  ASSUME ~Reorders, SeqInv, [Next]_vars
  PROVE  OrderInv'
<1>1. ASSUME NEW c \in Callers, TimesOut(c) \/ CallerStep(c) PROVE OrderInv'
  <2>1. UNCHANGED <<net, recv, issued, executed, cid, last_ack_cid>>
        BY <1>1 DEF TimesOut, CallerStep, SendMdReturns, GetsAck, TakeAck, Abandons,
                    AbandonCmd, controllerVars, history
  <2> QED
      BY <2>1, UnchangedKeeps, OrderKept DEF SeqInv
<1>2. CASE UNCHANGED vars
  <2>1. UNCHANGED <<net, recv, issued, executed, cid, last_ack_cid>>
        BY <1>2 DEF vars, linkVars, controllerVars, history
  <2> QED
      BY <2>1, UnchangedKeeps, OrderKept DEF SeqInv
<1> QED
    BY <1>1, <1>2, ~Reorders, SetCmdOrder, EmitKeepsOrder, ReceiveCmdOrder,
       ReceiveAckOrder, RunCmdCbOrder, OtherOrder
       DEF Next, Receive, RecvStep

LEMMA SeqAlways == ASSUME ~Reorders PROVE Spec => []SeqInv
<1>1. SeqInv /\ [Next]_vars => SeqInv'
      BY ~Reorders, NextOrder, NextType, NextSerial DEF SeqInv
<1> QED
    BY <1>1, InitType, InitSerial, InitOrder, PTL DEF Spec, SeqInv

-----------------------------------------------------------------------------
(* Execution in order. *)

(* A command that is executed is newer than those executed before.         *)
LEMMA ExecutesNext ==
  ASSUME SeqInv, NEW n \in Nodes, RunCmdCb(n)
  PROVE  LET m == Peer[n]
             s == recv[n].serial
         IN  \/ executed' = executed
             \/ /\ m \in Nodes /\ s \in 1..issued[m]
                /\ \A i \in 1..Len(executed[m]) : executed[m][i] < s
                /\ executed' = [executed EXCEPT ![m] = Append(@, s)]
                /\ UNCHANGED <<issued, acked>>
<1> USE DEF SeqInv
<1> DEFINE m == Peer[n]
           s == recv[n].serial
<1>1. /\ recv[n].pc = "cmd_cb"
      /\ UNCHANGED <<issued, acked>>
      /\ \/ executed' = executed
         \/ executed' = [executed EXCEPT ![m] = Append(@, s)]
      BY DEF RunCmdCb, RecvAt
<1>2. m \in Nodes /\ s \in 1..issued[m]
      BY <1>1, SerialTypes DEF SerialInv
<1>3. executed[m] \in Seq(Nat)
      BY <1>2 DEF TypeOK
<1>4. ASSUME NEW i \in 1..Len(executed[m]) PROVE executed[m][i] < s
  <2>1. executed[m][i] \in Done(m) /\ executed[m][i] \in Nat
        BY <1>3, InToSet, ElementOfSeq DEF Done
  <2>2. executed[m][i] <= s /\ executed[m][i] # s
        BY <1>1, <2>1 DEF OrderInv, RecvOrdered
  <2> QED
      BY <1>2, <2>1, <2>2, SerialTypes
<1> QED
    BY <1>1, <1>2, <1>4

LEMMA ExecutedStep ==
  ASSUME SeqInv, ExecutedInOrder, [Next]_vars
  PROVE  ExecutedInOrder'
<1>1. CASE UNCHANGED executed
      BY <1>1 DEF ExecutedInOrder
<1>2. ASSUME NEW n \in Nodes, RunCmdCb(n), executed' # executed
      PROVE  ExecutedInOrder'
  <2> DEFINE m == Peer[n]
             s == recv[n].serial
  <2>1. /\ m \in Nodes
        /\ s \in 1..issued[m]
        /\ \A i \in 1..Len(executed[m]) : executed[m][i] < s
        /\ executed' = [executed EXCEPT ![m] = Append(@, s)]
        BY <1>2, ExecutesNext
  <2>2. executed[m] \in Seq(Nat) /\ s \in Nat
        BY <2>1, SerialTypes DEF SeqInv, TypeOK
  <2>3. \A k \in Nodes : executed'[k] = IF k = m THEN Append(executed[m], s)
                                        ELSE executed[k]
        BY <2>1 DEF SeqInv, TypeOK
  <2> HIDE DEF m, s
  <2> SUFFICES ASSUME NEW k \in Nodes,
                      NEW i \in 1..Len(executed'[k]), NEW j \in 1..Len(executed'[k]),
                      i < j
               PROVE  executed'[k][i] < executed'[k][j]
      BY DEF ExecutedInOrder
  <2>4. CASE k # m
        BY <2>3, <2>4 DEF ExecutedInOrder
  <2>5. CASE k = m
    <3>1. /\ i \in 1..Len(executed[m]) /\ executed'[k][i] = executed[m][i]
          /\ \/ j \in 1..Len(executed[m]) /\ executed'[k][j] = executed[m][j]
             \/ executed'[k][j] = s
      <4> DEFINE r == executed[m]
                 t == executed'[k]
      <4>1. r \in Seq(Nat) /\ s \in Nat /\ t = Append(r, s)
            BY <2>2, <2>3, <2>5
      <4>2. i \in 1..Len(t) /\ j \in 1..Len(t)
            OBVIOUS
      <4> HIDE DEF r, t
      <4>3. /\ Len(t) = Len(r) + 1 /\ Len(r) \in Nat
            /\ \A l \in 1..Len(r) : t[l] = r[l]
            /\ t[Len(r) + 1] = s
            BY <4>1, AppendProperties, LenProperties
      <4>4. /\ i \in 1..Len(r) /\ t[i] = r[i]
            /\ (j \in 1..Len(r) /\ t[j] = r[j]) \/ t[j] = s
            BY <4>2, <4>3
      <4> QED
          BY <4>4 DEF r, t
    <3> QED
        BY <2>1, <2>5, <3>1 DEF ExecutedInOrder
  <2> QED
      BY <2>4, <2>5
<1> QED
    BY <1>1, <1>2
       DEF Next, CallerStep, Receive, RecvStep, SetCmd, SendMdReturns, GetsAck,
           TimesOut, Abandons, EmitPacket, LosePacket, ReceiveAck, ReceiveCmd,
           RecvNoteAck, RecvSendMdReturns, RunAckCb, vars, linkVars, history

(* However often ids wrap, packets are lost or repeated and callers give    *)
(* up: on a network that keeps the order, commands are executed in the      *)
(* order of issue, none of them twice.                                     *)
THEOREM CommandsRunInOrder ==
  ASSUME ~Reorders PROVE Spec => []ExecutedInOrder
<1>1. Init => ExecutedInOrder
      BY DEF Init, ExecutedInOrder
<1>2. SeqInv /\ ExecutedInOrder /\ [Next]_vars => ExecutedInOrder'
      BY ExecutedStep
<1>3. Spec => []SeqInv
      BY SeqAlways, ~Reorders
<1> QED
    BY <1>1, <1>2, <1>3, PTL DEF Spec

-----------------------------------------------------------------------------
(* Ids that are used again.  While nobody gives up, a command is issued     *)
(* only after the one before was executed and acknowledged: two ids in a    *)
(* row differ, and that is enough, as in the alternating bit protocol.      *)

Patient == \A c \in Callers : caller[c].pc # "expired"

(* An acknowledgement with id k is on its way to n: in the network, in the *)
(* controller of its peer, or about to be noted there.                     *)
OnWay(n, k) ==
  \/ \E p \in ToSet(net[n]) : IsAck(p) /\ p.cid = k
  \/ need_ack_cid[Peer[n]] = k
  \/ recv[Peer[n]].pc = "note_ack" /\ recv[Peer[n]].cid = k

(* A command is issued after the one before was executed. *)
OneAhead(n) ==
  /\ cmd[n] = CMD_EMPTY /\ issued[n] >= 1 => issued[n] \in Done(n)
  /\ issued[n] >= 2 => issued[n] - 1 \in Done(n)

(* The peer takes it for a new one, and acknowledges it when it is done.    *)
Tells(n) ==
  /\ recv[Peer[n]].serial < issued[n] => recv[Peer[n]].cid # cid[n]
  /\ \A k \in Cids : OnWay(n, k) =>
       /\ k = cid[n] => issued[n] \in Done(n)
       /\ cmd[n] = CMD_EMPTY => k = cid[n]

(* No older acknowledgement follows. *)
AcksOrdered(n) ==
  /\ \A i, j \in 1..Len(net[n]) :
       i < j /\ IsAck(net[n][i]) /\ IsAck(net[n][j]) /\ net[n][i].cid = cid[n] =>
         net[n][j].cid = cid[n]
  /\ (\E p \in ToSet(net[n]) : IsAck(p) /\ p.cid = cid[n]) =>
       need_ack_cid[Peer[n]] \in {CID_NONE, cid[n]}

Alternates(n) == OneAhead(n) /\ Tells(n) /\ AcksOrdered(n)

AlternateInv == Patient /\ \A n \in Nodes : Alternates(n)

LEMMA InitAlternate == Init => AlternateInv
<1> SUFFICES ASSUME Init PROVE AlternateInv
    OBVIOUS
<1>1. ASSUME NEW n \in Nodes
      PROVE  /\ Peer[n] \in Nodes /\ issued[n] = 0 /\ Len(net[n]) = 0
             /\ ToSet(net[n]) = {} /\ need_ack_cid[n] = CID_NONE
             /\ recv[n].pc = "recvfrom" /\ recv[n].serial = 0
      BY LinkAssumption DEF Init, ControllerInit, ToSet
<1>2. Patient
      BY DEF Init, Patient
<1>3. ASSUME NEW n \in Nodes, NEW k \in Cids PROVE ~OnWay(n, k)
  <2>1. /\ Peer[n] \in Nodes
        /\ ToSet(net[n]) = {}
        BY <1>1
  <2>2. /\ need_ack_cid[Peer[n]] = CID_NONE
        /\ recv[Peer[n]].pc = "recvfrom"
        BY <1>1, <2>1
  <2>3. k # CID_NONE
        BY ControllerAssumption DEF Cids, CID_NONE
  <2> QED
      BY <2>1, <2>2, <2>3 DEF OnWay
<1> QED
    BY <1>1, <1>2, <1>3
       DEF AlternateInv, Alternates, OneAhead, Tells, AcksOrdered

(* What the receive task has let through when the newest command is done.   *)
LEMMA DoneMeansReceived ==
  ASSUME SeqInv, NEW n \in Nodes, issued[n] \in Done(n) \/ issued[n] = 0
  PROVE  recv[Peer[n]].serial = issued[n] /\ recv[Peer[n]].cid = cid[n]
<1>1. Peer[n] \in Nodes /\ Peer[Peer[n]] = n /\ issued[n] \in Nat
      BY SerialTypes DEF SeqInv
<1>2. recv[Peer[n]].serial \in 0..issued[n]
      BY <1>1, SerialTypes DEF SeqInv
<1>3. issued[n] \in Done(n) => issued[n] <= recv[Peer[n]].serial
      BY <1>1 DEF SeqInv, OrderInv, RecvOrdered
<1>4. recv[Peer[n]].serial = issued[n]
      BY <1>1, <1>2, <1>3
<1> QED
    BY <1>1, <1>4 DEF SeqInv, OrderInv, RecvOrdered

(* Most steps only take acknowledgements away. *)
LEMMA AlternateKept ==
  ASSUME TypeOK, NEW n \in Nodes, Alternates(n),
         issued'[n] = issued[n], cid'[n] = cid[n], Done(n) \subseteq Done(n)',
         cmd'[n] = cmd[n], SubOrder(net'[n], net[n]),
         ToSet(net'[n]) \subseteq ToSet(net[n]),
         need_ack_cid'[Peer[n]] \in {CID_NONE, need_ack_cid[Peer[n]]},
         recv'[Peer[n]].serial = recv[Peer[n]].serial,
         recv'[Peer[n]].cid = recv[Peer[n]].cid,
         recv'[Peer[n]].pc = "note_ack" => recv[Peer[n]].pc = "note_ack"
  PROVE  Alternates(n)'
<1>1. OneAhead(n)'
      BY DEF Alternates, OneAhead
<1>2. ASSUME NEW k \in Cids, OnWay(n, k)' PROVE OnWay(n, k)
      BY <1>2 DEF OnWay, Cids, CID_NONE, IsAck
<1>3. Tells(n)'
      BY <1>2 DEF Alternates, Tells
<1>4. ASSUME NEW i \in 1..Len(net'[n]), NEW j \in 1..Len(net'[n]), i < j,
             IsAck(net'[n][i]), IsAck(net'[n][j]), net'[n][i].cid = cid[n]
      PROVE  net'[n][j].cid = cid[n]
  <2>1. PICK k, l \in 1..Len(net[n]) :
          k < l /\ net'[n][i] = net[n][k] /\ net'[n][j] = net[n][l]
        BY <1>4 DEF SubOrder
  <2> QED
      BY <1>4, <2>1 DEF Alternates, AcksOrdered
<1>5. AcksOrdered(n)'
      BY <1>4 DEF Alternates, AcksOrdered, IsAck
<1> QED
    BY <1>1, <1>3, <1>5 DEF Alternates

LEMMA SetCmdAlternates ==
  ASSUME SeqInv, AlternateInv, NEW c \in Callers, SetCmd(c), NEW n \in Nodes
  PROVE  Alternates(n)'
<1> USE DEF SeqInv
<1> DEFINE h == Home[c]
<1>1. PICK command \in Cmds, wait_ack \in Waits[c] : StoreCmd(h, command, wait_ack)
      BY DEF SetCmd
<1>2. /\ h \in Nodes /\ cmd[h] = CMD_EMPTY
      /\ issued' = [issued EXCEPT ![h] = @ + 1]
      /\ UNCHANGED <<net, recv, need_ack_cid, executed>>
      BY <1>1, LinkAssumption DEF SetCmd, StoreCmd
<1>3. CASE n # h
  <2>1. issued'[n] = issued[n] /\ cid'[n] = cid[n] /\ cmd'[n] = cmd[n]
        BY <1>1, <1>2, <1>3 DEF StoreCmd, TypeOK, ControllerTypeOK
  <2> QED
      BY <1>2, <2>1
         DEF AlternateInv, Alternates, OneAhead, Tells, OnWay, AcksOrdered, Done,
             IsAck
<1>4. CASE n = h
  <2>1. /\ issued'[n] = issued[n] + 1 /\ issued[n] \in Nat
        /\ cmd'[n] # CMD_EMPTY /\ cid'[n] # cid[n]
        BY <1>1, <1>2, <1>4, ControllerAssumption
           DEF StoreCmd, NextCid, TypeOK, ControllerTypeOK, Cids
  <2>2. issued[n] \in Done(n) \/ issued[n] = 0
        BY <1>2, <1>4, <2>1 DEF AlternateInv, Alternates, OneAhead
  <2>3. recv[Peer[n]].cid = cid[n]
        BY <2>2, DoneMeansReceived
  <2>4. ~OnWay(n, cid'[n])
        BY <1>1, <1>2, <1>4, <2>1, NextCidType
           DEF AlternateInv, Alternates, Tells, StoreCmd, TypeOK, ControllerTypeOK
  <2>5. OneAhead(n)'
        BY <1>2, <2>1, <2>2 DEF OneAhead, Done
  <2>6. Tells(n)'
        BY <1>2, <2>1, <2>3, <2>4 DEF Tells, OnWay, IsAck
  <2>7. ~\E p \in ToSet(net[n]) : IsAck(p) /\ p.cid = cid'[n]
        BY <2>4 DEF OnWay
  <2>8. AcksOrdered(n)'
        BY <1>2, <2>7, SerialTypes DEF AcksOrdered, IsAck
  <2> QED
      BY <2>5, <2>6, <2>8 DEF Alternates
<1> QED
    BY <1>3, <1>4

LEMMA EmitAlternates ==
  ASSUME SeqInv, AlternateInv, NEW m \in Nodes, EmitPacket(m), NEW n \in Nodes
  PROVE  Alternates(n)'
<1> USE DEF SeqInv
<1>1. /\ UNCHANGED <<cmd, cid, issued, executed, recv>>
      /\ need_ack_cid' = [need_ack_cid EXCEPT ![m] = CID_NONE]
      BY DEF EmitPacket, GetMd, history
<1>2. need_ack_cid'[Peer[n]] \in {CID_NONE, need_ack_cid[Peer[n]]}
      BY <1>1, SerialTypes DEF TypeOK, ControllerTypeOK
<1>3. CASE n # Peer[m]
  <2>1. net'[n] = net[n]
        BY <1>3, EmitNet
  <2> QED
      BY <1>1, <1>2, <2>1, AlternateKept, SubOrderRefl DEF AlternateInv, Done
<1>4. CASE n = Peer[m]
  <2>1. Peer[n] = m /\ need_ack_cid'[m] = CID_NONE
        BY <1>1, <1>4, SerialTypes DEF TypeOK, ControllerTypeOK
  <2>2. IsAck(Packet(m)) =>
          need_ack_cid[m] # CID_NONE /\ Packet(m).cid = need_ack_cid[m]
        BY ControllerAssumption
           DEF Packet, Metadata, IsAck, TypeOK, ControllerTypeOK, CMD_EMPTY, CMD_ACK
  <2>3. ASSUME NEW k \in Cids, OnWay(n, k)' PROVE OnWay(n, k)
    <3>1. CASE \E p \in ToSet(net'[n]) : IsAck(p) /\ p.cid = k
          BY <1>4, <2>1, <2>2, <3>1, EmitNet DEF OnWay
    <3>2. CASE ~\E p \in ToSet(net'[n]) : IsAck(p) /\ p.cid = k
          BY <1>1, <2>1, <2>3, <3>2, ControllerAssumption
             DEF OnWay, IsAck, Cids, CID_NONE
    <3> QED
        BY <3>1, <3>2
  <2>4. OneAhead(n)' /\ Tells(n)'
        BY <1>1, <2>3 DEF AlternateInv, Alternates, OneAhead, Tells, Done
  <2>5. ASSUME NEW i \in 1..Len(net'[n]), NEW j \in 1..Len(net'[n]), i < j,
               IsAck(net'[n][i]), IsAck(net'[n][j]), net'[n][i].cid = cid[n]
        PROVE  net'[n][j].cid = cid[n]
    <3>1. /\ i \in 1..Len(net[n]) /\ net'[n][i] = net[n][i]
          /\ \/ j \in 1..Len(net[n]) /\ net'[n][j] = net[n][j]
             \/ net'[n][j] = Packet(m)
          BY <2>5, EmitOrder
    <3>2. CASE net'[n][j] = Packet(m)
      <4>1. net'[n][j].cid = need_ack_cid[m] /\ need_ack_cid[m] # CID_NONE
            BY <2>2, <2>5, <3>2
      <4>2. \E p \in ToSet(net[n]) : IsAck(p) /\ p.cid = cid[n]
            BY <2>5, <3>1, SerialTypes
      <4> QED
          BY <2>1, <4>1, <4>2 DEF AlternateInv, Alternates, AcksOrdered
    <3> QED
        BY <2>5, <3>1, <3>2 DEF AlternateInv, Alternates, AcksOrdered
  <2>6. AcksOrdered(n)'
        BY <1>1, <2>1, <2>5 DEF AcksOrdered, IsAck
  <2> QED
      BY <2>4, <2>6 DEF Alternates
<1> QED
    BY <1>3, <1>4

LEMMA ReceiveAckAlternates ==
  ASSUME SeqInv, ~Reorders, AlternateInv, NEW m \in Nodes, ReceiveAck(m),
         NEW n \in Nodes
  PROVE  Alternates(n)'
<1> USE DEF SeqInv
<1>1. PICK p \in ToSet(net[m]) :
        /\ IsAck(p) /\ TakesPacket(m, p)
        /\ \/ IgnoreAck(m, p.cid)
           \/ AcceptAck(m, p.cid)
      BY DEF ReceiveAck, IsAck
<1>2. /\ NetKept /\ 1 \in 1..Len(net[m]) /\ p = net[m][1]
      /\ UNCHANGED <<cid, need_ack_cid, issued, executed>>
      BY <1>1, TakeFirst DEF ReceiveAck, AcceptAck, IgnoreAck, controllerVars
<1>3. RecvGoto(m, "ack_cb") \/ RecvGoto(m, "recvfrom")
      BY DEF ReceiveAck
<1>4. /\ recv'[Peer[n]].serial = recv[Peer[n]].serial
      /\ recv'[Peer[n]].cid = recv[Peer[n]].cid
      /\ recv'[Peer[n]].pc = "note_ack" => recv[Peer[n]].pc = "note_ack"
      BY <1>3, GotoKeepsPacket, SerialTypes
<1>5. CASE cmd'[n] = cmd[n]
      BY <1>2, <1>4, <1>5, AlternateKept, SerialTypes
         DEF AlternateInv, NetKept, NetShrinks, Done, TypeOK, ControllerTypeOK
<1>6. CASE cmd'[n] # cmd[n]
  <2>1. n = m /\ p.cid = cid[n] /\ AcceptAck(n, p.cid)
        BY <1>1, <1>6
           DEF AcceptAck, AckMatches, IgnoreAck, controllerVars, TypeOK,
               ControllerTypeOK
  <2>2. cid[n] \in Cids /\ OnWay(n, cid[n])
        BY <1>1, <2>1 DEF OnWay, TypeOK, ControllerTypeOK
  <2>3. issued[n] \in Done(n)
        BY <2>2 DEF AlternateInv, Alternates, Tells
  <2>4. recv[Peer[n]].cid = cid[n]
        BY <2>3, DoneMeansReceived
  <2>5. \A q \in ToSet(net[n]) : IsAck(q) => q.cid = cid[n]
    <3> SUFFICES ASSUME NEW q \in ToSet(net[n]), IsAck(q) PROVE q.cid = cid[n]
        OBVIOUS
    <3>1. PICK j \in 1..Len(net[n]) : net[n][j] = q
          BY SerialTypes, InToSet
    <3>2. j = 1 \/ 1 < j
          OBVIOUS
    <3> QED
        BY <1>1, <1>2, <2>1, <3>1, <3>2 DEF AlternateInv, Alternates, AcksOrdered
  <2>6. need_ack_cid[Peer[n]] \in {CID_NONE, cid[n]}
        BY <1>1, <2>1 DEF AlternateInv, Alternates, AcksOrdered
  <2>7. OneAhead(n)'
        BY <1>2, <2>3 DEF AlternateInv, Alternates, OneAhead, Done
  <2>8. ASSUME NEW k \in Cids, OnWay(n, k)' PROVE k = cid[n]
        BY <1>2, <1>4, <2>4, <2>5, <2>6, <2>8, ControllerAssumption
           DEF OnWay, NetKept, NetShrinks, IsAck, Cids, CID_NONE
  <2>9. Tells(n)'
        BY <1>2, <1>4, <2>3, <2>8 DEF AlternateInv, Alternates, Tells, Done
  <2>10. \A j \in 1..Len(net'[n]) : net'[n][j] \in ToSet(net[n])
         BY <1>2, InToSet DEF NetKept, NetShrinks
  <2>11. AcksOrdered(n)'
         BY <1>2, <2>5, <2>6, <2>10 DEF AcksOrdered, IsAck
  <2> QED
      BY <2>7, <2>9, <2>11 DEF Alternates
<1> QED
    BY <1>5, <1>6

LEMMA ReceiveCmdAlternates ==
  ASSUME SeqInv, ~Reorders, AlternateInv, NEW m \in Nodes, ReceiveCmd(m),
         NEW n \in Nodes
  PROVE  Alternates(n)'
<1> USE DEF SeqInv
<1>1. PICK p \in ToSet(net[m]) :
        /\ ~IsAck(p) /\ TakesPacket(m, p)
        /\ \/ /\ AcceptCmd(m, p.cid)
              /\ recv' = [recv EXCEPT ![m] = [pc |-> "cmd_cb", cid |-> p.cid,
                                              serial |-> p.serial]]
           \/ /\ IgnoreCmd(m, p.cid)
              /\ RecvGoto(m, "recvfrom")
      BY DEF ReceiveCmd, IsAck
<1>2. NetKept /\ UNCHANGED <<cmd, cid, need_ack_cid, issued, executed>>
      BY <1>1, TakeFirst
         DEF ReceiveCmd, AcceptCmd, IgnoreCmd, controllerVars, history
<1>3. SubOrder(net'[n], net[n]) /\ ToSet(net'[n]) \subseteq ToSet(net[n])
      BY <1>2 DEF NetKept, NetShrinks
<1>4. CASE recv'[Peer[n]] = recv[Peer[n]]
      BY <1>2, <1>3, <1>4, AlternateKept DEF AlternateInv, Done
<1>5. CASE RecvGoto(m, "recvfrom")
  <2>1. /\ recv'[Peer[n]].serial = recv[Peer[n]].serial
        /\ recv'[Peer[n]].cid = recv[Peer[n]].cid
        /\ recv'[Peer[n]].pc = "note_ack" => recv[Peer[n]].pc = "note_ack"
        BY <1>5, GotoKeepsPacket, SerialTypes
  <2> QED
      BY <1>2, <1>3, <2>1, AlternateKept DEF AlternateInv, Done
<1>6. CASE /\ AcceptCmd(m, p.cid)
           /\ recv' = [recv EXCEPT ![m] = [pc |-> "cmd_cb", cid |-> p.cid,
                                           serial |-> p.serial]]
           /\ Peer[n] = m
  <2>1. /\ Peer[m] = n /\ issued[n] \in Nat
        /\ p.serial \in 1..issued[n]
        /\ \A s \in Done(n) : s < p.serial
        BY <1>1, <1>6, Newer, SerialTypes DEF AcceptCmd
  <2>2. p.serial = issued[n]
    <3>1. issued[n] >= 2 => issued[n] - 1 < p.serial
          BY <2>1 DEF AlternateInv, Alternates, OneAhead
    <3> QED
        BY <2>1, <3>1
  <2>3. recv'[m].pc = "cmd_cb" /\ recv'[m].serial = p.serial
        BY <1>6 DEF TypeOK
  <2>4. ASSUME NEW k \in Cids, OnWay(n, k)' PROVE OnWay(n, k)
        BY <1>2, <1>3, <1>6, <2>3, <2>4 DEF OnWay, IsAck
  <2>5. OneAhead(n)' /\ Tells(n)'
        BY <1>2, <1>6, <2>1, <2>2, <2>3, <2>4
           DEF AlternateInv, Alternates, OneAhead, Tells, Done
  <2>6. ASSUME NEW i \in 1..Len(net'[n]), NEW j \in 1..Len(net'[n]), i < j,
               IsAck(net'[n][i]), IsAck(net'[n][j]), net'[n][i].cid = cid[n]
        PROVE  net'[n][j].cid = cid[n]
    <3>1. PICK k, l \in 1..Len(net[n]) :
            k < l /\ net'[n][i] = net[n][k] /\ net'[n][j] = net[n][l]
          BY <1>3, <2>6 DEF SubOrder
    <3> QED
        BY <2>6, <3>1 DEF AlternateInv, Alternates, AcksOrdered
  <2>7. AcksOrdered(n)'
        BY <1>2, <1>3, <2>6 DEF AlternateInv, Alternates, AcksOrdered, IsAck
  <2> QED
      BY <2>5, <2>7 DEF Alternates
<1>7. CASE /\ recv' = [recv EXCEPT ![m] = [pc |-> "cmd_cb", cid |-> p.cid,
                                           serial |-> p.serial]]
           /\ Peer[n] # m
      BY <1>4, <1>7, SerialTypes DEF TypeOK
<1> QED
    BY <1>1, <1>5, <1>6, <1>7

LEMMA RunCmdCbAlternates ==
  ASSUME SeqInv, AlternateInv, NEW m \in Nodes, RunCmdCb(m), NEW n \in Nodes
  PROVE  Alternates(n)'
<1> USE DEF SeqInv
<1>1. /\ recv[m].pc = "cmd_cb"
      /\ RecvGoto(m, "recvfrom") \/ RecvGoto(m, "note_ack")
      /\ UNCHANGED <<net, issued, cmd, cid, need_ack_cid>>
      BY DEF RunCmdCb, RecvAt, controllerVars
<1>2. Done(n) \subseteq Done(n)'
      BY Executes DEF Done
<1>3. /\ recv'[Peer[n]].serial = recv[Peer[n]].serial
      /\ recv'[Peer[n]].cid = recv[Peer[n]].cid
      BY <1>1, GotoKeepsPacket, SerialTypes
<1>4. CASE recv'[Peer[n]].pc = "note_ack" => recv[Peer[n]].pc = "note_ack"
      BY <1>1, <1>2, <1>3, <1>4, AlternateKept, SubOrderRefl DEF AlternateInv
<1>5. CASE recv'[Peer[n]].pc = "note_ack" /\ recv[Peer[n]].pc # "note_ack"
  <2>1. Peer[n] = m /\ Peer[m] = n
        BY <1>1, <1>5, GotoKeepsPacket, SerialTypes
  <2>2. Done(n)' = Done(n) \cup {recv[m].serial}
        BY <1>5, <2>1, Executes, GotoKeepsPacket
  <2>3. /\ recv[m].serial \in 1..issued[n] /\ issued[n] \in Nat
        /\ recv[m].serial \notin Done(n)
        BY <1>1, <2>1, SerialTypes DEF SerialInv, OrderInv, RecvOrdered
  <2>4. recv[m].serial < issued[n] => recv[m].cid # cid[n]
        BY <2>1 DEF AlternateInv, Alternates, Tells
  <2>5. issued[n] \notin Done(n)
    <3>1. issued[n] \in Done(n) => issued[n] <= recv[m].serial
          BY <2>1 DEF OrderInv, RecvOrdered
    <3> QED
        BY <2>3, <3>1
  <2>6. cmd[n] # CMD_EMPTY
        BY <2>3, <2>5 DEF AlternateInv, Alternates, OneAhead
  <2>7. ASSUME NEW k \in Cids, OnWay(n, k)' PROVE OnWay(n, k) \/ k = recv[m].cid
        BY <1>1, <1>3, <2>1, <2>7 DEF OnWay, IsAck
  <2>8. Tells(n)'
        BY <1>1, <1>3, <2>1, <2>2, <2>3, <2>4, <2>6, <2>7
           DEF AlternateInv, Alternates, Tells
  <2>9. OneAhead(n)' /\ AcksOrdered(n)'
        BY <1>1, <1>2 DEF AlternateInv, Alternates, OneAhead, AcksOrdered, IsAck
  <2> QED
      BY <2>8, <2>9 DEF Alternates
<1> QED
    BY <1>4, <1>5

LEMMA NoteAckAlternates ==
  ASSUME SeqInv, AlternateInv, NEW m \in Nodes, RecvNoteAck(m), NEW n \in Nodes
  PROVE  Alternates(n)'
<1> USE DEF SeqInv
<1>1. /\ recv[m].pc = "note_ack"
      /\ RecvGoto(m, "send_md")
      /\ need_ack_cid' = [need_ack_cid EXCEPT ![m] = recv[m].cid]
      /\ UNCHANGED <<net, issued, executed, cmd, cid>>
      BY DEF RecvNoteAck, RecvAt, NoteAck, history
<1>2. /\ recv'[Peer[n]].serial = recv[Peer[n]].serial
      /\ recv'[Peer[n]].cid = recv[Peer[n]].cid
      /\ recv'[Peer[n]].pc = "note_ack" => recv[Peer[n]].pc = "note_ack"
      BY <1>1, GotoKeepsPacket, SerialTypes
<1>3. CASE Peer[n] # m
  <2>1. need_ack_cid'[Peer[n]] = need_ack_cid[Peer[n]]
        BY <1>1, <1>3, SerialTypes DEF TypeOK, ControllerTypeOK
  <2> QED
      BY <1>1, <1>2, <2>1, AlternateKept, SubOrderRefl DEF AlternateInv, Done
<1>4. CASE Peer[n] = m
  <2>1. need_ack_cid'[m] = recv[m].cid
        BY <1>1 DEF TypeOK, ControllerTypeOK
  <2>2. ASSUME NEW k \in Cids, OnWay(n, k)' PROVE OnWay(n, k)
        BY <1>1, <1>2, <1>4, <2>1, <2>2 DEF OnWay, IsAck
  <2>3. OneAhead(n)' /\ Tells(n)'
        BY <1>1, <1>2, <2>2 DEF AlternateInv, Alternates, OneAhead, Tells, Done
  <2>4. ASSUME NEW p \in ToSet(net[n]), IsAck(p), p.cid = cid[n]
        PROVE  recv[m].cid = cid[n]
    <3>1. OnWay(n, cid[n]) /\ cid[n] \in Cids
          BY <2>4 DEF OnWay, TypeOK, ControllerTypeOK
    <3> QED
        BY <1>4, <3>1, DoneMeansReceived DEF AlternateInv, Alternates, Tells
  <2>5. AcksOrdered(n)'
        BY <1>1, <1>4, <2>1, <2>4 DEF AlternateInv, Alternates, AcksOrdered, IsAck
  <2> QED
      BY <2>3, <2>5 DEF Alternates
<1> QED
    BY <1>3, <1>4

LEMMA OtherAlternates ==
  ASSUME SeqInv, AlternateInv, NEW m \in Nodes,
         LosePacket(m) \/ RecvSendMdReturns(m) \/ RunAckCb(m),
         NEW n \in Nodes
  PROVE  Alternates(n)'
<1> USE DEF SeqInv
<1>1. NetKept
      BY RemoveKeeps, UnchangedKeeps DEF LosePacket, RecvSendMdReturns, RunAckCb
<1>2. UNCHANGED <<issued, executed, cmd, cid, need_ack_cid>>
      BY DEF LosePacket, RecvSendMdReturns, RunAckCb, controllerVars, history
<1>3. UNCHANGED recv \/ RecvGoto(m, "recvfrom")
      BY DEF LosePacket, RecvSendMdReturns, RunAckCb
<1>4. /\ recv'[Peer[n]].serial = recv[Peer[n]].serial
      /\ recv'[Peer[n]].cid = recv[Peer[n]].cid
      /\ recv'[Peer[n]].pc = "note_ack" => recv[Peer[n]].pc = "note_ack"
      BY <1>3, GotoKeepsPacket, SerialTypes
<1> QED
    BY <1>1, <1>2, <1>4, AlternateKept
       DEF AlternateInv, Done, NetKept, NetShrinks

LEMMA NextAlternate ==
  ASSUME ~Reorders, ~Timeouts, SeqInv, AlternateInv, [Next]_vars
  PROVE  AlternateInv'
<1>1. Patient'
  <2>1. ASSUME NEW c \in Callers, SetCmd(c) PROVE Patient'
        BY <2>1 DEF SetCmd, SeqInv, TypeOK, AlternateInv, Patient
  <2>2. ASSUME NEW c \in Callers, SendMdReturns(c) \/ GetsAck(c) PROVE Patient'
    <3>1. \/ CallerGoto(c, "idle") \/ CallerGoto(c, "await")
          BY <2>2 DEF SendMdReturns, GetsAck
    <3> QED
        BY <3>1 DEF CallerGoto, SeqInv, TypeOK, CallerStates, AlternateInv, Patient
  <2>3. ASSUME NEW c \in Callers, TimesOut(c) \/ Abandons(c) PROVE FALSE
        BY <2>3, ~Timeouts DEF TimesOut, Abandons, CallerAt, AlternateInv, Patient
  <2>4. CASE UNCHANGED caller
        BY <2>4 DEF AlternateInv, Patient
  <2> QED
      BY <2>1, <2>2, <2>3, <2>4
         DEF Next, CallerStep, Receive, RecvStep, EmitPacket, LosePacket,
             ReceiveAck, ReceiveCmd, RunCmdCb, RecvNoteAck, RecvSendMdReturns,
             RunAckCb, vars, linkVars
<1>2. ASSUME NEW n \in Nodes PROVE Alternates(n)'
  <2>1. ASSUME NEW c \in Callers, SendMdReturns(c) \/ GetsAck(c) PROVE Alternates(n)'
    <3>1. UNCHANGED <<net, recv, issued, executed, cmd, cid, need_ack_cid>>
          BY <2>1 DEF SendMdReturns, GetsAck, TakeAck, controllerVars, history
    <3> QED
        BY <3>1, AlternateKept, SubOrderRefl DEF SeqInv, AlternateInv, Done
  <2>2. ASSUME NEW c \in Callers, TimesOut(c) \/ Abandons(c) PROVE FALSE
        BY <2>2, ~Timeouts DEF TimesOut, Abandons, CallerAt, AlternateInv, Patient
  <2>3. CASE UNCHANGED vars
    <3>1. UNCHANGED <<net, recv, issued, executed, cmd, cid, need_ack_cid>>
          BY <2>3 DEF vars, linkVars, controllerVars, history
    <3> QED
        BY <3>1, AlternateKept, SubOrderRefl DEF SeqInv, AlternateInv, Done
  <2> QED
      BY <2>1, <2>2, <2>3, ~Reorders, SetCmdAlternates, EmitAlternates,
         ReceiveAckAlternates, ReceiveCmdAlternates, RunCmdCbAlternates,
         NoteAckAlternates, OtherAlternates
         DEF Next, CallerStep, Receive, RecvStep
<1> QED
    BY <1>1, <1>2 DEF AlternateInv

LEMMA AlternateAnswers == TypeOK /\ AlternateInv => Answered
<1> SUFFICES ASSUME TypeOK, AlternateInv,
                    NEW n \in Nodes, NEW p \in ToSet(net[n]),
                    p.cmd = CMD_ACK, AckMatches(n, p.cid)
             PROVE  issued[n] \in Done(n)
    BY DEF Answered
<1>1. OnWay(n, cid[n]) /\ cid[n] \in Cids
      BY DEF OnWay, IsAck, AckMatches, TypeOK, ControllerTypeOK
<1> QED
    BY <1>1 DEF AlternateInv, Alternates, Tells

(* Either nobody gives up, or no id is used twice. *)
LEMMA AlwaysAnswered ==
  ASSUME ~Reorders, NoReuse \/ ~Timeouts
  PROVE  Spec => [](SeqInv /\ Answered)
<1>1. CASE NoReuse
  <2>1. LinkInv => Answered
        BY <1>1, LinkAnswers
  <2>2. Spec => []LinkInv
        BY <1>1, LinkAlways
  <2>3. Spec => []SeqInv
        BY SeqAlways, ~Reorders
  <2> QED
      BY <2>1, <2>2, <2>3, PTL
<1>2. CASE ~Timeouts
  <2>1. SeqInv /\ AlternateInv => Answered
        BY AlternateAnswers DEF SeqInv
  <2>2. SeqInv /\ AlternateInv /\ [Next]_vars => AlternateInv'
        BY <1>2, ~Reorders, NextAlternate
  <2>3. Spec => []SeqInv
        BY SeqAlways, ~Reorders
  <2> QED
      BY <2>1, <2>2, <2>3, InitAlternate, PTL DEF Spec
<1> QED
    BY <1>1, <1>2, NoReuse \/ ~Timeouts

(* The alternating bit: where packets keep their order and nobody gives up, *)
(* an accepted acknowledgement means that the peer executed the command,    *)
(* however many commands there are and however few ids.                    *)
THEOREM IdsMayWrap ==
  ASSUME ~Reorders, ~Timeouts PROVE Spec => []AckedExecuted
<1>1. Init => AckedExecuted
      BY DEF Init, AckedExecuted
<1>2. SeqInv /\ Answered /\ AckedExecuted /\ [Next]_vars => AckedExecuted'
      BY NextAcked DEF SeqInv
<1>3. Spec => [](SeqInv /\ Answered)
      BY AlwaysAnswered, ~Reorders, ~Timeouts
<1> QED
    BY <1>1, <1>2, <1>3, PTL DEF Spec

-----------------------------------------------------------------------------
(* The refinement. *)

LEMMA InitChannel == Init => Channel!Init
  BY DEF Init, Channel!Init

LEMMA ChannelStep ==
  ASSUME SeqInv, Answered, [Next]_vars
  PROVE  [Channel!Next]_(Channel!vars)
<1> USE DEF SeqInv, Channel!vars, Channel!Next
<1>1. ASSUME NEW c \in Callers, SetCmd(c) PROVE Channel!Next
  <2>1. Home[c] \in Nodes
        BY LinkAssumption
  <2>2. Channel!Issue(Home[c])
        BY <1>1 DEF SetCmd, Channel!Issue
  <2> QED
      BY <2>1, <2>2
<1>2. ASSUME NEW m \in Nodes, RunCmdCb(m) PROVE [Channel!Next]_(Channel!vars)
  <2>1. CASE executed' = executed
        BY <1>2, <2>1 DEF RunCmdCb
  <2>2. CASE executed' # executed
    <3>1. Peer[m] \in Nodes /\ Channel!Execute(Peer[m])
          BY <1>2, <2>2, ExecutesNext DEF Channel!Execute
    <3> QED
        BY <3>1
  <2> QED
      BY <2>1, <2>2
<1>3. CASE UNCHANGED acked /\ UNCHANGED <<issued, executed>>
      BY <1>3
<1>4. CASE ~UNCHANGED acked
  <2>1. PICK n \in Nodes : /\ issued[n] \in Done(n)
                           /\ acked' = [acked EXCEPT ![n] = @ \cup {issued[n]}]
                           /\ UNCHANGED <<issued, executed>>
        BY <1>4, AckedBy
  <2>2. \E i \in 1..Len(executed[n]) : executed[n][i] = issued[n]
    <3>1. executed[n] \in Seq(Nat)
          BY DEF TypeOK
    <3>2. issued[n] \in ToSet(executed[n])
          BY <2>1 DEF Done
    <3> QED
        BY <3>1, <3>2, InToSet
  <2>3. Channel!Acknowledge(n)
        BY <2>1, <2>2 DEF Channel!Acknowledge
  <2> QED
      BY <2>3
<1> QED
    BY <1>1, <1>2, <1>3, <1>4
       DEF Next, CallerStep, Receive, RecvStep, SendMdReturns, GetsAck, TimesOut,
           Abandons, EmitPacket, LosePacket, ReceiveAck, ReceiveCmd, RecvNoteAck,
           RecvSendMdReturns, RunAckCb, vars, linkVars, history

(* Two controllers and a network that keeps the order are a command         *)
(* channel: as long as nobody gives up waiting, or no id is used twice.     *)
THEOREM ImplementsTheChannel ==
  ASSUME ~Reorders, NoReuse \/ ~Timeouts
  PROVE  Spec => ImplementsChannel
<1>1. SeqInv /\ Answered /\ [Next]_vars => [Channel!Next]_(Channel!vars)
      BY ChannelStep
<1>2. Spec => [](SeqInv /\ Answered)
      BY AlwaysAnswered, ~Reorders, NoReuse \/ ~Timeouts
<1> QED
    BY <1>1, <1>2, InitChannel, PTL DEF Spec, ImplementsChannel, Channel!Spec
=============================================================================
