------------------------- MODULE CommandLinkProofs -------------------------
(***************************************************************************)
(* What holds of CommandLink over every network: however many packets it   *)
(* loses, reorders or delivers again, and whenever callers give up.        *)
(***************************************************************************)
EXTENDS CommandLink, SequenceTheorems, TLAPS

-----------------------------------------------------------------------------
(* The elements of a sequence. *)

LEMMA ToSetAppend ==
  ASSUME NEW S, NEW s \in Seq(S), NEW e \in S
  PROVE  /\ Append(s, e) \in Seq(S)
         /\ ToSet(Append(s, e)) = ToSet(s) \cup {e}
<1>1. /\ Append(s, e) \in Seq(S)
      /\ Len(Append(s, e)) = Len(s) + 1
      /\ \A i \in 1..Len(s) : Append(s, e)[i] = s[i]
      /\ Append(s, e)[Len(s) + 1] = e
      BY AppendProperties
<1>2. DOMAIN s = 1..Len(s) /\ DOMAIN Append(s, e) = 1..(Len(s) + 1)
      BY <1>1, LenProperties
<1>3. Len(s) \in Nat
      BY LenProperties
<1>4. ToSet(Append(s, e)) = ToSet(s) \cup {e}
      BY <1>1, <1>2, <1>3 DEF ToSet
<1> QED
    BY <1>1, <1>4

LEMMA ToSetRemoveAt ==
  ASSUME NEW S, NEW s \in Seq(S), NEW i \in 1..Len(s)
  PROVE  /\ RemoveAt(s, i) \in Seq(S)
         /\ ToSet(RemoveAt(s, i)) \subseteq ToSet(s)
<1> DEFINE a == SubSeq(s, 1, i - 1)
           b == SubSeq(s, i + 1, Len(s))
<1>1. Len(s) \in Nat /\ DOMAIN s = 1..Len(s)
      BY LenProperties
<1>2. \A j \in 1..Len(s) : s[j] \in ToSet(s)
      BY <1>1 DEF ToSet
<1>3. a \in Seq(ToSet(s))
      BY <1>1, <1>2, SubSeqProperties
<1>4. b \in Seq(ToSet(s))
      BY <1>1, <1>2, SubSeqProperties
<1>5. RemoveAt(s, i) \in Seq(ToSet(s))
      BY <1>3, <1>4, ConcatProperties DEF RemoveAt
<1>6. ToSet(s) \subseteq S
      BY <1>1, ElementOfSeq DEF ToSet
<1>7. \A T : RemoveAt(s, i) \in Seq(T) => ToSet(RemoveAt(s, i)) \subseteq T
      BY ElementOfSeq, LenProperties DEF ToSet
<1> HIDE DEF a, b
<1> QED
    BY <1>5, <1>6, <1>7, SeqMonotonic

-----------------------------------------------------------------------------
(* Type correctness. *)

LEMMA NextCidType == \A k \in Cids : NextCid(k) \in Cids
  BY ControllerAssumption DEF NextCid, Cids

LEMMA InitType == Init => TypeOK
  BY LinkAssumption, ControllerAssumption, SemMaxAssumption, EmptySeq
     DEF Init, ControllerInit, TypeOK, ControllerTypeOK, Cids, CID_INIT,
         CID_NONE, SemInit, CallerStates, RecvStates

LEMMA PacketType ==
  ASSUME TypeOK, NEW n \in Nodes, Packet(n).cmd # CMD_EMPTY
  PROVE  Packet(n) \in Packets
<1>1. Metadata(n).cid \in Cids
      BY DEF TypeOK, ControllerTypeOK, Metadata, CID_NONE
<1>2. Metadata(n).cmd \in Cmds \cup {CMD_ACK, CMD_EMPTY}
      BY DEF TypeOK, ControllerTypeOK, Metadata
<1> QED
    BY <1>1, <1>2 DEF Packet, Packets, TypeOK

(* What EmitPacket and the two ways to take a packet do to the network. *)
LEMMA EmitNet ==
  ASSUME TypeOK, NEW n \in Nodes, EmitPacket(n)
  PROVE  /\ net' \in [Nodes -> Seq(Packets)]
         /\ \A m \in Nodes \ {Peer[n]} : net'[m] = net[m]
         /\ ToSet(net'[Peer[n]]) \subseteq ToSet(net[Peer[n]]) \cup {Packet(n)}
<1>1. CASE Packet(n).cmd = CMD_EMPTY \/ Packet(n) \in ToSet(net[Peer[n]])
      BY <1>1 DEF EmitPacket, TypeOK
<1>2. CASE ~(Packet(n).cmd = CMD_EMPTY \/ Packet(n) \in ToSet(net[Peer[n]]))
  <2>1. Packet(n) \in Packets
        BY <1>2, PacketType
  <2>2. Peer[n] \in Nodes /\ net[Peer[n]] \in Seq(Packets)
        BY LinkAssumption DEF TypeOK
  <2>3. net' = [net EXCEPT ![Peer[n]] = Append(@, Packet(n))]
        BY <1>2 DEF EmitPacket
  <2>4. /\ Append(net[Peer[n]], Packet(n)) \in Seq(Packets)
        /\ ToSet(Append(net[Peer[n]], Packet(n)))
             = ToSet(net[Peer[n]]) \cup {Packet(n)}
        BY <2>1, <2>2, ToSetAppend
  <2> QED
      BY <2>2, <2>3, <2>4 DEF TypeOK
<1> QED
    BY <1>1, <1>2

NetShrinks ==
  /\ net' \in [Nodes -> Seq(Packets)]
  /\ \A m \in Nodes : ToSet(net'[m]) \subseteq ToSet(net[m])

LEMMA RemoveShrinks ==
  ASSUME TypeOK, NEW n \in Nodes, NEW i \in 1..Len(net[n]),
         net' = [net EXCEPT ![n] = RemoveAt(@, i)]
  PROVE  NetShrinks
<1>1. net[n] \in Seq(Packets)
      BY DEF TypeOK
<1>2. /\ RemoveAt(net[n], i) \in Seq(Packets)
      /\ ToSet(RemoveAt(net[n], i)) \subseteq ToSet(net[n])
      BY <1>1, ToSetRemoveAt
<1> QED
    BY <1>2 DEF TypeOK, NetShrinks

LEMMA TakeShrinks ==
  ASSUME TypeOK, NEW n \in Nodes, NEW p, TakesPacket(n, p)
  PROVE  /\ NetShrinks
         /\ p \in Packets
         /\ duplicates' \in 0..MaxDuplicates
<1>1. PICK i \in 1..Len(net[n]) :
        /\ p = net[n][i]
        /\ \/ net' = [net EXCEPT ![n] = RemoveAt(@, i)] /\ UNCHANGED duplicates
           \/ /\ duplicates < MaxDuplicates
              /\ duplicates' = duplicates + 1
              /\ UNCHANGED net
      BY DEF TakesPacket
<1>2. p \in Packets
      BY <1>1, ElementOfSeq DEF TypeOK
<1>3. NetShrinks
  <2>1. CASE net' = [net EXCEPT ![n] = RemoveAt(@, i)]
        BY <2>1, RemoveShrinks
  <2>2. CASE UNCHANGED net
        BY <2>2 DEF TypeOK, NetShrinks
  <2> QED
      BY <1>1, <2>1, <2>2
<1>4. duplicates' \in 0..MaxDuplicates
      BY <1>1, LinkAssumption DEF TypeOK
<1> QED
    BY <1>2, <1>3, <1>4

LEMMA CallerGotoType ==
  ASSUME TypeOK, NEW c \in Callers,
         NEW l \in {"idle", "send_md", "await", "expired"}, CallerGoto(c, l)
  PROVE  caller' \in [Callers -> CallerStates]
<1>1. caller[c] \in CallerStates
      BY DEF TypeOK
<1>2. [caller[c] EXCEPT !.pc = l] \in CallerStates
      BY <1>1 DEF CallerStates
<1>3. caller' = [caller EXCEPT ![c] = [caller[c] EXCEPT !.pc = l]]
      BY DEF CallerGoto
<1> QED
    BY <1>2, <1>3 DEF TypeOK

LEMMA RecvGotoType ==
  ASSUME TypeOK, NEW n \in Nodes,
         NEW l \in {"recvfrom", "cmd_cb", "note_ack", "send_md", "ack_cb"},
         RecvGoto(n, l)
  PROVE  recv' \in [Nodes -> RecvStates]
<1>1. recv[n] \in RecvStates
      BY DEF TypeOK
<1>2. [recv[n] EXCEPT !.pc = l] \in RecvStates
      BY <1>1 DEF RecvStates
<1>3. recv' = [recv EXCEPT ![n] = [recv[n] EXCEPT !.pc = l]]
      BY DEF RecvGoto
<1> QED
    BY <1>2, <1>3 DEF TypeOK

LEMMA NextType == TypeOK /\ [Next]_vars => TypeOK'
<1> SUFFICES ASSUME TypeOK, [Next]_vars PROVE TypeOK'
    OBVIOUS
<1> USE LinkAssumption, ControllerAssumption, SemMaxAssumption
    DEF TypeOK, ControllerTypeOK, history, linkVars, vars, controllerVars
<1>1. ASSUME NEW c \in Callers, SetCmd(c) PROVE TypeOK'
      BY <1>1, NextCidType DEF SetCmd, StoreCmd, CallerStates
<1>2. ASSUME NEW c \in Callers, TimesOut(c) PROVE TypeOK'
      BY <1>2, CallerGotoType DEF TimesOut
<1>3. ASSUME NEW c \in Callers, SendMdReturns(c) PROVE TypeOK'
      BY <1>3, CallerGotoType DEF SendMdReturns
<1>4. ASSUME NEW c \in Callers, GetsAck(c) PROVE TypeOK'
      BY <1>4, CallerGotoType DEF GetsAck, TakeAck, SemAvailable, SemTake
<1>5. ASSUME NEW c \in Callers, Abandons(c) PROVE TypeOK'
      BY <1>5, CallerGotoType DEF Abandons, AbandonCmd
<1>6. ASSUME NEW n \in Nodes, EmitPacket(n) PROVE TypeOK'
  <2>1. net' \in [Nodes -> Seq(Packets)]
        BY <1>6, EmitNet
  <2> QED
      BY <1>6, <2>1 DEF EmitPacket, GetMd
<1>7. ASSUME NEW n \in Nodes, LosePacket(n) PROVE TypeOK'
  <2>1. NetShrinks
        BY <1>7, RemoveShrinks DEF LosePacket
  <2> QED
      BY <1>7, <2>1 DEF LosePacket, NetShrinks
<1>8. ASSUME NEW n \in Nodes, ReceiveAck(n) PROVE TypeOK'
  <2>1. PICK p \in ToSet(net[n]) :
          /\ TakesPacket(n, p)
          /\ AcceptAck(n, p.cid) \/ IgnoreAck(n, p.cid)
          /\ \/ acked' = acked
             \/ acked' = [acked EXCEPT ![n] = @ \cup {issued[n]}]
          /\ RecvGoto(n, "ack_cb") \/ RecvGoto(n, "recvfrom")
        BY <1>8 DEF ReceiveAck
  <2>2. NetShrinks /\ p \in Packets /\ duplicates' \in 0..MaxDuplicates
        BY <2>1, TakeShrinks
  <2>3. ControllerTypeOK'
    <3>1. CASE AcceptAck(n, p.cid)
          BY <3>1 DEF AcceptAck, WakeWaiter, SemGive
    <3>2. CASE IgnoreAck(n, p.cid)
          BY <3>2 DEF IgnoreAck
    <3> QED
        BY <2>1, <3>1, <3>2
  <2>4. acked' \in [Nodes -> SUBSET Nat]
    <3>1. acked' = acked \/ acked' = [acked EXCEPT ![n] = @ \cup {issued[n]}]
          BY <2>1
    <3>2. acked[n] \cup {issued[n]} \in SUBSET Nat
          OBVIOUS
    <3>3. acked \in [Nodes -> SUBSET Nat]
          OBVIOUS
    <3> QED
        BY ONLY <3>1, <3>2, <3>3, Zenon
  <2>5. recv' \in [Nodes -> RecvStates]
        BY <2>1, RecvGotoType
  <2>6. late' \in [Nodes -> BOOLEAN]
    <3>1. (late[n] \/ (GaveUp(n) /\ ack_sem'[n] # ack_sem[n])) \in BOOLEAN
          OBVIOUS
    <3>2. late' = [late EXCEPT ![n] =
                     late[n] \/ (GaveUp(n) /\ ack_sem'[n] # ack_sem[n])]
          BY <1>8 DEF ReceiveAck
    <3> QED
        BY <3>1, <3>2
  <2> QED
      BY <1>8, <2>2, <2>3, <2>4, <2>5, <2>6 DEF ReceiveAck, NetShrinks
<1>9. ASSUME NEW n \in Nodes, ReceiveCmd(n) PROVE TypeOK'
  <2>1. PICK p \in ToSet(net[n]) :
          /\ TakesPacket(n, p)
          /\ \/ /\ AcceptCmd(n, p.cid)
                /\ recv' = [recv EXCEPT ![n] = [pc |-> "cmd_cb", cid |-> p.cid,
                                                serial |-> p.serial]]
             \/ /\ IgnoreCmd(n, p.cid)
                /\ RecvGoto(n, "recvfrom")
        BY <1>9 DEF ReceiveCmd
  <2>2. NetShrinks /\ p \in Packets /\ duplicates' \in 0..MaxDuplicates
        BY <2>1, TakeShrinks
  <2>3. p.cid \in Cids /\ p.serial \in Nat
        BY <2>2 DEF Packets
  <2>4. ControllerTypeOK'
        BY <2>1, <2>3 DEF AcceptCmd, IgnoreCmd
  <2>5. recv' \in [Nodes -> RecvStates]
    <3>1. [pc |-> "cmd_cb", cid |-> p.cid, serial |-> p.serial] \in RecvStates
          BY <2>3 DEF RecvStates
    <3>2. CASE recv' = [recv EXCEPT ![n] = [pc |-> "cmd_cb", cid |-> p.cid,
                                            serial |-> p.serial]]
          BY <3>1, <3>2
    <3>3. CASE RecvGoto(n, "recvfrom")
          BY <3>3, RecvGotoType
    <3> QED
        BY <2>1, <3>2, <3>3
  <2> QED
      BY <1>9, <2>2, <2>4, <2>5 DEF ReceiveCmd, NetShrinks
<1>10. ASSUME NEW n \in Nodes, RunCmdCb(n) PROVE TypeOK'
  <2>1. executed' \in [Nodes -> Seq(Nat)]
    <3>1. recv[n].serial \in Nat /\ executed[Peer[n]] \in Seq(Nat)
          BY DEF RecvStates
    <3>2. Append(executed[Peer[n]], recv[n].serial) \in Seq(Nat)
          BY <3>1, AppendProperties
    <3> QED
        BY <1>10, <3>2 DEF RunCmdCb
  <2> QED
      BY <1>10, <2>1, RecvGotoType DEF RunCmdCb
<1>11. ASSUME NEW n \in Nodes, RecvNoteAck(n) PROVE TypeOK'
  <2>1. recv[n].cid \in Cids
        BY DEF RecvStates
  <2> QED
      BY <1>11, <2>1, RecvGotoType DEF RecvNoteAck, NoteAck
<1>12. ASSUME NEW n \in Nodes, RecvSendMdReturns(n) \/ RunAckCb(n) PROVE TypeOK'
       BY <1>12, RecvGotoType DEF RecvSendMdReturns, RunAckCb
<1>13. CASE UNCHANGED vars
       BY <1>13
<1> QED
    BY <1>1, <1>2, <1>3, <1>4, <1>5, <1>6, <1>7, <1>8, <1>9, <1>10, <1>11,
       <1>12, <1>13
       DEF Next, CallerStep, Receive, RecvStep

(* No command slot, id, semaphore or packet ever leaves its range.         *)
THEOREM TypeCorrect == Spec => []TypeOK
<1>1. Init => TypeOK
      BY InitType
<1>2. TypeOK /\ [Next]_vars => TypeOK'
      BY NextType
<1> QED
    BY <1>1, <1>2, PTL DEF Spec

-----------------------------------------------------------------------------
(* What serial numbers say: nothing is executed, or on its way to be, that  *)
(* was not issued.                                                         *)

Done(n) == ToSet(executed[n])

SerialInv ==
  \A n \in Nodes :
    /\ cmd[n] # CMD_EMPTY => issued[n] >= 1
    /\ \A p \in ToSet(net[n]) : p.cmd # CMD_ACK => p.serial \in 1..issued[Peer[n]]
    /\ recv[n].serial \in 0..issued[Peer[n]]
    /\ recv[n].pc \in {"cmd_cb", "note_ack"} => recv[n].serial >= 1
    /\ Done(n) \subseteq 1..issued[n]

(* The step of a receive task that changes only where it is. *)
LEMMA GotoKeepsPacket ==
  ASSUME TypeOK, NEW n \in Nodes, NEW l, RecvGoto(n, l)
  PROVE  /\ recv'[n].pc = l
         /\ recv'[n].cid = recv[n].cid
         /\ recv'[n].serial = recv[n].serial
         /\ \A m \in Nodes \ {n} : recv'[m] = recv[m]
<1>1. recv[n] \in RecvStates
      BY DEF TypeOK
<1>2. recv' = [recv EXCEPT ![n] = [recv[n] EXCEPT !.pc = l]]
      BY DEF RecvGoto
<1> QED
    BY <1>1, <1>2 DEF TypeOK, RecvStates

(* The callback's return executes the command, or not. *)
LEMMA Executes ==
  ASSUME TypeOK, NEW n \in Nodes, RunCmdCb(n)
  PROVE  /\ Peer[n] \in Nodes
         /\ \A m \in Nodes \ {Peer[n]} : executed'[m] = executed[m]
         /\ \/ RecvGoto(n, "recvfrom") /\ executed' = executed
            \/ /\ RecvGoto(n, "note_ack")
               /\ executed'[Peer[n]] = Append(executed[Peer[n]], recv[n].serial)
               /\ Done(Peer[n])' = Done(Peer[n]) \cup {recv[n].serial}
<1>1. /\ Peer[n] \in Nodes
      /\ recv[n].serial \in Nat
      /\ executed \in [Nodes -> Seq(Nat)]
      BY LinkAssumption DEF TypeOK, RecvStates
<1>2. CASE RecvGoto(n, "recvfrom") /\ executed' = executed
      BY <1>1, <1>2
<1>3. CASE /\ RecvGoto(n, "note_ack")
           /\ executed' = [executed EXCEPT ![Peer[n]] = Append(@, recv[n].serial)]
  <2>1. executed'[Peer[n]] = Append(executed[Peer[n]], recv[n].serial)
        BY <1>1, <1>3
  <2>2. ToSet(executed'[Peer[n]]) = ToSet(executed[Peer[n]]) \cup {recv[n].serial}
        BY <1>1, <2>1, ToSetAppend
  <2> QED
      BY <1>1, <1>3, <2>1, <2>2 DEF Done
<1> QED
    BY <1>2, <1>3 DEF RunCmdCb

LEMMA InitSerial == Init => SerialInv
<1> SUFFICES ASSUME Init PROVE SerialInv
    OBVIOUS
<1>1. \A n \in Nodes : ToSet(net[n]) = {} /\ Done(n) = {}
      BY DEF Init, ToSet, Done
<1> QED
    BY <1>1, LinkAssumption DEF SerialInv, Init, ControllerInit

(* Most steps take packets away, free slots, and move receive tasks.       *)
LEMMA SerialKept ==
  ASSUME TypeOK, SerialInv, UNCHANGED <<issued, executed>>,
         \A n \in Nodes : ToSet(net'[n]) \subseteq ToSet(net[n]),
         \A n \in Nodes : cmd'[n] \in {cmd[n], CMD_EMPTY},
         \A n \in Nodes :
           \/ /\ recv'[n].serial = recv[n].serial
              /\ recv'[n].pc \in {"cmd_cb", "note_ack"} => recv'[n].pc = recv[n].pc
           \/ recv'[n].serial \in 1..issued[Peer[n]]
  PROVE  SerialInv'
<1> USE LinkAssumption, ControllerAssumption DEF SerialInv
<1>1. \A n \in Nodes : Peer[n] \in Nodes /\ issued[n] \in Nat /\ Done(n)' = Done(n)
      BY DEF TypeOK, Done
<1>2. ASSUME NEW n \in Nodes
      PROVE  /\ recv'[n].serial \in 0..issued[Peer[n]]
             /\ recv'[n].pc \in {"cmd_cb", "note_ack"} => recv'[n].serial >= 1
      BY <1>1
<1> QED
    BY <1>1, <1>2

LEMMA NextSerial == TypeOK /\ SerialInv /\ [Next]_vars => SerialInv'
<1> SUFFICES ASSUME TypeOK, SerialInv, [Next]_vars PROVE SerialInv'
    OBVIOUS
<1> USE LinkAssumption, ControllerAssumption DEF SerialInv
<1>0. \A n \in Nodes : Peer[n] \in Nodes /\ issued[n] \in Nat
      BY DEF TypeOK
<1>1. ASSUME NEW c \in Callers, SetCmd(c) PROVE SerialInv'
  <2>1. /\ Home[c] \in Nodes
        /\ issued' = [issued EXCEPT ![Home[c]] = @ + 1]
        /\ UNCHANGED <<recv, net, executed>>
        BY <1>1 DEF SetCmd
  <2>2. \A n \in Nodes : /\ issued'[n] \in {issued[n], issued[n] + 1}
                         /\ n = Home[c] => issued'[n] = issued[n] + 1
        BY <2>1 DEF TypeOK
  <2>3. \A n \in Nodes \ {Home[c]} : cmd'[n] = cmd[n]
        BY <1>1, <2>1 DEF SetCmd, StoreCmd, TypeOK, ControllerTypeOK
  <2>4. \A n \in Nodes : /\ issued'[n] \in Nat /\ Done(n)' = Done(n)
                         /\ 0..issued[n] \subseteq 0..issued'[n]
                         /\ 1..issued[n] \subseteq 1..issued'[n]
        BY <1>0, <2>1, <2>2 DEF Done
  <2>5. ASSUME NEW n \in Nodes PROVE cmd'[n] # CMD_EMPTY => issued'[n] >= 1
        BY <1>0, <2>2, <2>3
  <2> QED
      BY <1>0, <2>1, <2>4, <2>5
<1>2. ASSUME NEW n \in Nodes, EmitPacket(n) PROVE SerialInv'
  <2>1. Packet(n).cmd # CMD_ACK /\ Packet(n).cmd # CMD_EMPTY
          => Packet(n).serial \in 1..issued[n]
        BY <1>0 DEF Packet, Metadata
  <2>2. UNCHANGED <<issued, recv, executed, cmd>>
        BY <1>2 DEF EmitPacket, GetMd, history
  <2>3. ASSUME NEW m \in Nodes, NEW p \in ToSet(net'[m]), p.cmd # CMD_ACK
        PROVE  p.serial \in 1..issued[Peer[m]]
    <3>1. CASE p \in ToSet(net[m])
          BY <2>3, <3>1
    <3>2. CASE p \notin ToSet(net[m])
      <4>1. net'[m] # net[m]
            BY <3>2
      <4>2. m = Peer[n] /\ p = Packet(n)
            BY <1>2, <3>2, <4>1, EmitNet
      <4>3. Packet(n).cmd # CMD_EMPTY
            BY <1>2, <4>1 DEF EmitPacket
      <4> QED
          BY <2>1, <2>3, <4>2, <4>3
    <3> QED
        BY <3>1, <3>2
  <2> QED
      BY <2>2, <2>3 DEF Done
<1>3. ASSUME NEW n \in Nodes, LosePacket(n) PROVE SerialInv'
  <2>1. NetShrinks
        BY <1>3, RemoveShrinks DEF LosePacket
  <2> QED
      BY <1>3, <2>1 DEF LosePacket, NetShrinks, controllerVars, history, Done
<1>4. ASSUME NEW n \in Nodes, ReceiveAck(n) PROVE SerialInv'
  <2>1. NetShrinks
        BY <1>4, TakeShrinks DEF ReceiveAck
  <2>2. RecvGoto(n, "ack_cb") \/ RecvGoto(n, "recvfrom")
        BY <1>4 DEF ReceiveAck
  <2>3. \A m \in Nodes : cmd'[m] \in {cmd[m], CMD_EMPTY}
        BY <1>4 DEF ReceiveAck, AcceptAck, IgnoreAck, controllerVars, TypeOK,
                    ControllerTypeOK
  <2>4. UNCHANGED <<issued, executed>>
        BY <1>4 DEF ReceiveAck
  <2>5. ASSUME NEW m \in Nodes
        PROVE  /\ recv'[m].serial = recv[m].serial
               /\ recv'[m].pc \in {"cmd_cb", "note_ack"} => recv'[m].pc = recv[m].pc
        BY <2>2, GotoKeepsPacket
  <2> QED
      BY <2>1, <2>3, <2>4, <2>5, SerialKept DEF NetShrinks
<1>5. ASSUME NEW n \in Nodes, ReceiveCmd(n) PROVE SerialInv'
  <2>1. PICK p \in ToSet(net[n]) :
          /\ p.cmd # CMD_ACK
          /\ TakesPacket(n, p)
          /\ \/ recv' = [recv EXCEPT ![n] = [pc |-> "cmd_cb", cid |-> p.cid,
                                             serial |-> p.serial]]
             \/ RecvGoto(n, "recvfrom")
        BY <1>5 DEF ReceiveCmd
  <2>2. NetShrinks /\ UNCHANGED <<cmd, issued, executed>>
        BY <1>5, <2>1, TakeShrinks
           DEF ReceiveCmd, AcceptCmd, IgnoreCmd, controllerVars, history
  <2>3. CASE recv' = [recv EXCEPT ![n] = [pc |-> "cmd_cb", cid |-> p.cid,
                                          serial |-> p.serial]]
    <3>1. \A m \in Nodes : \/ recv'[m] = recv[m]
                           \/ m = n /\ recv'[m].serial \in 1..issued[Peer[n]]
          BY <2>1, <2>3 DEF TypeOK
    <3> QED
        BY <2>2, <3>1, SerialKept DEF NetShrinks
  <2>4. CASE RecvGoto(n, "recvfrom")
    <3>1. ASSUME NEW m \in Nodes
          PROVE  /\ recv'[m].serial = recv[m].serial
                 /\ recv'[m].pc \in {"cmd_cb", "note_ack"} => recv'[m].pc = recv[m].pc
          BY <2>4, GotoKeepsPacket
    <3> QED
        BY <2>2, <3>1, SerialKept DEF NetShrinks
  <2> QED
      BY <2>1, <2>3, <2>4
<1>6. ASSUME NEW n \in Nodes, RunCmdCb(n) PROVE SerialInv'
  <2>1. recv[n].pc = "cmd_cb" /\ UNCHANGED <<cmd, net, issued>>
        BY <1>6 DEF RunCmdCb, RecvAt, controllerVars
  <2>2. recv[n].serial \in 1..issued[Peer[n]]
        BY <1>0, <2>1
  <2>3. ASSUME NEW m \in Nodes
        PROVE  \/ Done(m)' = Done(m)
               \/ m = Peer[n] /\ Done(m)' = Done(m) \cup {recv[n].serial}
        BY <1>6, Executes DEF Done
  <2>4. RecvGoto(n, "note_ack") \/ RecvGoto(n, "recvfrom")
        BY <1>6, Executes
  <2> QED
      BY <2>1, <2>2, <2>3, <2>4, GotoKeepsPacket
<1>7. ASSUME NEW n \in Nodes, RecvNoteAck(n) \/ RecvSendMdReturns(n) \/ RunAckCb(n)
      PROVE  SerialInv'
  <2>1. RecvGoto(n, "send_md") \/ RecvGoto(n, "recvfrom")
        BY <1>7 DEF RecvNoteAck, RecvSendMdReturns, RunAckCb
  <2>2. UNCHANGED <<cmd, net, issued, executed>>
        BY <1>7 DEF RecvNoteAck, NoteAck, RecvSendMdReturns, RunAckCb,
                    controllerVars, history
  <2> QED
      BY <2>1, <2>2, GotoKeepsPacket DEF Done
<1>8. ASSUME NEW c \in Callers, TimesOut(c) \/ CallerStep(c) PROVE SerialInv'
  <2>1. UNCHANGED <<net, recv, issued, executed>>
        BY <1>8 DEF TimesOut, CallerStep, SendMdReturns, GetsAck, Abandons, history
  <2>2. \A m \in Nodes : cmd'[m] \in {cmd[m], CMD_EMPTY}
        BY <1>8 DEF TimesOut, CallerStep, SendMdReturns, GetsAck, TakeAck, Abandons,
                    AbandonCmd, controllerVars, TypeOK, ControllerTypeOK
  <2> QED
      BY <2>1, <2>2 DEF Done
<1>9. CASE UNCHANGED vars
      BY <1>9 DEF vars, controllerVars, linkVars, history, Done
<1> QED
    BY <1>1, <1>2, <1>3, <1>4, <1>5, <1>6, <1>7, <1>8, <1>9
       DEF Next, Receive, RecvStep

-----------------------------------------------------------------------------
(* An acknowledgement speaks for the command whose id it carries, as long  *)
(* as no id is used twice, whatever the network does.                      *)

NoReuse == MaxCmds <= MaxCid + 1

(* Ids are serial numbers, but for the one that wraps. *)
IdOf(s) == IF s = MaxCid + 1 THEN 0 ELSE s

IdInv == \A n \in Nodes : cid[n] = IdOf(issued[n]) /\ issued[n] <= MaxCmds

(* A command on its way to the callback, in the network or in the receive  *)
(* task, carries the id of its serial number.                              *)
CommandInv ==
  \A n \in Nodes :
    /\ \A p \in ToSet(net[n]) : p.cmd # CMD_ACK => p.cid = IdOf(p.serial)
    /\ recv[n].pc \in {"cmd_cb", "note_ack"} => recv[n].cid = IdOf(recv[n].serial)

DoneIds(n) == {IdOf(s) : s \in Done(n)}

(* An acknowledgement on its way back, from the callback's return on,      *)
(* carries the id of an executed command.                                  *)
AckInv ==
  \A n \in Nodes :
    /\ recv[n].pc = "note_ack" => recv[n].cid \in DoneIds(Peer[n])
    /\ need_ack_cid[n] # CID_NONE => need_ack_cid[n] \in DoneIds(Peer[n])
    /\ \A p \in ToSet(net[n]) : p.cmd = CMD_ACK => p.cid \in DoneIds(n)

(* So an acknowledgement that would be accepted is that of the command in  *)
(* the slot.                                                               *)
Answered ==
  \A n \in Nodes : \A p \in ToSet(net[n]) :
    p.cmd = CMD_ACK /\ AckMatches(n, p.cid) /\ cmd[n] # CMD_EMPTY =>
      issued[n] \in Done(n)

LinkInv == TypeOK /\ SerialInv /\ IdInv /\ CommandInv /\ AckInv

LEMMA InitLink == Init => LinkInv
<1> SUFFICES ASSUME Init PROVE LinkInv
    OBVIOUS
<1>1. TypeOK
      BY InitType
<1>2. \A n \in Nodes : ToSet(net[n]) = {}
      BY DEF Init, ToSet
<1>3. IdInv
      BY LinkAssumption, ControllerAssumption
         DEF IdInv, IdOf, Init, ControllerInit, CID_INIT
<1>4. CommandInv /\ AckInv
      BY <1>2 DEF CommandInv, AckInv, Init, ControllerInit
<1> QED
    BY <1>1, <1>3, <1>4, InitSerial DEF LinkInv

LEMMA NextId == ASSUME NoReuse PROVE LinkInv /\ [Next]_vars => IdInv'
<1> SUFFICES ASSUME LinkInv, [Next]_vars PROVE IdInv'
    OBVIOUS
<1> USE LinkAssumption, ControllerAssumption DEF LinkInv, IdInv
<1>1. ASSUME NEW c \in Callers, SetCmd(c) PROVE IdInv'
  <2>1. Home[c] \in Nodes /\ issued[Home[c]] < MaxCmds
        BY <1>1 DEF SetCmd
  <2>2. issued[Home[c]] \in Nat /\ issued[Home[c]] < MaxCid + 1
        BY <2>1, NoReuse DEF NoReuse, TypeOK
  <2>3. NextCid(cid[Home[c]]) = IdOf(issued[Home[c]] + 1)
        BY <2>1, <2>2 DEF NextCid, IdOf
  <2> QED
      BY <1>1, <2>1, <2>3 DEF SetCmd, StoreCmd, TypeOK, ControllerTypeOK
<1>2. CASE UNCHANGED <<cid, issued>>
      BY <1>2
<1>3. CASE UNCHANGED vars
      BY <1>3 DEF vars, controllerVars, linkVars, history
<1> QED
    BY <1>1, <1>2, <1>3
       DEF Next, CallerStep, Receive, RecvStep, SendMdReturns, GetsAck,
           TakeAck, TimesOut, Abandons, AbandonCmd, EmitPacket, GetMd,
           LosePacket, ReceiveAck, AcceptAck, IgnoreAck, ReceiveCmd, AcceptCmd,
           IgnoreCmd, RunCmdCb, RecvNoteAck, NoteAck, RecvSendMdReturns,
           RunAckCb, controllerVars, history

(* Commands only get executed: Done grows. *)
LEMMA DoneGrows ==
  ASSUME TypeOK, [Next]_vars, NEW n \in Nodes
  PROVE  Done(n) \subseteq Done(n)' /\ DoneIds(n) \subseteq DoneIds(n)'
<1>1. Done(n) \subseteq Done(n)'
  <2>1. ASSUME NEW m \in Nodes, RunCmdCb(m) PROVE Done(n) \subseteq Done(n)'
        BY <2>1, Executes DEF Done
  <2>2. CASE UNCHANGED executed
        BY <2>2 DEF Done
  <2> QED
      BY <2>1, <2>2
         DEF Next, CallerStep, Receive, RecvStep, SetCmd, SendMdReturns, GetsAck,
             TimesOut, Abandons, EmitPacket, LosePacket, ReceiveAck, ReceiveCmd,
             RecvNoteAck, RecvSendMdReturns, RunAckCb, vars, linkVars, history
<1> QED
    BY <1>1 DEF DoneIds

LEMMA NextCommand == LinkInv /\ [Next]_vars => CommandInv'
<1> SUFFICES ASSUME LinkInv, [Next]_vars PROVE CommandInv'
    OBVIOUS
<1> USE LinkAssumption, ControllerAssumption DEF LinkInv, CommandInv
<1>1. ASSUME NEW n \in Nodes, EmitPacket(n) PROVE CommandInv'
  <2>1. Packet(n).cmd # CMD_ACK => Packet(n).cid = IdOf(Packet(n).serial)
        BY DEF Packet, Metadata, IdInv
  <2>2. ASSUME NEW m \in Nodes, NEW p \in ToSet(net'[m]), p.cmd # CMD_ACK
        PROVE  p.cid = IdOf(p.serial)
    <3>1. p \in ToSet(net[m]) \/ p = Packet(n)
          BY <1>1, <2>2, EmitNet
    <3> QED
        BY <2>1, <2>2, <3>1
  <2>3. recv' = recv
        BY <1>1 DEF EmitPacket
  <2> QED
      BY <2>2, <2>3
<1>2. ASSUME NEW n \in Nodes, LosePacket(n) PROVE CommandInv'
  <2>1. NetShrinks
        BY <1>2, RemoveShrinks DEF LosePacket
  <2>2. recv' = recv
        BY <1>2 DEF LosePacket
  <2> QED
      BY <2>1, <2>2 DEF NetShrinks
<1>3. ASSUME NEW n \in Nodes, ReceiveAck(n) PROVE CommandInv'
  <2>1. NetShrinks
        BY <1>3, TakeShrinks DEF ReceiveAck
  <2>2. RecvGoto(n, "ack_cb") \/ RecvGoto(n, "recvfrom")
        BY <1>3 DEF ReceiveAck
  <2>3. \A m \in Nodes : recv'[m].pc \in {"cmd_cb", "note_ack"} =>
                           recv'[m] = recv[m]
        BY <2>2, GotoKeepsPacket
  <2> QED
      BY <2>1, <2>3 DEF NetShrinks
<1>4. ASSUME NEW n \in Nodes, ReceiveCmd(n) PROVE CommandInv'
  <2>1. PICK p \in ToSet(net[n]) :
          /\ p.cmd # CMD_ACK
          /\ TakesPacket(n, p)
          /\ \/ recv' = [recv EXCEPT ![n] = [pc |-> "cmd_cb", cid |-> p.cid,
                                             serial |-> p.serial]]
             \/ RecvGoto(n, "recvfrom")
        BY <1>4 DEF ReceiveCmd
  <2>2. NetShrinks
        BY <2>1, TakeShrinks
  <2>3. p.cid = IdOf(p.serial)
        BY <2>1
  <2>4. \A m \in Nodes : recv'[m].pc \in {"cmd_cb", "note_ack"} =>
                           recv'[m].cid = IdOf(recv'[m].serial)
    <3>1. CASE recv' = [recv EXCEPT ![n] = [pc |-> "cmd_cb", cid |-> p.cid,
                                            serial |-> p.serial]]
          BY <2>3, <3>1 DEF TypeOK
    <3>2. CASE RecvGoto(n, "recvfrom")
          BY <3>2, GotoKeepsPacket
    <3> QED
        BY <2>1, <3>1, <3>2
  <2> QED
      BY <2>2, <2>4 DEF NetShrinks
<1>5. ASSUME NEW n \in Nodes, RunCmdCb(n) PROVE CommandInv'
  <2>1. recv[n].pc = "cmd_cb" /\ UNCHANGED net
        BY <1>5 DEF RunCmdCb, RecvAt
  <2>2. RecvGoto(n, "note_ack") \/ RecvGoto(n, "recvfrom")
        BY <1>5 DEF RunCmdCb
  <2> QED
      BY <2>1, <2>2, GotoKeepsPacket
<1>6. ASSUME NEW n \in Nodes, RecvNoteAck(n) PROVE CommandInv'
  <2>1. RecvGoto(n, "send_md") /\ UNCHANGED net
        BY <1>6 DEF RecvNoteAck
  <2> QED
      BY <2>1, GotoKeepsPacket
<1>7. ASSUME NEW n \in Nodes, RecvSendMdReturns(n) \/ RunAckCb(n) PROVE CommandInv'
  <2>1. RecvGoto(n, "recvfrom") /\ UNCHANGED net
        BY <1>7 DEF RecvSendMdReturns, RunAckCb
  <2> QED
      BY <2>1, GotoKeepsPacket
<1>8. CASE UNCHANGED <<net, recv>>
      BY <1>8
<1> QED
    BY <1>1, <1>2, <1>3, <1>4, <1>5, <1>6, <1>7, <1>8
       DEF Next, CallerStep, Receive, RecvStep, SetCmd, SendMdReturns, GetsAck,
           TimesOut, Abandons, vars, linkVars

LEMMA NextAck == LinkInv /\ [Next]_vars => AckInv'
<1> SUFFICES ASSUME LinkInv, [Next]_vars PROVE AckInv'
    OBVIOUS
<1> USE LinkAssumption, ControllerAssumption DEF LinkInv, AckInv
<1>0. \A n \in Nodes : DoneIds(n) \subseteq DoneIds(n)'
      BY DoneGrows
<1>1. ASSUME NEW n \in Nodes, EmitPacket(n) PROVE AckInv'
  <2>1. Packet(n).cmd = CMD_ACK => Packet(n).cid \in DoneIds(Peer[n])
        BY DEF Packet, Metadata, TypeOK, ControllerTypeOK, CMD_EMPTY, CMD_ACK
  <2>2. ASSUME NEW m \in Nodes, NEW p \in ToSet(net'[m]), p.cmd = CMD_ACK
        PROVE  p.cid \in DoneIds(m)'
    <3>1. p \in ToSet(net[m]) \/ (m = Peer[n] /\ p = Packet(n))
          BY <1>1, <2>2, EmitNet
    <3> QED
        BY <2>1, <2>2, <3>1, <1>0
  <2>3. \A m \in Nodes : need_ack_cid'[m] \in {CID_NONE, need_ack_cid[m]}
        BY <1>1 DEF EmitPacket, GetMd, TypeOK, ControllerTypeOK
  <2>4. recv' = recv
        BY <1>1 DEF EmitPacket
  <2> QED
      BY <2>2, <2>3, <2>4, <1>0
<1>2. ASSUME NEW n \in Nodes, LosePacket(n) PROVE AckInv'
  <2>1. NetShrinks
        BY <1>2, RemoveShrinks DEF LosePacket
  <2> QED
      BY <1>2, <2>1, <1>0 DEF NetShrinks, LosePacket, controllerVars
<1>3. ASSUME NEW n \in Nodes, ReceiveAck(n) PROVE AckInv'
  <2>1. NetShrinks
        BY <1>3, TakeShrinks DEF ReceiveAck
  <2>2. /\ RecvGoto(n, "ack_cb") \/ RecvGoto(n, "recvfrom")
        /\ UNCHANGED need_ack_cid
        BY <1>3 DEF ReceiveAck, AcceptAck, IgnoreAck, controllerVars
  <2>3. \A m \in Nodes : recv'[m].pc = "note_ack" => recv'[m] = recv[m]
        BY <2>2, GotoKeepsPacket
  <2> QED
      BY <2>1, <2>2, <2>3, <1>0 DEF NetShrinks
<1>4. ASSUME NEW n \in Nodes, ReceiveCmd(n) PROVE AckInv'
  <2>1. PICK p \in ToSet(net[n]) :
          /\ TakesPacket(n, p)
          /\ \/ recv' = [recv EXCEPT ![n] = [pc |-> "cmd_cb", cid |-> p.cid,
                                             serial |-> p.serial]]
             \/ RecvGoto(n, "recvfrom")
        BY <1>4 DEF ReceiveCmd
  <2>2. NetShrinks /\ UNCHANGED need_ack_cid
        BY <1>4, <2>1, TakeShrinks
           DEF ReceiveCmd, AcceptCmd, IgnoreCmd, controllerVars
  <2>3. \A m \in Nodes : recv'[m].pc = "note_ack" => recv'[m] = recv[m]
    <3>1. CASE recv' = [recv EXCEPT ![n] = [pc |-> "cmd_cb", cid |-> p.cid,
                                            serial |-> p.serial]]
          BY <3>1 DEF TypeOK
    <3>2. CASE RecvGoto(n, "recvfrom")
          BY <3>2, GotoKeepsPacket
    <3> QED
        BY <2>1, <3>1, <3>2
  <2> QED
      BY <2>2, <2>3, <1>0 DEF NetShrinks
<1>5. ASSUME NEW n \in Nodes, RunCmdCb(n) PROVE AckInv'
  <2>1. recv[n].pc = "cmd_cb" /\ UNCHANGED <<net, need_ack_cid>>
        BY <1>5 DEF RunCmdCb, RecvAt, controllerVars
  <2>2. CASE RecvGoto(n, "recvfrom")
        BY <2>1, <2>2, <1>0, GotoKeepsPacket
  <2>3. CASE /\ RecvGoto(n, "note_ack")
             /\ Done(Peer[n])' = Done(Peer[n]) \cup {recv[n].serial}
    <3>1. recv[n].cid = IdOf(recv[n].serial)
          BY <2>1 DEF CommandInv
    <3>2. recv'[n].cid \in DoneIds(Peer[n])'
          BY <2>3, <3>1, GotoKeepsPacket DEF DoneIds
    <3> QED
        BY <2>1, <2>3, <3>2, <1>0, GotoKeepsPacket
  <2> QED
      BY <1>5, <2>2, <2>3, Executes
<1>6. ASSUME NEW n \in Nodes, RecvNoteAck(n) PROVE AckInv'
  <2>1. /\ recv[n].pc = "note_ack"
        /\ RecvGoto(n, "send_md")
        /\ need_ack_cid' = [need_ack_cid EXCEPT ![n] = recv[n].cid]
        /\ UNCHANGED net
        BY <1>6 DEF RecvNoteAck, RecvAt, NoteAck
  <2>2. \A m \in Nodes : recv'[m].pc = "note_ack" => recv'[m] = recv[m]
        BY <2>1, GotoKeepsPacket
  <2>3. \A m \in Nodes : need_ack_cid'[m] # CID_NONE =>
                           need_ack_cid'[m] \in DoneIds(Peer[m])
        BY <2>1 DEF TypeOK, ControllerTypeOK
  <2> QED
      BY <2>1, <2>2, <2>3, <1>0
<1>7. ASSUME NEW n \in Nodes, RecvSendMdReturns(n) \/ RunAckCb(n) PROVE AckInv'
  <2>1. RecvGoto(n, "recvfrom") /\ UNCHANGED <<net, need_ack_cid>>
        BY <1>7 DEF RecvSendMdReturns, RunAckCb, controllerVars
  <2> QED
      BY <2>1, <1>0, GotoKeepsPacket
<1>8. CASE UNCHANGED <<net, recv, need_ack_cid>>
      BY <1>8, <1>0
<1> QED
    BY <1>1, <1>2, <1>3, <1>4, <1>5, <1>6, <1>7, <1>8
       DEF Next, CallerStep, Receive, RecvStep, SetCmd, StoreCmd,
           SendMdReturns, GetsAck, TakeAck, TimesOut, Abandons, AbandonCmd,
           vars, linkVars, controllerVars

LEMMA LinkAnswers == ASSUME NoReuse PROVE LinkInv => Answered
<1> SUFFICES ASSUME LinkInv,
                    NEW n \in Nodes, NEW p \in ToSet(net[n]),
                    p.cmd = CMD_ACK, AckMatches(n, p.cid)
             PROVE  issued[n] \in Done(n)
    BY DEF Answered
<1>1. PICK s \in Done(n) : p.cid = IdOf(s)
      BY DEF LinkInv, AckInv, DoneIds
<1>2. IdOf(s) = IdOf(issued[n])
      BY <1>1 DEF LinkInv, IdInv, AckMatches
<1>3. s \in 1..issued[n] /\ issued[n] \in Nat /\ issued[n] <= MaxCid + 1
      BY NoReuse, LinkAssumption, ControllerAssumption
         DEF LinkInv, SerialInv, IdInv, NoReuse, TypeOK
<1>4. s = issued[n]
      BY <1>2, <1>3, ControllerAssumption DEF IdOf
<1> QED
    BY <1>4

(* Only such an acknowledgement reaches the history. *)
LEMMA AckedBy ==
  ASSUME TypeOK, Answered, [Next]_vars
  PROVE  \/ UNCHANGED acked
         \/ \E n \in Nodes : /\ issued[n] \in Done(n)
                             /\ acked' = [acked EXCEPT ![n] = @ \cup {issued[n]}]
                             /\ UNCHANGED <<issued, executed>>
<1>1. ASSUME NEW n \in Nodes, ReceiveAck(n), acked' # acked
      PROVE  /\ issued[n] \in Done(n)
             /\ acked' = [acked EXCEPT ![n] = @ \cup {issued[n]}]
             /\ UNCHANGED <<issued, executed>>
  <2>1. PICK p \in ToSet(net[n]) :
          /\ p.cmd = CMD_ACK
          /\ cmd[n] # CMD_EMPTY /\ AckMatches(n, p.cid)
          /\ acked' = [acked EXCEPT ![n] = @ \cup {issued[n]}]
        BY <1>1 DEF ReceiveAck, AcceptAck
  <2> QED
      BY <1>1, <2>1 DEF Answered, ReceiveAck
<1>2. CASE UNCHANGED acked
      BY <1>2
<1> QED
    BY <1>1, <1>2
       DEF Next, CallerStep, Receive, RecvStep, SetCmd, SendMdReturns, GetsAck,
           TimesOut, Abandons, EmitPacket, LosePacket, ReceiveCmd, RunCmdCb,
           RecvNoteAck, RecvSendMdReturns, RunAckCb, vars, linkVars, history

LEMMA NextAcked ==
  TypeOK /\ Answered /\ AckedExecuted /\ [Next]_vars => AckedExecuted'
<1> SUFFICES ASSUME TypeOK, Answered, AckedExecuted, [Next]_vars
             PROVE  AckedExecuted'
    OBVIOUS
<1>1. \A n \in Nodes : Done(n) \subseteq Done(n)'
      BY DoneGrows
<1>2. ASSUME NEW n \in Nodes PROVE acked'[n] \subseteq acked[n] \cup Done(n)
  <2>1. CASE UNCHANGED acked
        BY <2>1
  <2>2. CASE ~UNCHANGED acked
    <3>1. PICK m \in Nodes : /\ issued[m] \in Done(m)
                             /\ acked' = [acked EXCEPT ![m] = @ \cup {issued[m]}]
          BY <2>2, AckedBy
    <3> QED
        BY <3>1 DEF TypeOK
  <2> QED
      BY <2>1, <2>2
<1> QED
    BY <1>1, <1>2 DEF AckedExecuted, Done

LEMMA LinkStep == ASSUME NoReuse PROVE LinkInv /\ [Next]_vars => LinkInv'
  BY NoReuse, NextType, NextSerial, NextId, NextCommand, NextAck DEF LinkInv

LEMMA LinkAlways == ASSUME NoReuse PROVE Spec => []LinkInv
<1>1. LinkInv /\ [Next]_vars => LinkInv'
      BY LinkStep, NoReuse
<1> QED
    BY <1>1, InitLink, PTL DEF Spec

(* While no id is used twice, an accepted acknowledgement means that the   *)
(* peer executed the command: over any network, and after any timeout.     *)
THEOREM AcknowledgedMeansExecuted ==
  ASSUME NoReuse PROVE Spec => []AckedExecuted
<1>1. Init => AckedExecuted
      BY DEF Init, AckedExecuted
<1>2. LinkInv => TypeOK /\ Answered
      BY LinkAnswers, NoReuse DEF LinkInv
<1>3. TypeOK /\ Answered /\ AckedExecuted /\ [Next]_vars => AckedExecuted'
      BY NextAcked
<1>4. Spec => []LinkInv
      BY LinkAlways, NoReuse
<1> QED
    BY <1>1, <1>2, <1>3, <1>4, PTL DEF Spec

-----------------------------------------------------------------------------
(* A caller that waits is woken for its own command, until a token comes   *)
(* for one that has given up.                                              *)

(* On each node at most one caller ever waits: the event task of the       *)
(* headphones and the main thread of the server (wait_ack = true); the     *)
(* receive task of the headphones calls set_cmd with wait_ack = false.     *)
OneWaiter ==
  \A c, d \in Callers :
    Home[c] = Home[d] /\ TRUE \in Waits[c] /\ TRUE \in Waits[d] => c = d

Waiting(c) == caller[c].pc \in {"send_md", "await", "expired"} /\ caller[c].wait

(* The waiting caller's command is in the slot and there is no token, or   *)
(* it is acknowledged and there is one.                                    *)
Pending(c) ==
  LET n == Home[c] IN
  /\ ack_sem[n] = 0 /\ ack_dowait[n]
  /\ cmd[n] # CMD_EMPTY /\ caller[c].serial = issued[n]

Acknowledged(c) ==
  LET n == Home[c] IN
  /\ ack_sem[n] = 1 /\ ~ack_dowait[n]
  /\ caller[c].pc # "expired" /\ caller[c].serial \in acked[n]

TokenInv(n) ==
  /\ \A c \in Callers : Home[c] = n /\ Waiting(c) => Pending(c) \/ Acknowledged(c)
  /\ (\A c \in Callers : Home[c] = n => ~Waiting(c))
       => ack_sem[n] = 0 /\ ~ack_dowait[n]

WaitInv ==
  /\ \A c \in Callers : /\ caller[c].pc \in {"await", "expired"} => caller[c].wait
                        /\ caller[c].wait => TRUE \in Waits[c]
  /\ \A n \in Nodes : ~late[n] => TokenInv(n)

LEMMA InitWait == Init => WaitInv
<1> SUFFICES ASSUME Init PROVE WaitInv
    OBVIOUS
<1>1. \A c \in Callers : caller[c].pc = "idle" /\ caller[c].wait = FALSE
      BY DEF Init
<1>2. \A n \in Nodes : ack_sem[n] = 0 /\ ~ack_dowait[n]
      BY DEF Init, ControllerInit, SemInit
<1> QED
    BY <1>1, <1>2 DEF WaitInv, TokenInv, Waiting

(* A node whose callers, slot and token a step leaves alone. *)
LEMMA TokenKept ==
  ASSUME NEW n \in Nodes, TokenInv(n),
         \A c \in Callers : Home[c] = n => caller'[c] = caller[c],
         cmd'[n] = cmd[n], ack_dowait'[n] = ack_dowait[n],
         ack_sem'[n] = ack_sem[n], issued'[n] = issued[n],
         acked[n] \subseteq acked'[n]
  PROVE  TokenInv(n)'
<1>1. \A c \in Callers : Home[c] = n => (Waiting(c)' <=> Waiting(c))
      BY DEF Waiting
<1>2. ASSUME NEW c \in Callers, Home[c] = n, Waiting(c)'
      PROVE  Pending(c)' \/ Acknowledged(c)'
      BY <1>1, <1>2 DEF TokenInv, Pending, Acknowledged
<1>3. ASSUME \A c \in Callers : Home[c] = n => ~Waiting(c)'
      PROVE  ack_sem'[n] = 0 /\ ~ack_dowait'[n]
      BY <1>1, <1>3 DEF TokenInv
<1> QED
    BY <1>2, <1>3 DEF TokenInv

(* A step of caller c changes nothing of the other nodes. *)
LEMMA OwnNode ==
  ASSUME WaitInv, NEW c \in Callers,
         \A d \in Callers \ {c} : caller'[d] = caller[d],
         \A m \in Nodes \ {Home[c]} :
           /\ cmd'[m] = cmd[m] /\ ack_dowait'[m] = ack_dowait[m]
           /\ ack_sem'[m] = ack_sem[m] /\ issued'[m] = issued[m],
         UNCHANGED <<acked, late>>,
         caller'[c].pc \in {"await", "expired"} => caller'[c].wait,
         caller'[c].wait => TRUE \in Waits[c],
         ~late[Home[c]] => TokenInv(Home[c])'
  PROVE  WaitInv'
<1>1. ASSUME NEW m \in Nodes \ {Home[c]}, ~late'[m] PROVE TokenInv(m)'
      BY <1>1, TokenKept DEF WaitInv
<1> QED
    BY <1>1 DEF WaitInv

LEMMA NextWait ==
  ASSUME OneWaiter, TypeOK, WaitInv, [Next]_vars
  PROVE  WaitInv'
<1> USE LinkAssumption, ControllerAssumption
<1>0. ASSUME NEW c \in Callers, NEW d \in Callers, Home[c] = Home[d],
             caller[c].wait \/ TRUE \in Waits[c], caller[d].wait
      PROVE  c = d
      BY <1>0 DEF WaitInv, OneWaiter
<1>1. ASSUME NEW c \in Callers, SetCmd(c) PROVE WaitInv'
  <2> DEFINE n == Home[c]
  <2>1. PICK command \in Cmds, wait_ack \in Waits[c] :
          /\ StoreCmd(n, command, wait_ack)
          /\ caller' = [caller EXCEPT ![c] = [pc |-> "send_md", wait |-> wait_ack,
                                              serial |-> issued[n] + 1]]
        BY <1>1 DEF SetCmd
  <2>2. /\ n \in Nodes
        /\ wait_ack \in BOOLEAN
        /\ issued' = [issued EXCEPT ![n] = @ + 1]
        /\ caller[c].pc = "idle"
        /\ UNCHANGED <<acked, late>>
        BY <1>1, <2>1 DEF SetCmd, CallerAt
  <2>3. /\ \A d \in Callers \ {c} : caller'[d] = caller[d]
        /\ \A m \in Nodes \ {n} :
             /\ cmd'[m] = cmd[m] /\ ack_dowait'[m] = ack_dowait[m]
             /\ ack_sem'[m] = ack_sem[m] /\ issued'[m] = issued[m]
        BY <2>1, <2>2 DEF StoreCmd, TypeOK, ControllerTypeOK
  <2>4. /\ caller'[c] = [pc |-> "send_md", wait |-> wait_ack,
                         serial |-> issued[n] + 1]
        /\ issued'[n] = issued[n] + 1
        /\ cmd[n] = CMD_EMPTY
        /\ cmd'[n] = command /\ command # CMD_EMPTY
        /\ ack_dowait'[n] = wait_ack
        /\ ack_sem'[n] = ack_sem[n]
        BY <2>1, <2>2 DEF StoreCmd, TypeOK, ControllerTypeOK
  <2>5. ASSUME ~late[n] PROVE TokenInv(n)'
    <3>1. TokenInv(n)
          BY <2>2, <2>5 DEF WaitInv
    <3>2. ~Waiting(c) /\ (Waiting(c)' <=> wait_ack)
          BY <2>2, <2>4 DEF Waiting
    <3>3. \A d \in Callers \ {c} : Waiting(d)' <=> Waiting(d)
          BY <2>3 DEF Waiting
    <3>4. \A d \in Callers : Home[d] = n /\ Waiting(d) => Acknowledged(d)
          BY <2>4, <3>1 DEF TokenInv, Pending
    <3>5. CASE wait_ack
      <4>1. \A d \in Callers \ {c} : Home[d] = n => ~Waiting(d)
            BY <1>0, <2>1, <3>5 DEF Waiting
      <4>2. ack_sem[n] = 0
            BY <3>1, <3>2, <4>1 DEF TokenInv
      <4>3. Pending(c)'
            BY <2>4, <3>5, <4>2 DEF Pending
      <4> QED
          BY <3>2, <3>3, <3>5, <4>1, <4>3 DEF TokenInv
    <3>6. CASE ~wait_ack
      <4>1. \A d \in Callers : Home[d] = n => (Waiting(d)' <=> Waiting(d))
            BY <3>2, <3>3, <3>6
      <4>2. ASSUME NEW d \in Callers, Home[d] = n, Waiting(d)'
            PROVE  Acknowledged(d)'
        <5>1. d # c /\ Acknowledged(d)
              BY <3>2, <3>4, <4>1, <4>2
        <5> QED
            BY <2>2, <2>3, <2>4, <3>6, <4>2, <5>1 DEF Acknowledged
      <4>3. ASSUME \A d \in Callers : Home[d] = n => ~Waiting(d)'
            PROVE  ack_sem'[n] = 0 /\ ~ack_dowait'[n]
            BY <2>4, <3>1, <3>6, <4>1, <4>3 DEF TokenInv
      <4> QED
          BY <4>2, <4>3 DEF TokenInv
    <3> QED
        BY <2>2, <3>5, <3>6
  <2>6. caller'[c].wait => TRUE \in Waits[c]
    <3>1. CASE wait_ack = TRUE
          BY <2>1, <3>1
    <3>2. CASE wait_ack = FALSE
          BY <2>4, <3>2
    <3> QED
        BY <2>2, <3>1, <3>2
  <2>7. caller'[c].pc \in {"await", "expired"} => caller'[c].wait
        BY <2>4
  <2> QED
      BY <2>2, <2>3, <2>5, <2>6, <2>7, OwnNode
<1>2. ASSUME NEW c \in Callers, SendMdReturns(c) \/ TimesOut(c) PROVE WaitInv'
  <2> DEFINE n == Home[c]
  <2>1. PICK l \in {"await", "idle", "expired"} :
          /\ CallerGoto(c, l)
          /\ \/ caller[c].pc = "send_md" /\ l = "await" /\ caller[c].wait
             \/ caller[c].pc = "send_md" /\ l = "idle" /\ ~caller[c].wait
             \/ caller[c].pc = "await" /\ l = "expired" /\ ~SemAvailable(ack_sem[n])
        BY <1>2 DEF SendMdReturns, TimesOut, CallerAt
  <2>2. UNCHANGED <<cmd, ack_dowait, ack_sem, issued, acked, late>>
        BY <1>2 DEF SendMdReturns, TimesOut, controllerVars, history
  <2>3. /\ caller'[c].pc = l
        /\ caller'[c].wait = caller[c].wait
        /\ caller'[c].serial = caller[c].serial
        /\ \A d \in Callers \ {c} : caller'[d] = caller[d]
        BY <2>1 DEF CallerGoto, TypeOK, CallerStates
  <2>4. \A d \in Callers : Waiting(d)' <=> Waiting(d)
        BY <2>1, <2>3 DEF Waiting, WaitInv
  <2>5. l = "expired" => ack_sem[n] # 1
        BY <2>1 DEF SemAvailable
  <2>6. ASSUME ~late[n] PROVE TokenInv(n)'
    <3>1. TokenInv(n)
          BY <2>6 DEF WaitInv
    <3>2. ASSUME NEW d \in Callers, Home[d] = n, Waiting(d)'
          PROVE  Pending(d)' \/ Acknowledged(d)'
      <4>1. Pending(d) \/ Acknowledged(d)
            BY <2>4, <3>1, <3>2 DEF TokenInv
      <4>2. caller'[d].serial = caller[d].serial
            BY <2>3
      <4>3. Pending(d) => Pending(d)'
            BY <2>2, <4>2 DEF Pending
      <4>4. Acknowledged(d) => Acknowledged(d)'
            BY <2>2, <2>3, <2>5, <3>2, <4>2 DEF Acknowledged
      <4> QED
          BY <4>1, <4>3, <4>4
    <3> QED
        BY <2>2, <2>4, <3>1, <3>2 DEF TokenInv
  <2>7. /\ caller'[c].pc \in {"await", "expired"} => caller'[c].wait
        /\ caller'[c].wait => TRUE \in Waits[c]
        BY <2>1, <2>3 DEF WaitInv
  <2> QED
      BY <2>2, <2>3, <2>6, <2>7, OwnNode
<1>3. ASSUME NEW c \in Callers, GetsAck(c) \/ Abandons(c) PROVE WaitInv'
  <2> DEFINE n == Home[c]
  <2>1. /\ caller[c].pc \in {"await", "expired"}
        /\ CallerGoto(c, "idle")
        /\ UNCHANGED <<issued, acked, late>>
        BY <1>3 DEF GetsAck, Abandons, CallerAt, TakeAck, history
  <2>2. /\ caller'[c].pc = "idle"
        /\ caller'[c].wait = caller[c].wait
        /\ \A d \in Callers \ {c} : caller'[d] = caller[d]
        BY <2>1 DEF CallerGoto, TypeOK, CallerStates
  <2>3. \A m \in Nodes \ {n} :
          /\ cmd'[m] = cmd[m] /\ ack_dowait'[m] = ack_dowait[m]
          /\ ack_sem'[m] = ack_sem[m] /\ issued'[m] = issued[m]
        BY <1>3, <2>1 DEF GetsAck, TakeAck, Abandons, AbandonCmd, TypeOK,
                          ControllerTypeOK
  <2>4. ASSUME ~late[n] PROVE TokenInv(n)'
    <3>1. n \in Nodes /\ Waiting(c) /\ TokenInv(n)
          BY <2>1, <2>4 DEF WaitInv, Waiting
    <3>2. ASSUME NEW d \in Callers, Home[d] = n PROVE ~Waiting(d)'
      <4>1. CASE d = c
            BY <2>2, <4>1 DEF Waiting
      <4>2. CASE d # c
            BY <1>0, <2>2, <3>1, <3>2, <4>2 DEF Waiting
      <4> QED
          BY <4>1, <4>2
    <3>3. Pending(c) \/ Acknowledged(c)
          BY <3>1 DEF TokenInv
    <3>4. CASE GetsAck(c)
      <4>1. ack_sem[n] > 0 /\ ack_sem' = [ack_sem EXCEPT ![n] = @ - 1]
            /\ UNCHANGED ack_dowait
            BY <3>4 DEF GetsAck, TakeAck, SemAvailable, SemTake
      <4>2. ack_sem[n] = 1 /\ ~ack_dowait[n]
            BY <3>3, <4>1 DEF Pending, Acknowledged
      <4>3. ack_sem'[n] = 0 /\ ~ack_dowait'[n]
            BY <3>1, <4>1, <4>2 DEF TypeOK, ControllerTypeOK
      <4> QED
          BY <3>2, <4>3 DEF TokenInv
    <3>5. CASE Abandons(c)
      <4>1. /\ caller[c].pc = "expired"
            /\ ack_dowait' = [ack_dowait EXCEPT ![n] = FALSE]
            /\ UNCHANGED ack_sem
            BY <3>5 DEF Abandons, AbandonCmd, CallerAt
      <4>2. ack_sem[n] = 0
            BY <3>3, <4>1 DEF Pending, Acknowledged
      <4>3. ack_sem'[n] = 0 /\ ~ack_dowait'[n]
            BY <3>1, <4>1, <4>2 DEF TypeOK, ControllerTypeOK
      <4> QED
          BY <3>2, <4>3 DEF TokenInv
    <3> QED
        BY <1>3, <3>4, <3>5
  <2>5. caller'[c].wait => TRUE \in Waits[c]
        BY <2>2 DEF WaitInv
  <2> QED
      BY <2>1, <2>2, <2>3, <2>4, <2>5, OwnNode
<1>4. ASSUME NEW n \in Nodes, ReceiveAck(n) PROVE WaitInv'
  <2>1. /\ UNCHANGED <<caller, issued>>
        /\ late' = [late EXCEPT ![n] =
                      @ \/ (GaveUp(n) /\ ack_sem'[n] # ack_sem[n])]
        BY <1>4 DEF ReceiveAck
  <2>2. \/ UNCHANGED controllerVars /\ UNCHANGED acked
        \/ /\ cmd' = [cmd EXCEPT ![n] = CMD_EMPTY]
           /\ WakeWaiter(n)
           /\ \/ cmd[n] = CMD_EMPTY /\ UNCHANGED acked
              \/ acked' = [acked EXCEPT ![n] = @ \cup {issued[n]}]
        BY <1>4 DEF ReceiveAck, AcceptAck, IgnoreAck
  <2>3. \A m \in Nodes \ {n} :
          /\ cmd'[m] = cmd[m] /\ ack_dowait'[m] = ack_dowait[m]
          /\ ack_sem'[m] = ack_sem[m] /\ acked'[m] = acked[m]
          /\ late'[m] = late[m]
        BY <2>1, <2>2 DEF WakeWaiter, TypeOK, ControllerTypeOK, controllerVars
  <2>4. ASSUME ~late'[n] PROVE TokenInv(n)'
    <3>1. late'[n] = (late[n] \/ (GaveUp(n) /\ ack_sem'[n] # ack_sem[n]))
          BY <2>1 DEF TypeOK
    <3>2. ~late[n] /\ (GaveUp(n) => ack_sem'[n] = ack_sem[n])
          BY <2>4, <3>1
    <3>3. TokenInv(n)
          BY <3>2 DEF WaitInv
    <3>4. CASE UNCHANGED controllerVars /\ UNCHANGED acked
          BY <2>1, <3>3, <3>4, TokenKept DEF controllerVars
    <3>5. CASE /\ cmd' = [cmd EXCEPT ![n] = CMD_EMPTY]
               /\ WakeWaiter(n)
               /\ \/ cmd[n] = CMD_EMPTY /\ UNCHANGED acked
                  \/ acked' = [acked EXCEPT ![n] = @ \cup {issued[n]}]
      <4>1. /\ ~ack_dowait'[n]
            /\ ack_dowait[n] /\ ack_sem[n] = 0 => ack_sem'[n] = 1
            /\ ~ack_dowait[n] => ack_sem'[n] = ack_sem[n]
            /\ acked[n] \subseteq acked'[n]
            /\ cmd[n] # CMD_EMPTY => issued[n] \in acked'[n]
            BY <3>5, SemMaxAssumption
               DEF WakeWaiter, SemGive, TypeOK, ControllerTypeOK
      <4>2. \A c \in Callers : Waiting(c)' <=> Waiting(c)
            BY <2>1 DEF Waiting
      <4>3. ASSUME NEW c \in Callers, Home[c] = n, Waiting(c)
            PROVE  Acknowledged(c)'
        <5>1. CASE Pending(c)
          <6>1. ack_sem'[n] # ack_sem[n] /\ ack_sem'[n] = 1
                BY <4>1, <4>3, <5>1 DEF Pending
          <6>2. caller[c].pc # "expired"
                BY <3>2, <4>3, <6>1 DEF GaveUp, CallerAt
          <6> QED
              BY <2>1, <4>1, <4>3, <5>1, <6>1, <6>2 DEF Pending, Acknowledged
        <5>2. CASE Acknowledged(c)
              BY <2>1, <4>1, <4>3, <5>2 DEF Acknowledged
        <5> QED
            BY <3>3, <4>3, <5>1, <5>2 DEF TokenInv
      <4>4. ASSUME \A c \in Callers : Home[c] = n => ~Waiting(c)
            PROVE  ack_sem'[n] = 0 /\ ~ack_dowait'[n]
            BY <3>3, <4>1, <4>4 DEF TokenInv
      <4> QED
          BY <4>2, <4>3, <4>4 DEF TokenInv
    <3> QED
        BY <2>2, <3>4, <3>5
  <2>5. ASSUME NEW m \in Nodes \ {n}, ~late'[m] PROVE TokenInv(m)'
        BY <2>1, <2>3, <2>5, TokenKept DEF WaitInv
  <2> QED
      BY <2>1, <2>4, <2>5 DEF WaitInv
<1>5. CASE UNCHANGED <<caller, cmd, ack_dowait, ack_sem, issued, acked, late>>
      BY <1>5, TokenKept DEF WaitInv
<1> QED
    BY <1>1, <1>2, <1>3, <1>4, <1>5
       DEF Next, CallerStep, Receive, RecvStep, EmitPacket, GetMd, LosePacket,
           ReceiveCmd, AcceptCmd, IgnoreCmd, RunCmdCb, RecvNoteAck, NoteAck,
           RecvSendMdReturns, RunAckCb, vars, linkVars, controllerVars, history

(* set_cmd with wait_ack returns for the acknowledgement of its own         *)
(* command, whatever else is acknowledged, lost, delivered twice, abandoned *)
(* or commanded by callers that do not wait, unless a token has come for a  *)
(* caller that had given up.                                               *)
THEOREM WaitersSeeTheirAck ==
  ASSUME OneWaiter PROVE Spec => WaitMeansAcked
<1> DEFINE Seen == \A c \in Callers :
                     GetsAck(c) => \/ caller[c].serial \in acked[Home[c]]
                                   \/ late[Home[c]]
<1>1. WaitInv => Seen
  <2> SUFFICES ASSUME WaitInv, NEW c \in Callers, GetsAck(c), ~late[Home[c]]
               PROVE  caller[c].serial \in acked[Home[c]]
      OBVIOUS
  <2>1. caller[c].pc = "await" /\ ack_sem[Home[c]] > 0 /\ Home[c] \in Nodes
        BY LinkAssumption DEF GetsAck, CallerAt, TakeAck, SemAvailable
  <2>2. Waiting(c) /\ TokenInv(Home[c])
        BY <2>1 DEF WaitInv, Waiting
  <2> QED
      BY <2>1, <2>2 DEF TokenInv, Pending, Acknowledged
<1>2. TypeOK /\ WaitInv /\ [Next]_vars => WaitInv'
      BY NextWait, OneWaiter
<1>3. WaitInv => [Seen]_vars
      BY <1>1
<1> QED
    BY <1>2, <1>3, InitWait, TypeCorrect, PTL DEF Spec, WaitMeansAcked
=============================================================================
