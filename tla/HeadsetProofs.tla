----------------------------- MODULE HeadsetProofs -----------------------------
(* Theorems about Headset, for any ids, semaphore ceiling, losses and any  *)
(* number of pauses and q keys.                                            *)
EXTENDS Headset, SequenceTheorems, TLAPS

(* The parts of TypeOK. *)
AppType ==
  /\ net_state \in NetStates /\ conn_state \in ConnStates
  /\ event_pc \in {"idle"} \cup StartPCs \cup PausePCs /\ main_pc \in MainPCs
  /\ md_wanted \subseteq {"event", "main"} \cup Nodes
  /\ pauses \in 0..MaxPauses /\ quits \in 0..MaxQuits

FlagType ==
  /\ {ping, polling, online, connected, endpoint_set, spk, mic} \subseteq BOOLEAN
  /\ recv_on \in [Nodes -> BOOLEAN]

LinkType ==
  /\ recv \in [Nodes -> RecvStates]
  /\ net \in [Nodes -> Seq(Packets)]

LEMMA TypeParts == TypeOK <=> ControllerTypeOK /\ AppType /\ FlagType /\ LinkType
  BY DEF TypeOK, AppType, FlagType, LinkType

LEMMA TheNodes == Client \in Nodes /\ Server \in Nodes /\ Client # Server
  BY HeadsetAssumption

-----------------------------------------------------------------------------
(* The controllers. *)

(* What a step does to them: the pieces of NetController. *)
ControllerPiece ==
  \/ UNCHANGED controllerVars
  \/ \E n \in Nodes :
       \/ \E c \in Cmds, w \in BOOLEAN : StoreCmd(n, c, w)
       \/ TakeAck(n) \/ AbandonCmd(n) \/ ResetController(n)
       \/ RestartController(n) \/ GetMd(n)
       \/ \E k \in Cids : AcceptAck(n, k) \/ AcceptCmd(n, k) \/ NoteAck(n, k)

LEMMA PieceType ==
  ASSUME ControllerTypeOK, ControllerPiece
  PROVE  ControllerTypeOK'
<1> USE ControllerAssumption, SemMaxAssumption
    DEF ControllerTypeOK, Cids, CID_NONE, CID_INIT
<1>1. CASE UNCHANGED controllerVars
  BY <1>1 DEF controllerVars
<1>2. ASSUME NEW n \in Nodes, NEW c \in Cmds, NEW w \in BOOLEAN, StoreCmd(n, c, w)
      PROVE  ControllerTypeOK'
  BY <1>2 DEF StoreCmd, NextCid
<1>3. ASSUME NEW n \in Nodes, TakeAck(n) PROVE ControllerTypeOK'
  BY <1>3 DEF TakeAck, SemAvailable, SemTake
<1>4. ASSUME NEW n \in Nodes, AbandonCmd(n) PROVE ControllerTypeOK'
  BY <1>4 DEF AbandonCmd
<1>5. ASSUME NEW n \in Nodes, ResetController(n) PROVE ControllerTypeOK'
  BY <1>5 DEF ResetController, WakeWaiter, SemGive
<1>6. ASSUME NEW n \in Nodes, RestartController(n) PROVE ControllerTypeOK'
  BY <1>6 DEF RestartController, SemInit
<1>7. ASSUME NEW n \in Nodes, GetMd(n) PROVE ControllerTypeOK'
  BY <1>7 DEF GetMd
<1>8. ASSUME NEW n \in Nodes, NEW k \in Cids, AcceptAck(n, k) PROVE ControllerTypeOK'
  BY <1>8 DEF AcceptAck, WakeWaiter, SemGive
<1>9. ASSUME NEW n \in Nodes, NEW k \in Cids, AcceptCmd(n, k) \/ NoteAck(n, k)
      PROVE  ControllerTypeOK'
  BY <1>9 DEF AcceptCmd, NoteAck
<1> QED
  BY <1>1, <1>2, <1>3, <1>4, <1>5, <1>6, <1>7, <1>8, <1>9 DEF ControllerPiece

(* The first packet of a socket. *)
LEMMA HeadPacket ==
  ASSUME LinkType, NEW n \in Nodes, net[n] # <<>>
  PROVE  /\ Head(net[n]) \in Packets /\ Tail(net[n]) \in Seq(Packets)
         /\ Head(net[n]).cid \in Cids
         /\ Head(net[n]).cmd # CMD_ACK => Head(net[n]).cmd \in Cmds
<1>1. net[n] \in Seq(Packets)
  BY DEF LinkType
<1>2. Head(net[n]) \in Packets /\ Tail(net[n]) \in Seq(Packets)
  BY <1>1, HeadTailProperties
<1> QED
  BY <1>2 DEF Packets

LEMMA EventPiece ==
  ASSUME SvcStart \/ SvcPause \/ EventStep
  PROVE  ControllerPiece
<1>1. "ST_FULL" \in Cmds /\ "ST_DISCONNECT" \in Cmds /\ Client \in Nodes
  BY HeadsetAssumption
<1>2. CASE StartCmd \/ PauseCmd
  BY <1>1, <1>2 DEF StartCmd, PauseCmd, IssueCmd, RefusedCmd, RefuseCmd,
     ControllerPiece
<1>3. CASE PauseAck \/ PauseAbandon \/ Reset
  BY <1>1, <1>3 DEF PauseAck, PauseAbandon, Reset, ControllerPiece
<1> QED
  BY <1>2, <1>3 DEF EventStep, SvcStart, SvcPause, WifiConnect, ReceiverStart,
     SetRequesting, EventMdReturns, LaunchPing, PauseTest, SetNoconn,
     PauseTimeout, TerminatePing, ResetSender, ResetReceiver, WifiShutdown,
     SetUninit, EventOnly, ControllerPiece

LEMMA MainPiece ==
  ASSUME QuitTest \/ MainStep
  PROVE  ControllerPiece
<1>1. "ST_DISCONNECT" \in Cmds /\ Server \in Nodes
  BY HeadsetAssumption
<1>2. CASE QuitCmd \/ QuitAck \/ QuitAbandon \/ ServerStart
  BY <1>1, <1>2 DEF QuitCmd, IssueCmd, QuitAck, QuitAbandon, ServerStart,
     ControllerPiece
<1> QED
  BY <1>2 DEF MainStep, QuitTest, QuitStore, QuitMdReturns, QuitTimeout, QuitExit,
     ControllerPiece

LEMMA CallbackPiece ==
  ASSUME ClientCb \/ ServerCb
  PROVE  ControllerPiece
<1>1. "ST_FULL" \in Cmds /\ Client \in Nodes
  BY HeadsetAssumption
<1>2. CASE ClientReissues
  BY <1>1, <1>2 DEF ClientReissues, IssueCmd, RefusedCmd, RefuseCmd, ControllerPiece
<1>3. CASE ServerCb
  BY <1>3 DEF ServerCb, ServerRefuses, ServerAdmits, ServerStopsStreams,
     ServerDisconnected, ServerCommanded, ServerSetsEndpoint, ServerConnects,
     ServerStartsSpk, ServerStartsMic, ServerCbOnly, ControllerPiece
<1> QED
  BY <1>2, <1>3 DEF ClientCb, ClientDisconnected, ClientRequests, ClientCommanded,
     ClientConnects, ClientStartsPolling, ControllerPiece

LEMMA LinkPiece ==
  ASSUME LinkType, NEW n \in Nodes, RecvStep(n) \/ EmitPacket(n) \/ LosePacket(n)
  PROVE  ControllerPiece
<1>1. CASE ReceiveAck(n)
  <2>1. Head(net[n]).cid \in Cids
    BY <1>1, HeadPacket DEF ReceiveAck
  <2> QED
    BY <1>1, <2>1 DEF ReceiveAck, IgnoreAck, ControllerPiece
<1>2. CASE ReceiveCmd(n)
  <2>1. Head(net[n]).cid \in Cids
    BY <1>2, HeadPacket DEF ReceiveCmd
  <2> QED
    BY <1>2, <2>1 DEF ReceiveCmd, IgnoreCmd, ControllerPiece
<1>3. CASE RecvNoteAck(n)
  <2>1. recv[n].cid \in Cids
    BY DEF LinkType, RecvStates
  <2> QED
    BY <1>3, <2>1 DEF RecvNoteAck, ControllerPiece
<1>4. CASE RecvTop(n) \/ RecvMdReturns(n) \/ EmitPacket(n) \/ LosePacket(n)
  BY <1>4 DEF RecvTop, RecvMdReturns, EmitPacket, LosePacket, ControllerPiece
<1> QED
  BY <1>1, <1>2, <1>3, <1>4 DEF RecvStep

LEMMA NextPiece ==
  ASSUME LinkType, [Next]_vars
  PROVE  ControllerPiece
  BY EventPiece, MainPiece, CallbackPiece, LinkPiece DEF Next, vars, ControllerPiece

-----------------------------------------------------------------------------
(* The receive tasks and the network. *)

RecvPiece ==
  \/ UNCHANGED recv
  \/ \E n \in Nodes :
       \/ \E l \in RecvPCs : RecvGoto(n, l)
       \/ \E r \in RecvStates : recv' = [recv EXCEPT ![n] = r]

NetPiece ==
  \/ UNCHANGED net
  \/ \E n \in Nodes : \E s \in Seq(Packets) : net' = [net EXCEPT ![n] = s]

(* A task goes on: what it has received stays. *)
LEMMA GotoKeeps ==
  ASSUME LinkType, NEW n \in Nodes, NEW l \in RecvPCs, RecvGoto(n, l)
  PROVE  /\ recv' \in [Nodes -> RecvStates]
         /\ recv'[n].pc = l /\ recv'[n].cmd = recv[n].cmd
         /\ recv'[n].cid = recv[n].cid /\ recv'[n].ack = recv[n].ack
         /\ \A m \in Nodes \ {n} : recv'[m] = recv[m]
<1> DEFINE r == [recv[n] EXCEPT !.pc = l]
<1>1. recv[n] \in RecvStates
  BY DEF LinkType
<1>2. /\ r \in RecvStates
      /\ r.pc = l /\ r.cmd = recv[n].cmd /\ r.cid = recv[n].cid /\ r.ack = recv[n].ack
  BY <1>1 DEF RecvStates
<1>3. recv' = [recv EXCEPT ![n] = r]
  BY DEF RecvGoto
<1> HIDE DEF r
<1> QED
  BY <1>2, <1>3 DEF LinkType

LEMMA LinkTypeStep ==
  ASSUME LinkType, RecvPiece, NetPiece
  PROVE  LinkType'
  BY GotoKeeps DEF RecvPiece, NetPiece, LinkType

LEMMA EventLink ==
  ASSUME LinkType, SvcStart \/ SvcPause \/ EventStep
  PROVE  UNCHANGED recv /\ NetPiece
<1> USE DEF linkVars, EventOnly, NetPiece
<1>1. CASE WifiShutdown
  <2>1. PICK k \in 0..Len(net[Client]) :
          net' = [net EXCEPT ![Client] = SubSeq(@, 1, k)]
    BY <1>1 DEF WifiShutdown
  <2>2. net[Client] \in Seq(Packets) /\ Client \in Nodes
    BY TheNodes DEF LinkType
  <2>3. SubSeq(net[Client], 1, k) \in Seq(Packets)
    BY <2>2, SubSeqProperties
  <2> QED
    BY <1>1, <2>1, <2>2, <2>3 DEF WifiShutdown
<1> QED
  BY <1>1 DEF EventStep, SvcStart, SvcPause, WifiConnect, ReceiverStart,
     SetRequesting, StartCmd, EventMdReturns, LaunchPing, PauseTest, SetNoconn,
     PauseCmd, PauseAck, PauseTimeout, PauseAbandon, TerminatePing, ResetSender,
     ResetReceiver, Reset, SetUninit

LEMMA MainLink ==
  ASSUME LinkType, QuitTest \/ MainStep
  PROVE  RecvPiece /\ NetPiece
<1> USE DEF linkVars, RecvPiece, NetPiece
<1>1. CASE QuitExit
  BY <1>1, TheNodes, EmptySeq DEF QuitExit
<1>2. CASE ServerStart
  <2>1. RecvInit \in RecvStates
    BY HeadsetAssumption, ControllerAssumption
    DEF RecvInit, RecvStates, RecvPCs, Cids
  <2> QED
    BY <1>2, <2>1, TheNodes DEF ServerStart
<1> QED
  BY <1>1, <1>2 DEF MainStep, QuitTest, QuitStore, QuitCmd, QuitMdReturns, QuitAck,
     QuitTimeout, QuitAbandon

LEMMA CallbackLink ==
  ASSUME ClientCb \/ ServerCb
  PROVE  /\ UNCHANGED net
         /\ \E n \in Nodes : \E l \in RecvPCs : RecvGoto(n, l)
<1>1. CASE ClientCb
  <2>1. UNCHANGED net /\ \E l \in RecvPCs : RecvGoto(Client, l)
    BY <1>1 DEF ClientCb, ClientDisconnected, ClientRequests, ClientReissues,
       ClientCommanded, ClientConnects, ClientStartsPolling, ClientCbOnly,
       CbReturns, RecvPCs
  <2> QED
    BY <2>1, TheNodes
<1>2. CASE ServerCb
  <2>1. UNCHANGED net /\ \E l \in RecvPCs : RecvGoto(Server, l)
    BY <1>2 DEF ServerCb, ServerRefuses, ServerAdmits, ServerStopsStreams,
       ServerDisconnected, ServerCommanded, ServerSetsEndpoint, ServerConnects,
       ServerStartsSpk, ServerStartsMic, ServerCbOnly, CbReturns, RecvPCs
  <2> QED
    BY <2>1, TheNodes
<1> QED
  BY <1>1, <1>2

(* A packet is taken: the task returns to its loop or enters the callback. *)
LEMMA ReceiveLink ==
  ASSUME LinkType, ControllerTypeOK, NEW n \in Nodes, ReceiveAck(n) \/ ReceiveCmd(n)
  PROVE  /\ NetPiece
         /\ \/ RecvGoto(n, "top")
            \/ \E r \in RecvStates : r.pc = "cb" /\ recv' = [recv EXCEPT ![n] = r]
<1>1. net[n] # <<>> /\ net' = [net EXCEPT ![n] = Tail(@)]
  BY DEF ReceiveAck, ReceiveCmd
<1>2. NetPiece
  BY <1>1, HeadPacket DEF NetPiece
<1>3. Head(net[n]).cid \in Cids
  BY <1>1, HeadPacket
<1>4. CASE ReceiveAck(n)
  <2>1. CASE cmd[n] # CMD_EMPTY
             /\ recv' = [recv EXCEPT ![n] = [pc |-> "cb", cmd |-> cmd[n],
                                             cid |-> Head(net[n]).cid, ack |-> TRUE]]
    <3>1. cmd[n] \in Cmds
      BY <2>1 DEF ControllerTypeOK
    <3>2. [pc |-> "cb", cmd |-> cmd[n], cid |-> Head(net[n]).cid, ack |-> TRUE]
            \in RecvStates
      BY <1>3, <3>1 DEF RecvStates, RecvPCs
    <3> QED
      BY <1>2, <2>1, <3>2
  <2>2. CASE RecvGoto(n, "top")
    BY <1>2, <2>2
  <2> QED
    BY <1>4, <2>1, <2>2 DEF ReceiveAck
<1>5. CASE ReceiveCmd(n)
  <2>1. CASE recv' = [recv EXCEPT ![n] = [pc |-> "cb", cmd |-> Head(net[n]).cmd,
                                          cid |-> Head(net[n]).cid, ack |-> FALSE]]
    <3>1. Head(net[n]).cmd \in Cmds
      BY <1>1, <1>5, HeadPacket DEF ReceiveCmd
    <3>2. [pc |-> "cb", cmd |-> Head(net[n]).cmd, cid |-> Head(net[n]).cid,
           ack |-> FALSE] \in RecvStates
      BY <1>3, <3>1 DEF RecvStates, RecvPCs
    <3> QED
      BY <1>2, <2>1, <3>2
  <2>2. CASE RecvGoto(n, "top")
    BY <1>2, <2>2
  <2> QED
    BY <1>5, <2>1, <2>2 DEF ReceiveCmd
<1> QED
  BY <1>4, <1>5

LEMMA EmitLink ==
  ASSUME LinkType, ControllerTypeOK, NEW n \in Nodes, EmitPacket(n)
  PROVE  UNCHANGED recv /\ NetPiece
<1>1. Peer(n) \in Nodes
  BY TheNodes DEF Peer
<1>2. CASE UNCHANGED net
  BY <1>2 DEF EmitPacket, NetPiece
<1>3. CASE ~UNCHANGED net
  <2>1. /\ net' = [net EXCEPT ![Peer(n)] = Append(@, Metadata(n))]
        /\ Metadata(n).cmd # CMD_EMPTY
    BY <1>3 DEF EmitPacket
  <2>2. Metadata(n) \in Packets
    BY <2>1 DEF Metadata, Packets, ControllerTypeOK, CMD_ACK, CMD_EMPTY
  <2>3. Append(net[Peer(n)], Metadata(n)) \in Seq(Packets)
    BY <1>1, <2>2, AppendProperties DEF LinkType
  <2> QED
    BY <1>1, <2>1, <2>3 DEF EmitPacket, NetPiece
<1> QED
  BY <1>2, <1>3

LEMMA LoseLink ==
  ASSUME LinkType, NEW n \in Nodes, LosePacket(n)
  PROVE  UNCHANGED recv /\ NetPiece
<1>1. PICK i \in 1..Len(net[n]) : net' = [net EXCEPT ![n] = RemoveAt(@, i)]
  BY DEF LosePacket
<1> DEFINE a == SubSeq(net[n], 1, i - 1)
           b == SubSeq(net[n], i + 1, Len(net[n]))
<1>2. net[n] \in Seq(Packets)
  BY DEF LinkType
<1>3. a \in Seq(Packets) /\ b \in Seq(Packets)
  BY <1>2, SubSeqProperties
<1>4. RemoveAt(net[n], i) \in Seq(Packets)
  <2>1. RemoveAt(net[n], i) = a \o b
    BY DEF RemoveAt
  <2> HIDE DEF a, b
  <2> QED
    BY <1>3, <2>1, ConcatProperties
<1> QED
  BY <1>1, <1>4 DEF LosePacket, NetPiece

LEMMA NextLink ==
  ASSUME LinkType, ControllerTypeOK, [Next]_vars
  PROVE  LinkType'
<1>1. RecvPiece /\ NetPiece
  <2>1. CASE SvcStart \/ SvcPause \/ EventStep
    BY <2>1, EventLink DEF RecvPiece
  <2>2. CASE QuitTest \/ MainStep
    BY <2>2, MainLink
  <2>3. CASE ClientCb \/ ServerCb
    BY <2>3, CallbackLink DEF RecvPiece, NetPiece
  <2>4. ASSUME NEW n \in Nodes, RecvStep(n) \/ EmitPacket(n) \/ LosePacket(n)
        PROVE  RecvPiece /\ NetPiece
    <3>1. CASE EmitPacket(n) \/ LosePacket(n)
      BY <3>1, EmitLink, LoseLink DEF RecvPiece
    <3>2. CASE ReceiveAck(n) \/ ReceiveCmd(n)
      BY <3>2, ReceiveLink DEF RecvPiece, RecvPCs
    <3>3. CASE RecvTop(n) \/ RecvNoteAck(n) \/ RecvMdReturns(n)
      BY <3>3 DEF RecvTop, RecvNoteAck, RecvMdReturns, CbReturns, RecvPCs,
         RecvPiece, NetPiece
    <3> QED
      BY <2>4, <3>1, <3>2, <3>3 DEF RecvStep
  <2>5. CASE UNCHANGED vars
    BY <2>5 DEF vars, linkVars, RecvPiece, NetPiece
  <2> QED
    BY <2>1, <2>2, <2>3, <2>4, <2>5 DEF Next
<1> QED
  BY <1>1, LinkTypeStep

-----------------------------------------------------------------------------
(* The two programs. *)

LEMMA NextApp ==
  ASSUME AppType, [Next]_vars
  PROVE  AppType'
<1> USE HeadsetAssumption, TheNodes
    DEF AppType, NetStates, ConnStates, StartPCs, PausePCs, MainPCs, linkVars,
        clientVars, serverVars
<1>1. CASE SvcStart \/ SvcPause \/ EventStep
  <2>1. event_pc' \in {"idle"} \cup StartPCs \cup PausePCs /\ net_state' \in NetStates
    BY <1>1 DEF EventGoto, EventStep, SvcStart, SvcPause, WifiConnect,
       ReceiverStart, SetRequesting, StartCmd, EventMdReturns, LaunchPing,
       PauseTest, SetNoconn, PauseCmd, PauseAck, PauseTimeout, PauseAbandon,
       TerminatePing, ResetSender, ResetReceiver, Reset, WifiShutdown, SetUninit,
       EventOnly
  <2>2. UNCHANGED serverVars
    BY <1>1 DEF EventStep, SvcStart, SvcPause, WifiConnect, ReceiverStart,
       SetRequesting, StartCmd, EventMdReturns, LaunchPing, PauseTest, SetNoconn,
       PauseCmd, PauseAck, PauseTimeout, PauseAbandon, TerminatePing, ResetSender,
       ResetReceiver, Reset, WifiShutdown, SetUninit, EventOnly
  <2>3. pauses' = pauses \/ (pauses < MaxPauses /\ pauses' = pauses + 1)
    BY <1>1 DEF EventStep, SvcStart, SvcPause, WifiConnect, ReceiverStart,
       SetRequesting, StartCmd, EventMdReturns, LaunchPing, PauseTest, SetNoconn,
       PauseCmd, PauseAck, PauseTimeout, PauseAbandon, TerminatePing, ResetSender,
       ResetReceiver, Reset, WifiShutdown, SetUninit, EventOnly
  <2>4. md_wanted' = md_wanted \/ md_wanted' = md_wanted \cup {"event"}
    BY <1>1 DEF EventStep, SvcStart, SvcPause, WifiConnect, ReceiverStart,
       SetRequesting, StartCmd, EventMdReturns, LaunchPing, PauseTest, SetNoconn,
       PauseCmd, PauseAck, PauseTimeout, PauseAbandon, TerminatePing, ResetSender,
       ResetReceiver, Reset, WifiShutdown, SetUninit, EventOnly, IssueCmd, RefusedCmd
  <2>5. pauses' \in 0..MaxPauses
    BY <2>3
  <2> QED
    BY <2>1, <2>2, <2>4, <2>5
<1>2. CASE QuitTest \/ MainStep
  <2>1. main_pc' \in MainPCs /\ conn_state' \in ConnStates
    BY <1>2 DEF MainGoto, MainStep, QuitTest, QuitStore, QuitCmd, QuitMdReturns,
       QuitAck, QuitTimeout, QuitAbandon, QuitExit, ServerStart
  <2>2. /\ UNCHANGED clientVars
        /\ quits' = quits \/ (quits < MaxQuits /\ quits' = quits + 1)
    BY <1>2 DEF MainStep, QuitTest, QuitStore, QuitCmd, QuitMdReturns,
       QuitAck, QuitTimeout, QuitAbandon, QuitExit, ServerStart
  <2>3. md_wanted' \subseteq md_wanted \cup {"main"}
    BY <1>2 DEF MainStep, QuitTest, QuitStore, QuitCmd, QuitMdReturns, IssueCmd,
       QuitAck, QuitTimeout, QuitAbandon, QuitExit, ServerStart
  <2>4. quits' \in 0..MaxQuits
    BY <2>2
  <2> QED
    BY <2>1, <2>2, <2>3, <2>4
<1>3. CASE ClientCb
  <2>1. net_state' \in NetStates
    BY <1>3 DEF ClientCb, ClientDisconnected, ClientRequests, ClientReissues,
       ClientCommanded, ClientConnects, ClientStartsPolling
  <2>2. UNCHANGED serverVars /\ UNCHANGED <<event_pc, pauses>>
    BY <1>3 DEF ClientCb, ClientDisconnected, ClientRequests, ClientReissues,
       ClientCommanded, ClientConnects, ClientStartsPolling, ClientCbOnly, RecvOnly
  <2>3. md_wanted' = md_wanted \/ md_wanted' = md_wanted \cup {Client}
    BY <1>3 DEF ClientCb, ClientDisconnected, ClientRequests, ClientReissues,
       ClientCommanded, ClientConnects, ClientStartsPolling, IssueCmd, RefusedCmd
  <2> QED
    BY <2>1, <2>2, <2>3
<1>4. CASE ServerCb
  <2>1. UNCHANGED clientVars /\ UNCHANGED <<main_pc, md_wanted, quits>>
    BY <1>4 DEF ServerCb, ServerRefuses, ServerAdmits, ServerStopsStreams,
       ServerDisconnected, ServerCommanded, ServerSetsEndpoint, ServerConnects,
       ServerStartsSpk, ServerStartsMic, ServerCbOnly, RecvOnly
  <2>2. conn_state' = conn_state
        \/ conn_state' \in {"SV_ACCEPT", "SV_CONNECTED"}
    BY <1>4 DEF ServerCb, ServerRefuses, ServerAdmits, ServerStopsStreams,
       ServerDisconnected, ServerCommanded, ServerSetsEndpoint, ServerConnects,
       ServerStartsSpk, ServerStartsMic
  <2>3. conn_state' \in ConnStates
    BY <2>2
  <2> QED
    BY <2>1, <2>3
<1>5. ASSUME NEW n \in Nodes, RecvStep(n) \/ EmitPacket(n) \/ LosePacket(n)
      PROVE  AppType'
  <2>1. UNCHANGED <<clientVars, serverVars>>
        /\ md_wanted' \subseteq md_wanted \cup {n}
    BY <1>5 DEF RecvStep, RecvTop, ReceiveAck, ReceiveCmd, RecvNoteAck,
       RecvMdReturns, EmitPacket, LosePacket
  <2> QED
    BY <2>1
<1>6. CASE UNCHANGED vars
  BY <1>6 DEF vars
<1> QED
  BY <1>1, <1>2, <1>3, <1>4, <1>5, <1>6 DEF Next

LEMMA NextFlags ==
  ASSUME FlagType, [Next]_vars
  PROVE  FlagType'
<1> USE DEF FlagType, linkVars, clientVars, serverVars
<1>1. CASE SvcStart \/ SvcPause \/ EventStep
  <2>1. recv_on' \in [Nodes -> BOOLEAN]
    <3>1. recv_on' = recv_on \/ recv_on' = [recv_on EXCEPT ![Client] = TRUE]
          \/ recv_on' = [recv_on EXCEPT ![Client] = FALSE]
      BY <1>1 DEF EventStep, SvcStart, SvcPause, WifiConnect, ReceiverStart,
         SetRequesting, StartCmd, EventMdReturns, LaunchPing, PauseTest, SetNoconn,
         PauseCmd, PauseAck, PauseTimeout, PauseAbandon, TerminatePing, ResetSender,
         ResetReceiver, Reset, WifiShutdown, SetUninit, EventOnly
    <3> QED
      BY <3>1
  <2>2. {ping', polling', online'} \subseteq BOOLEAN /\ UNCHANGED serverVars
    BY <1>1 DEF EventStep, SvcStart, SvcPause, WifiConnect, ReceiverStart,
       SetRequesting, StartCmd, EventMdReturns, LaunchPing, PauseTest, SetNoconn,
       PauseCmd, PauseAck, PauseTimeout, PauseAbandon, TerminatePing, ResetSender,
       ResetReceiver, Reset, WifiShutdown, SetUninit, EventOnly
  <2> QED
    BY <2>1, <2>2
<1>2. CASE QuitTest \/ MainStep
  <2>1. connected' \in BOOLEAN
    <3>1. (conn_state = "SV_CONNECTED") \in BOOLEAN
      OBVIOUS
    <3> QED
      BY <1>2, <3>1 DEF MainStep, QuitTest, QuitStore, QuitCmd, QuitMdReturns,
         QuitAck, QuitTimeout, QuitAbandon, QuitExit, ServerStart
  <2>2. {endpoint_set', spk', mic'} \subseteq BOOLEAN
        /\ UNCHANGED <<clientVars, recv_on>>
    BY <1>2 DEF MainStep, QuitTest, QuitStore, QuitCmd, QuitMdReturns,
       QuitAck, QuitTimeout, QuitAbandon, QuitExit, ServerStart
  <2> QED
    BY <2>1, <2>2
<1>3. CASE ClientCb
  BY <1>3 DEF ClientCb, ClientDisconnected, ClientRequests, ClientReissues,
     ClientCommanded, ClientConnects, ClientStartsPolling, ClientCbOnly, RecvOnly
<1>4. CASE ServerCb
  BY <1>4 DEF ServerCb, ServerRefuses, ServerAdmits, ServerStopsStreams,
     ServerDisconnected, ServerCommanded, ServerSetsEndpoint, ServerConnects,
     ServerStartsSpk, ServerStartsMic, ServerCbOnly, RecvOnly
<1>5. ASSUME NEW n \in Nodes, RecvStep(n) \/ EmitPacket(n) \/ LosePacket(n)
      PROVE  FlagType'
  BY <1>5 DEF RecvStep, RecvTop, ReceiveAck, ReceiveCmd, RecvNoteAck,
     RecvMdReturns, EmitPacket, LosePacket
<1>6. CASE UNCHANGED vars
  BY <1>6 DEF vars
<1> QED
  BY <1>1, <1>2, <1>3, <1>4, <1>5, <1>6 DEF Next

LEMMA InitType == Init => TypeOK
<1> SUFFICES ASSUME Init PROVE TypeOK
  OBVIOUS
<1> USE DEF Init
<1>1. ControllerTypeOK
  BY ControllerAssumption, SemMaxAssumption
  DEF ControllerInit, ControllerTypeOK, Cids, CID_INIT, CID_NONE, SemInit
<1>2. AppType
  BY HeadsetAssumption DEF AppType, NetStates, ConnStates, MainPCs
<1>3. FlagType
  <2>1. \A n \in Nodes : (n = Server) \in BOOLEAN
    OBVIOUS
  <2> QED
    BY <2>1 DEF FlagType
<1>4. LinkType
  <2>1. RecvInit \in RecvStates
    BY HeadsetAssumption, ControllerAssumption
    DEF RecvInit, RecvStates, RecvPCs, Cids
  <2> QED
    BY <2>1, EmptySeq DEF LinkType
<1> QED
  BY <1>1, <1>2, <1>3, <1>4, TypeParts

LEMMA NextType == TypeOK /\ [Next]_vars => TypeOK'
<1> SUFFICES ASSUME TypeOK, [Next]_vars PROVE TypeOK'
  OBVIOUS
<1>1. ControllerTypeOK /\ AppType /\ FlagType /\ LinkType
  BY TypeParts
<1>2. ControllerTypeOK'
  BY <1>1, NextPiece, PieceType
<1>3. AppType' /\ FlagType' /\ LinkType'
  BY <1>1, NextApp, NextFlags, NextLink
<1> QED
  BY <1>2, <1>3 DEF TypeOK, AppType, FlagType, LinkType

(* Types are kept at both ends, through pauses, quits and restarts.        *)
THEOREM TypeCorrect == Spec => []TypeOK
  BY InitType, NextType, PTL DEF Spec

-----------------------------------------------------------------------------
(* The request of the headphones. *)

(* Where the event task is from ST_DISCONNECT to reset. *)
Disconnecting == {"pause_md", "pause_ack", "pause_expired", "terminate",
                  "sender_stop", "receiver_stop", "reset"}

(* Only a pause has another command in the slot, and it ends with reset.   *)
RequestInv ==
  /\ RequestPending
  /\ cmd[Client] = "ST_DISCONNECT" => event_pc \in Disconnecting

(* A slot that refuses a command has one of the two. *)
LEMMA RefusedFor ==
  ASSUME ControllerTypeOK, RefuseCmd(Client)
  PROVE  cmd' = cmd /\ (cmd[Client] = "ST_FULL" \/ cmd[Client] = "ST_DISCONNECT")
<1>1. cmd[Client] \in Cmds /\ cmd' = cmd
  BY TheNodes DEF ControllerTypeOK, RefuseCmd, controllerVars
<1> QED
  BY <1>1, HeadsetAssumption

LEMMA StoredIs ==
  ASSUME ControllerTypeOK, NEW n \in Nodes, NEW c, NEW w, StoreCmd(n, c, w)
  PROVE  cmd'[n] = c /\ \A m \in Nodes \ {n} : cmd'[m] = cmd[m]
  BY DEF ControllerTypeOK, StoreCmd

LEMMA SlotEmptied ==
  ASSUME ControllerTypeOK, NEW n \in Nodes, cmd' = [cmd EXCEPT ![n] = CMD_EMPTY]
  PROVE  /\ cmd'[n] \notin {"ST_FULL", "ST_DISCONNECT"}
         /\ \A m \in Nodes \ {n} : cmd'[m] = cmd[m]
  BY DEF ControllerTypeOK, CMD_EMPTY

LEMMA EventRequest ==
  ASSUME ControllerTypeOK, RequestInv, SvcStart \/ SvcPause \/ EventStep
  PROVE  RequestInv'
<1> USE TheNodes
    DEF RequestInv, RequestPending, EventAt, EventGoto, EventOnly, linkVars,
        controllerVars
<1>0. UNCHANGED recv
  BY DEF EventStep, SvcStart, SvcPause, WifiConnect, ReceiverStart,
     SetRequesting, StartCmd, EventMdReturns, LaunchPing, PauseTest, SetNoconn,
     PauseCmd, PauseAck, PauseTimeout, PauseAbandon, TerminatePing, ResetSender,
     ResetReceiver, Reset, WifiShutdown, SetUninit
<1>1. CASE StartCmd
  <2>1. CASE IssueCmd(Client, "event", "ST_FULL", FALSE)
    BY <1>0, <1>1, <2>1, StoredIs DEF StartCmd, IssueCmd
  <2>2. CASE RefusedCmd(Client)
    <3>1. cmd' = cmd /\ cmd[Client] = "ST_FULL"
      BY <1>1, <2>2, RefusedFor DEF StartCmd, RefusedCmd, Disconnecting
    <3> QED
      BY <1>0, <1>1, <3>1 DEF StartCmd
  <2> QED
    BY <1>1, <2>1, <2>2 DEF StartCmd
<1>2. CASE PauseCmd
  <2>1. event_pc' = "pause_md" \/ event_pc' = "terminate"
    BY <1>2 DEF PauseCmd
  <2> QED
    BY <2>1 DEF PausePCs, Disconnecting
<1>3. CASE PauseAck \/ PauseTimeout \/ PauseAbandon \/ TerminatePing
           \/ ResetSender \/ ResetReceiver
  <2>1. event_pc' \in Disconnecting /\ event_pc' \in PausePCs
    BY <1>3 DEF PauseAck, PauseTimeout, PauseAbandon, TerminatePing,
       ResetSender, ResetReceiver, PausePCs, Disconnecting
  <2> QED
    BY <2>1
<1>4. CASE Reset
  <2>1. cmd' = [cmd EXCEPT ![Client] = CMD_EMPTY] /\ event_pc' = "shutdown"
    BY <1>4 DEF Reset, ResetController
  <2> QED
    BY <2>1, SlotEmptied DEF PausePCs
<1>5. CASE PauseTest \/ SetNoconn \/ SvcPause \/ WifiShutdown
  <2>1. cmd' = cmd /\ event_pc \notin Disconnecting /\ event_pc' \in PausePCs
    BY <1>5 DEF PauseTest, SetNoconn, SvcPause, WifiShutdown, PausePCs, Disconnecting
  <2> QED
    BY <2>1
<1>6. CASE SetUninit \/ SetRequesting
  <2>1. cmd' = cmd /\ event_pc \notin Disconnecting
        /\ (net_state' = "CL_REQUESTING" => event_pc' = "start_cmd")
    BY <1>6 DEF SetUninit, SetRequesting, Disconnecting
  <2> QED
    BY <2>1
<1>7. CASE SvcStart \/ WifiConnect \/ ReceiverStart \/ LaunchPing
  <2>1. cmd' = cmd /\ event_pc \notin Disconnecting /\ event_pc # "start_cmd"
        /\ event_pc \notin PausePCs /\ net_state' = net_state
    BY <1>7 DEF SvcStart, WifiConnect, ReceiverStart, LaunchPing, Disconnecting,
       PausePCs
  <2> QED
    BY <1>0, <2>1
<1>8. CASE EventMdReturns
  <2>1. CASE EventAt("start_md")
    BY <1>0, <1>8, <2>1 DEF EventMdReturns, Disconnecting, PausePCs
  <2>2. CASE EventAt("pause_md")
    BY <1>0, <1>8, <2>2 DEF EventMdReturns, Disconnecting, PausePCs
  <2> QED
    BY <1>8, <2>1, <2>2 DEF EventMdReturns
<1> QED
  BY <1>1, <1>2, <1>3, <1>4, <1>5, <1>6, <1>7, <1>8 DEF EventStep

LEMMA ClientRequest ==
  ASSUME ControllerTypeOK, LinkType, RequestInv, ClientCb
  PROVE  RequestInv'
<1> USE TheNodes DEF RequestInv, RequestPending, ClientCbAt, RecvAt
<1>0. UNCHANGED event_pc
  BY DEF ClientCb, ClientDisconnected, ClientRequests, ClientReissues,
     ClientCommanded, ClientConnects, ClientStartsPolling, ClientCbOnly, RecvOnly
<1>1. CASE ClientDisconnected
  <2>1. UNCHANGED <<cmd, net_state>>
        /\ (net_state # "CL_NOCONN" => RecvGoto(Client, "cb_store"))
    BY <1>1 DEF ClientDisconnected, controllerVars
  <2>2. net_state = "CL_REQUESTING" => recv'[Client].pc = "cb_store"
    BY <2>1, GotoKeeps DEF RecvPCs
  <2> QED
    BY <1>0, <2>1, <2>2
<1>2. CASE ClientRequests
  <2>1. UNCHANGED cmd /\ RecvGoto(Client, "cb_cmd")
    BY <1>2 DEF ClientRequests, controllerVars
  <2>2. recv'[Client].pc = "cb_cmd"
    BY <2>1, GotoKeeps DEF RecvPCs
  <2> QED
    BY <1>0, <2>1, <2>2
<1>3. CASE ClientReissues
  <2>1. CASE IssueCmd(Client, Client, "ST_FULL", FALSE)
    BY <1>0, <2>1, StoredIs DEF IssueCmd
  <2>2. CASE RefusedCmd(Client)
    <3>1. cmd' = cmd /\ (cmd[Client] = "ST_FULL" \/ event_pc \in Disconnecting)
      BY <2>2, RefusedFor DEF RefusedCmd
    <3>2. Disconnecting \subseteq PausePCs
      BY DEF Disconnecting, PausePCs
    <3> QED
      BY <1>0, <3>1, <3>2
  <2> QED
    BY <1>3, <2>1, <2>2 DEF ClientReissues
<1>4. CASE ClientCommanded
  <2>1. UNCHANGED <<cmd, net_state>>
        /\ (net_state # "CL_CONNECTED" => RecvGoto(Client, "cb_store"))
    BY <1>4 DEF ClientCommanded, controllerVars
  <2>2. net_state = "CL_REQUESTING" => recv'[Client].pc = "cb_store"
    BY <2>1, GotoKeeps DEF RecvPCs
  <2> QED
    BY <1>0, <2>1, <2>2
<1>5. CASE ClientConnects
  BY <1>0, <1>5 DEF ClientConnects, controllerVars
<1>6. CASE ClientStartsPolling
  <2>1. UNCHANGED <<cmd, net_state>> /\ recv[Client].pc = "cb_switch"
    BY <1>6 DEF ClientStartsPolling, controllerVars
  <2> QED
    BY <1>0, <2>1
<1> QED
  BY <1>1, <1>2, <1>3, <1>4, <1>5, <1>6 DEF ClientCb

(* The server's command is not the headphones'. *)
LEMMA ServerRequest ==
  ASSUME ControllerTypeOK, RequestInv, LinkType,
         QuitTest \/ MainStep \/ ServerCb
  PROVE  RequestInv'
<1>1. UNCHANGED <<net_state, event_pc>>
  BY DEF clientVars, MainStep, QuitTest, QuitStore, QuitCmd, QuitMdReturns, QuitAck,
     QuitTimeout, QuitAbandon, QuitExit, ServerStart, ServerCb, ServerRefuses,
     ServerAdmits, ServerStopsStreams, ServerDisconnected, ServerCommanded,
     ServerSetsEndpoint, ServerConnects, ServerStartsSpk, ServerStartsMic,
     ServerCbOnly, RecvOnly
<1>2. cmd'[Client] = cmd[Client]
  <2>1. CASE QuitCmd
    BY <2>1, TheNodes, StoredIs DEF QuitCmd, IssueCmd
  <2>2. CASE QuitAbandon \/ ServerStart
    BY <2>2, TheNodes, SlotEmptied DEF QuitAbandon, AbandonCmd, ServerStart,
       RestartController
  <2> QED
    BY <2>1, <2>2 DEF controllerVars, MainStep, QuitTest, QuitStore, QuitMdReturns,
       QuitAck, TakeAck, QuitTimeout, QuitExit, ServerCb, ServerRefuses,
       ServerAdmits, ServerStopsStreams, ServerDisconnected, ServerCommanded,
       ServerSetsEndpoint, ServerConnects, ServerStartsSpk, ServerStartsMic,
       ServerCbOnly
<1>3. recv'[Client] = recv[Client]
  <2>1. CASE ServerStart
    BY <2>1, TheNodes DEF ServerStart, LinkType
  <2>2. CASE ServerCb
    <3>1. \E l \in RecvPCs : RecvGoto(Server, l)
      BY <2>2 DEF ServerCb, ServerRefuses, ServerAdmits, ServerStopsStreams,
         ServerDisconnected, ServerCommanded, ServerSetsEndpoint, ServerConnects,
         ServerStartsSpk, ServerStartsMic, CbReturns, RecvPCs
    <3> QED
      BY <3>1, GotoKeeps, TheNodes
  <2> QED
    BY <2>1, <2>2 DEF linkVars, MainStep, QuitTest, QuitStore, QuitCmd,
       QuitMdReturns, QuitAck, QuitTimeout, QuitAbandon, QuitExit
<1> QED
  BY <1>1, <1>2, <1>3 DEF RequestInv, RequestPending

(* Outside the callback a receive task stays outside, but for a packet.    *)
Outside == {"top", "recvfrom", "note_ack", "send_md"}

LEMMA RecvOutside ==
  ASSUME LinkType, ControllerTypeOK, NEW n \in Nodes, RecvStep(n)
  PROVE  /\ recv'[n].pc \in Outside \cup {"cb"}
         /\ recv[n].pc \in Outside \cup {"cb_md"}
         /\ \A m \in Nodes \ {n} : recv'[m] = recv[m]
<1>1. CASE ReceiveAck(n) \/ ReceiveCmd(n)
  <2>1. recv[n].pc = "recvfrom"
    BY <1>1 DEF ReceiveAck, ReceiveCmd, RecvAt
  <2>2. \/ RecvGoto(n, "top")
        \/ \E r \in RecvStates : r.pc = "cb" /\ recv' = [recv EXCEPT ![n] = r]
    BY <1>1, ReceiveLink
  <2>3. CASE RecvGoto(n, "top")
    BY <2>1, <2>3, GotoKeeps DEF RecvPCs, Outside
  <2>4. CASE \E r \in RecvStates : r.pc = "cb" /\ recv' = [recv EXCEPT ![n] = r]
    BY <2>1, <2>4 DEF LinkType, Outside
  <2> QED
    BY <2>2, <2>3, <2>4
<1>2. CASE RecvTop(n) \/ RecvNoteAck(n) \/ RecvMdReturns(n)
  <2>1. PICK l \in Outside : RecvGoto(n, l)
    BY <1>2 DEF RecvTop, RecvNoteAck, RecvMdReturns, CbReturns, Outside
  <2>2. recv[n].pc \in Outside \cup {"cb_md"}
    BY <1>2 DEF RecvTop, RecvNoteAck, RecvMdReturns, RecvAt, Outside
  <2> QED
    BY <2>1, <2>2, GotoKeeps DEF RecvPCs, Outside
<1> QED
  BY <1>1, <1>2 DEF RecvStep

(* A slot of the headphones is only emptied by an acknowledgement that     *)
(* enters the callback.                                                    *)
LEMMA LinkRequest ==
  ASSUME ControllerTypeOK, LinkType, RequestInv, NEW n \in Nodes,
         RecvStep(n) \/ EmitPacket(n) \/ LosePacket(n)
  PROVE  RequestInv'
<1> USE TheNodes
<1>1. UNCHANGED <<net_state, event_pc>>
  BY DEF clientVars, RecvStep, RecvTop, ReceiveAck, ReceiveCmd, RecvNoteAck,
     RecvMdReturns, EmitPacket, LosePacket
<1>2. CASE EmitPacket(n) \/ LosePacket(n)
  <2>1. UNCHANGED <<cmd, recv>>
    BY <1>2 DEF EmitPacket, GetMd, LosePacket, controllerVars
  <2> QED
    BY <1>1, <2>1 DEF RequestInv, RequestPending
<1>3. CASE RecvStep(n)
  <2>1. /\ recv'[n].pc \in Outside \cup {"cb"} /\ recv[n].pc \in Outside \cup {"cb_md"}
        /\ \A m \in Nodes \ {n} : recv'[m] = recv[m]
    BY <1>3, RecvOutside
  <2>2. recv[n].pc \notin {"cb", "cb_store", "cb_cmd"}
    BY <2>1 DEF Outside
  <2>3. CASE cmd' = cmd
    <3>1. CASE n = Client
      BY <1>1, <2>2, <2>3, <3>1 DEF RequestInv, RequestPending
    <3>2. CASE n # Client
      BY <1>1, <2>1, <2>3, <3>2 DEF RequestInv, RequestPending
    <3> QED
      BY <3>1, <3>2
  <2>4. CASE cmd' # cmd
    <3>1. /\ ReceiveAck(n) /\ cmd' = [cmd EXCEPT ![n] = CMD_EMPTY]
      BY <1>3, <2>4 DEF RecvStep, RecvTop, ReceiveAck, ReceiveCmd, RecvNoteAck,
         RecvMdReturns, NoteAck, AcceptAck, AcceptCmd, IgnoreAck, IgnoreCmd,
         controllerVars
    <3>2. cmd[n] # CMD_EMPTY
      BY <2>4, <3>1 DEF ControllerTypeOK
    <3>3. \/ recv' = [recv EXCEPT ![n] = [pc |-> "cb", cmd |-> cmd[n],
                                 cid |-> Head(net[n]).cid, ack |-> TRUE]]
          \/ cmd' = cmd
      BY <3>1, <3>2 DEF ReceiveAck, IgnoreAck, controllerVars
    <3>4. recv'[n].pc = "cb"
      BY <2>4, <3>3 DEF LinkType
    <3>5. cmd'[n] \notin {"ST_FULL", "ST_DISCONNECT"}
          /\ \A m \in Nodes \ {n} : cmd'[m] = cmd[m]
      BY <3>1, SlotEmptied
    <3>6. CASE n = Client
      BY <1>1, <3>4, <3>5, <3>6 DEF RequestInv, RequestPending
    <3>7. CASE n # Client
      BY <1>1, <2>1, <3>5, <3>7 DEF RequestInv, RequestPending
    <3> QED
      BY <3>6, <3>7
  <2> QED
    BY <2>3, <2>4
<1> QED
  BY <1>2, <1>3

LEMMA NextRequest == TypeOK /\ RequestInv /\ [Next]_vars => RequestInv'
<1> SUFFICES ASSUME TypeOK, RequestInv, [Next]_vars PROVE RequestInv'
  OBVIOUS
<1>1. ControllerTypeOK /\ LinkType
  BY TypeParts
<1>2. CASE UNCHANGED vars
  BY <1>2 DEF vars, controllerVars, clientVars, linkVars, RequestInv, RequestPending
<1> QED
  BY <1>1, <1>2, EventRequest, ClientRequest, ServerRequest, LinkRequest DEF Next

(* Headphones that request a connection never lose their request: not to   *)
(* an acknowledgement of another command, not to a callback that outlives   *)
(* a pause, not to a slot that is taken.                                    *)
THEOREM RequestIsNeverLost == Spec => []RequestPending
<1>1. Init => RequestInv
  BY TheNodes DEF Init, ControllerInit, RequestInv, RequestPending, CMD_EMPTY
<1>2. RequestInv => RequestPending
  BY DEF RequestInv
<1> QED
  BY <1>1, <1>2, NextRequest, TypeCorrect, PTL DEF Spec

-----------------------------------------------------------------------------
(* The streams of the server. *)

ServerIn(l) == recv[Server].pc = l
Disconnects == recv[Server].cmd = "ST_DISCONNECT"

(* What the callback of the server has established at each of its steps.   *)
StreamInv ==
  /\ main_pc = "cin" /\ conn_state # "SV_NOACCEPT"
  /\ StreamsWhenConnected
  /\ conn_state = "SV_CONNECTED" => endpoint_set
  /\ recv[Server].pc \in {"cb_test", "cb_endpoint", "cb_switch"} => ~Disconnects
  /\ ServerIn("cb_streams") /\ ~Disconnects => conn_state = "SV_CONNECTED"
  /\ ServerIn("cb_switch") => conn_state = "SV_CONNECTED"
  /\ ServerIn("cb_store") => IF Disconnects THEN ~spk /\ ~mic ELSE endpoint_set

LEMMA ServerGoes ==
  ASSUME LinkType, NEW l \in RecvPCs, RecvGoto(Server, l)
  PROVE  recv'[Server].pc = l /\ recv'[Server].cmd = recv[Server].cmd
  BY TheNodes, GotoKeeps

LEMMA ServerStream ==
  ASSUME AppType, LinkType, StreamInv, ServerCb
  PROVE  StreamInv'
<1> USE DEF StreamInv, StreamsWhenConnected, ServerIn, Disconnects, ServerCbAt,
        RecvAt, AppType, ConnStates
<1>0. UNCHANGED main_pc
  BY DEF ServerCb, ServerRefuses, ServerAdmits, ServerStopsStreams,
     ServerDisconnected, ServerCommanded, ServerSetsEndpoint, ServerConnects,
     ServerStartsSpk, ServerStartsMic, ServerCbOnly, RecvOnly
<1>1. CASE ServerRefuses
  BY <1>1 DEF ServerRefuses
<1>2. CASE ServerAdmits
  BY <1>0, <1>2, ServerGoes DEF ServerAdmits, RecvPCs
<1>3. CASE ServerStopsStreams
  BY <1>0, <1>3, ServerGoes DEF ServerStopsStreams, RecvPCs
<1>4. CASE ServerDisconnected
  BY <1>0, <1>4, ServerGoes DEF ServerDisconnected, CbReturns, RecvPCs
<1>5. CASE ServerCommanded
  BY <1>0, <1>5, ServerGoes DEF ServerCommanded, RecvPCs
<1>6. CASE ServerSetsEndpoint
  BY <1>0, <1>6, ServerGoes DEF ServerSetsEndpoint, RecvPCs
<1>7. CASE ServerConnects
  BY <1>0, <1>7, ServerGoes DEF ServerConnects, RecvPCs
<1>8. CASE ServerStartsSpk
  BY <1>0, <1>8, ServerGoes DEF ServerStartsSpk, RecvPCs
<1>9. CASE ServerStartsMic
  BY <1>0, <1>9, ServerGoes DEF ServerStartsMic, CbReturns, RecvPCs
<1> QED
  BY <1>1, <1>2, <1>3, <1>4, <1>5, <1>6, <1>7, <1>8, <1>9 DEF ServerCb

(* A step that leaves the callback of the server alone. *)
LEMMA OtherStream ==
  ASSUME StreamInv, UNCHANGED <<main_pc, conn_state, endpoint_set, spk, mic>>,
         \/ recv'[Server] = recv[Server]
         \/ recv'[Server].pc \in Outside \cup {"cb"}
  PROVE  StreamInv'
  BY DEF StreamInv, StreamsWhenConnected, ServerIn, Disconnects, Outside

LEMMA NextStream ==
  ASSUME MaxQuits = 0, TypeOK, StreamInv, [Next]_vars
  PROVE  StreamInv'
<1>0. ControllerTypeOK /\ AppType /\ LinkType
  BY TypeParts
<1>1. CASE SvcStart \/ SvcPause \/ EventStep
  <2>1. UNCHANGED serverVars /\ UNCHANGED recv
    BY <1>1, <1>0, EventLink DEF EventStep, SvcStart, SvcPause, WifiConnect,
       ReceiverStart, SetRequesting, StartCmd, EventMdReturns, LaunchPing,
       PauseTest, SetNoconn, PauseCmd, PauseAck, PauseTimeout, PauseAbandon,
       TerminatePing, ResetSender, ResetReceiver, Reset, WifiShutdown, SetUninit,
       EventOnly
  <2> QED
    BY <2>1, OtherStream DEF serverVars
<1>2. CASE ClientCb
  <2>1. UNCHANGED serverVars /\ \E l \in RecvPCs : RecvGoto(Client, l)
    BY <1>2 DEF ClientCb, ClientDisconnected, ClientRequests, ClientReissues,
       ClientCommanded, ClientConnects, ClientStartsPolling, ClientCbOnly,
       CbReturns, RecvPCs
  <2>2. recv'[Server] = recv[Server]
    BY <1>0, <2>1, GotoKeeps, TheNodes
  <2> QED
    BY <2>1, <2>2, OtherStream DEF serverVars
<1>3. CASE QuitTest \/ MainStep
  <2>1. quits = 0
    BY <1>0 DEF AppType
  <2> QED
    BY <1>3, <2>1 DEF StreamInv, MainAt, MainStep, QuitTest, QuitStore, QuitCmd,
       QuitMdReturns, QuitAck, QuitTimeout, QuitAbandon, QuitExit, ServerStart
<1>4. CASE ServerCb
  BY <1>0, <1>4, ServerStream
<1>5. ASSUME NEW n \in Nodes, RecvStep(n) \/ EmitPacket(n) \/ LosePacket(n)
      PROVE  StreamInv'
  <2>1. UNCHANGED serverVars
    BY <1>5 DEF RecvStep, RecvTop, ReceiveAck, ReceiveCmd, RecvNoteAck,
       RecvMdReturns, EmitPacket, LosePacket
  <2>2. \/ recv'[Server] = recv[Server]
        \/ recv'[Server].pc \in Outside \cup {"cb"}
    <3>1. CASE EmitPacket(n) \/ LosePacket(n)
      BY <3>1 DEF EmitPacket, LosePacket
    <3>2. CASE RecvStep(n)
      BY <1>0, <3>2, RecvOutside, TheNodes
    <3> QED
      BY <1>5, <3>1, <3>2
  <2> QED
    BY <2>1, <2>2, OtherStream DEF serverVars
<1>6. CASE UNCHANGED vars
  BY <1>6, OtherStream DEF vars, serverVars, linkVars
<1> QED
  BY <1>1, <1>2, <1>3, <1>4, <1>5, <1>6 DEF Next

(* Until the q key, the server streams only to an endpoint it knows, and   *)
(* while it does it admits nobody else.                                    *)
THEOREM StreamsHaveEndpoint ==
  ASSUME MaxQuits = 0 PROVE Spec => []StreamsWhenConnected
<1>1. Init => StreamInv
  <2> SUFFICES ASSUME Init PROVE StreamInv
    OBVIOUS
  <2>1. recv[Server] = RecvInit
    BY TheNodes DEF Init
  <2> QED
    BY <2>1 DEF Init, RecvInit, StreamInv, StreamsWhenConnected, ServerIn, Disconnects
<1>2. TypeOK /\ StreamInv /\ [Next]_vars => StreamInv'
  BY NextStream
<1>3. StreamInv => StreamsWhenConnected
  BY DEF StreamInv
<1> QED
  BY <1>1, <1>2, <1>3, TypeCorrect, PTL DEF Spec
=============================================================================
