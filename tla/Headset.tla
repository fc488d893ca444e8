------------------------------- MODULE Headset -------------------------------
(***************************************************************************)
(* The two programs at the ends of the link: net_transport.cpp on the      *)
(* headphones and main.cpp of the server, with their net_controllers and   *)
(* receive tasks, through SVC_START, SVC_PAUSE and the q key.               *)
(*                                                                         *)
(* The event task of the headphones is the thread "event", the server's    *)
(* main the thread "main", the receive task of a node has the node's name. *)
(* The ping thread and the audio appear as the packets they cause.  The    *)
(* sender answers every request, which Sender shows without polling.       *)
(* UDP keeps the order here; CommandLink is about networks that do not.    *)
(***************************************************************************)
EXTENDS NetController, Sequences, SequencesExt

CONSTANTS
  Client, Server,  (* the two nodes                                        *)
  Lossy,           (* may the network lose packets                         *)
  MaxPauses,       (* bound: SVC_PAUSE events that find a started service  *)
  MaxQuits         (* bound: q keys; the server is started again after it  *)

ASSUME HeadsetAssumption ==
  /\ Client # Server
  /\ Nodes = {Client, Server}
  /\ Nodes \cap {"event", "main"} = {}
  /\ Cmds = {"ST_FULL", "ST_DISCONNECT"}
  /\ Lossy \in BOOLEAN
  /\ MaxPauses \in Nat /\ MaxQuits \in Nat

VARIABLES
  net_state,     (* connection state of the headphones                     *)
  event_pc,      (* where the event task is in event_cb                    *)
  ping,          (* does the thread req_sender exist                       *)
  polling,       (* FLG_TASK of the headphones' sender                     *)
  online,        (* is Wi-Fi up                                            *)
  conn_state,    (* connection state of the server                         *)
  connected,     (* the local variable of main                             *)
  main_pc,       (* where main is; "exited": the process has ended         *)
  endpoint_set,  (* does the server's sender know where to send            *)
  spk, mic,      (* is the server's stream running                         *)
  recv_on,       (* recv_on[n]: g_cur_state of n's receiver                *)
  recv,          (* recv[n]: where n's receive task is, with its packet    *)
  md_wanted,     (* threads whose send_md waits for a packet               *)
  net,           (* net[n]: packets on their way to n                      *)
  pauses, quits  (* SVC_PAUSE events and q keys so far                     *)

clientVars == <<net_state, event_pc, ping, polling, online, pauses>>
serverVars == <<conn_state, connected, main_pc, endpoint_set, spk, mic, quits>>
linkVars   == <<recv_on, recv, md_wanted, net>>
vars       == <<controllerVars, clientVars, serverVars, linkVars>>

NetStates  == {"CL_UNINIT", "CL_NOCONN", "CL_REQUESTING", "CL_CONNECTED"}
ConnStates == {"SV_NOACCEPT", "SV_ACCEPT", "SV_CONNECTED"}
StartPCs == {"connect", "receiver_start", "set_requesting", "start_cmd",
             "start_md", "launch"}
PausePCs == {"pause_test", "set_noconn", "pause_cmd", "pause_md", "pause_ack",
             "pause_expired", "terminate", "sender_stop", "receiver_stop",
             "reset", "shutdown", "set_uninit"}
MainPCs == {"cin", "q_test", "q_store", "q_cmd", "q_md", "q_ack", "q_expired",
            "stop", "exited"}
RecvPCs == {"top", "recvfrom", "cb", "cb_test", "cb_endpoint", "cb_streams",
            "cb_store", "cb_cmd", "cb_md", "cb_switch", "note_ack", "send_md"}
Packets == [cmd : Cmds \cup {CMD_ACK}, cid : Cids]
RecvStates ==
  [pc : RecvPCs, cmd : Cmds, cid : Cids, ack : BOOLEAN]
RecvInit == [pc |-> "top", cmd |-> "ST_FULL", cid |-> 0, ack |-> FALSE]

Peer(n) == IF n = Client THEN Server ELSE Client
Threads(n) == IF n = Client THEN {"event", Client} ELSE {"main", Server}

(* The threads of a process that has exited take no step. *)
Alive(n) == n = Server => main_pc # "exited"

Init ==
  /\ ControllerInit
  /\ net_state = "CL_UNINIT" /\ event_pc = "idle" /\ pauses = 0
  /\ ping = FALSE /\ polling = FALSE /\ online = FALSE
  /\ conn_state = "SV_ACCEPT" /\ connected = FALSE
  /\ main_pc = "cin" /\ quits = 0
  /\ endpoint_set = FALSE /\ spk = FALSE /\ mic = FALSE
  /\ recv_on = [n \in Nodes |-> n = Server]
  /\ recv = [n \in Nodes |-> RecvInit]
  /\ md_wanted = {}
  /\ net = [n \in Nodes |-> <<>>]

-----------------------------------------------------------------------------
(* The event task of the headphones. *)

EventAt(l) == event_pc = l
EventGoto(l) == event_pc' = l

(* A step of the event task that only concerns the application. *)
EventOnly == UNCHANGED <<controllerVars, serverVars, linkVars, pauses>>

(* set_cmd, by thread t of node n: the slot, then send_md; md is where     *)
(* the thread waits for the packet, done where it goes on when refused.    *)
IssueCmd(n, t, c, wait_ack) ==
  /\ StoreCmd(n, c, wait_ack)
  /\ md_wanted' = md_wanted \cup {t}

RefusedCmd(n) ==
  /\ RefuseCmd(n)
  /\ UNCHANGED md_wanted

SvcStart ==
  /\ EventAt("idle")
  /\ net_state = "CL_UNINIT"
  /\ EventGoto("connect")
  /\ EventOnly
  /\ UNCHANGED <<net_state, ping, polling, online>>

(* wifi_util::connect returns once there is an address. *)
WifiConnect ==
  /\ EventAt("connect")
  /\ online' = TRUE
  /\ EventGoto("receiver_start")
  /\ EventOnly
  /\ UNCHANGED <<net_state, ping, polling>>

ReceiverStart ==
  /\ EventAt("receiver_start")
  /\ recv_on' = [recv_on EXCEPT ![Client] = TRUE]
  /\ EventGoto("set_requesting")
  /\ UNCHANGED <<controllerVars, serverVars, net_state, ping, polling, online,
                 pauses, recv, md_wanted, net>>

SetRequesting ==
  /\ EventAt("set_requesting")
  /\ net_state' = "CL_REQUESTING"
  /\ EventGoto("start_cmd")
  /\ EventOnly
  /\ UNCHANGED <<ping, polling, online>>

StartCmd ==
  /\ EventAt("start_cmd")
  /\ \/ IssueCmd(Client, "event", "ST_FULL", FALSE) /\ EventGoto("start_md")
     \/ RefusedCmd(Client) /\ EventGoto("launch")
  /\ UNCHANGED <<serverVars, net_state, ping, polling, online, pauses, recv_on,
                 recv, net>>

EventMdReturns ==
  /\ "event" \notin md_wanted
  /\ \/ EventAt("start_md") /\ EventGoto("launch")
     \/ EventAt("pause_md") /\ EventGoto("pause_ack")
  /\ EventOnly
  /\ UNCHANGED <<net_state, ping, polling, online>>

LaunchPing ==
  /\ EventAt("launch")
  /\ ping' = TRUE
  /\ EventGoto("idle")
  /\ EventOnly
  /\ UNCHANGED <<net_state, polling, online>>

SvcPause ==
  /\ EventAt("idle")
  /\ net_state # "CL_UNINIT"
  /\ pauses < MaxPauses
  /\ pauses' = pauses + 1
  /\ EventGoto("pause_test")
  /\ UNCHANGED <<controllerVars, serverVars, linkVars, net_state, ping,
                 polling, online>>

PauseTest ==
  /\ EventAt("pause_test")
  /\ EventGoto(IF net_state = "CL_CONNECTED" THEN "set_noconn" ELSE "terminate")
  /\ EventOnly
  /\ UNCHANGED <<net_state, ping, polling, online>>

SetNoconn ==
  /\ EventAt("set_noconn")
  /\ net_state' = "CL_NOCONN"
  /\ EventGoto("pause_cmd")
  /\ EventOnly
  /\ UNCHANGED <<ping, polling, online>>

PauseCmd ==
  /\ EventAt("pause_cmd")
  /\ \/ IssueCmd(Client, "event", "ST_DISCONNECT", TRUE) /\ EventGoto("pause_md")
     \/ RefusedCmd(Client) /\ EventGoto("terminate")
  /\ UNCHANGED <<serverVars, net_state, ping, polling, online, pauses, recv_on,
                 recv, net>>

PauseAck ==
  /\ EventAt("pause_ack")
  /\ TakeAck(Client)
  /\ EventGoto("terminate")
  /\ UNCHANGED <<serverVars, linkVars, net_state, ping, polling, online, pauses>>

PauseTimeout ==
  /\ EventAt("pause_ack")
  /\ ~SemAvailable(ack_sem[Client])
  /\ EventGoto("pause_expired")
  /\ EventOnly
  /\ UNCHANGED <<net_state, ping, polling, online>>

PauseAbandon ==
  /\ EventAt("pause_expired")
  /\ AbandonCmd(Client)
  /\ EventGoto("terminate")
  /\ UNCHANGED <<serverVars, linkVars, net_state, ping, polling, online, pauses>>

TerminatePing ==
  /\ EventAt("terminate")
  /\ ping' = FALSE
  /\ EventGoto("sender_stop")
  /\ EventOnly
  /\ UNCHANGED <<net_state, polling, online>>

(* net_controller::reset, in its three parts. *)
ResetSender ==
  /\ EventAt("sender_stop")
  /\ polling' = FALSE
  /\ EventGoto("receiver_stop")
  /\ EventOnly
  /\ UNCHANGED <<net_state, ping, online>>

ResetReceiver ==
  /\ EventAt("receiver_stop")
  /\ recv_on' = [recv_on EXCEPT ![Client] = FALSE]
  /\ EventGoto("reset")
  /\ UNCHANGED <<controllerVars, serverVars, net_state, ping, polling, online,
                 pauses, recv, md_wanted, net>>

Reset ==
  /\ EventAt("reset")
  /\ ResetController(Client)
  /\ EventGoto("shutdown")
  /\ UNCHANGED <<serverVars, linkVars, net_state, ping, polling, online, pauses>>

(* wifi_util::shutdown: what the socket has not received is lost, what it  *)
(* has received stays in its buffer.                                       *)
WifiShutdown ==
  /\ EventAt("shutdown")
  /\ online' = FALSE
  /\ \E k \in 0..Len(net[Client]) :
       net' = [net EXCEPT ![Client] = SubSeq(@, 1, k)]
  /\ EventGoto("set_uninit")
  /\ UNCHANGED <<controllerVars, serverVars, net_state, ping, polling, pauses,
                 recv_on, recv, md_wanted>>

SetUninit ==
  /\ EventAt("set_uninit")
  /\ net_state' = "CL_UNINIT"
  /\ EventGoto("idle")
  /\ EventOnly
  /\ UNCHANGED <<ping, polling, online>>

EventStep ==
  \/ WifiConnect \/ ReceiverStart \/ SetRequesting \/ StartCmd \/ EventMdReturns
  \/ LaunchPing
  \/ PauseTest \/ SetNoconn \/ PauseCmd \/ PauseAck \/ PauseTimeout
  \/ PauseAbandon \/ TerminatePing \/ ResetSender \/ ResetReceiver \/ Reset
  \/ WifiShutdown \/ SetUninit

-----------------------------------------------------------------------------
(* main of the server. *)

MainAt(l) == main_pc = l
MainGoto(l) == main_pc' = l

QuitTest ==
  /\ MainAt("cin")
  /\ quits < MaxQuits
  /\ quits' = quits + 1
  /\ connected' = (conn_state = "SV_CONNECTED")
  /\ MainGoto("q_store")
  /\ UNCHANGED <<controllerVars, clientVars, linkVars, conn_state,
                 endpoint_set, spk, mic>>

QuitStore ==
  /\ MainAt("q_store")
  /\ conn_state' = "SV_NOACCEPT"
  /\ MainGoto(IF connected THEN "q_cmd" ELSE "stop")
  /\ UNCHANGED <<controllerVars, clientVars, linkVars, connected,
                 endpoint_set, spk, mic, quits>>

(* The slot is free: the server issues no other command.                   *)
QuitCmd ==
  /\ MainAt("q_cmd")
  /\ IssueCmd(Server, "main", "ST_DISCONNECT", TRUE)
  /\ MainGoto("q_md")
  /\ UNCHANGED <<clientVars, conn_state, connected, endpoint_set, spk, mic,
                 quits, recv_on, recv, net>>

QuitMdReturns ==
  /\ MainAt("q_md")
  /\ "main" \notin md_wanted
  /\ MainGoto("q_ack")
  /\ UNCHANGED <<controllerVars, clientVars, linkVars, conn_state, connected,
                 endpoint_set, spk, mic, quits>>

QuitAck ==
  /\ MainAt("q_ack")
  /\ TakeAck(Server)
  /\ MainGoto("stop")
  /\ UNCHANGED <<clientVars, linkVars, conn_state, connected, endpoint_set,
                 spk, mic, quits>>

QuitTimeout ==
  /\ MainAt("q_ack")
  /\ ~SemAvailable(ack_sem[Server])
  /\ MainGoto("q_expired")
  /\ UNCHANGED <<controllerVars, clientVars, linkVars, conn_state, connected,
                 endpoint_set, spk, mic, quits>>

QuitAbandon ==
  /\ MainAt("q_expired")
  /\ AbandonCmd(Server)
  /\ MainGoto("stop")
  /\ UNCHANGED <<clientVars, linkVars, conn_state, connected, endpoint_set,
                 spk, mic, quits>>

(* receiver::stop and the end of the process: nothing of it remains. *)
QuitExit ==
  /\ MainAt("stop")
  /\ MainGoto("exited")
  /\ spk' = FALSE /\ mic' = FALSE
  /\ md_wanted' = md_wanted \ Threads(Server)
  /\ net' = [net EXCEPT ![Server] = <<>>]
  /\ UNCHANGED <<controllerVars, clientVars, conn_state, connected,
                 endpoint_set, quits, recv_on, recv>>

(* The server is started again. *)
ServerStart ==
  /\ MainAt("exited")
  /\ MainGoto("cin")
  /\ conn_state' = "SV_ACCEPT"
  /\ connected' = FALSE
  /\ endpoint_set' = FALSE
  /\ recv' = [recv EXCEPT ![Server] = RecvInit]
  /\ RestartController(Server)
  /\ UNCHANGED <<clientVars, spk, mic, quits, recv_on, md_wanted, net>>

MainStep ==
  \/ QuitStore \/ QuitCmd \/ QuitMdReturns \/ QuitAck \/ QuitTimeout
  \/ QuitAbandon \/ QuitExit \/ ServerStart

-----------------------------------------------------------------------------
(* The send task of n and the network. *)

(* Does something other than a waiting thread make n send? *)
Sends(n) == IF n = Client THEN ping \/ polling ELSE spk

(* A packet that repeats the last one on its way is left out: its receiver *)
(* would ignore it.  So is one that carries no command.                    *)
EmitPacket(n) ==
  LET p == Metadata(n)
      reaches == online /\ (n = Client \/ endpoint_set) IN
  /\ Alive(n)
  /\ \/ md_wanted \cap Threads(n) # {}
     \/ Sends(n) /\ p.cmd # CMD_EMPTY
  /\ GetMd(n)
  /\ md_wanted' = md_wanted \ Threads(n)
  /\ net' = IF /\ reaches /\ Alive(Peer(n))
               /\ p.cmd # CMD_EMPTY
               /\ net[Peer(n)] # <<>> /\ p.cmd # CMD_ACK
                    => Last(net[Peer(n)]) # p
            THEN [net EXCEPT ![Peer(n)] = Append(@, p)] ELSE net
  /\ UNCHANGED <<clientVars, serverVars, recv_on, recv>>

LosePacket(n) ==
  /\ Lossy
  /\ \E i \in 1..Len(net[n]) : net' = [net EXCEPT ![n] = RemoveAt(@, i)]
  /\ UNCHANGED <<controllerVars, clientVars, serverVars, recv_on, recv,
                 md_wanted>>
-----------------------------------------------------------------------------
(* The receive task of n, up to the callback. *)

RecvAt(n, l) == recv[n].pc = l
RecvGoto(n, l) == recv' = [recv EXCEPT ![n].pc = l]

(* What a callback leaves alone unless it says otherwise. *)
RecvOnly == UNCHANGED <<event_pc, ping, online, pauses, connected, main_pc,
                        quits, recv_on>>

(* The flag is tested, then recvfrom blocks: stop does not reach a task    *)
(* that is already there.                                                  *)
RecvTop(n) ==
  /\ Alive(n)
  /\ RecvAt(n, "top")
  /\ recv_on[n]
  /\ RecvGoto(n, "recvfrom")
  /\ UNCHANGED <<controllerVars, clientVars, serverVars, recv_on, md_wanted, net>>

(* Mutant: the callback runs although no command was pending. *)
ReceiveAckAlwaysCalls(n) ==
  /\ Alive(n)
  /\ RecvAt(n, "recvfrom")
  /\ net[n] # <<>> /\ Head(net[n]).cmd = CMD_ACK
  /\ LET k == Head(net[n]).cid IN
       \/ /\ AcceptAck(n, k)
          /\ recv' = [recv EXCEPT ![n] = [pc |-> "cb", cmd |-> cmd[n],
                                          cid |-> k, ack |-> TRUE]]
       \/ /\ IgnoreAck(n, k)
          /\ RecvGoto(n, "top")
  /\ net' = [net EXCEPT ![n] = Tail(@)]
  /\ UNCHANGED <<clientVars, serverVars, recv_on, md_wanted>>

ReceiveAck(n) ==
  /\ Alive(n)
  /\ RecvAt(n, "recvfrom")
  /\ net[n] # <<>> /\ Head(net[n]).cmd = CMD_ACK
  /\ LET k == Head(net[n]).cid IN
       \/ /\ cmd[n] # CMD_EMPTY
          /\ AcceptAck(n, k)
          /\ recv' = [recv EXCEPT ![n] = [pc |-> "cb", cmd |-> cmd[n],
                                          cid |-> k, ack |-> TRUE]]
       \/ /\ cmd[n] = CMD_EMPTY
          /\ AcceptAck(n, k)
          /\ RecvGoto(n, "top")
       \/ /\ IgnoreAck(n, k)
          /\ RecvGoto(n, "top")
  /\ net' = [net EXCEPT ![n] = Tail(@)]
  /\ UNCHANGED <<clientVars, serverVars, recv_on, md_wanted>>

ReceiveCmd(n) ==
  /\ Alive(n)
  /\ RecvAt(n, "recvfrom")
  /\ net[n] # <<>> /\ Head(net[n]).cmd # CMD_ACK
  /\ LET p == Head(net[n]) IN
       \/ /\ AcceptCmd(n, p.cid)
          /\ recv' = [recv EXCEPT ![n] = [pc |-> "cb", cmd |-> p.cmd,
                                          cid |-> p.cid, ack |-> FALSE]]
       \/ /\ IgnoreCmd(n, p.cid)
          /\ RecvGoto(n, "top")
  /\ net' = [net EXCEPT ![n] = Tail(@)]
  /\ UNCHANGED <<clientVars, serverVars, recv_on, md_wanted>>

(* The callback of a command returned 0: acknowledge.  Of an               *)
(* acknowledgement's callback the result is not used.                      *)
CbReturns(n) == IF recv[n].ack THEN "top" ELSE "note_ack"

RecvNoteAck(n) ==
  /\ Alive(n)
  /\ RecvAt(n, "note_ack")
  /\ NoteAck(n, recv[n].cid)
  /\ md_wanted' = md_wanted \cup {n}
  /\ RecvGoto(n, "send_md")
  /\ UNCHANGED <<clientVars, serverVars, recv_on, net>>

RecvMdReturns(n) ==
  /\ Alive(n)
  /\ n \notin md_wanted
  /\ \/ RecvAt(n, "send_md") /\ RecvGoto(n, "top")
     \/ RecvAt(n, "cb_md") /\ RecvGoto(n, CbReturns(n))
  /\ UNCHANGED <<controllerVars, clientVars, serverVars, recv_on, md_wanted, net>>

-----------------------------------------------------------------------------
(* remote_cmd_cb of net_transport.cpp, for commands and acknowledgements.  *)
(* ST_SPK_ONLY and CTL_* have cases there, and nobody sends them.          *)

ClientCbAt(l) == RecvAt(Client, l)
ClientCbOnly == RecvOnly /\ UNCHANGED <<serverVars, net>>

ClientDisconnected ==
  /\ ClientCbAt("cb")
  /\ recv[Client].cmd = "ST_DISCONNECT"
  /\ polling' = FALSE
  /\ RecvGoto(Client, IF net_state # "CL_NOCONN" THEN "cb_store"
                      ELSE CbReturns(Client))
  /\ ClientCbOnly
  /\ UNCHANGED <<controllerVars, net_state, md_wanted>>

(* Mutant: without set_cmd. *)
ClientRequestsSilently ==
  /\ ClientCbAt("cb_store")
  /\ recv[Client].cmd = "ST_DISCONNECT"
  /\ net_state' = "CL_REQUESTING"
  /\ RecvGoto(Client, CbReturns(Client))
  /\ ClientCbOnly
  /\ UNCHANGED <<controllerVars, polling, md_wanted>>

ClientRequests ==
  /\ ClientCbAt("cb_store")
  /\ recv[Client].cmd = "ST_DISCONNECT"
  /\ net_state' = "CL_REQUESTING"
  /\ RecvGoto(Client, "cb_cmd")
  /\ ClientCbOnly
  /\ UNCHANGED <<controllerVars, polling, md_wanted>>

ClientReissues ==
  /\ ClientCbAt("cb_cmd")
  /\ \/ IssueCmd(Client, Client, "ST_FULL", FALSE) /\ RecvGoto(Client, "cb_md")
     \/ RefusedCmd(Client) /\ RecvGoto(Client, CbReturns(Client))
  /\ ClientCbOnly
  /\ UNCHANGED <<net_state, polling>>

ClientCommanded ==
  /\ ClientCbAt("cb")
  /\ recv[Client].cmd # "ST_DISCONNECT"
  /\ RecvGoto(Client, IF net_state # "CL_CONNECTED" THEN "cb_store"
                      ELSE "cb_switch")
  /\ ClientCbOnly
  /\ UNCHANGED <<controllerVars, net_state, polling, md_wanted>>

ClientConnects ==
  /\ ClientCbAt("cb_store")
  /\ recv[Client].cmd # "ST_DISCONNECT"
  /\ net_state' = "CL_CONNECTED"
  /\ RecvGoto(Client, "cb_switch")
  /\ ClientCbOnly
  /\ UNCHANGED <<controllerVars, polling, md_wanted>>

(* sender::start, on ST_FULL. *)
ClientStartsPolling ==
  /\ ClientCbAt("cb_switch")
  /\ polling' = TRUE
  /\ RecvGoto(Client, CbReturns(Client))
  /\ ClientCbOnly
  /\ UNCHANGED <<controllerVars, net_state, md_wanted>>

ClientCb ==
  \/ ClientDisconnected \/ ClientRequests \/ ClientReissues
  \/ ClientCommanded \/ ClientConnects \/ ClientStartsPolling

-----------------------------------------------------------------------------
(* remote_cmd_cb of the server. *)

ServerCbAt(l) == main_pc # "exited" /\ RecvAt(Server, l)
ServerCbOnly ==
  /\ RecvOnly
  /\ UNCHANGED <<controllerVars, net_state, polling, md_wanted, net>>

(* SV_NOACCEPT: the callback returns -1. *)
ServerRefuses ==
  /\ ServerCbAt("cb")
  /\ conn_state = "SV_NOACCEPT"
  /\ RecvGoto(Server, "top")
  /\ ServerCbOnly
  /\ UNCHANGED <<conn_state, endpoint_set, spk, mic>>

ServerAdmits ==
  /\ ServerCbAt("cb")
  /\ conn_state # "SV_NOACCEPT"
  /\ RecvGoto(Server, IF recv[Server].cmd = "ST_DISCONNECT" THEN "cb_streams"
                      ELSE "cb_test")
  /\ ServerCbOnly
  /\ UNCHANGED <<conn_state, endpoint_set, spk, mic>>

(* Mutant: the other stream goes on. *)
ServerStopsSpkOnly ==
  /\ ServerCbAt("cb_streams")
  /\ recv[Server].cmd = "ST_DISCONNECT"
  /\ spk' = FALSE
  /\ RecvGoto(Server, "cb_store")
  /\ ServerCbOnly
  /\ UNCHANGED <<conn_state, endpoint_set, mic>>

ServerStopsStreams ==
  /\ ServerCbAt("cb_streams")
  /\ recv[Server].cmd = "ST_DISCONNECT"
  /\ spk' = FALSE /\ mic' = FALSE
  /\ RecvGoto(Server, "cb_store")
  /\ ServerCbOnly
  /\ UNCHANGED <<conn_state, endpoint_set>>

ServerDisconnected ==
  /\ ServerCbAt("cb_store")
  /\ recv[Server].cmd = "ST_DISCONNECT"
  /\ conn_state' = "SV_ACCEPT"
  /\ RecvGoto(Server, CbReturns(Server))
  /\ ServerCbOnly
  /\ UNCHANGED <<endpoint_set, spk, mic>>

ServerCommanded ==
  /\ ServerCbAt("cb_test")
  /\ RecvGoto(Server, IF conn_state = "SV_ACCEPT" THEN "cb_endpoint"
                      ELSE "cb_switch")
  /\ ServerCbOnly
  /\ UNCHANGED <<conn_state, endpoint_set, spk, mic>>

(* Mutant: without sender::set_endpoint. *)
ServerKeepsEndpoint ==
  /\ ServerCbAt("cb_endpoint")
  /\ RecvGoto(Server, "cb_store")
  /\ ServerCbOnly
  /\ UNCHANGED <<conn_state, endpoint_set, spk, mic>>

ServerSetsEndpoint ==
  /\ ServerCbAt("cb_endpoint")
  /\ endpoint_set' = TRUE
  /\ RecvGoto(Server, "cb_store")
  /\ ServerCbOnly
  /\ UNCHANGED <<conn_state, spk, mic>>

ServerConnects ==
  /\ ServerCbAt("cb_store")
  /\ recv[Server].cmd # "ST_DISCONNECT"
  /\ conn_state' = "SV_CONNECTED"
  /\ RecvGoto(Server, "cb_streams")
  /\ ServerCbOnly
  /\ UNCHANGED <<endpoint_set, spk, mic>>

ServerStartsSpk ==
  /\ ServerCbAt("cb_streams")
  /\ recv[Server].cmd # "ST_DISCONNECT"
  /\ spk' = TRUE
  /\ RecvGoto(Server, "cb_switch")
  /\ ServerCbOnly
  /\ UNCHANGED <<conn_state, endpoint_set, mic>>

(* mic.start, on ST_FULL. *)
ServerStartsMic ==
  /\ ServerCbAt("cb_switch")
  /\ mic' = TRUE
  /\ RecvGoto(Server, CbReturns(Server))
  /\ ServerCbOnly
  /\ UNCHANGED <<conn_state, endpoint_set, spk>>

ServerCb ==
  \/ ServerRefuses \/ ServerAdmits \/ ServerStopsStreams \/ ServerDisconnected
  \/ ServerCommanded \/ ServerSetsEndpoint \/ ServerConnects
  \/ ServerStartsSpk \/ ServerStartsMic

RecvStep(n) == RecvTop(n) \/ ReceiveAck(n) \/ ReceiveCmd(n)
               \/ RecvNoteAck(n) \/ RecvMdReturns(n)

-----------------------------------------------------------------------------

Next ==
  \/ SvcStart \/ SvcPause \/ EventStep \/ ClientCb
  \/ QuitTest \/ MainStep \/ ServerCb
  \/ \E n \in Nodes : RecvStep(n) \/ EmitPacket(n) \/ LosePacket(n)

(* Every thread goes on, and a node that has something to send sends it.   *)
(* Nothing makes the user start, pause or quit.                            *)
Fairness ==
  /\ WF_vars(EventStep) /\ WF_vars(MainStep)
  /\ WF_vars(ClientCb) /\ WF_vars(ServerCb)
  /\ \A n \in Nodes : WF_vars(RecvStep(n)) /\ WF_vars(EmitPacket(n))

Spec == Init /\ [][Next]_vars /\ Fairness

-----------------------------------------------------------------------------
(* Properties. *)

(* Every variable keeps its type. *)
TypeOK ==
  /\ ControllerTypeOK
  /\ net_state \in NetStates /\ conn_state \in ConnStates
  /\ event_pc \in {"idle"} \cup StartPCs \cup PausePCs /\ main_pc \in MainPCs
  /\ {ping, polling, online, connected, endpoint_set, spk, mic} \subseteq BOOLEAN
  /\ recv_on \in [Nodes -> BOOLEAN]
  /\ recv \in [Nodes -> RecvStates]
  /\ md_wanted \subseteq {"event", "main"} \cup Nodes
  /\ net \in [Nodes -> Seq(Packets)]
  /\ pauses \in 0..MaxPauses /\ quits \in 0..MaxQuits

(* Headphones that request a connection have ST_FULL in the slot that      *)
(* every packet carries, or a thread that is about to put it there.        *)
RequestPending ==
  net_state = "CL_REQUESTING" =>
    \/ cmd[Client] = "ST_FULL"
    \/ event_pc = "start_cmd"
    \/ recv[Client].pc \in {"cb", "cb_store", "cb_cmd"}
    \/ event_pc \in PausePCs

(* While the server streams it has an endpoint, and lets no other client   *)
(* connect over the running streams.                                       *)
StreamsWhenConnected ==
  spk \/ mic => endpoint_set /\ conn_state # "SV_ACCEPT"

(* A request for a connection is answered: whatever the q key does to the  *)
(* server, the headphones end up connected, unless they are paused.        *)
RequestAnswered ==
  net_state = "CL_REQUESTING" ~> net_state # "CL_REQUESTING"
=============================================================================
