----------------------------- MODULE CommandLink -----------------------------
(***************************************************************************)
(* Two net_controllers, their receive tasks and the threads that call      *)
(* set_cmd, over UDP, from the moment both ends receive and until one of    *)
(* them calls reset.                                                       *)
(*                                                                         *)
(* The sender appears here by what Sender shows of it without polling: a   *)
(* packet may leave at any time (audio, ping), and send_md returns after   *)
(* one whose metadata was read after the call.  receiver.cpp is the        *)
(* receive task; the callbacks of the application are a result, 0 or -1.   *)
(*                                                                         *)
(* A packet whose command is CMD_EMPTY changes nothing at the receiver     *)
(* (remote_set_md returns at once) and is left out of the network.         *)
(***************************************************************************)
EXTENDS NetController, Sequences, SequencesExt, FiniteSets

CONSTANTS
  Callers,      (* the threads that call set_cmd                           *)
  Home,         (* Home[c]: the node caller c runs on                      *)
  Peer,         (* Peer[n]: the other end of the link                      *)
  Waits,        (* Waits[c]: the values of wait_ack that caller c passes   *)
  CbResults,    (* does remote_cmd_cb return 0: a set of Booleans          *)
  Timeouts,     (* may ACK_TIMEOUT pass                                    *)
  Lossy,        (* may the network lose packets                            *)
  Reorders,     (* may it deliver them in another order                    *)
  MaxDuplicates, (* bound: packets it delivers once more                   *)
  MaxCmds       (* bound: commands a node issues                           *)

ASSUME LinkAssumption ==
  /\ Home \in [Callers -> Nodes]
  /\ Peer \in [Nodes -> Nodes]
  /\ \A n \in Nodes : Peer[n] # n /\ Peer[Peer[n]] = n
  /\ Callers \cap Nodes = {}
  /\ Waits \in [Callers -> SUBSET BOOLEAN]
  /\ CbResults \subseteq BOOLEAN
  /\ {Timeouts, Lossy, Reorders} \subseteq BOOLEAN
  /\ MaxCmds \in Nat /\ MaxDuplicates \in Nat

VARIABLES
  caller,     (* caller[c]: where c is in set_cmd, and for which command  *)
  recv,       (* recv[n]: where the receive task of n is, with its packet *)
  md_wanted,  (* threads whose send_md waits for a packet                 *)
  net,        (* net[n]: packets on their way to n                        *)
  duplicates, (* packets delivered once more so far                      *)
  issued,     (* history: commands n has issued                           *)
  executed,   (* history: those of n its peer executed, in order          *)
  acked,      (* history: those of n whose acknowledgement n accepted     *)
  late        (* history: n gave a token to a caller that had given up    *)

history  == <<issued, executed, acked, late>>
linkVars == <<caller, recv, md_wanted, net, duplicates, history>>
vars     == <<controllerVars, linkVars>>

CallerStates ==
  [pc : {"idle", "send_md", "await", "expired"}, wait : BOOLEAN, serial : Nat]
RecvStates ==
  [pc : {"recvfrom", "cmd_cb", "note_ack", "send_md", "ack_cb"}, cid : Cids,
   serial : Nat]
Packets == [cmd : Cmds \cup {CMD_ACK}, cid : Cids, serial : Nat]

(* The receive task of n goes by the name n. *)
SendTaskServes(n) == {n} \cup {c \in Callers : Home[c] = n}

Init ==
  /\ ControllerInit
  /\ caller = [c \in Callers |-> [pc |-> "idle", wait |-> FALSE, serial |-> 0]]
  /\ recv = [n \in Nodes |-> [pc |-> "recvfrom", cid |-> 0, serial |-> 0]]
  /\ md_wanted = {}
  /\ net = [n \in Nodes |-> <<>>]
  /\ duplicates = 0
  /\ issued = [n \in Nodes |-> 0]
  /\ executed = [n \in Nodes |-> <<>>]
  /\ acked = [n \in Nodes |-> {}]
  /\ late = [n \in Nodes |-> FALSE]

-----------------------------------------------------------------------------
(* set_cmd, by caller c. *)

CallerAt(c, l) == caller[c].pc = l
CallerGoto(c, l) == caller' = [caller EXCEPT ![c].pc = l]

SetCmd(c) ==
  LET n == Home[c] IN
  /\ CallerAt(c, "idle")
  /\ issued[n] < MaxCmds
  /\ \E command \in Cmds, wait_ack \in Waits[c] :
       /\ StoreCmd(n, command, wait_ack)
       /\ caller' = [caller EXCEPT ![c] = [pc |-> "send_md", wait |-> wait_ack,
                                           serial |-> issued[n] + 1]]
  /\ issued' = [issued EXCEPT ![n] = @ + 1]
  /\ md_wanted' = md_wanted \cup {c}
  /\ UNCHANGED <<recv, net, duplicates, executed, acked, late>>

(* While the slot is taken, a new command is dropped with an error in the  *)
(* log: a call that changes nothing.                                       *)

SendMdReturns(c) ==
  /\ CallerAt(c, "send_md")
  /\ c \notin md_wanted
  /\ CallerGoto(c, IF caller[c].wait THEN "await" ELSE "idle")
  /\ UNCHANGED <<controllerVars, recv, md_wanted, net, duplicates, history>>

GetsAck(c) ==
  /\ CallerAt(c, "await")
  /\ TakeAck(Home[c])
  /\ CallerGoto(c, "idle")
  /\ UNCHANGED <<recv, md_wanted, net, duplicates, history>>

(* bin_sem_take gives up; the mutex is not locked yet. *)
TimesOut(c) ==
  /\ Timeouts
  /\ CallerAt(c, "await")
  /\ ~SemAvailable(ack_sem[Home[c]])
  /\ CallerGoto(c, "expired")
  /\ UNCHANGED <<controllerVars, recv, md_wanted, net, duplicates, history>>

Abandons(c) ==
  /\ CallerAt(c, "expired")
  /\ AbandonCmd(Home[c])
  /\ CallerGoto(c, "idle")
  /\ UNCHANGED <<recv, md_wanted, net, duplicates, history>>

-----------------------------------------------------------------------------
(* The send task of n lets a packet go: remote_get_md and sendto.  A packet *)
(* that repeats one still on its way is not added to the network: by the    *)
(* time it arrived, remote_set_md would ignore it as it does any repetition. *)

Packet(n) ==
  LET md == Metadata(n) IN
  [cmd |-> md.cmd, cid |-> md.cid,
   serial |-> IF md.cmd = CMD_ACK THEN 0 ELSE issued[n]]

EmitPacket(n) ==
  /\ Packet(n).cmd # CMD_EMPTY \/ md_wanted \cap SendTaskServes(n) # {}
  /\ GetMd(n)
  /\ md_wanted' = md_wanted \ SendTaskServes(n)
  /\ net' = IF Packet(n).cmd = CMD_EMPTY \/ Packet(n) \in ToSet(net[Peer[n]])
            THEN net
            ELSE [net EXCEPT ![Peer[n]] = Append(@, Packet(n))]
  /\ UNCHANGED <<caller, recv, duplicates, history>>

LosePacket(n) ==
  /\ Lossy
  /\ \E i \in 1..Len(net[n]) : net' = [net EXCEPT ![n] = RemoveAt(@, i)]
  /\ UNCHANGED <<controllerVars, caller, recv, md_wanted, duplicates, history>>

-----------------------------------------------------------------------------
(* The receive task of n. *)

RecvAt(n, l) == recv[n].pc = l
RecvGoto(n, l) == recv' = [recv EXCEPT ![n].pc = l]

(* recvfrom hands over packet p of net[n]. *)
TakesPacket(n, p) ==
  /\ RecvAt(n, "recvfrom")
  /\ \E i \in 1..Len(net[n]) :
       /\ i > 1 => Reorders
       /\ p = net[n][i]
       /\ \/ /\ net' = [net EXCEPT ![n] = RemoveAt(@, i)]
             /\ UNCHANGED duplicates
          \/ /\ duplicates < MaxDuplicates
             /\ duplicates' = duplicates + 1
             /\ UNCHANGED net

GaveUp(n) == \E c \in Callers : Home[c] = n /\ CallerAt(c, "expired")

(* The first critical section of remote_set_md is part of the same step:   *)
(* what happens between recvfrom and mutex_lock is delay of the packet.    *)
ReceiveAck(n) ==
  /\ \E p \in ToSet(net[n]) :
       /\ p.cmd = CMD_ACK
       /\ TakesPacket(n, p)
       /\ \/ /\ cmd[n] # CMD_EMPTY
             /\ AcceptAck(n, p.cid)
             /\ acked' = [acked EXCEPT ![n] = @ \cup {issued[n]}]
             /\ RecvGoto(n, "ack_cb")
          \/ /\ cmd[n] = CMD_EMPTY
             /\ AcceptAck(n, p.cid)
             /\ UNCHANGED acked
             /\ RecvGoto(n, "recvfrom")
          \/ /\ IgnoreAck(n, p.cid)
             /\ UNCHANGED acked
             /\ RecvGoto(n, "recvfrom")
  /\ late' = [late EXCEPT ![n] = @ \/ (GaveUp(n) /\ ack_sem'[n] # ack_sem[n])]
  /\ UNCHANGED <<caller, md_wanted, issued, executed>>

ReceiveCmd(n) ==
  /\ \E p \in ToSet(net[n]) :
       /\ p.cmd # CMD_ACK
       /\ TakesPacket(n, p)
       /\ \/ /\ AcceptCmd(n, p.cid)
             /\ recv' = [recv EXCEPT ![n] = [pc |-> "cmd_cb", cid |-> p.cid,
                                             serial |-> p.serial]]
          \/ /\ IgnoreCmd(n, p.cid)
             /\ RecvGoto(n, "recvfrom")
  /\ UNCHANGED <<caller, md_wanted, history>>

(* Mutant: the result of the callback is ignored. *)
RunCmdCbAcksAnyway(n) ==
  /\ RecvAt(n, "cmd_cb")
  /\ \E ok \in CbResults :
       executed' = IF ok
                   THEN [executed EXCEPT ![Peer[n]] = Append(@, recv[n].serial)]
                   ELSE executed
  /\ RecvGoto(n, "note_ack")
  /\ UNCHANGED <<controllerVars, caller, md_wanted, net, duplicates, issued, acked,
                 late>>

(* remote_cmd_cb, outside the mutex. *)
RunCmdCb(n) ==
  /\ RecvAt(n, "cmd_cb")
  /\ \E ok \in CbResults :
       /\ RecvGoto(n, IF ok THEN "note_ack" ELSE "recvfrom")
       /\ executed' = IF ok
                      THEN [executed EXCEPT ![Peer[n]] =
                              Append(@, recv[n].serial)]
                      ELSE executed
  /\ UNCHANGED <<controllerVars, caller, md_wanted, net, duplicates, issued, acked,
                 late>>

RecvNoteAck(n) ==
  /\ RecvAt(n, "note_ack")
  /\ NoteAck(n, recv[n].cid)
  /\ RecvGoto(n, "send_md")
  /\ md_wanted' = md_wanted \cup {n}
  /\ UNCHANGED <<caller, net, duplicates, history>>

RecvSendMdReturns(n) ==
  /\ RecvAt(n, "send_md")
  /\ n \notin md_wanted
  /\ RecvGoto(n, "recvfrom")
  /\ UNCHANGED <<controllerVars, caller, md_wanted, net, duplicates, history>>

(* remote_ack_cb; its result is not looked at. *)
RunAckCb(n) ==
  /\ RecvAt(n, "ack_cb")
  /\ RecvGoto(n, "recvfrom")
  /\ UNCHANGED <<controllerVars, caller, md_wanted, net, duplicates, history>>

-----------------------------------------------------------------------------

CallerStep(c) == SendMdReturns(c) \/ GetsAck(c) \/ Abandons(c)

Receive(n) == ReceiveAck(n) \/ ReceiveCmd(n)
RecvStep(n) ==
  RunCmdCb(n) \/ RecvNoteAck(n) \/ RecvSendMdReturns(n) \/ RunAckCb(n)

Next ==
  \/ \E c \in Callers : \/ SetCmd(c) \/ TimesOut(c) \/ CallerStep(c)
  \/ \E n \in Nodes : \/ EmitPacket(n) \/ LosePacket(n)
                      \/ Receive(n) \/ RecvStep(n)

(* Threads that can go on do; a node keeps emitting packets (the ping      *)
(* thread of the headphones, the audio of the server); a packet that is    *)
(* sent again and again is received in the end.                            *)
Fairness ==
  /\ \A c \in Callers : WF_vars(CallerStep(c)) /\ WF_vars(TimesOut(c))
  /\ \A n \in Nodes : /\ WF_vars(EmitPacket(n))
                      /\ WF_vars(RecvStep(n))
                      /\ SF_vars(ReceiveAck(n))
                      /\ SF_vars(ReceiveCmd(n))

Spec == Init /\ [][Next]_vars /\ Fairness

-----------------------------------------------------------------------------
(* Properties. *)

(* Every variable keeps its type. *)
TypeOK ==
  /\ ControllerTypeOK
  /\ caller \in [Callers -> CallerStates]
  /\ recv \in [Nodes -> RecvStates]
  /\ md_wanted \subseteq Callers \cup Nodes
  /\ net \in [Nodes -> Seq(Packets)]
  /\ duplicates \in 0..MaxDuplicates
  /\ issued \in [Nodes -> Nat]
  /\ executed \in [Nodes -> Seq(Nat)]
  /\ acked \in [Nodes -> SUBSET Nat]
  /\ late \in [Nodes -> BOOLEAN]

(* A command whose acknowledgement the node accepted was executed by the   *)
(* peer: no acknowledgement of another command is mistaken for it.         *)
AckedExecuted ==
  \A n \in Nodes : acked[n] \subseteq ToSet(executed[n])

(* The peer executes commands in the order of issue, none of them twice,   *)
(* however often a packet repeats them.                                    *)
ExecutedInOrder ==
  \A n \in Nodes : \A i, j \in 1..Len(executed[n]) :
    i < j => executed[n][i] < executed[n][j]

(* set_cmd with wait_ack that returns without its timeout has seen its own *)
(* command acknowledged, unless an acknowledgement of the node has come    *)
(* between a timeout and the lock after it: its token stays, and each wait *)
(* from then on returns for the one before.                                *)
WaitMeansAcked ==
  [][\A c \in Callers :
       GetsAck(c) => \/ caller[c].serial \in acked[Home[c]]
                     \/ late[Home[c]]]_vars

(* The command slot of a node, once taken, becomes free again.             *)
CommandAnswered ==
  \A n \in Nodes : cmd[n] # CMD_EMPTY ~> cmd[n] = CMD_EMPTY

(* The two controllers and the network are a command channel.              *)
Channel == INSTANCE CommandChannel
ImplementsChannel == Channel!Spec
=============================================================================
