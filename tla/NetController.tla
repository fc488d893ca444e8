---------------------------- MODULE NetController ----------------------------
(***************************************************************************)
(* components/net_controller/net_controller.cpp: the command and           *)
(* acknowledgement state of a node, and what each critical section of its  *)
(* `mutex' does to it.  Both ends of a link run this code, so every        *)
(* variable is a function of the node.                                     *)
(*                                                                         *)
(* These are the pieces; who runs them, and what travels in between, is    *)
(* the business of the modules that extend this one.                       *)
(***************************************************************************)
EXTENDS Sync, Integers

CONSTANTS
  Nodes,    (* the headphones and the server                              *)
  Cmds,     (* the commands a node may send                               *)
  MaxCid    (* the largest command id: 255, an id travels in a uint8_t    *)

CMD_EMPTY == "CMD_EMPTY"
CMD_ACK   == "CMD_ACK"
CID_NONE  == -1
CID_INIT  == 0
Cids      == 0..MaxCid

ASSUME ControllerAssumption ==
  /\ MaxCid \in Nat \ {0}
  /\ CMD_EMPTY \notin Cmds
  /\ CMD_ACK \notin Cmds

VARIABLES
  cmd,            (* cmd[n]: the command n wants its peer to execute       *)
  cid,            (* cid[n]: its id                                        *)
  ack_dowait,     (* does a caller wait for its acknowledgement            *)
  ack_sem,        (* tokens of the semaphore that caller waits for         *)
  need_ack_cid,   (* the id n still has to acknowledge, or CID_NONE        *)
  last_ack_cid    (* the id of the last command of its peer n let through  *)

controllerVars ==
  <<cmd, cid, ack_dowait, ack_sem, need_ack_cid, last_ack_cid>>

ControllerInit ==
  /\ cmd = [n \in Nodes |-> CMD_EMPTY]
  /\ cid = [n \in Nodes |-> CID_INIT]
  /\ ack_dowait = [n \in Nodes |-> FALSE]
  /\ ack_sem = [n \in Nodes |-> SemInit]
  /\ need_ack_cid = [n \in Nodes |-> CID_NONE]
  /\ last_ack_cid = [n \in Nodes |-> CID_NONE]

ControllerTypeOK ==
  /\ cmd \in [Nodes -> Cmds \cup {CMD_EMPTY}]
  /\ cid \in [Nodes -> Cids]
  /\ ack_dowait \in [Nodes -> BOOLEAN]
  /\ ack_sem \in [Nodes -> 0..SemMax]
  /\ need_ack_cid \in [Nodes -> Cids \cup {CID_NONE}]
  /\ last_ack_cid \in [Nodes -> Cids \cup {CID_NONE}]

-----------------------------------------------------------------------------
(* set_cmd *)

(* Mutants: no wrap; no increment. *)
NextCidUnwrapped(k) == k + 1
SameCid(k) == k

(* if (++cid > 255) cid = 0 *)
NextCid(k) == IF k + 1 > MaxCid THEN 0 ELSE k + 1

(* The slot is free: the command goes in. *)
StoreCmd(n, c, wait_ack) ==
  /\ cmd[n] = CMD_EMPTY
  /\ cmd' = [cmd EXCEPT ![n] = c]
  /\ cid' = [cid EXCEPT ![n] = NextCid(@)]
  /\ ack_dowait' = [ack_dowait EXCEPT ![n] = wait_ack]
  /\ UNCHANGED <<ack_sem, need_ack_cid, last_ack_cid>>

(* The slot is taken: the command is dropped. *)
RefuseCmd(n) ==
  /\ cmd[n] # CMD_EMPTY
  /\ UNCHANGED controllerVars

(* bin_sem_take(&ack_sem, ACK_TIMEOUT) in time. *)
TakeAck(n) ==
  /\ SemAvailable(ack_sem[n])
  /\ ack_sem' = [ack_sem EXCEPT ![n] = SemTake(@)]
  /\ UNCHANGED <<cmd, cid, ack_dowait, need_ack_cid, last_ack_cid>>

(* After ACK_TIMEOUT, under the mutex again. *)
AbandonCmd(n) ==
  /\ ack_dowait' = [ack_dowait EXCEPT ![n] = FALSE]
  /\ cmd' = [cmd EXCEPT ![n] = CMD_EMPTY]
  /\ UNCHANGED <<cid, ack_sem, need_ack_cid, last_ack_cid>>

-----------------------------------------------------------------------------
(* Mutant: a token whether or not somebody waits. *)
WakeAlways(n) ==
  /\ ack_sem' = [ack_sem EXCEPT ![n] = SemGive(@)]
  /\ ack_dowait' = [ack_dowait EXCEPT ![n] = FALSE]

(* The waiting caller, if there is one, gets its token. *)
WakeWaiter(n) ==
  /\ ack_sem' = IF ack_dowait[n]
                THEN [ack_sem EXCEPT ![n] = SemGive(@)] ELSE ack_sem
  /\ ack_dowait' = [ack_dowait EXCEPT ![n] = FALSE]

(* reset, without sender::stop and receiver::stop. *)
ResetController(n) ==
  /\ cmd' = [cmd EXCEPT ![n] = CMD_EMPTY]
  /\ cid' = [cid EXCEPT ![n] = CID_INIT]
  /\ need_ack_cid' = [need_ack_cid EXCEPT ![n] = CID_NONE]
  /\ last_ack_cid' = [last_ack_cid EXCEPT ![n] = CID_NONE]
  /\ WakeWaiter(n)

(* init, in a program that is started again. *)
RestartController(n) ==
  /\ cmd' = [cmd EXCEPT ![n] = CMD_EMPTY]
  /\ cid' = [cid EXCEPT ![n] = CID_INIT]
  /\ ack_dowait' = [ack_dowait EXCEPT ![n] = FALSE]
  /\ ack_sem' = [ack_sem EXCEPT ![n] = SemInit]
  /\ need_ack_cid' = [need_ack_cid EXCEPT ![n] = CID_NONE]
  /\ last_ack_cid' = [last_ack_cid EXCEPT ![n] = CID_NONE]

-----------------------------------------------------------------------------
(* remote_set_md *)

(* Mutants: any acknowledgement will do; an older one will do. *)
AckMatchesAny(n, k) == TRUE
AckMatchesOlder(n, k) == k <= cid[n]

(* An acknowledgement with the current id frees the slot. *)
AckMatches(n, k) == k = cid[n]

AcceptAck(n, k) ==
  /\ AckMatches(n, k)
  /\ cmd' = [cmd EXCEPT ![n] = CMD_EMPTY]
  /\ WakeWaiter(n)
  /\ UNCHANGED <<cid, need_ack_cid, last_ack_cid>>

IgnoreAck(n, k) ==
  /\ ~AckMatches(n, k)
  /\ UNCHANGED controllerVars

(* A command with the id of the last one is taken for a repetition. *)
IsRepetition(n, k) == last_ack_cid[n] = k

(* Mutant: the id is not remembered. *)
AcceptCmdForgets(n, k) ==
  /\ ~IsRepetition(n, k)
  /\ UNCHANGED controllerVars

AcceptCmd(n, k) ==
  /\ ~IsRepetition(n, k)
  /\ last_ack_cid' = [last_ack_cid EXCEPT ![n] = k]
  /\ UNCHANGED <<cmd, cid, ack_dowait, ack_sem, need_ack_cid>>

IgnoreCmd(n, k) ==
  /\ IsRepetition(n, k)
  /\ UNCHANGED controllerVars

(* The callback returned 0. *)
NoteAck(n, k) ==
  /\ need_ack_cid' = [need_ack_cid EXCEPT ![n] = k]
  /\ UNCHANGED <<cmd, cid, ack_dowait, ack_sem, last_ack_cid>>

-----------------------------------------------------------------------------
(* remote_get_md: an acknowledgement goes first, and once; the command goes *)
(* into every packet until it is acknowledged.                              *)
Metadata(n) ==
  IF need_ack_cid[n] # CID_NONE
  THEN [cmd |-> CMD_ACK, cid |-> need_ack_cid[n]]
  ELSE [cmd |-> cmd[n], cid |-> cid[n]]

GetMd(n) ==
  /\ need_ack_cid' = [need_ack_cid EXCEPT ![n] = CID_NONE]
  /\ UNCHANGED <<cmd, cid, ack_dowait, ack_sem, last_ack_cid>>

=============================================================================
