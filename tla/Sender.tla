------------------------------- MODULE Sender -------------------------------
(***************************************************************************)
(* components/net_controller/sender.cpp: the send task and the functions   *)
(* other threads call, at the granularity of their accesses to shared      *)
(* memory.                                                                 *)
(*                                                                         *)
(* Threads are the callers.  Which functions a thread may call is Ops[t]:  *)
(* the server calls send (PortAudio callback) and send_md (receive task,   *)
(* main); the headphones call send_md (ping thread, receive task, event    *)
(* task), start and stop, and never send.  A call that begins by locking   *)
(* g_mutex is entered when the lock is obtained; a caller still waiting    *)
(* for the lock is indistinguishable from one that has not called yet.     *)
(*                                                                         *)
(* The metadata that remote_get_md writes into a packet is abstracted to   *)
(* the set of send_md calls whose request precedes that read.  Audio bytes *)
(* are numbered in the order they enter the sender.                        *)
(***************************************************************************)
EXTENDS Sync, Integers, FiniteSets

CONSTANTS
  Threads,    (* threads that call into the sender                        *)
  SendTask,   (* the thread launched by sender::init                      *)
  Ops,        (* Ops[t]: the functions thread t calls                     *)
  Killable,   (* threads another thread may vTaskDelete (the ping thread) *)
  DataWidth,  (* DATA_WIDTH, bytes of audio in a full packet              *)
  SendSizes,  (* sizes passed to send                                     *)
  Endpoints,  (* addresses passed to set_endpoint                         *)
  MaxBytes    (* bound: audio bytes that enter the sender in a behaviour  *)

OpNames == {"send_md", "send", "start", "stop", "set_endpoint", "set_cb",
            "launch", "terminate"}

ASSUME SenderAssumption ==
  /\ Ops \in [Threads -> SUBSET OpNames]
  /\ Killable \subseteq Threads
  /\ NoThread \notin Threads
  /\ SendTask \notin Threads \cup {NoThread}
  /\ DataWidth \in Nat \ {0}
  /\ SendSizes \subseteq Nat \ {0}
  /\ MaxBytes \in Nat

VARIABLES
  pc,           (* pc[t]: where thread t is                                *)
  rem,          (* rem[t]: bytes of its send call that t has not copied    *)
  g_mutex,      (* holder of g_mutex                                       *)
  g_cur_flags,  (* subset of {"TASK", "REQ", "REQ_MD"}                     *)
  g_task_sem,   (* wakes the send task                                     *)
  g_req_sem,    (* tells a caller its request was served                   *)
  g_buf,        (* g_buf[i]: number of the audio byte at offset i          *)
  g_buf_ptr,    (* bytes of g_buf in use                                   *)
  g_endpoint,   (* where packets go, or NoThread: memset to zero           *)
  g_cb,         (* has a data callback been set                            *)
  task_pc,      (* where the send task is                                  *)
  task_len,     (* send_raw's argument: data bytes of the packet           *)
  produced,     (* history: audio bytes that entered the sender            *)
  sent,         (* history: the last audio byte transmitted                *)
  unserved,     (* history: send_md calls no transmitted packet served     *)
  carried       (* history: calls served by the packet being built         *)

callerVars == <<pc, rem>>
syncVars   == <<g_mutex, g_cur_flags, g_task_sem, g_req_sem>>
bufVars    == <<g_buf, g_buf_ptr, produced>>
confVars   == <<g_endpoint, g_cb>>
taskVars   == <<task_pc, task_len, sent, carried>>
vars == <<callerVars, syncVars, bufVars, confVars, taskVars, unserved>>

-----------------------------------------------------------------------------
(* Program counters. *)

MdPC    == {"md_flag", "md_give", "md_wait", "md_unlock"}
SendPC  == {"send_copy", "send_flag", "send_give", "send_wait"}
ConfPC  == {"ep_copy", "cb_copy"}
LockedPC == MdPC \cup SendPC \cup ConfPC
CallPC  == LockedPC \cup {"start_flag", "start_give", "stop_flag", "stop_give"}
PCs     == CallPC \cup {"idle", "dead"}

ReqPC   == {"req_get", "req_sendto", "req_clear"}
PollPC  == {"poll_lock", "poll_read", "poll_sendto"}
MdTaskPC == {"md_get", "md_sendto"}
TaskPCs == {"top", "sem_wait", "chk_req", "chk_poll", "chk_md", "clear_md",
            "give_req"} \cup ReqPC \cup PollPC \cup MdTaskPC

Goto(t, l) == pc' = [pc EXCEPT ![t] = l]
TaskGoto(l) == task_pc' = l

(* mutex_lock(&g_mutex) at the start of function op, by an idle thread. *)
Enter(t, op, l) ==
  /\ pc[t] = "idle"
  /\ op \in Ops[t]
  /\ g_mutex = NoThread
  /\ g_mutex' = t
  /\ Goto(t, l)

(* mutex_unlock(&g_mutex) and return. *)
Leave(t) ==
  /\ g_mutex' = NoThread
  /\ Goto(t, "idle")

-----------------------------------------------------------------------------
(* init: the ping thread exists but is not launched yet. *)

Init ==
  /\ pc = [t \in Threads |-> IF t \in Killable THEN "dead" ELSE "idle"]
  /\ rem = [t \in Threads |-> 0]
  /\ g_mutex = MutexInit
  /\ g_cur_flags = {}
  /\ g_task_sem = SemInit
  /\ g_req_sem = SemInit
  /\ g_buf = [i \in 1..DataWidth |-> 0]
  /\ g_buf_ptr = 0
  /\ g_endpoint = NoThread
  /\ g_cb = FALSE
  /\ task_pc = "top"
  /\ task_len = 0
  /\ produced = 0
  /\ sent = 0
  /\ unserved = {}
  /\ carried = {}

-----------------------------------------------------------------------------
(* send_md: ask for a packet with metadata only and wait for it. *)

(* Mutant: send_md does not lock. *)
SendMdUnlocked(t) ==
  /\ pc[t] = "idle"
  /\ "send_md" \in Ops[t]
  /\ Goto(t, "md_flag")
  /\ UNCHANGED <<rem, syncVars, bufVars, confVars, taskVars, unserved>>

SendMd(t) ==
  /\ Enter(t, "send_md", "md_flag")
  /\ UNCHANGED <<rem, g_cur_flags, g_task_sem, g_req_sem, bufVars, confVars,
                 taskVars, unserved>>

SendMdFlag(t) ==
  /\ pc[t] = "md_flag"
  /\ g_cur_flags' = g_cur_flags \cup {"REQ_MD"}
  /\ unserved' = unserved \cup {t}
  /\ Goto(t, "md_give")
  /\ UNCHANGED <<rem, g_mutex, g_task_sem, g_req_sem, bufVars, confVars,
                 taskVars>>

SendMdGive(t) ==
  /\ pc[t] = "md_give"
  /\ g_task_sem' = SemGive(g_task_sem)
  /\ Goto(t, "md_wait")
  /\ UNCHANGED <<rem, g_mutex, g_cur_flags, g_req_sem, bufVars, confVars,
                 taskVars, unserved>>

(* Mutant: send_md does not wait to be served. *)
SendMdReturnsAtOnce(t) ==
  /\ pc[t] = "md_wait"
  /\ Goto(t, "md_unlock")
  /\ UNCHANGED <<rem, syncVars, bufVars, confVars, taskVars, unserved>>

SendMdWait(t) ==
  /\ pc[t] = "md_wait"
  /\ SemAvailable(g_req_sem)
  /\ g_req_sem' = SemTake(g_req_sem)
  /\ Goto(t, "md_unlock")
  /\ UNCHANGED <<rem, g_mutex, g_cur_flags, g_task_sem, bufVars, confVars,
                 taskVars, unserved>>

SendMdUnlock(t) ==
  /\ pc[t] = "md_unlock"
  /\ Leave(t)
  /\ UNCHANGED <<rem, g_cur_flags, g_task_sem, g_req_sem, bufVars, confVars,
                 taskVars, unserved>>

-----------------------------------------------------------------------------
(* send: copy audio into g_buf; each time it fills up, have it sent. *)

Send(t) ==
  /\ Enter(t, "send", "send_copy")
  /\ \E bytes \in SendSizes :
       /\ produced + bytes <= MaxBytes
       /\ rem' = [rem EXCEPT ![t] = bytes]
  /\ UNCHANGED <<g_cur_flags, g_task_sem, g_req_sem, bufVars, confVars,
                 taskVars, unserved>>

(* n further bytes of the stream, appended to g_buf at offset g_buf_ptr. *)
Fill(n) ==
  /\ g_buf' = [i \in 1..DataWidth |->
                 IF i \in (g_buf_ptr + 1)..(g_buf_ptr + n)
                 THEN produced + i - g_buf_ptr ELSE g_buf[i]]
  /\ produced' = produced + n

(* The memcpy of the while loop: the buffer fills up, a packet is due. *)
SendFillUp(t) ==
  LET n == DataWidth - g_buf_ptr IN
  /\ pc[t] = "send_copy"
  /\ g_buf_ptr + rem[t] >= DataWidth
  /\ Fill(n)
  /\ g_buf_ptr' = DataWidth
  /\ rem' = [rem EXCEPT ![t] = @ - n]
  /\ Goto(t, "send_flag")
  /\ UNCHANGED <<syncVars, confVars, taskVars, unserved>>

SendFlag(t) ==
  /\ pc[t] = "send_flag"
  /\ g_cur_flags' = g_cur_flags \cup {"REQ"}
  /\ Goto(t, "send_give")
  /\ UNCHANGED <<rem, g_mutex, g_task_sem, g_req_sem, bufVars, confVars,
                 taskVars, unserved>>

SendGive(t) ==
  /\ pc[t] = "send_give"
  /\ g_task_sem' = SemGive(g_task_sem)
  /\ Goto(t, "send_wait")
  /\ UNCHANGED <<rem, g_mutex, g_cur_flags, g_req_sem, bufVars, confVars,
                 taskVars, unserved>>

(* Mutant: send does not wait for its packet to leave. *)
SendWaitNot(t) ==
  /\ pc[t] = "send_wait"
  /\ g_buf_ptr' = 0
  /\ Goto(t, "send_copy")
  /\ UNCHANGED <<rem, syncVars, g_buf, produced, confVars, taskVars, unserved>>

(* Mutant: the buffer is not reset for the next packet. *)
SendWaitNoReset(t) ==
  /\ pc[t] = "send_wait"
  /\ SemAvailable(g_req_sem)
  /\ g_req_sem' = SemTake(g_req_sem)
  /\ Goto(t, "send_copy")
  /\ UNCHANGED <<rem, g_mutex, g_cur_flags, g_task_sem, bufVars, confVars,
                 taskVars, unserved>>

SendWait(t) ==
  /\ pc[t] = "send_wait"
  /\ SemAvailable(g_req_sem)
  /\ g_req_sem' = SemTake(g_req_sem)
  /\ g_buf_ptr' = 0
  /\ Goto(t, "send_copy")
  /\ UNCHANGED <<rem, g_mutex, g_cur_flags, g_task_sem, g_buf, produced,
                 confVars, taskVars, unserved>>

(* Mutant: the rest replaces what was in the buffer. *)
SendKeepOnlyRest(t) ==
  /\ pc[t] = "send_copy"
  /\ g_buf_ptr + rem[t] < DataWidth
  /\ Fill(rem[t])
  /\ g_buf_ptr' = rem[t]
  /\ rem' = [rem EXCEPT ![t] = 0]
  /\ Leave(t)
  /\ UNCHANGED <<g_cur_flags, g_task_sem, g_req_sem, confVars, taskVars,
                 unserved>>

(* The memcpy after the loop: what is left stays in the buffer. *)
SendKeepRest(t) ==
  /\ pc[t] = "send_copy"
  /\ g_buf_ptr + rem[t] < DataWidth
  /\ Fill(rem[t])
  /\ g_buf_ptr' = g_buf_ptr + rem[t]
  /\ rem' = [rem EXCEPT ![t] = 0]
  /\ Leave(t)
  /\ UNCHANGED <<g_cur_flags, g_task_sem, g_req_sem, confVars, taskVars,
                 unserved>>

-----------------------------------------------------------------------------
(* start and stop switch the send task in and out of polling the callback. *)

Start(t) ==
  /\ pc[t] = "idle"
  /\ "start" \in Ops[t]
  /\ g_cur_flags' = g_cur_flags \cup {"TASK"}
  /\ Goto(t, "start_give")
  /\ UNCHANGED <<rem, g_mutex, g_task_sem, g_req_sem, bufVars, confVars,
                 taskVars, unserved>>

(* Mutant: stop clears every flag. *)
StopClearsAll(t) ==
  /\ pc[t] = "idle"
  /\ "stop" \in Ops[t]
  /\ g_cur_flags' = {}
  /\ Goto(t, "stop_give")
  /\ UNCHANGED <<rem, g_mutex, g_task_sem, g_req_sem, bufVars, confVars,
                 taskVars, unserved>>

Stop(t) ==
  /\ pc[t] = "idle"
  /\ "stop" \in Ops[t]
  /\ g_cur_flags' = g_cur_flags \ {"TASK"}
  /\ Goto(t, "stop_give")
  /\ UNCHANGED <<rem, g_mutex, g_task_sem, g_req_sem, bufVars, confVars,
                 taskVars, unserved>>

StartStopGive(t) ==
  /\ pc[t] \in {"start_give", "stop_give"}
  /\ g_task_sem' = SemGive(g_task_sem)
  /\ Goto(t, "idle")
  /\ UNCHANGED <<rem, g_mutex, g_cur_flags, g_req_sem, bufVars, confVars,
                 taskVars, unserved>>

-----------------------------------------------------------------------------
(* set_endpoint and set_cb. *)

SetEndpoint(t) ==
  /\ Enter(t, "set_endpoint", "ep_copy")
  /\ UNCHANGED <<rem, g_cur_flags, g_task_sem, g_req_sem, bufVars, confVars,
                 taskVars, unserved>>

SetEndpointCopy(t) ==
  /\ pc[t] = "ep_copy"
  /\ g_endpoint' \in Endpoints
  /\ Leave(t)
  /\ UNCHANGED <<rem, g_cur_flags, g_task_sem, g_req_sem, bufVars, g_cb,
                 taskVars, unserved>>

SetCb(t) ==
  /\ Enter(t, "set_cb", "cb_copy")
  /\ UNCHANGED <<rem, g_cur_flags, g_task_sem, g_req_sem, bufVars, confVars,
                 taskVars, unserved>>

SetCbCopy(t) ==
  /\ pc[t] = "cb_copy"
  /\ g_cb' = TRUE
  /\ Leave(t)
  /\ UNCHANGED <<rem, g_cur_flags, g_task_sem, g_req_sem, bufVars, g_endpoint,
                 taskVars, unserved>>

-----------------------------------------------------------------------------
(* The event task launches and deletes the ping thread.  vTaskDelete gives *)
(* nothing back: a mutex the deleted thread held stays held.               *)

Launch(t, k) ==
  /\ pc[t] = "idle"
  /\ "launch" \in Ops[t]
  /\ k \in Killable
  /\ pc[k] = "dead"
  /\ Goto(k, "idle")
  /\ UNCHANGED <<rem, syncVars, bufVars, confVars, taskVars, unserved>>

Terminate(t, k) ==
  /\ pc[t] = "idle"
  /\ "terminate" \in Ops[t]
  /\ k \in Killable \ {t}
  /\ pc[k] # "dead"
  /\ Goto(k, "dead")
  /\ UNCHANGED <<rem, syncVars, bufVars, confVars, taskVars, unserved>>

-----------------------------------------------------------------------------
(* task_send. *)

TaskTop ==
  /\ task_pc = "top"
  /\ TaskGoto(IF "TASK" \in g_cur_flags THEN "chk_req" ELSE "sem_wait")
  /\ UNCHANGED <<callerVars, syncVars, bufVars, confVars, task_len, sent,
                 carried, unserved>>

TaskSemWait ==
  /\ task_pc = "sem_wait"
  /\ SemAvailable(g_task_sem)
  /\ g_task_sem' = SemTake(g_task_sem)
  /\ TaskGoto("chk_req")
  /\ UNCHANGED <<callerVars, g_mutex, g_cur_flags, g_req_sem, bufVars,
                 confVars, task_len, sent, carried, unserved>>

TaskCheckReq ==
  /\ task_pc = "chk_req"
  /\ TaskGoto(IF "REQ" \in g_cur_flags THEN "req_get" ELSE "chk_poll")
  /\ UNCHANGED <<callerVars, syncVars, bufVars, confVars, task_len, sent,
                 carried, unserved>>

TaskCheckPoll ==
  /\ task_pc = "chk_poll"
  /\ TaskGoto(IF "TASK" \in g_cur_flags THEN "poll_lock" ELSE "chk_md")
  /\ UNCHANGED <<callerVars, syncVars, bufVars, confVars, task_len, sent,
                 carried, unserved>>

TaskCheckMd ==
  /\ task_pc = "chk_md"
  /\ TaskGoto(IF "REQ_MD" \in g_cur_flags THEN "md_get" ELSE "top")
  /\ UNCHANGED <<callerVars, syncVars, bufVars, confVars, task_len, sent,
                 carried, unserved>>

(* send_raw up to sendto: evaluate the length, have remote_get_md fill in  *)
(* the metadata.                                                           *)
BuildPacket(len) ==
  /\ task_len' = len
  /\ carried' = unserved

(* sendto: the bytes of g_buf leave as they are now. *)
SendTo ==
  /\ sent' = IF task_len = 0 THEN sent ELSE g_buf[task_len]
  /\ unserved' = unserved \ carried

ReqGet ==
  /\ task_pc = "req_get"
  /\ BuildPacket(g_buf_ptr)
  /\ TaskGoto("req_sendto")
  /\ UNCHANGED <<callerVars, syncVars, bufVars, confVars, sent, unserved>>

ReqSendTo ==
  /\ task_pc = "req_sendto"
  /\ SendTo
  /\ TaskGoto("req_clear")
  /\ UNCHANGED <<callerVars, syncVars, bufVars, confVars, task_len, carried>>

ReqClear ==
  /\ task_pc = "req_clear"
  /\ g_cur_flags' = g_cur_flags \ {"REQ"}
  /\ TaskGoto("clear_md")
  /\ UNCHANGED <<callerVars, g_mutex, g_task_sem, g_req_sem, bufVars,
                 confVars, task_len, sent, carried, unserved>>

PollLock ==
  /\ task_pc = "poll_lock"
  /\ g_mutex = NoThread
  /\ g_mutex' = SendTask
  /\ TaskGoto("poll_read")
  /\ UNCHANGED <<callerVars, g_cur_flags, g_task_sem, g_req_sem, bufVars,
                 confVars, task_len, sent, carried, unserved>>

(* g_cb fills any part of the room it is offered, none without a callback. *)
PollRead ==
  /\ task_pc = "poll_read"
  /\ \E bytes \in 0..(DataWidth - g_buf_ptr) :
       /\ bytes > 0 => g_cb /\ produced + bytes <= MaxBytes
       /\ Fill(bytes)
       /\ g_buf_ptr' = g_buf_ptr + bytes
       /\ BuildPacket(g_buf_ptr + bytes)
  /\ TaskGoto("poll_sendto")
  /\ UNCHANGED <<callerVars, syncVars, confVars, sent, unserved>>

PollSendTo ==
  /\ task_pc = "poll_sendto"
  /\ SendTo
  /\ g_buf_ptr' = IF g_buf_ptr = DataWidth THEN 0 ELSE g_buf_ptr
  /\ g_mutex' = NoThread
  /\ TaskGoto("clear_md")
  /\ UNCHANGED <<callerVars, g_cur_flags, g_task_sem, g_req_sem, g_buf,
                 produced, confVars, task_len, carried>>

MdGet ==
  /\ task_pc = "md_get"
  /\ BuildPacket(0)
  /\ TaskGoto("md_sendto")
  /\ UNCHANGED <<callerVars, syncVars, bufVars, confVars, sent, unserved>>

MdSendTo ==
  /\ task_pc = "md_sendto"
  /\ SendTo
  /\ TaskGoto("clear_md")
  /\ UNCHANGED <<callerVars, syncVars, bufVars, confVars, task_len, carried>>

(* MDSent: *)
TaskClearMd ==
  /\ task_pc = "clear_md"
  /\ g_cur_flags' = g_cur_flags \ {"REQ_MD"}
  /\ TaskGoto("give_req")
  /\ UNCHANGED <<callerVars, g_mutex, g_task_sem, g_req_sem, bufVars,
                 confVars, task_len, sent, carried, unserved>>

TaskGiveReq ==
  /\ task_pc = "give_req"
  /\ g_req_sem' = SemGive(g_req_sem)
  /\ TaskGoto("top")
  /\ UNCHANGED <<callerVars, g_mutex, g_cur_flags, g_task_sem, bufVars,
                 confVars, task_len, sent, carried, unserved>>

-----------------------------------------------------------------------------

(* A call in progress. *)
CallStep(t) ==
  \/ SendMdFlag(t) \/ SendMdGive(t) \/ SendMdWait(t) \/ SendMdUnlock(t)
  \/ SendFillUp(t) \/ SendFlag(t) \/ SendGive(t) \/ SendWait(t)
  \/ SendKeepRest(t)
  \/ StartStopGive(t)
  \/ SetEndpointCopy(t) \/ SetCbCopy(t)

(* A call begins. *)
CallBegin(t) ==
  \/ SendMd(t) \/ Send(t) \/ Start(t) \/ Stop(t) \/ SetEndpoint(t) \/ SetCb(t)
  \/ \E k \in Threads : Launch(t, k) \/ Terminate(t, k)

TaskStep ==
  \/ TaskTop \/ TaskSemWait \/ TaskCheckReq \/ TaskCheckPoll \/ TaskCheckMd
  \/ ReqGet \/ ReqSendTo \/ ReqClear
  \/ PollLock \/ PollRead \/ PollSendTo
  \/ MdGet \/ MdSendTo
  \/ TaskClearMd \/ TaskGiveReq

Next == TaskStep \/ \E t \in Threads : CallBegin(t) \/ CallStep(t)

(* The scheduler runs every thread that can run; nothing makes a thread    *)
(* call, and no lock acquisition is fair.                                  *)
Fairness == WF_vars(TaskStep) /\ \A t \in Threads : WF_vars(CallStep(t))

Spec == Init /\ [][Next]_vars /\ Fairness

-----------------------------------------------------------------------------
(* Properties.                                                             *)

(* Every variable keeps its type: program counters stay inside their       *)
(* function, and neither semaphore exceeds its ceiling.                    *)
TypeOK ==
  /\ pc \in [Threads -> PCs]
  /\ rem \in [Threads -> Nat]
  /\ g_mutex \in Threads \cup {SendTask, NoThread}
  /\ g_cur_flags \in SUBSET {"TASK", "REQ", "REQ_MD"}
  /\ g_task_sem \in 0..SemMax
  /\ g_req_sem \in 0..SemMax
  /\ g_buf \in [1..DataWidth -> Nat]
  /\ g_buf_ptr \in 0..DataWidth
  /\ g_endpoint \in Endpoints \cup {NoThread}
  /\ g_cb \in BOOLEAN
  /\ task_pc \in TaskPCs
  /\ task_len \in 0..DataWidth
  /\ produced \in Nat
  /\ sent \in Nat
  /\ unserved \in SUBSET Threads
  /\ carried \in SUBSET Threads

(* send_raw reads g_buf, g_buf_ptr and g_endpoint without g_mutex: no      *)
(* caller may be writing them at that moment.  Only the two-semaphore      *)
(* handshake keeps the send task and the callers apart.                    *)
RaceFree ==
  \A t \in Threads :
    /\ task_pc \in {"req_get", "req_sendto"} => pc[t] # "send_copy"
    /\ task_pc \in {"req_sendto", "md_sendto"} => pc[t] # "ep_copy"

(* send_md returns only once a packet whose metadata was read after the    *)
(* request has been handed to sendto: the token it takes is its own.       *)
SendMdServed == \A t \in Threads : pc[t] = "md_unlock" => t \notin unserved

(* The audio of a packet is the part of the stream right after the last    *)
(* packet's: nothing lost, repeated or torn by a concurrent memcpy.        *)
PacketIsNextSlice ==
  task_pc \in {"req_sendto", "poll_sendto"} =>
    \A i \in 1..task_len : g_buf[i] = sent + i

(* The send task never goes to sleep on g_task_sem with nothing pending in *)
(* g_req_sem while a caller sleeps on g_req_sem: flag-then-give cannot     *)
(* lose the wakeup, whatever start and stop do meanwhile.                  *)
NoLostWakeup ==
  task_pc = "sem_wait" /\ g_task_sem = 0 /\ g_req_sem = 0 =>
    \A t \in Threads : pc[t] \notin {"md_wait", "send_wait"}

(* As long as nobody polls, the handshake needs semaphores of one token:   *)
(* that the POSIX build's bin_sem is a counting one makes no difference.   *)
HandshakeIsBinary == g_task_sem + g_req_sem <= 1

(* A function that has locked g_mutex unlocks it.                          *)
MutexReleased ==
  \A t \in Threads : g_mutex = t ~> g_mutex # t
=============================================================================
