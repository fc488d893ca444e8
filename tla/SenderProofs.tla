---------------------------- MODULE SenderProofs ----------------------------
(***************************************************************************)
(* What holds of Sender for every set of threads, every buffer width and   *)
(* every semaphore ceiling.                                                *)
(***************************************************************************)
EXTENDS Sender, TLAPS

-----------------------------------------------------------------------------
(* Type correctness, whichever functions the threads call. *)

LEMMA InitType == Init => TypeOK
<1> SUFFICES ASSUME Init PROVE TypeOK
    OBVIOUS
<1> USE SenderAssumption, SemMaxAssumption DEF Init, SemInit, MutexInit
<1>1. /\ pc \in [Threads -> PCs]
      /\ rem \in [Threads -> Nat]
      /\ g_buf \in [1..DataWidth -> Nat]
      BY DEF PCs
<1>2. task_pc \in TaskPCs
      BY DEF TaskPCs
<1>3. /\ g_task_sem \in 0..SemMax
      /\ g_req_sem \in 0..SemMax
      /\ g_buf_ptr \in 0..DataWidth
      /\ task_len \in 0..DataWidth
      OBVIOUS
<1> QED
    BY <1>1, <1>2, <1>3 DEF TypeOK

LEMMA NextType == TypeOK /\ [Next]_vars => TypeOK'
<1> SUFFICES ASSUME TypeOK, [Next]_vars PROVE TypeOK'
    OBVIOUS
<1> USE SenderAssumption, SemMaxAssumption
    DEF TypeOK, PCs, CallPC, LockedPC, MdPC, SendPC, ConfPC, TaskPCs, ReqPC,
        PollPC, MdTaskPC, Goto, TaskGoto, vars, callerVars, syncVars, bufVars,
        confVars, taskVars
<1>1. ASSUME NEW t \in Threads, SendMd(t) PROVE TypeOK'
     BY <1>1 DEF SendMd, Enter
<1>2. ASSUME NEW t \in Threads, SendMdFlag(t) PROVE TypeOK'
     BY <1>2 DEF SendMdFlag
<1>3. ASSUME NEW t \in Threads, SendMdGive(t) PROVE TypeOK'
     BY <1>3 DEF SendMdGive, SemGive
<1>4. ASSUME NEW t \in Threads, SendMdWait(t) PROVE TypeOK'
     BY <1>4 DEF SendMdWait, SemAvailable, SemTake
<1>5. ASSUME NEW t \in Threads, SendMdUnlock(t) PROVE TypeOK'
     BY <1>5 DEF SendMdUnlock, Leave
<1>6. ASSUME NEW t \in Threads, Send(t) PROVE TypeOK'
     BY <1>6 DEF Send, Enter
<1>7. ASSUME NEW t \in Threads, SendFillUp(t) PROVE TypeOK'
     BY <1>7 DEF SendFillUp, Fill
<1>8. ASSUME NEW t \in Threads, SendFlag(t) PROVE TypeOK'
     BY <1>8 DEF SendFlag
<1>9. ASSUME NEW t \in Threads, SendGive(t) PROVE TypeOK'
     BY <1>9 DEF SendGive, SemGive
<1>10. ASSUME NEW t \in Threads, SendWait(t) PROVE TypeOK'
     BY <1>10 DEF SendWait, SemAvailable, SemTake
<1>11. ASSUME NEW t \in Threads, SendKeepRest(t) PROVE TypeOK'
     BY <1>11 DEF SendKeepRest, Leave, Fill
<1>12. ASSUME NEW t \in Threads, Start(t) PROVE TypeOK'
     BY <1>12 DEF Start
<1>13. ASSUME NEW t \in Threads, Stop(t) PROVE TypeOK'
     BY <1>13 DEF Stop
<1>14. ASSUME NEW t \in Threads, StartStopGive(t) PROVE TypeOK'
     BY <1>14 DEF StartStopGive, SemGive
<1>15. ASSUME NEW t \in Threads, SetEndpoint(t) PROVE TypeOK'
     BY <1>15 DEF SetEndpoint, Enter
<1>16. ASSUME NEW t \in Threads, SetEndpointCopy(t) PROVE TypeOK'
     BY <1>16 DEF SetEndpointCopy, Leave
<1>17. ASSUME NEW t \in Threads, SetCb(t) PROVE TypeOK'
     BY <1>17 DEF SetCb, Enter
<1>18. ASSUME NEW t \in Threads, SetCbCopy(t) PROVE TypeOK'
     BY <1>18 DEF SetCbCopy, Leave
<1>19. ASSUME NEW t \in Threads, NEW k \in Threads, Launch(t, k) PROVE TypeOK'
     BY <1>19 DEF Launch
<1>20. ASSUME NEW t \in Threads, NEW k \in Threads, Terminate(t, k) PROVE TypeOK'
     BY <1>20 DEF Terminate
<1>21. CASE TaskTop
     BY <1>21 DEF TaskTop
<1>22. CASE TaskSemWait
     BY <1>22 DEF TaskSemWait, SemAvailable, SemTake
<1>23. CASE TaskCheckReq
     BY <1>23 DEF TaskCheckReq
<1>24. CASE TaskCheckPoll
     BY <1>24 DEF TaskCheckPoll
<1>25. CASE TaskCheckMd
     BY <1>25 DEF TaskCheckMd
<1>26. CASE ReqGet
     BY <1>26 DEF ReqGet, BuildPacket
<1>27. CASE ReqSendTo
     BY <1>27 DEF ReqSendTo, SendTo
<1>28. CASE ReqClear
     BY <1>28 DEF ReqClear
<1>29. CASE PollLock
     BY <1>29 DEF PollLock
<1>30. CASE PollRead
     BY <1>30 DEF PollRead, BuildPacket, Fill
<1>31. CASE PollSendTo
     BY <1>31 DEF PollSendTo, SendTo
<1>32. CASE MdGet
     BY <1>32 DEF MdGet, BuildPacket
<1>33. CASE MdSendTo
     BY <1>33 DEF MdSendTo, SendTo
<1>34. CASE TaskClearMd
     BY <1>34 DEF TaskClearMd
<1>35. CASE TaskGiveReq
     BY <1>35 DEF TaskGiveReq, SemGive
<1>36. CASE UNCHANGED vars
     BY <1>36
<1> QED
     BY <1>1, <1>2, <1>3, <1>4, <1>5, <1>6, <1>7, <1>8, <1>9, <1>10, <1>11, <1>12, <1>13, <1>14, <1>15, <1>16, <1>17, <1>18, <1>19, <1>20, <1>21, <1>22, <1>23, <1>24, <1>25, <1>26, <1>27, <1>28, <1>29, <1>30, <1>31, <1>32, <1>33, <1>34, <1>35, <1>36
        DEF Next, CallBegin, CallStep, TaskStep

(* No thread ever leaves its function, the semaphores keep below their     *)
(* ceiling and the buffer below its width.                                 *)
THEOREM TypeCorrect == Spec => []TypeOK
<1>1. Init => TypeOK
      BY InitType
<1>2. TypeOK /\ [Next]_vars => TypeOK'
      BY NextType
<1> QED
      BY <1>1, <1>2, PTL DEF Spec

-----------------------------------------------------------------------------
(* No lost wakeup, whatever start, stop and thread deletion do.            *)

(* A caller inside a locked region is the holder of g_mutex, and the send  *)
(* task holds it while it polls.  (A holder may have been deleted.)        *)
LockInv ==
  /\ \A t \in Threads : pc[t] \in LockedPC => g_mutex = t
  /\ task_pc \in {"poll_read", "poll_sendto"} => g_mutex = SendTask

(* The flag of a call survives until the task is on its way to answer.     *)
RaisedInv ==
  \A t \in Threads :
    /\ pc[t] \in {"md_give", "md_wait"} =>
         \/ "REQ_MD" \in g_cur_flags
         \/ task_pc = "give_req"
         \/ g_req_sem > 0
    /\ pc[t] \in {"send_give", "send_wait"} =>
         \/ "REQ" \in g_cur_flags
         \/ task_pc \in {"clear_md", "give_req"}
         \/ g_req_sem > 0

(* The task has been woken for a waiting call, at a point from which it    *)
(* looks at the call's flag before it sleeps again.                        *)
WokenInv ==
  \A t \in Threads :
    /\ pc[t] = "md_wait" =>
         g_task_sem > 0 \/ g_req_sem > 0 \/ task_pc \notin {"top", "sem_wait"}
    /\ pc[t] = "send_wait" =>
         \/ g_task_sem > 0
         \/ g_req_sem > 0
         \/ task_pc \notin {"top", "sem_wait", "chk_poll", "chk_md"}

WakeInv == TypeOK /\ LockInv /\ RaisedInv /\ WokenInv

LEMMA InitWake == Init => WakeInv
  BY InitType, SenderAssumption
     DEF Init, WakeInv, LockInv, RaisedInv, WokenInv, LockedPC, MdPC, SendPC,
         ConfPC

LEMMA NextWake ==
  WakeInv /\ [Next]_vars => (LockInv /\ RaisedInv /\ WokenInv)'
<1> SUFFICES ASSUME WakeInv, [Next]_vars PROVE  (LockInv /\ RaisedInv /\ WokenInv)'
    OBVIOUS
<1> USE SenderAssumption, SemMaxAssumption
    DEF WakeInv, TypeOK, LockInv, RaisedInv, WokenInv, PCs, CallPC, LockedPC, MdPC, SendPC, ConfPC, TaskPCs, ReqPC,
        PollPC, MdTaskPC, Goto, TaskGoto, vars, callerVars, syncVars, bufVars,
        confVars, taskVars
<1>1. ASSUME NEW t \in Threads, SendMd(t) PROVE  (LockInv /\ RaisedInv /\ WokenInv)'
     BY <1>1 DEF SendMd, Enter
<1>2. ASSUME NEW t \in Threads, SendMdFlag(t) PROVE  (LockInv /\ RaisedInv /\ WokenInv)'
     BY <1>2 DEF SendMdFlag
<1>3. ASSUME NEW t \in Threads, SendMdGive(t) PROVE  (LockInv /\ RaisedInv /\ WokenInv)'
     BY <1>3 DEF SendMdGive, SemGive
<1>4. ASSUME NEW t \in Threads, SendMdWait(t) PROVE  (LockInv /\ RaisedInv /\ WokenInv)'
     BY <1>4 DEF SendMdWait, SemAvailable, SemTake
<1>5. ASSUME NEW t \in Threads, SendMdUnlock(t) PROVE  (LockInv /\ RaisedInv /\ WokenInv)'
     BY <1>5 DEF SendMdUnlock, Leave
<1>6. ASSUME NEW t \in Threads, Send(t) PROVE  (LockInv /\ RaisedInv /\ WokenInv)'
     BY <1>6 DEF Send, Enter
<1>7. ASSUME NEW t \in Threads, SendFillUp(t) PROVE  (LockInv /\ RaisedInv /\ WokenInv)'
     BY <1>7 DEF SendFillUp, Fill
<1>8. ASSUME NEW t \in Threads, SendFlag(t) PROVE  (LockInv /\ RaisedInv /\ WokenInv)'
     BY <1>8 DEF SendFlag
<1>9. ASSUME NEW t \in Threads, SendGive(t) PROVE  (LockInv /\ RaisedInv /\ WokenInv)'
     BY <1>9 DEF SendGive, SemGive
<1>10. ASSUME NEW t \in Threads, SendWait(t) PROVE  (LockInv /\ RaisedInv /\ WokenInv)'
     BY <1>10 DEF SendWait, SemAvailable, SemTake
<1>11. ASSUME NEW t \in Threads, SendKeepRest(t) PROVE  (LockInv /\ RaisedInv /\ WokenInv)'
     BY <1>11 DEF SendKeepRest, Leave, Fill
<1>12. ASSUME NEW t \in Threads, Start(t) PROVE  (LockInv /\ RaisedInv /\ WokenInv)'
     BY <1>12 DEF Start
<1>13. ASSUME NEW t \in Threads, Stop(t) PROVE  (LockInv /\ RaisedInv /\ WokenInv)'
     BY <1>13 DEF Stop
<1>14. ASSUME NEW t \in Threads, StartStopGive(t) PROVE  (LockInv /\ RaisedInv /\ WokenInv)'
     BY <1>14 DEF StartStopGive, SemGive
<1>15. ASSUME NEW t \in Threads, SetEndpoint(t) PROVE  (LockInv /\ RaisedInv /\ WokenInv)'
     BY <1>15 DEF SetEndpoint, Enter
<1>16. ASSUME NEW t \in Threads, SetEndpointCopy(t) PROVE  (LockInv /\ RaisedInv /\ WokenInv)'
     BY <1>16 DEF SetEndpointCopy, Leave
<1>17. ASSUME NEW t \in Threads, SetCb(t) PROVE  (LockInv /\ RaisedInv /\ WokenInv)'
     BY <1>17 DEF SetCb, Enter
<1>18. ASSUME NEW t \in Threads, SetCbCopy(t) PROVE  (LockInv /\ RaisedInv /\ WokenInv)'
     BY <1>18 DEF SetCbCopy, Leave
<1>19. ASSUME NEW t \in Threads, NEW k \in Threads, Launch(t, k)
     PROVE  (LockInv /\ RaisedInv /\ WokenInv)'
     BY <1>19 DEF Launch
<1>20. ASSUME NEW t \in Threads, NEW k \in Threads, Terminate(t, k)
     PROVE  (LockInv /\ RaisedInv /\ WokenInv)'
     BY <1>20 DEF Terminate
<1>21. CASE TaskTop
     BY <1>21 DEF TaskTop
<1>22. CASE TaskSemWait
     BY <1>22 DEF TaskSemWait, SemAvailable, SemTake
<1>23. CASE TaskCheckReq
     BY <1>23 DEF TaskCheckReq
<1>24. CASE TaskCheckPoll
     BY <1>24 DEF TaskCheckPoll
<1>25. CASE TaskCheckMd
     BY <1>25 DEF TaskCheckMd
<1>26. CASE ReqGet
     BY <1>26 DEF ReqGet, BuildPacket
<1>27. CASE ReqSendTo
     BY <1>27 DEF ReqSendTo, SendTo
<1>28. CASE ReqClear
     BY <1>28 DEF ReqClear
<1>29. CASE PollLock
     BY <1>29 DEF PollLock
<1>30. CASE PollRead
     BY <1>30 DEF PollRead, BuildPacket, Fill
<1>31. CASE PollSendTo
     BY <1>31 DEF PollSendTo, SendTo
<1>32. CASE MdGet
     BY <1>32 DEF MdGet, BuildPacket
<1>33. CASE MdSendTo
     BY <1>33 DEF MdSendTo, SendTo
<1>34. CASE TaskClearMd
     BY <1>34 DEF TaskClearMd
<1>35. CASE TaskGiveReq
     BY <1>35 DEF TaskGiveReq, SemGive
<1>36. CASE UNCHANGED vars
     BY <1>36
<1> QED
    BY <1>1, <1>2, <1>3, <1>4, <1>5, <1>6, <1>7, <1>8, <1>9, <1>10, <1>11, <1>12, <1>13, <1>14, <1>15, <1>16, <1>17, <1>18, <1>19, <1>20, <1>21, <1>22, <1>23, <1>24, <1>25, <1>26, <1>27, <1>28, <1>29, <1>30, <1>31, <1>32, <1>33, <1>34, <1>35, <1>36
       DEF Next, CallBegin, CallStep, TaskStep

(* In both builds, with polling, stopping and deletion of threads: a caller *)
(* never sleeps on g_req_sem while the send task sleeps on g_task_sem with  *)
(* no token left to wake either.                                            *)
THEOREM NeverLosesWakeup == Spec => []NoLostWakeup
<1>1. Init => WakeInv
      BY InitWake
<1>2. WakeInv /\ [Next]_vars => WakeInv'
      BY NextType, NextWake DEF WakeInv
<1>3. WakeInv => NoLostWakeup
      BY DEF WakeInv, WokenInv, NoLostWakeup
<1> QED
    BY <1>1, <1>2, <1>3, PTL DEF Spec

-----------------------------------------------------------------------------
(* The handshake, when nobody switches to polling and no thread is deleted *)
(* (the server).                                                           *)

RequestsOnly ==
  /\ Killable = {}
  /\ \A t \in Threads : Ops[t] \subseteq {"send_md", "send", "set_endpoint",
                                          "set_cb"}

Waits(t) == pc[t] \in {"md_wait", "send_wait"}
Awake == task_pc \notin {"top", "sem_wait"}

(* g_mutex is held by the caller inside a locked region and by no other,   *)
(* and the send task never polls.                                          *)
ExclusiveInv ==
  /\ \A t \in Threads : /\ pc[t] \in LockedPC \cup {"idle"}
                        /\ pc[t] \in LockedPC <=> g_mutex = t
  /\ "TASK" \notin g_cur_flags
  /\ task_pc \notin PollPC

(* One token exists exactly while a caller waits: in g_task_sem, with the  *)
(* task that took it from there, or in g_req_sem.                          *)
TokenInv ==
  IF \E t \in Threads : Waits(t)
  THEN \/ g_task_sem = 1 /\ g_req_sem = 0 /\ ~Awake
       \/ g_task_sem = 0 /\ g_req_sem = 0 /\ Awake
       \/ g_task_sem = 0 /\ g_req_sem = 1 /\ ~Awake
  ELSE g_task_sem = 0 /\ g_req_sem = 0 /\ ~Awake

(* The flags are the waiting caller's own, until its request is served,    *)
(* and the task is on the branch of that request.                          *)
FlagInv ==
  /\ \A t \in Threads :
       /\ pc[t] = "md_give" => g_cur_flags = {"REQ_MD"}
       /\ pc[t] = "send_give" => g_cur_flags = {"REQ"}
       /\ pc[t] = "md_wait" =>
            /\ task_pc \notin ReqPC
            /\ g_cur_flags = IF task_pc = "give_req" \/ g_req_sem = 1
                             THEN {} ELSE {"REQ_MD"}
       /\ pc[t] = "send_wait" =>
            /\ task_pc \notin {"chk_poll", "chk_md"} \cup MdTaskPC
            /\ g_cur_flags = IF task_pc \in {"clear_md", "give_req"}
                                \/ g_req_sem = 1
                             THEN {} ELSE {"REQ"}
  /\ (\A t \in Threads :
        pc[t] \notin {"md_give", "md_wait", "send_give", "send_wait"})
     => g_cur_flags = {}

HandshakeInv == TypeOK /\ ExclusiveInv /\ TokenInv /\ FlagInv

(* Where the call of a send_md is, once a packet was built after it.       *)
ServedInv ==
  \A t \in Threads :
    /\ pc[t] = "md_wait" /\ task_pc = "md_sendto" => t \notin unserved \ carried
    /\ pc[t] = "md_wait" /\ (task_pc \in {"clear_md", "give_req"}
                             \/ g_req_sem = 1) => t \notin unserved
    /\ pc[t] = "md_unlock" => t \notin unserved

(* The buffer holds the stream from the last packet on, except between the *)
(* transmission of a full buffer and its reset by send.                    *)
Transmitted ==
  /\ \E t \in Threads : pc[t] = "send_wait"
  /\ task_pc \in {"req_clear", "clear_md", "give_req"} \/ g_req_sem = 1

StreamInv ==
  /\ IF Transmitted
     THEN sent = produced
     ELSE /\ produced = sent + g_buf_ptr
          /\ \A i \in 1..g_buf_ptr : g_buf[i] = sent + i
  /\ task_pc = "req_sendto" => task_len = g_buf_ptr
  /\ task_pc = "md_sendto" => task_len = 0
  /\ \A t \in Threads : pc[t] \in {"send_flag", "send_give", "send_wait"}
                           => g_buf_ptr = DataWidth

LEMMA InitHandshake == ASSUME RequestsOnly PROVE Init => HandshakeInv
<1> SUFFICES ASSUME Init PROVE HandshakeInv
    OBVIOUS
<1>1. TypeOK
      BY InitType
<1>2. /\ \A t \in Threads : pc[t] = "idle"
      /\ g_mutex = NoThread
      /\ task_pc = "top"
      BY SenderAssumption DEF Init, MutexInit, RequestsOnly
<1>3. ExclusiveInv
      BY <1>2, SenderAssumption
         DEF ExclusiveInv, Init, LockedPC, MdPC, SendPC, ConfPC, PollPC
<1>4. TokenInv /\ FlagInv
      BY <1>2 DEF TokenInv, FlagInv, Waits, Awake, Init, SemInit
<1> QED
    BY <1>1, <1>3, <1>4 DEF HandshakeInv

LEMMA NextHandshake ==
  ASSUME RequestsOnly
  PROVE  HandshakeInv /\ [Next]_vars => (ExclusiveInv /\ TokenInv /\ FlagInv)'
<1> SUFFICES ASSUME HandshakeInv, [Next]_vars PROVE (ExclusiveInv /\ TokenInv /\ FlagInv)'
    OBVIOUS
<1> USE RequestsOnly, SenderAssumption, SemMaxAssumption
    DEF RequestsOnly, HandshakeInv, TypeOK, ExclusiveInv, TokenInv, FlagInv, Waits, Awake,
        PCs, CallPC, LockedPC, MdPC, SendPC, ConfPC, TaskPCs, ReqPC,
        PollPC, MdTaskPC, Goto, TaskGoto, vars, callerVars, syncVars, bufVars,
        confVars, taskVars
<1>1. ASSUME NEW t \in Threads, SendMd(t) PROVE (ExclusiveInv /\ TokenInv /\ FlagInv)'
     BY <1>1 DEF SendMd, Enter
<1>2. ASSUME NEW t \in Threads, SendMdFlag(t) PROVE (ExclusiveInv /\ TokenInv /\ FlagInv)'
     BY <1>2 DEF SendMdFlag
<1>3. ASSUME NEW t \in Threads, SendMdGive(t) PROVE (ExclusiveInv /\ TokenInv /\ FlagInv)'
     BY <1>3 DEF SendMdGive, SemGive
<1>4. ASSUME NEW t \in Threads, SendMdWait(t) PROVE (ExclusiveInv /\ TokenInv /\ FlagInv)'
     BY <1>4 DEF SendMdWait, SemAvailable, SemTake
<1>5. ASSUME NEW t \in Threads, SendMdUnlock(t) PROVE (ExclusiveInv /\ TokenInv /\ FlagInv)'
     BY <1>5 DEF SendMdUnlock, Leave
<1>6. ASSUME NEW t \in Threads, Send(t) PROVE (ExclusiveInv /\ TokenInv /\ FlagInv)'
     BY <1>6 DEF Send, Enter
<1>7. ASSUME NEW t \in Threads, SendFillUp(t) PROVE (ExclusiveInv /\ TokenInv /\ FlagInv)'
     BY <1>7 DEF SendFillUp, Fill
<1>8. ASSUME NEW t \in Threads, SendFlag(t) PROVE (ExclusiveInv /\ TokenInv /\ FlagInv)'
     BY <1>8 DEF SendFlag
<1>9. ASSUME NEW t \in Threads, SendGive(t) PROVE (ExclusiveInv /\ TokenInv /\ FlagInv)'
     BY <1>9 DEF SendGive, SemGive
<1>10. ASSUME NEW t \in Threads, SendWait(t) PROVE (ExclusiveInv /\ TokenInv /\ FlagInv)'
     BY <1>10 DEF SendWait, SemAvailable, SemTake
<1>11. ASSUME NEW t \in Threads, SendKeepRest(t) PROVE (ExclusiveInv /\ TokenInv /\ FlagInv)'
     BY <1>11 DEF SendKeepRest, Leave, Fill
<1>12. ASSUME NEW t \in Threads, Start(t) PROVE (ExclusiveInv /\ TokenInv /\ FlagInv)'
     BY <1>12 DEF Start
<1>13. ASSUME NEW t \in Threads, Stop(t) PROVE (ExclusiveInv /\ TokenInv /\ FlagInv)'
     BY <1>13 DEF Stop
<1>14. ASSUME NEW t \in Threads, StartStopGive(t) PROVE (ExclusiveInv /\ TokenInv /\ FlagInv)'
     BY <1>14 DEF StartStopGive, SemGive
<1>15. ASSUME NEW t \in Threads, SetEndpoint(t) PROVE (ExclusiveInv /\ TokenInv /\ FlagInv)'
     BY <1>15 DEF SetEndpoint, Enter
<1>16. ASSUME NEW t \in Threads, SetEndpointCopy(t) PROVE (ExclusiveInv /\ TokenInv /\ FlagInv)'
     BY <1>16 DEF SetEndpointCopy, Leave
<1>17. ASSUME NEW t \in Threads, SetCb(t) PROVE (ExclusiveInv /\ TokenInv /\ FlagInv)'
     BY <1>17 DEF SetCb, Enter
<1>18. ASSUME NEW t \in Threads, SetCbCopy(t) PROVE (ExclusiveInv /\ TokenInv /\ FlagInv)'
     BY <1>18 DEF SetCbCopy, Leave
<1>19. ASSUME NEW t \in Threads, NEW k \in Threads, Launch(t, k)
     PROVE  (ExclusiveInv /\ TokenInv /\ FlagInv)'
     BY <1>19 DEF Launch
<1>20. ASSUME NEW t \in Threads, NEW k \in Threads, Terminate(t, k)
     PROVE  (ExclusiveInv /\ TokenInv /\ FlagInv)'
     BY <1>20 DEF Terminate
<1>21. CASE TaskTop
     BY <1>21 DEF TaskTop
<1>22. CASE TaskSemWait
     BY <1>22 DEF TaskSemWait, SemAvailable, SemTake
<1>23. CASE TaskCheckReq
     BY <1>23 DEF TaskCheckReq
<1>24. CASE TaskCheckPoll
     BY <1>24 DEF TaskCheckPoll
<1>25. CASE TaskCheckMd
     BY <1>25 DEF TaskCheckMd
<1>26. CASE ReqGet
     BY <1>26 DEF ReqGet, BuildPacket
<1>27. CASE ReqSendTo
     BY <1>27 DEF ReqSendTo, SendTo
<1>28. CASE ReqClear
     BY <1>28 DEF ReqClear
<1>29. CASE PollLock
     BY <1>29 DEF PollLock
<1>30. CASE PollRead
     BY <1>30 DEF PollRead, BuildPacket, Fill
<1>31. CASE PollSendTo
     BY <1>31 DEF PollSendTo, SendTo
<1>32. CASE MdGet
     BY <1>32 DEF MdGet, BuildPacket
<1>33. CASE MdSendTo
     BY <1>33 DEF MdSendTo, SendTo
<1>34. CASE TaskClearMd
     BY <1>34 DEF TaskClearMd
<1>35. CASE TaskGiveReq
     BY <1>35 DEF TaskGiveReq, SemGive
<1>36. CASE UNCHANGED vars
     BY <1>36
<1> QED
    BY <1>1, <1>2, <1>3, <1>4, <1>5, <1>6, <1>7, <1>8, <1>9, <1>10, <1>11, <1>12, <1>13, <1>14, <1>15, <1>16, <1>17, <1>18, <1>19, <1>20, <1>21, <1>22, <1>23, <1>24, <1>25, <1>26, <1>27, <1>28, <1>29, <1>30, <1>31, <1>32, <1>33, <1>34, <1>35, <1>36
       DEF Next, CallBegin, CallStep, TaskStep

LEMMA NextServed ==
  ASSUME RequestsOnly
  PROVE  HandshakeInv /\ ServedInv /\ [Next]_vars => ServedInv'
<1> SUFFICES ASSUME HandshakeInv /\ ServedInv, [Next]_vars PROVE ServedInv'
    OBVIOUS
<1> USE RequestsOnly, SenderAssumption, SemMaxAssumption
    DEF RequestsOnly, HandshakeInv, TypeOK, ExclusiveInv, TokenInv, FlagInv, Waits, Awake,
        ServedInv, PCs, CallPC, LockedPC, MdPC, SendPC, ConfPC, TaskPCs, ReqPC,
        PollPC, MdTaskPC, Goto, TaskGoto, vars, callerVars, syncVars, bufVars,
        confVars, taskVars
<1>1. ASSUME NEW t \in Threads, SendMd(t) PROVE ServedInv'
     BY <1>1 DEF SendMd, Enter
<1>2. ASSUME NEW t \in Threads, SendMdFlag(t) PROVE ServedInv'
     BY <1>2 DEF SendMdFlag
<1>3. ASSUME NEW t \in Threads, SendMdGive(t) PROVE ServedInv'
     BY <1>3 DEF SendMdGive, SemGive
<1>4. ASSUME NEW t \in Threads, SendMdWait(t) PROVE ServedInv'
     BY <1>4 DEF SendMdWait, SemAvailable, SemTake
<1>5. ASSUME NEW t \in Threads, SendMdUnlock(t) PROVE ServedInv'
     BY <1>5 DEF SendMdUnlock, Leave
<1>6. ASSUME NEW t \in Threads, Send(t) PROVE ServedInv'
     BY <1>6 DEF Send, Enter
<1>7. ASSUME NEW t \in Threads, SendFillUp(t) PROVE ServedInv'
     BY <1>7 DEF SendFillUp, Fill
<1>8. ASSUME NEW t \in Threads, SendFlag(t) PROVE ServedInv'
     BY <1>8 DEF SendFlag
<1>9. ASSUME NEW t \in Threads, SendGive(t) PROVE ServedInv'
     BY <1>9 DEF SendGive, SemGive
<1>10. ASSUME NEW t \in Threads, SendWait(t) PROVE ServedInv'
     BY <1>10 DEF SendWait, SemAvailable, SemTake
<1>11. ASSUME NEW t \in Threads, SendKeepRest(t) PROVE ServedInv'
     BY <1>11 DEF SendKeepRest, Leave, Fill
<1>12. ASSUME NEW t \in Threads, Start(t) PROVE ServedInv'
     BY <1>12 DEF Start
<1>13. ASSUME NEW t \in Threads, Stop(t) PROVE ServedInv'
     BY <1>13 DEF Stop
<1>14. ASSUME NEW t \in Threads, StartStopGive(t) PROVE ServedInv'
     BY <1>14 DEF StartStopGive, SemGive
<1>15. ASSUME NEW t \in Threads, SetEndpoint(t) PROVE ServedInv'
     BY <1>15 DEF SetEndpoint, Enter
<1>16. ASSUME NEW t \in Threads, SetEndpointCopy(t) PROVE ServedInv'
     BY <1>16 DEF SetEndpointCopy, Leave
<1>17. ASSUME NEW t \in Threads, SetCb(t) PROVE ServedInv'
     BY <1>17 DEF SetCb, Enter
<1>18. ASSUME NEW t \in Threads, SetCbCopy(t) PROVE ServedInv'
     BY <1>18 DEF SetCbCopy, Leave
<1>19. ASSUME NEW t \in Threads, NEW k \in Threads, Launch(t, k)
     PROVE  ServedInv'
     BY <1>19 DEF Launch
<1>20. ASSUME NEW t \in Threads, NEW k \in Threads, Terminate(t, k)
     PROVE  ServedInv'
     BY <1>20 DEF Terminate
<1>21. CASE TaskTop
     BY <1>21 DEF TaskTop
<1>22. CASE TaskSemWait
     BY <1>22 DEF TaskSemWait, SemAvailable, SemTake
<1>23. CASE TaskCheckReq
     BY <1>23 DEF TaskCheckReq
<1>24. CASE TaskCheckPoll
     BY <1>24 DEF TaskCheckPoll
<1>25. CASE TaskCheckMd
     BY <1>25 DEF TaskCheckMd
<1>26. CASE ReqGet
     BY <1>26 DEF ReqGet, BuildPacket
<1>27. CASE ReqSendTo
     BY <1>27 DEF ReqSendTo, SendTo
<1>28. CASE ReqClear
     BY <1>28 DEF ReqClear
<1>29. CASE PollLock
     BY <1>29 DEF PollLock
<1>30. CASE PollRead
     BY <1>30 DEF PollRead, BuildPacket, Fill
<1>31. CASE PollSendTo
     BY <1>31 DEF PollSendTo, SendTo
<1>32. CASE MdGet
     BY <1>32 DEF MdGet, BuildPacket
<1>33. CASE MdSendTo
     BY <1>33 DEF MdSendTo, SendTo
<1>34. CASE TaskClearMd
     BY <1>34 DEF TaskClearMd
<1>35. CASE TaskGiveReq
     BY <1>35 DEF TaskGiveReq, SemGive
<1>36. CASE UNCHANGED vars
     BY <1>36
<1> QED
    BY <1>1, <1>2, <1>3, <1>4, <1>5, <1>6, <1>7, <1>8, <1>9, <1>10, <1>11, <1>12, <1>13, <1>14, <1>15, <1>16, <1>17, <1>18, <1>19, <1>20, <1>21, <1>22, <1>23, <1>24, <1>25, <1>26, <1>27, <1>28, <1>29, <1>30, <1>31, <1>32, <1>33, <1>34, <1>35, <1>36
       DEF Next, CallBegin, CallStep, TaskStep

(* Filling a buffer that holds the stream from the last packet on.         *)
LEMMA FillExtends ==
  ASSUME TypeOK, NEW n \in Nat, g_buf_ptr + n <= DataWidth, Fill(n),
         g_buf_ptr' = g_buf_ptr + n, sent' = sent,
         produced = sent + g_buf_ptr,
         \A i \in 1..g_buf_ptr : g_buf[i] = sent + i
  PROVE  /\ produced' = sent' + g_buf_ptr'
         /\ \A i \in 1..g_buf_ptr' : g_buf'[i] = sent' + i
<1> USE SenderAssumption DEF TypeOK, Fill
<1>1. produced' = sent' + g_buf_ptr'
      OBVIOUS
<1>2. ASSUME NEW i \in 1..g_buf_ptr' PROVE g_buf'[i] = sent' + i
  <2>1. CASE i <= g_buf_ptr
        BY <1>2, <2>1
  <2>2. CASE i > g_buf_ptr
        BY <1>2, <2>2
  <2> QED
      BY <1>2, <2>1, <2>2
<1> QED
    BY <1>1, <1>2

LEMMA NextStream ==
  ASSUME RequestsOnly
  PROVE  HandshakeInv /\ StreamInv /\ [Next]_vars => StreamInv'
<1> SUFFICES ASSUME HandshakeInv /\ StreamInv, [Next]_vars PROVE StreamInv'
    OBVIOUS
<1> USE RequestsOnly, SenderAssumption, SemMaxAssumption
    DEF RequestsOnly, HandshakeInv, TypeOK, ExclusiveInv, TokenInv, FlagInv, Waits, Awake,
        StreamInv, Transmitted, PCs, CallPC, LockedPC, MdPC, SendPC, ConfPC, TaskPCs, ReqPC,
        PollPC, MdTaskPC, Goto, TaskGoto, vars, callerVars, syncVars, bufVars,
        confVars, taskVars
<1>1. ASSUME NEW t \in Threads, SendMd(t) PROVE StreamInv'
     BY <1>1 DEF SendMd, Enter
<1>2. ASSUME NEW t \in Threads, SendMdFlag(t) PROVE StreamInv'
     BY <1>2 DEF SendMdFlag
<1>3. ASSUME NEW t \in Threads, SendMdGive(t) PROVE StreamInv'
     BY <1>3 DEF SendMdGive, SemGive
<1>4. ASSUME NEW t \in Threads, SendMdWait(t) PROVE StreamInv'
     BY <1>4 DEF SendMdWait, SemAvailable, SemTake
<1>5. ASSUME NEW t \in Threads, SendMdUnlock(t) PROVE StreamInv'
     BY <1>5 DEF SendMdUnlock, Leave
<1>6. ASSUME NEW t \in Threads, Send(t) PROVE StreamInv'
     BY <1>6 DEF Send, Enter
<1>7. ASSUME NEW t \in Threads, SendFillUp(t) PROVE StreamInv'
  <2>a. \A u \in Threads : pc[u] # "send_wait"
        BY <1>7 DEF SendFillUp
  <2>b. \A u \in Threads : pc'[u] # "send_wait"
        BY <1>7, <2>a DEF SendFillUp
  <2>1. ~Transmitted /\ ~Transmitted'
        BY <2>a, <2>b
  <2>2. /\ Fill(DataWidth - g_buf_ptr)
        /\ g_buf_ptr' = g_buf_ptr + (DataWidth - g_buf_ptr)
        /\ DataWidth - g_buf_ptr \in Nat /\ sent' = sent
        BY <1>7 DEF SendFillUp
  <2>3. /\ produced' = sent' + g_buf_ptr'
        /\ \A i \in 1..g_buf_ptr' : g_buf'[i] = sent' + i
        BY <2>1, <2>2, FillExtends
  <2>4. task_pc \notin {"req_sendto", "md_sendto"}
        BY <1>7 DEF SendFillUp
  <2>5. g_buf_ptr' = DataWidth /\ task_pc' = task_pc
        BY <1>7 DEF SendFillUp
  <2> QED
      BY <2>1, <2>3, <2>4, <2>5
<1>8. ASSUME NEW t \in Threads, SendFlag(t) PROVE StreamInv'
     BY <1>8 DEF SendFlag
<1>9. ASSUME NEW t \in Threads, SendGive(t) PROVE StreamInv'
     BY <1>9 DEF SendGive, SemGive
<1>10. ASSUME NEW t \in Threads, SendWait(t) PROVE StreamInv'
     BY <1>10 DEF SendWait, SemAvailable, SemTake
<1>11. ASSUME NEW t \in Threads, SendKeepRest(t) PROVE StreamInv'
  <2>a. \A u \in Threads : pc[u] # "send_wait"
        BY <1>11 DEF SendKeepRest
  <2>b. \A u \in Threads : pc'[u] # "send_wait"
        BY <1>11, <2>a DEF SendKeepRest, Leave
  <2>1. ~Transmitted /\ ~Transmitted'
        BY <2>a, <2>b
  <2>2. Fill(rem[t]) /\ g_buf_ptr' = g_buf_ptr + rem[t] /\ rem[t] \in Nat
        /\ sent' = sent /\ g_buf_ptr' < DataWidth
        BY <1>11 DEF SendKeepRest
  <2>3. /\ produced' = sent' + g_buf_ptr'
        /\ \A i \in 1..g_buf_ptr' : g_buf'[i] = sent' + i
        BY <2>1, <2>2, FillExtends
  <2>4. task_pc \notin {"req_sendto", "md_sendto"} /\ task_pc' = task_pc
        BY <1>11 DEF SendKeepRest, Leave
  <2>5. \A u \in Threads : pc'[u] \notin {"send_flag", "send_give", "send_wait"}
        BY <1>11 DEF SendKeepRest, Leave
  <2> QED
      BY <2>1, <2>3, <2>4, <2>5
<1>12. ASSUME NEW t \in Threads, Start(t) PROVE StreamInv'
     BY <1>12 DEF Start
<1>13. ASSUME NEW t \in Threads, Stop(t) PROVE StreamInv'
     BY <1>13 DEF Stop
<1>14. ASSUME NEW t \in Threads, StartStopGive(t) PROVE StreamInv'
     BY <1>14 DEF StartStopGive, SemGive
<1>15. ASSUME NEW t \in Threads, SetEndpoint(t) PROVE StreamInv'
     BY <1>15 DEF SetEndpoint, Enter
<1>16. ASSUME NEW t \in Threads, SetEndpointCopy(t) PROVE StreamInv'
     BY <1>16 DEF SetEndpointCopy, Leave
<1>17. ASSUME NEW t \in Threads, SetCb(t) PROVE StreamInv'
     BY <1>17 DEF SetCb, Enter
<1>18. ASSUME NEW t \in Threads, SetCbCopy(t) PROVE StreamInv'
     BY <1>18 DEF SetCbCopy, Leave
<1>19. ASSUME NEW t \in Threads, NEW k \in Threads, Launch(t, k)
     PROVE  StreamInv'
     BY <1>19 DEF Launch
<1>20. ASSUME NEW t \in Threads, NEW k \in Threads, Terminate(t, k)
     PROVE  StreamInv'
     BY <1>20 DEF Terminate
<1>21. CASE TaskTop
     BY <1>21 DEF TaskTop
<1>22. CASE TaskSemWait
     BY <1>22 DEF TaskSemWait, SemAvailable, SemTake
<1>23. CASE TaskCheckReq
     BY <1>23 DEF TaskCheckReq
<1>24. CASE TaskCheckPoll
     BY <1>24 DEF TaskCheckPoll
<1>25. CASE TaskCheckMd
     BY <1>25 DEF TaskCheckMd
<1>26. CASE ReqGet
     BY <1>26 DEF ReqGet, BuildPacket
<1>27. CASE ReqSendTo
     BY <1>27 DEF ReqSendTo, SendTo
<1>28. CASE ReqClear
     BY <1>28 DEF ReqClear
<1>29. CASE PollLock
     BY <1>29 DEF PollLock
<1>30. CASE PollRead
     BY <1>30 DEF PollRead, BuildPacket, Fill
<1>31. CASE PollSendTo
     BY <1>31 DEF PollSendTo, SendTo
<1>32. CASE MdGet
     BY <1>32 DEF MdGet, BuildPacket
<1>33. CASE MdSendTo
     BY <1>33 DEF MdSendTo, SendTo
<1>34. CASE TaskClearMd
     BY <1>34 DEF TaskClearMd
<1>35. CASE TaskGiveReq
     BY <1>35 DEF TaskGiveReq, SemGive
<1>36. CASE UNCHANGED vars
     BY <1>36
<1> QED
    BY <1>1, <1>2, <1>3, <1>4, <1>5, <1>6, <1>7, <1>8, <1>9, <1>10, <1>11, <1>12, <1>13, <1>14, <1>15, <1>16, <1>17, <1>18, <1>19, <1>20, <1>21, <1>22, <1>23, <1>24, <1>25, <1>26, <1>27, <1>28, <1>29, <1>30, <1>31, <1>32, <1>33, <1>34, <1>35, <1>36
       DEF Next, CallBegin, CallStep, TaskStep


ServerInv == HandshakeInv /\ ServedInv /\ StreamInv

LEMMA ServerInvariant == ASSUME RequestsOnly PROVE Spec => []ServerInv
<1>1. Init => ServerInv
  <2> SUFFICES ASSUME Init PROVE ServerInv
      OBVIOUS
  <2>1. HandshakeInv
        BY InitHandshake, RequestsOnly
  <2>2. \A t \in Threads : pc[t] = "idle"
        BY DEF Init, RequestsOnly
  <2>3. ServedInv
        BY <2>2 DEF ServedInv
  <2>4. StreamInv
        BY <2>2 DEF StreamInv, Transmitted, Init
  <2> QED
      BY <2>1, <2>3, <2>4 DEF ServerInv
<1>2. ServerInv /\ [Next]_vars => ServerInv'
      BY RequestsOnly, NextType, NextHandshake, NextServed, NextStream
         DEF ServerInv, HandshakeInv
<1> QED
    BY <1>1, <1>2, PTL DEF Spec

(* Without polling the two-semaphore handshake is a lock: send_raw reads    *)
(* the buffer and the endpoint while no caller writes them.                 *)
THEOREM ServerRaceFree == ASSUME RequestsOnly PROVE Spec => []RaceFree
<1>1. ServerInv => RaceFree
      BY SenderAssumption
         DEF ServerInv, HandshakeInv, TypeOK, ExclusiveInv, TokenInv, FlagInv,
             Waits, Awake, RaceFree, LockedPC, MdPC, SendPC, ConfPC
<1> QED
    BY <1>1, ServerInvariant, RequestsOnly, PTL

(* Without polling, send_md returns only after a packet that carries what   *)
(* was there to report when it was called.                                  *)
THEOREM ServerSendMdServed == ASSUME RequestsOnly PROVE Spec => []SendMdServed
<1>1. ServerInv => SendMdServed
      BY DEF ServerInv, ServedInv, SendMdServed
<1> QED
    BY <1>1, ServerInvariant, RequestsOnly, PTL

(* Without polling, the audio packets are the audio stream, cut in pieces:  *)
(* nothing lost, repeated, torn or out of order before the socket.          *)
THEOREM ServerStreamIntact ==
  ASSUME RequestsOnly PROVE Spec => []PacketIsNextSlice
<1>1. ServerInv => PacketIsNextSlice
  <2> SUFFICES ASSUME ServerInv, task_pc \in {"req_sendto", "poll_sendto"},
                      NEW i \in 1..task_len
               PROVE  g_buf[i] = sent + i
      BY DEF PacketIsNextSlice
  <2>1. task_pc = "req_sendto" /\ task_len = g_buf_ptr
        BY DEF ServerInv, HandshakeInv, ExclusiveInv, PollPC, StreamInv
  <2>2. ~Transmitted
        BY <2>1 DEF ServerInv, HandshakeInv, TokenInv, Awake, Transmitted
  <2> QED
      BY <2>1, <2>2 DEF ServerInv, StreamInv
<1> QED
    BY <1>1, ServerInvariant, RequestsOnly, PTL

(* Without polling there is at most one token in the two semaphores         *)
(* together, so that POSIX semaphores count past 1 has no effect.           *)
THEOREM ServerHandshakeIsBinary ==
  ASSUME RequestsOnly PROVE Spec => []HandshakeIsBinary
<1>1. ServerInv => HandshakeIsBinary
      BY DEF ServerInv, HandshakeInv, TokenInv, HandshakeIsBinary
<1> QED
    BY <1>1, ServerInvariant, RequestsOnly, PTL
=============================================================================
