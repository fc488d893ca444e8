---------------------------- MODULE WifiUtilProofs ----------------------------
(* Theorems about WifiUtil, for every number of retries.                   *)
EXTENDS WifiUtil, TLAPS

Starting == {"create", "reset", "register", "connect"}

(* Before connect has registered the handlers and once shutdown has        *)
(* unregistered them none runs, nor does one once the program is aborted;  *)
(* the driver is off outside a service, and idle until the first attempt.  *)
QuietInv ==
  /\ pc \in {"idle", "create", "reset", "register", "stop", "delete",
             "unhook"} => registered = {}
  /\ registered = {} \/ pc \in {"connect", "aborted"} => handler = "none"
  /\ pc = "unregister_ip" => "disconnect_cb" \notin registered
  /\ pc \in {"idle", "delete", "unhook"} => driver = "off"
  /\ pc \in Starting => driver = "idle"

(* Whoever is registered finds the semaphore, which connect creates empty. *)
SemInv ==
  /\ registered # {} => ip_addr_sem # "null"
  /\ pc \in {"idle", "create", "unhook"} => ip_addr_sem = "null"
  /\ pc \in {"reset", "register", "connect"} => ip_addr_sem = "empty"
  /\ pc = "wait" => ip_addr_sem # "null"

(* While anything may still come of an attempt the counter is within its   *)
(* limit; above it nobody tries any more.                                  *)
RetryInv ==
  /\ pc \in {"register", "connect"} => retry_counter = 0
  /\ driver \in {"connecting", "online"} \/ handler = "disconnect_cb" =>
       retry_counter <= CONN_MAX_RETRY
  /\ handler = "got_ip_cb" => driver = "online" /\ got_address
  /\ handler \in {"disconnect_cb", "decide"} => driver = "idle"
  /\ pc = "returned" /\ result = "failed" =>
       /\ driver \notin {"connecting", "online"}
       /\ handler = "none" \/ retry_counter > CONN_MAX_RETRY

(* A token comes with an address, or with a counter above the limit; a     *)
(* connect that succeeded has registered the shutdown handler.             *)
TokenInv ==
  /\ ip_addr_sem = "given" \/ pc = "test" \/ handler = "give" =>
       got_address \/ retry_counter > CONN_MAX_RETRY
  /\ pc \in {"returned", "unregister", "unregister_ip", "stop", "delete",
             "unhook"} /\ result = "ok" =>
       on_shutdown

IInv == TypeOK /\ QuietInv /\ SemInv /\ RetryInv /\ TokenInv

(* The initial state satisfies the invariant. *)
LEMMA InitInv == Init => IInv
<1> SUFFICES ASSUME Init PROVE IInv
  OBVIOUS
<1> USE WifiAssumption DEF Init
<1>0. on_shutdown \in BOOLEAN /\ got_address \in BOOLEAN /\ refused \in BOOLEAN
  OBVIOUS
<1>1. TypeOK
  BY <1>0 DEF TypeOK, PCs, SemStates, Handlers
<1>2. QuietInv
  BY DEF QuietInv, Starting
<1>3. SemInv
  BY DEF SemInv
<1>4. RetryInv
  BY DEF RetryInv
<1>5. TokenInv
  BY DEF TokenInv
<1> QED
  BY <1>1, <1>2, <1>3, <1>4, <1>5 DEF IInv

(* Every step of the caller, of the driver and of a handler keeps it. *)
LEMMA StepInv == IInv /\ [Next]_vars => IInv'
<1> SUFFICES ASSUME IInv, [Next]_vars PROVE IInv'
  OBVIOUS
<1> USE WifiAssumption
    DEF IInv, TypeOK, QuietInv, SemInv, RetryInv, TokenInv, PCs, Handlers,
        SemStates, Starting, Goto, callerVars, sharedVars, systemVars
<1>1. CASE WifiStart
  BY <1>1 DEF WifiStart
<1>2. CASE CreateSem
  BY <1>2 DEF CreateSem
<1>3. CASE ResetCounter
  BY <1>3 DEF ResetCounter
<1>4. CASE RegisterHandlers
  BY <1>4 DEF RegisterHandlers
<1>5. CASE FirstAttempt
  BY <1>5 DEF FirstAttempt
<1>6. CASE TakeToken
  BY <1>6 DEF TakeToken
<1>7. CASE TestRetries
  <2>1. on_shutdown' \in BOOLEAN /\ got_address' \in BOOLEAN /\ refused' \in BOOLEAN
    BY <1>7 DEF TestRetries
  <2> QED
    BY <1>7, <2>1 DEF TestRetries
<1>8. CASE ShutdownCalled
  BY <1>8 DEF ShutdownCalled
<1>9. CASE Unregister
  <2>1. CASE pc = "unregister"
    BY <1>9, <2>1 DEF Unregister
  <2>2. CASE pc = "unregister_ip"
    BY <1>9, <2>2 DEF Unregister
  <2> QED
    BY <1>9, <2>1, <2>2 DEF Unregister
<1>10. CASE StopWifi
  BY <1>10 DEF StopWifi
<1>11. CASE DeleteSem
  BY <1>11 DEF DeleteSem
<1>12. CASE UnhookShutdown
  <2>1. on_shutdown' \in BOOLEAN /\ got_address' \in BOOLEAN /\ refused' \in BOOLEAN
    BY <1>12 DEF UnhookShutdown
  <2>2. /\ pc = "unhook" /\ pc' \in {"idle", "aborted"}
        /\ pc' = "aborted" => result # "ok"
        /\ UNCHANGED <<result, sharedVars, systemVars, registered>>
    BY <1>12 DEF UnhookShutdown
  <2> HIDE DEF UnhookShutdown
  <2> QED
    BY <2>1, <2>2
<1>13. CASE Reboot
  <2>1. on_shutdown' \in BOOLEAN /\ got_address' \in BOOLEAN /\ refused' \in BOOLEAN
    BY <1>13 DEF Reboot
  <2> QED
    BY <1>13, <2>1 DEF Reboot
<1>14. CASE AttemptFails
  BY <1>14 DEF AttemptFails, Reports
<1>15. CASE AddressArrives
  BY <1>15 DEF AddressArrives, Reports
<1>16. CASE LinkLost
  BY <1>16 DEF LinkLost, Reports
<1>17. CASE CountDisconnect
  BY <1>17 DEF CountDisconnect
<1>18. CASE Decide
  <2>1. refused' \in BOOLEAN
    BY <1>18 DEF Decide, Reconnect
  <2>2. CASE retry_counter > CONN_MAX_RETRY
    BY <1>18, <2>1, <2>2 DEF Decide
  <2>3. CASE /\ ~(retry_counter > CONN_MAX_RETRY)
             /\ driver' = "connecting" /\ pc' = pc
    BY <1>18, <2>1, <2>3 DEF Decide
  <2>4. CASE ~(retry_counter > CONN_MAX_RETRY) /\ driver' = driver
    BY <1>18, <2>1, <2>4 DEF Decide, Reconnect
  <2> QED
    BY <1>18, <2>2, <2>3, <2>4 DEF Decide, Reconnect
<1>19. CASE ResetOnAddress
  BY <1>19 DEF ResetOnAddress
<1>20. CASE GiveToken
  BY <1>20 DEF GiveToken
<1>21. CASE UNCHANGED vars
  BY <1>21 DEF vars
<1> HIDE DEF IInv
<1> QED
  BY <1>1, <1>2, <1>3, <1>4, <1>5, <1>6, <1>7, <1>8, <1>9, <1>10, <1>11, <1>12, <1>13, <1>14, <1>15, <1>16, <1>17, <1>18, <1>19, <1>20, <1>21
     DEF Next, Connect, Shutdown, HandlerStep

LEMMA Invariant == Spec => []IInv
  BY InitInv, StepInv, PTL DEF Spec

(* Types are kept, and the counter of retries never exceeds its limit by   *)
(* more than one, whatever the driver reports and when.                    *)
THEOREM TypeCorrect == Spec => []TypeOK
<1>1. IInv => TypeOK
  BY DEF IInv
<1> QED
  BY <1>1, Invariant, PTL

(* A handler of wifi_util never runs without its semaphore.                *)
THEOREM SemaphoreOutlivesHandlers == Spec => []SemaphoreAlive
<1>1. IInv => SemaphoreAlive
  BY DEF IInv, QuietInv, SemInv, SemaphoreAlive
<1> QED
  BY <1>1, Invariant, PTL

(* A connect that returns an error leaves no attempt under way.            *)
THEOREM FailureEndsAttempts == Spec => []FailureIsFinal
<1>1. IInv => FailureIsFinal
  BY DEF IInv, RetryInv, FailureIsFinal
<1> QED
  BY <1>1, Invariant, PTL

(* The safety part of the refinement: every step of connect, shutdown, the *)
(* handlers and the driver is a step of the contract, or leaves it alone.  *)
THEOREM KeepsContract == Spec => U!Contract
<1>1. Init => U!Init
  BY DEF Init, U!Init, Phase
<1>2. ASSUME IInv, [Next]_vars PROVE [U!Next]_<<Phase, got_address, refused>>
  <2> USE <1>2 DEF Goto, Phase, callerVars, sharedVars, systemVars
  <2>1. CASE WifiStart
    BY <2>1 DEF WifiStart, U!Next, U!Start
  <2>2. CASE CreateSem
    BY <2>2 DEF CreateSem, U!Next, U!Fail
  <2>3. CASE ResetCounter \/ RegisterHandlers \/ TakeToken
    BY <2>3 DEF ResetCounter, RegisterHandlers, TakeToken
  <2>4. CASE FirstAttempt
    BY <2>4 DEF FirstAttempt, U!Next, U!Fail
  <2>5. CASE TestRetries
    BY <2>5 DEF TestRetries, U!Next, U!Fail, U!Succeed, IInv, TokenInv, TypeOK
  <2>6. CASE ShutdownCalled \/ Unregister \/ StopWifi \/ DeleteSem
    BY <2>6 DEF ShutdownCalled, Unregister, StopWifi, DeleteSem
  <2>7. CASE UnhookShutdown
    BY <2>7 DEF UnhookShutdown, U!Next, U!Stop, U!GoDown, IInv, TypeOK, TokenInv
  <2>8. CASE Reboot
    BY <2>8 DEF Reboot, U!Next, U!Restart
  <2>9. CASE AddressArrives
    BY <2>9 DEF AddressArrives, Reports, U!Next, U!Obtain, IInv, QuietInv
  <2>10. CASE AttemptFails \/ LinkLost
    BY <2>10 DEF AttemptFails, LinkLost, Reports
  <2>11. CASE CountDisconnect \/ ResetOnAddress \/ GiveToken
    BY <2>11 DEF CountDisconnect, ResetOnAddress, GiveToken
  <2>13. CASE Decide
    BY <2>13 DEF Decide, Reconnect, U!Next, U!Refuse, IInv, QuietInv, TypeOK,
       PCs
  <2>12. CASE UNCHANGED vars
    BY <2>12 DEF vars
  <2> QED
    BY <2>1, <2>2, <2>3, <2>4, <2>5, <2>6, <2>7, <2>8, <2>9, <2>10, <2>11,
       <2>12, <2>13 DEF Next, Connect, Shutdown, HandlerStep
<1> QED
  BY <1>1, <1>2, Invariant, PTL DEF Spec, U!Contract
=============================================================================
