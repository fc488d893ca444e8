------------------------------- MODULE WifiUtil -------------------------------
(***************************************************************************)
(* wifi_util.cpp: connect and shutdown, called by the event task, against  *)
(* the two event handlers, which the system's event task runs with the     *)
(* lock of the default event loop held, and the Wi-Fi driver.              *)
(*                                                                         *)
(* (Un)registering a handler takes that lock.  The system's event task has *)
(* the higher priority: an event meets the handlers registered when the    *)
(* driver reports it, and none is left over from one period to the next.   *)
(* Neither the driver nor the loop is under src/; the driver may fail an   *)
(* attempt, refuse one, the handler's too, or lose the link at any time.   *)
(***************************************************************************)
EXTENDS Integers

CONSTANT CONN_MAX_RETRY

ASSUME WifiAssumption == CONN_MAX_RETRY \in Nat

VARIABLES
  pc,             (* where the event task is                                *)
  result,         (* what the last connect returned                        *)
  ip_addr_sem,    (* the semaphore: "null", "empty" or "given"              *)
  retry_counter,
  registered,     (* the handlers the loop knows                            *)
  on_shutdown,    (* is shutdown registered as a shutdown handler           *)
  handler,        (* the handler in progress, and how far it is             *)
  driver,         (* "off", "idle", "connecting" or "online"                *)
  got_address,    (* history: an address arrived since connect was called   *)
  refused         (* history: since then the driver refused to reconnect    *)

callerVars == <<pc, result, on_shutdown>>
sharedVars == <<ip_addr_sem, retry_counter>>
systemVars == <<handler, driver, got_address, refused>>
vars == <<callerVars, sharedVars, systemVars, registered>>

PCs == {"idle", "create", "reset", "register", "connect", "wait", "test",
        "returned", "unregister", "unregister_ip", "stop", "delete",
        "unhook", "aborted"}
Handlers == {"disconnect_cb", "got_ip_cb"}
SemStates == {"null", "empty", "given"}

Init ==
  /\ pc = "idle" /\ result = "none" /\ on_shutdown = FALSE
  /\ ip_addr_sem = "null" /\ retry_counter = 0
  /\ registered = {}
  /\ handler = "none" /\ driver = "off"
  /\ got_address = FALSE /\ refused = FALSE

Goto(from, to) == pc = from /\ pc' = to

-----------------------------------------------------------------------------
(* connect *)

WifiStart ==
  /\ Goto("idle", "create")
  /\ driver' = "idle" /\ got_address' = FALSE /\ refused' = FALSE
  /\ UNCHANGED <<result, on_shutdown, sharedVars, registered, handler>>

(* With no memory for the semaphore connect returns before it registers.   *)
CreateSem ==
  /\ \/ Goto("create", "reset") /\ UNCHANGED result
        /\ ip_addr_sem' = IF ip_addr_sem = "null" THEN "empty" ELSE ip_addr_sem
     \/ ip_addr_sem = "null" /\ Goto("create", "returned")
        /\ result' = "failed" /\ UNCHANGED ip_addr_sem
  /\ UNCHANGED <<on_shutdown, retry_counter, registered, systemVars>>

ResetCounter ==
  /\ Goto("reset", "register")
  /\ retry_counter' = 0
  /\ UNCHANGED <<result, on_shutdown, ip_addr_sem, registered, systemVars>>

RegisterHandlers ==
  /\ handler = "none"
  /\ Goto("register", "connect")
  /\ registered' = Handlers
  /\ UNCHANGED <<result, on_shutdown, sharedVars, systemVars>>

FirstAttempt ==
  /\ \/ Goto("connect", "wait") /\ driver' = "connecting" /\ UNCHANGED result
     \/ Goto("connect", "returned") /\ result' = "failed" /\ UNCHANGED driver
  /\ UNCHANGED <<on_shutdown, sharedVars, registered, handler, got_address,
                 refused>>

TakeToken ==
  /\ ip_addr_sem = "given"
  /\ Goto("wait", "test")
  /\ ip_addr_sem' = "empty"
  /\ UNCHANGED <<result, on_shutdown, retry_counter, registered, systemVars>>

(* Mutant: the last attempt is taken for a failure.       *)
TestRetriesEarly ==
  /\ Goto("test", "returned")
  /\ IF retry_counter >= CONN_MAX_RETRY
       THEN result' = "failed" /\ UNCHANGED on_shutdown
       ELSE result' = "ok" /\ on_shutdown' = TRUE
  /\ UNCHANGED <<sharedVars, registered, systemVars>>

TestRetries ==
  /\ Goto("test", "returned")
  /\ IF retry_counter > CONN_MAX_RETRY
       THEN result' = "failed" /\ UNCHANGED on_shutdown
       ELSE result' = "ok" /\ on_shutdown' = TRUE
  /\ UNCHANGED <<sharedVars, registered, systemVars>>

Connect == \/ CreateSem \/ ResetCounter \/ RegisterHandlers
           \/ FirstAttempt \/ TakeToken \/ TestRetries

-----------------------------------------------------------------------------
(* shutdown.  net_transport calls it whatever connect returned.            *)

ShutdownCalled ==
  /\ Goto("returned", "unregister")
  /\ UNCHANGED <<result, on_shutdown, sharedVars, systemVars, registered>>

(* Mutant: got_ip_cb stays registered.                     *)
UnregisterForgetsIp ==
  /\ handler = "none"
  /\ \/ Goto("unregister", "unregister_ip")
        /\ registered' = registered \ {"disconnect_cb"}
     \/ Goto("unregister_ip", "stop")
        /\ UNCHANGED registered
  /\ UNCHANGED <<result, on_shutdown, sharedVars, systemVars>>

Unregister ==
  /\ handler = "none"
  /\ \/ Goto("unregister", "unregister_ip")
        /\ registered' = registered \ {"disconnect_cb"}
     \/ Goto("unregister_ip", "stop")
        /\ registered' = registered \ {"got_ip_cb"}
  /\ UNCHANGED <<result, on_shutdown, sharedVars, systemVars>>

StopWifi ==
  /\ Goto("stop", "delete")
  /\ driver' = "off"
  /\ UNCHANGED <<result, on_shutdown, sharedVars, registered, handler,
                 got_address, refused>>

(* Mutant: the semaphore stays for the next connect.        *)
DeleteSemNot ==
  /\ Goto("delete", "unhook")
  /\ UNCHANGED <<result, on_shutdown, sharedVars, systemVars, registered>>

DeleteSem ==
  /\ Goto("delete", "unhook")
  /\ ip_addr_sem' = "null"
  /\ UNCHANGED <<result, on_shutdown, retry_counter, systemVars, registered>>

(* ESP_ERROR_CHECK: a handler that is not registered aborts the program.   *)
UnhookShutdown ==
  /\ \/ on_shutdown /\ Goto("unhook", "idle")
     \/ ~on_shutdown /\ Goto("unhook", "aborted")
  /\ on_shutdown' = FALSE
  /\ UNCHANGED <<result, sharedVars, systemVars, registered>>

Shutdown == Unregister \/ StopWifi \/ DeleteSem \/ UnhookShutdown

(* The panic handler restarts the chip. *)
Reboot ==
  /\ Goto("aborted", "idle")
  /\ result' = "none" /\ on_shutdown' = FALSE
  /\ ip_addr_sem' = "null" /\ retry_counter' = 0
  /\ registered' = {}
  /\ handler' = "none" /\ driver' = "off"
  /\ got_address' = FALSE /\ refused' = FALSE

-----------------------------------------------------------------------------
(* The driver reports, and the handler in charge starts, if there is one.  *)

Reports(state, h) ==
  /\ pc # "aborted" /\ handler = "none"
  /\ driver' = state
  /\ handler' = IF h \in registered THEN h ELSE "none"
  /\ UNCHANGED <<callerVars, sharedVars, registered, refused>>

AttemptFails ==
  driver = "connecting" /\ Reports("idle", "disconnect_cb")
  /\ UNCHANGED got_address

AddressArrives ==
  driver = "connecting" /\ Reports("online", "got_ip_cb")
  /\ got_address' = TRUE

LinkLost ==
  driver = "online" /\ Reports("idle", "disconnect_cb")
  /\ UNCHANGED got_address

(* A handler touches the counter first and gives the token, or tries again, *)
(* in a second step.                                                        *)
CountDisconnect ==
  /\ handler = "disconnect_cb"
  /\ retry_counter' = retry_counter + 1
  /\ handler' = "decide"
  /\ UNCHANGED <<callerVars, registered, ip_addr_sem, driver, got_address,
                 refused>>

(* esp_wifi_connect in the handler.  Refused for want of a started driver  *)
(* it leaves no attempt, and nobody who will give the token; any other     *)
(* refusal aborts the program, in whatever service it is.                  *)
Reconnect ==
  \/ driver' = "connecting" /\ UNCHANGED <<pc, refused>>
  \/ refused' = TRUE /\ pc' \in {pc, "aborted"} /\ UNCHANGED driver

(* Mutant: it gives the token and goes on trying.              *)
DecideGoesOn ==
  /\ handler = "decide"
  /\ handler' = IF retry_counter > CONN_MAX_RETRY THEN "give" ELSE "none"
  /\ Reconnect
  /\ UNCHANGED <<result, on_shutdown, sharedVars, registered, got_address>>

Decide ==
  /\ handler = "decide"
  /\ IF retry_counter > CONN_MAX_RETRY
       THEN handler' = "give" /\ UNCHANGED <<pc, driver, refused>>
       ELSE handler' = "none" /\ Reconnect
  /\ UNCHANGED <<result, on_shutdown, sharedVars, registered, got_address>>

ResetOnAddress ==
  /\ handler = "got_ip_cb"
  /\ retry_counter' = 0
  /\ handler' = "give"
  /\ UNCHANGED <<callerVars, registered, ip_addr_sem, driver, got_address,
                 refused>>

GiveToken ==
  /\ handler = "give"
  /\ ip_addr_sem' = "given"
  /\ handler' = "none"
  /\ UNCHANGED <<callerVars, registered, retry_counter, driver, got_address,
                 refused>>

HandlerStep == CountDisconnect \/ Decide \/ ResetOnAddress \/ GiveToken

-----------------------------------------------------------------------------

Next == \/ WifiStart \/ Connect \/ ShutdownCalled \/ Shutdown \/ Reboot
        \/ AttemptFails \/ AddressArrives \/ LinkLost \/ HandlerStep

(* The tasks run, and the driver brings each attempt to an end; nothing    *)
(* makes the user start or stop, or a link break.                          *)
Fairness == /\ WF_vars(Connect) /\ WF_vars(Shutdown) /\ WF_vars(HandlerStep)
            /\ WF_vars(AttemptFails \/ AddressArrives)

Spec == Init /\ [][Next]_vars /\ Fairness

-----------------------------------------------------------------------------
(* Properties. *)

(* Every variable keeps its type; the counter stops one above the limit.   *)
TypeOK ==
  /\ pc \in PCs /\ result \in {"none", "ok", "failed"}
  /\ on_shutdown \in BOOLEAN /\ got_address \in BOOLEAN /\ refused \in BOOLEAN
  /\ ip_addr_sem \in SemStates
  /\ retry_counter \in 0..CONN_MAX_RETRY + 1
  /\ registered \subseteq Handlers
  /\ handler \in Handlers \cup {"none", "decide", "give"}
  /\ driver \in {"off", "idle", "connecting", "online"}

(* A handler that will give the token finds the semaphore: shutdown does   *)
(* not delete it under a handler that was already running.                 *)
SemaphoreAlive == handler # "none" => ip_addr_sem # "null"

(* When connect has failed nobody goes on trying behind the caller's back. *)
FailureIsFinal ==
  pc = "returned" /\ result = "failed" =>
    driver \notin {"connecting", "online"} /\ handler # "got_ip_cb"

(* connect and shutdown keep the contract of Uplink. *)
Phase == CASE pc = "idle" -> "off"
           [] pc \in {"create", "reset", "register", "connect", "wait",
                      "test"} -> "trying"
           [] pc = "aborted" -> "down"
           [] OTHER -> IF result = "ok" THEN "up" ELSE "failed"

U == INSTANCE Uplink WITH phase <- Phase, address <- got_address,
                          refused <- refused

ImplementsUplink == U!Spec
=============================================================================
