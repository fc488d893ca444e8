---------------------------- MODULE MCCommandLink ----------------------------
(* The link between the headphones and the server.                         *)
EXTENDS CommandLink

CONSTANTS
  client, server,    (* the nodes                                         *)
  event_task,        (* the headphones' event loop                        *)
  recv_task,         (* their receive task, which also calls set_cmd      *)
  main_thread        (* the server's main                                 *)

LinkPeer == (client :> server) @@ (server :> client)

LinkCallers == {event_task, recv_task, main_thread}
LinkHome ==
  (event_task :> client) @@ (recv_task :> client) @@ (main_thread :> server)

(* The receive task never waits (net_transport.cpp:51).  main would at the *)
(* end; it does not here, and the other end shows the wait.                *)
LinkWaits ==
  (event_task :> BOOLEAN) @@ (recv_task :> {FALSE}) @@ (main_thread :> {FALSE})

TwoCallers == {event_task, main_thread}
TwoHomes == (event_task :> client) @@ (main_thread :> server)
NoWaits == [c \in TwoCallers |-> {FALSE}]

ClientHome == event_task :> client
ClientWaits == event_task :> BOOLEAN
=============================================================================
