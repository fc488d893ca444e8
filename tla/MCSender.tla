------------------------------ MODULE MCSender ------------------------------
(* Instances of Sender: the calls the server makes, and those the          *)
(* headphones make.                                                        *)
EXTENDS Sender, TLC

CONSTANTS
  pa_callback,    (* PortAudio's thread in remote_source              *)
  recv_task,      (* the receiver's thread, which runs the callbacks  *)
  main_thread,    (* the server's main, after a key press             *)
  event_task,     (* the headphones' event loop                       *)
  req_sender,     (* the headphones' ping thread                      *)
  ep1, ep2        (* peer addresses                                   *)

ServerThreads == {pa_callback, recv_task, main_thread}
ServerOps ==
  (pa_callback :> {"send"}) @@ (recv_task :> {"send_md", "set_endpoint"})
  @@ (main_thread :> {"send_md"})

ClientThreads == {recv_task, event_task, req_sender}
ClientOps ==
  (recv_task :> {"send_md", "start", "stop"})
  @@ (event_task :> {"send_md", "stop", "set_endpoint", "set_cb", "launch",
                     "terminate"})
  @@ (req_sender :> {"send_md"})

(* The receiver's thread and the ping thread once connected.               *)
PingThreads == {recv_task, req_sender}
PingOps ==
  (recv_task :> {"send_md", "start", "stop"}) @@ (req_sender :> {"send_md"})
=============================================================================
