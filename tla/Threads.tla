-------------------------------- MODULE Threads --------------------------------
(***************************************************************************)
(* The threads of the headphones that run handlers: the event task, the    *)
(* Bluetooth thread and the send task.  A handler changes what only its    *)
(* thread reads at once; what it calls after that, where other threads can *)
(* come in between, waits in todo[t] and is done one call at a time.       *)
(***************************************************************************)
EXTENDS Sequences

VARIABLE todo

Threads == {"event", "bt", "send"}

(* A call of the function op on a channel or an event base, with its argument. *)
Call(op, on, arg) == [op |-> op, on |-> on, arg |-> arg]

Idle(t) == todo[t] = <<>>
At(t, op) == todo[t] # <<>> /\ Head(todo[t]).op = op
Current(t) == Head(todo[t])

Runs(t, calls) == todo' = [todo EXCEPT ![t] = calls]
Returns(t) == Runs(t, Tail(todo[t]))
ContinuesWith(t, op) == todo' = [todo EXCEPT ![t][1].op = op]
=============================================================================
