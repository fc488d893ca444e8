--------------------------- MODULE CommandChannel ---------------------------
(***************************************************************************)
(* What the command protocol promises.  The commands a node issues are     *)
(* numbered; its peer executes some of them, in the order of issue and     *)
(* each at most once; only an executed command is ever reported as         *)
(* acknowledged, and only while it is the latest one.                      *)
(***************************************************************************)
EXTENDS Naturals, Sequences

CONSTANT Nodes

VARIABLES
  issued,    (* issued[n]: how many commands n has issued                 *)
  executed,  (* executed[n]: those of n its peer has executed, in order   *)
  acked      (* acked[n]: those of n reported to n as acknowledged        *)

vars == <<issued, executed, acked>>

Init ==
  /\ issued = [n \in Nodes |-> 0]
  /\ executed = [n \in Nodes |-> <<>>]
  /\ acked = [n \in Nodes |-> {}]

Issue(n) ==
  /\ issued' = [issued EXCEPT ![n] = @ + 1]
  /\ UNCHANGED <<executed, acked>>

Execute(n) ==
  \E s \in 1..issued[n] :
    /\ \A i \in 1..Len(executed[n]) : executed[n][i] < s
    /\ executed' = [executed EXCEPT ![n] = Append(@, s)]
    /\ UNCHANGED <<issued, acked>>

Acknowledge(n) ==
  /\ \E i \in 1..Len(executed[n]) : executed[n][i] = issued[n]
  /\ acked' = [acked EXCEPT ![n] = @ \cup {issued[n]}]
  /\ UNCHANGED <<issued, executed>>

Next == \E n \in Nodes : Issue(n) \/ Execute(n) \/ Acknowledge(n)

Spec == Init /\ [][Next]_vars
=============================================================================
