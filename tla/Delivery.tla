------------------------------ MODULE Delivery ------------------------------
(***************************************************************************)
(* What the HTTP layer promises a caller of request_with_retries and       *)
(* request_stream, without saying how: a call issues at most               *)
(* MaxRetries + 1 attempts, all of them before it ends; the server         *)
(* executes each attempt at most once, perhaps long after the call has     *)
(* ended; a call that succeeds was executed; a call that fails may or may  *)
(* not have been; and a call ends once.                                    *)
(***************************************************************************)
EXTENDS Naturals

CONSTANTS Calls,       \* the calls made through one client
          MaxRetries   \* the largest max_network_retries any of them uses

VARIABLES phase,       \* [Calls -> {"new", "pending", "succeeded", "failed"}]
          issued,      \* attempts of each call put on the wire
          executed     \* attempts of each call the server carried out

vars == <<phase, issued, executed>>

Init ==
  /\ phase = [c \in Calls |-> "new"]
  /\ issued = [c \in Calls |-> {}]
  /\ executed = [c \in Calls |-> {}]

Begin(c) ==
  /\ phase[c] = "new"
  /\ phase' = [phase EXCEPT ![c] = "pending"]
  /\ UNCHANGED <<issued, executed>>

Issue(c) ==
  /\ phase[c] = "pending"
  /\ \E n \in (0 .. MaxRetries) \ issued[c] :
       issued' = [issued EXCEPT ![c] = @ \cup {n}]
  /\ UNCHANGED <<phase, executed>>

Execute(c) ==
  /\ \E n \in issued[c] \ executed[c] :
       executed' = [executed EXCEPT ![c] = @ \cup {n}]
  /\ UNCHANGED <<phase, issued>>

Succeed(c) ==
  /\ phase[c] = "pending"
  /\ executed[c] # {}
  /\ phase' = [phase EXCEPT ![c] = "succeeded"]
  /\ UNCHANGED <<issued, executed>>

Fail(c) ==
  /\ phase[c] = "pending"
  /\ phase' = [phase EXCEPT ![c] = "failed"]
  /\ UNCHANGED <<issued, executed>>

Next == \E c \in Calls : Begin(c) \/ Issue(c) \/ Execute(c) \/ Succeed(c) \/ Fail(c)

Spec == Init /\ [][Next]_vars
=============================================================================
