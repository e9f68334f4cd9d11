-------------------------- MODULE SessionLifecycle --------------------------
(***************************************************************************)
(* What ssh_session and async_ssh_session promise around a `with` block:   *)
(* a block that was entered is left only after the server was asked to     *)
(* disconnect its session, and one that could not be entered is aborted    *)
(* without asking.                                                         *)
(***************************************************************************)
CONSTANT Blocks

VARIABLES phase,   \* [Blocks -> {"outside", "inside", "exited", "aborted"}]
          asked    \* blocks for which disconnect was called

vars == <<phase, asked>>

Init ==
  /\ phase = [b \in Blocks |-> "outside"]
  /\ asked = {}

Enter(b) ==
  /\ phase[b] = "outside"
  /\ phase' = [phase EXCEPT ![b] = "inside"]
  /\ UNCHANGED asked

Abort(b) ==
  /\ phase[b] = "outside"
  /\ phase' = [phase EXCEPT ![b] = "aborted"]
  /\ UNCHANGED asked

AskDisconnect(b) ==
  /\ phase[b] = "inside"
  /\ b \notin asked
  /\ asked' = asked \cup {b}
  /\ UNCHANGED phase

Exit(b) ==
  /\ phase[b] = "inside"
  /\ b \in asked
  /\ phase' = [phase EXCEPT ![b] = "exited"]
  /\ UNCHANGED asked

Next == \E b \in Blocks : Enter(b) \/ Abort(b) \/ AskDisconnect(b) \/ Exit(b)

Spec == Init /\ [][Next]_vars
=============================================================================
