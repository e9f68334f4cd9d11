-------------------------- MODULE AsyncSshSession --------------------------
(***************************************************************************)
(* async_ssh_session (_session.py): the task that runs the `async with`    *)
(* block and the keepalive task it may start, on one event loop.  A task   *)
(* gives way only where it awaits, and asyncio delivers a cancellation     *)
(* there, as a CancelledError that suppress(Exception) does not take.      *)
(***************************************************************************)
EXTENDS SessionService

VARIABLES pc,        \* where the main task of each block stands
          keepalive, \* the block was opened with keepalive=True
          loop,      \* where the keepalive task stands
          stop,      \* blocks whose keepalive task had task.cancel() called on it
          asked,     \* blocks for which disconnect was called
          body,      \* how the body ended: it returned or it raised
          outcome    \* what the `async with` statement ended with

sessionVars == <<pc, keepalive, loop, stop, asked, body, outcome>>
vars == <<serviceVars, sessionVars>>

Init ==
  /\ ServiceInit
  /\ pc = [b \in Blocks |-> "outside"]
  /\ keepalive \in [Blocks -> BOOLEAN]
  /\ loop = [b \in Blocks |-> "none"]
  /\ stop = {}
  /\ asked = {}
  /\ body = [b \in Blocks |-> "none"]
  /\ outcome = [b \in Blocks |-> "none"]

-----------------------------------------------------------------------------
(***************************************************************************)
(* The main task.                                                          *)
(***************************************************************************)
Goto(b, place) == pc' = [pc EXCEPT ![b] = place]

EndWith(b, place, result) ==
  /\ Goto(b, place)
  /\ outcome' = [outcome EXCEPT ![b] = result]

\* `await service.connect(...)` begins.
Connect(b) ==
  /\ pc[b] = "outside"
  /\ StartCall(Main(b), "connect")
  /\ Goto(b, "connecting")
  /\ UNCHANGED <<keepalive, loop, stop, asked, body, outcome>>

\* connect returned: the keepalive task is created and the body entered, without an
\* await in between.
Connected(b) ==
  /\ pc[b] = "connecting"
  /\ call[Main(b)].at = "ok"
  /\ Goto(b, "inside")
  /\ loop' = IF keepalive[b] THEN [loop EXCEPT ![b] = "sleeping"] ELSE loop
  /\ UNCHANGED <<serviceVars, keepalive, stop, asked, body, outcome>>

\* connect raised: the block is never entered.
ConnectRaised(b) ==
  /\ pc[b] = "connecting"
  /\ call[Main(b)].at = "error"
  /\ EndWith(b, "aborted", "connect error")
  /\ UNCHANGED <<serviceVars, keepalive, loop, stop, asked, body>>

\* The body ends, cancelled or not: `task.cancel()`, then `await task`.
EndBody(b) ==
  /\ pc[b] = "inside"
  /\ \E how \in {"returned", "raised"} : body' = [body EXCEPT ![b] = how]
  /\ stop' = IF keepalive[b] THEN stop \cup {b} ELSE stop
  /\ Goto(b, IF keepalive[b] THEN "joining" ELSE "leaving")
  /\ UNCHANGED <<serviceVars, keepalive, loop, asked, outcome>>

\* Faulty variant of Join: `await task` is left out.
JoinAtOnce(b) ==
  /\ pc[b] = "joining"
  /\ Goto(b, "leaving")
  /\ UNCHANGED <<serviceVars, keepalive, loop, stop, asked, body, outcome>>

\* Faulty variant of Join: no suppress(CancelledError) around `await task`.
JoinUnsuppressed(b) ==
  /\ pc[b] = "joining"
  /\ loop[b] = "ended"
  /\ EndWith(b, "cancelled", "cancelled")
  /\ UNCHANGED <<serviceVars, keepalive, loop, stop, asked, body>>

\* `await task` raises the CancelledError of the keepalive task, which suppress()
\* takes.  A cancellation of the main task itself, delivered at this await, is
\* swallowed with it: it changes nothing here and is no action.
Join(b) ==
  /\ pc[b] = "joining"
  /\ loop[b] = "ended"
  /\ Goto(b, "leaving")
  /\ UNCHANGED <<serviceVars, keepalive, loop, stop, asked, body, outcome>>

\* `await service.disconnect(sessionId=sid)` begins.
Disconnect(b) ==
  /\ pc[b] = "leaving"
  /\ StartCall(Main(b), "disconnect")
  /\ asked' = asked \cup {b}
  /\ Goto(b, "disconnecting")
  /\ UNCHANGED <<keepalive, loop, stop, body, outcome>>

\* Faulty variant of Leave: disconnect is not awaited.
LeaveAtOnce(b) ==
  /\ pc[b] = "disconnecting"
  /\ EndWith(b, "exited", body[b])
  /\ UNCHANGED <<serviceVars, keepalive, loop, stop, asked, body>>

\* disconnect returned, or raised an Exception that suppress() swallowed.
Leave(b) ==
  /\ pc[b] = "disconnecting"
  /\ ~InCall(Main(b))
  /\ EndWith(b, "exited", body[b])
  /\ UNCHANGED <<serviceVars, keepalive, loop, stop, asked, body>>

\* The main task is cancelled in connect or disconnect: the attempt is abandoned.
\* (In the body a cancellation is a body that raises.)
Cancel(b) ==
  /\ pc[b] \in {"connecting", "disconnecting"}
  /\ IF InCall(Main(b)) THEN AbandonCall(Main(b)) ELSE UNCHANGED serviceVars
  /\ EndWith(b, IF pc[b] = "connecting" THEN "aborted" ELSE "cancelled", "cancelled")
  /\ UNCHANGED <<keepalive, loop, stop, asked, body>>

-----------------------------------------------------------------------------
(***************************************************************************)
(* The keepalive task, _async_keepalive_loop.                              *)
(***************************************************************************)

\* `asyncio.sleep(interval)` is over: `await service.keepalive(...)` begins.
Ping(b) ==
  /\ loop[b] = "sleeping"
  /\ b \notin stop
  /\ StartCall(Keeper(b), "keepalive")
  /\ loop' = [loop EXCEPT ![b] = "pinging"]
  /\ UNCHANGED <<pc, keepalive, stop, asked, body, outcome>>

\* keepalive returned, or raised an Exception that suppress() swallowed.
PingDone(b) ==
  /\ loop[b] = "pinging"
  /\ b \notin stop
  /\ ~InCall(Keeper(b))
  /\ loop' = [loop EXCEPT ![b] = "sleeping"]
  /\ UNCHANGED <<serviceVars, pc, keepalive, stop, asked, body, outcome>>

\* Faulty variant of StopLoop: a cancellation of the ping is suppressed as well, and
\* is spent.
StopLoopOnlyAsleep(b) ==
  /\ b \in stop
  /\ loop[b] \in {"sleeping", "pinging"}
  /\ loop' = [loop EXCEPT ![b] = IF @ = "sleeping" THEN "ended" ELSE "sleeping"]
  /\ stop' = IF loop[b] = "pinging" THEN stop \ {b} ELSE stop
  /\ IF InCall(Keeper(b)) THEN AbandonCall(Keeper(b)) ELSE UNCHANGED serviceVars
  /\ UNCHANGED <<pc, keepalive, asked, body, outcome>>

\* The CancelledError reaches the task at its await, in the sleep or in the ping.
StopLoop(b) ==
  /\ b \in stop
  /\ loop[b] \in {"sleeping", "pinging"}
  /\ loop' = [loop EXCEPT ![b] = "ended"]
  /\ IF InCall(Keeper(b)) THEN AbandonCall(Keeper(b)) ELSE UNCHANGED serviceVars
  /\ UNCHANGED <<pc, keepalive, stop, asked, body, outcome>>

-----------------------------------------------------------------------------
User(b) == Connect(b) \/ EndBody(b) \/ Cancel(b)

MainStep(b) ==
  Connected(b) \/ ConnectRaised(b) \/ Join(b) \/ Disconnect(b) \/ Leave(b)

LoopStep(b) == Ping(b) \/ PingDone(b) \/ StopLoop(b)

\* The fate of a task's current attempt.
Attempt(t) == (Answer(t) \/ LoseAttempt(t)) /\ UNCHANGED sessionVars

Arrival == \E a \in late : LateArrival(a) /\ UNCHANGED sessionVars

Over == {"exited", "aborted", "cancelled"}

Terminated ==
  /\ \A b \in Blocks : pc[b] \in Over /\ loop[b] \in {"none", "ended"}
  /\ UNCHANGED vars

Next ==
  \/ \E b \in Blocks : User(b) \/ MainStep(b) \/ LoopStep(b)
  \/ \E t \in Threads : Attempt(t)
  \/ Arrival
  \/ Terminated

Spec == Init /\ [][Next]_vars

\* The event loop runs every task that can go on, and every attempt of a call ends
\* within a timeout; nothing makes the body end.
Fairness ==
  \A b \in Blocks : /\ WF_vars(MainStep(b)) /\ WF_vars(LoopStep(b))
                    /\ WF_vars(Attempt(Main(b)))

FairSpec == Spec /\ Fairness

-----------------------------------------------------------------------------
(***************************************************************************)
(* Properties.                                                             *)
(***************************************************************************)
TypeOK ==
  /\ ServiceTypeOK
  /\ pc \in [Blocks -> {"outside", "connecting", "inside", "joining", "leaving",
                        "disconnecting"} \cup Over]
  /\ keepalive \in [Blocks -> BOOLEAN]
  /\ loop \in [Blocks -> {"none", "sleeping", "pinging", "ended"}]
  /\ stop \subseteq Blocks
  /\ asked \subseteq Blocks
  /\ body \in [Blocks -> {"none", "returned", "raised"}]
  /\ outcome \in [Blocks -> {"none", "returned", "raised", "connect error", "cancelled"}]

\* disconnect never runs beside a ping of the same block, and no keepalive task
\* outlives its block: `await task` comes first, however the block ends.
NoPingOutlivesBlock ==
  \A b \in Blocks :
    pc[b] \in {"disconnecting", "exited", "aborted", "cancelled"}
      => loop[b] \in {"none", "ended"} /\ ~InCall(Keeper(b))

\* A block that was left leaves no session behind, unless its disconnect raised or
\* an attempt of its connect had been given up, which may arrive after the disconnect.
LeavesNoSession ==
  \A b \in Blocks :
    /\ pc[b] = "exited" /\ b \in open
    /\ \A n \in 0 .. MaxRetries : <<b, "connect", n>> \notin abandoned
    => call[Main(b)].op = "disconnect" /\ call[Main(b)].at = "error"

\* `await task` has no timeout and yet a block is always left: the cancelled
\* keepalive task ends even with a ping in flight.
BlockIsLeft == \A b \in Blocks : pc[b] = "joining" ~> pc[b] \in Over

\* The block as its caller sees it.  A main task cancelled in disconnect has asked
\* for it and is out of the block.
PhaseOf(b) ==
  CASE pc[b] \in {"outside", "connecting"} -> "outside"
    [] pc[b] \in {"inside", "joining", "leaving", "disconnecting"} -> "inside"
    [] pc[b] = "aborted" -> "aborted"
    [] pc[b] \in {"exited", "cancelled"} -> "exited"

L == INSTANCE SessionLifecycle WITH phase <- [b \in Blocks |-> PhaseOf(b)]

\* async_ssh_session implements the promise of SessionLifecycle, whatever await a
\* cancellation of the main task strikes.
ImplementsLifecycle == L!Spec
=============================================================================
