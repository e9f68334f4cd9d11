----------------------------- MODULE SshSession -----------------------------
(***************************************************************************)
(* ssh_session (_session.py): the thread that runs the `with` block, and   *)
(* the keepalive thread it may start.  The two share stop_event and the    *)
(* service; the server and the network are those of SessionService.        *)
(***************************************************************************)
EXTENDS SessionService

CONSTANT InterruptAt   \* where a KeyboardInterrupt may strike the main thread

Interruptible == {"connecting", "starting", "joining", "leaving", "disconnecting"}

ASSUME InterruptAssumption == InterruptAt \subseteq Interruptible

VARIABLES pc,        \* where the main thread of each block stands
          keepalive, \* the block was opened with keepalive=True
          loop,      \* where the keepalive thread stands
          stop,      \* stop_event is set
          pings,     \* keepalive calls begun after stop_event was set
          asked,     \* blocks for which disconnect was called
          body,      \* how the body ended: it returned or it raised
          outcome    \* what the `with` statement ended with

sessionVars == <<pc, keepalive, loop, stop, pings, asked, body, outcome>>
vars == <<serviceVars, sessionVars>>

Init ==
  /\ ServiceInit
  /\ pc = [b \in Blocks |-> "outside"]
  /\ keepalive \in [Blocks -> BOOLEAN]
  /\ loop = [b \in Blocks |-> "none"]
  /\ stop = {}
  /\ pings = [b \in Blocks |-> 0]
  /\ asked = {}
  /\ body = [b \in Blocks |-> "none"]
  /\ outcome = [b \in Blocks |-> "none"]

-----------------------------------------------------------------------------
(***************************************************************************)
(* The main thread.                                                        *)
(***************************************************************************)
Goto(b, place) == pc' = [pc EXCEPT ![b] = place]

EndWith(b, place, result) ==
  /\ Goto(b, place)
  /\ outcome' = [outcome EXCEPT ![b] = result]

\* `service.connect(sessionId=sid, hostId=host_id, ...)`
Connect(b) ==
  /\ pc[b] = "outside"
  /\ StartCall(Main(b), "connect")
  /\ Goto(b, "connecting")
  /\ UNCHANGED <<keepalive, loop, stop, pings, asked, body, outcome>>

\* connect returned: go on to the keepalive thread, or straight into the body.
Connected(b) ==
  /\ pc[b] = "connecting"
  /\ call[Main(b)].at = "ok"
  /\ Goto(b, IF keepalive[b] THEN "starting" ELSE "inside")
  /\ UNCHANGED <<serviceVars, keepalive, loop, stop, pings, asked, body, outcome>>

\* connect raised: nothing protects it, and the block is never entered.
ConnectRaised(b) ==
  /\ pc[b] = "connecting"
  /\ call[Main(b)].at = "error"
  /\ EndWith(b, "aborted", "connect error")
  /\ UNCHANGED <<serviceVars, keepalive, loop, stop, pings, asked, body>>

\* `thread.start()`, which is before the `try`.
StartThread(b) ==
  /\ pc[b] = "starting"
  /\ Goto(b, "inside")
  /\ loop' = [loop EXCEPT ![b] = "waiting"]
  /\ UNCHANGED <<serviceVars, keepalive, stop, pings, asked, body, outcome>>

\* The interpreter cannot start another thread.
StartThreadRaised(b) ==
  /\ pc[b] = "starting"
  /\ EndWith(b, "aborted", "thread error")
  /\ UNCHANGED <<serviceVars, keepalive, loop, stop, pings, asked, body>>

\* Faulty variant of EndBody: no `finally`, a body that raises goes straight out.
EndBodyWithoutFinally(b) ==
  /\ pc[b] = "inside"
  /\ \/ body' = [body EXCEPT ![b] = "returned"] /\ UNCHANGED outcome
        /\ Goto(b, IF keepalive[b] THEN "joining" ELSE "leaving")
     \/ body' = [body EXCEPT ![b] = "raised"] /\ EndWith(b, "exited", "raised")
  /\ stop' = stop \cup {b}
  /\ UNCHANGED <<serviceVars, keepalive, loop, pings, asked>>

\* Faulty variant of EndBody: stop_event is never set.
EndBodyWithoutStop(b) ==
  /\ pc[b] = "inside"
  /\ \E how \in {"returned", "raised"} : body' = [body EXCEPT ![b] = how]
  /\ Goto(b, IF keepalive[b] THEN "joining" ELSE "leaving")
  /\ UNCHANGED <<serviceVars, keepalive, loop, stop, pings, asked, outcome>>

\* The body ends, either way: `finally: stop_event.set()`, then the join if there is
\* a thread.
EndBody(b) ==
  /\ pc[b] = "inside"
  /\ \E how \in {"returned", "raised"} : body' = [body EXCEPT ![b] = how]
  /\ stop' = stop \cup {b}
  /\ Goto(b, IF keepalive[b] THEN "joining" ELSE "leaving")
  /\ UNCHANGED <<serviceVars, keepalive, loop, pings, asked, outcome>>

\* Faulty variant of Join: `thread.join()`, without the timeout.
JoinWithoutTimeout(b) ==
  /\ pc[b] = "joining"
  /\ loop[b] = "ended"
  /\ Goto(b, "leaving")
  /\ UNCHANGED <<serviceVars, keepalive, loop, stop, pings, asked, body, outcome>>

\* `thread.join(timeout=keepalive_interval)` returns: the thread is over, or the
\* timeout passed with a ping in flight.
Join(b) ==
  /\ pc[b] = "joining"
  /\ Goto(b, "leaving")
  /\ UNCHANGED <<serviceVars, keepalive, loop, stop, pings, asked, body, outcome>>

\* `service.disconnect(sessionId=sid)`
Disconnect(b) ==
  /\ pc[b] = "leaving"
  /\ StartCall(Main(b), "disconnect")
  /\ asked' = asked \cup {b}
  /\ Goto(b, "disconnecting")
  /\ UNCHANGED <<keepalive, loop, stop, pings, body, outcome>>

\* Faulty variant of Leave: disconnect is fired and not waited for.
LeaveAtOnce(b) ==
  /\ pc[b] = "disconnecting"
  /\ EndWith(b, "exited", body[b])
  /\ UNCHANGED <<serviceVars, keepalive, loop, stop, pings, asked, body>>

\* disconnect returned, or raised an Exception that suppress() swallowed: the block
\* ends the way its body did.
Leave(b) ==
  /\ pc[b] = "disconnecting"
  /\ ~InCall(Main(b))
  /\ EndWith(b, "exited", body[b])
  /\ UNCHANGED <<serviceVars, keepalive, loop, stop, pings, asked, body>>

\* KeyboardInterrupt: it is no Exception, so no suppress() takes it.  The call in
\* progress is abandoned; in thread.start() the thread may have started already.
Interrupt(b) ==
  /\ pc[b] \in InterruptAt
  /\ IF InCall(Main(b)) THEN AbandonCall(Main(b)) ELSE UNCHANGED serviceVars
  /\ EndWith(b, IF pc[b] \in {"connecting", "starting"} THEN "aborted" ELSE "interrupted",
             "interrupt")
  /\ \/ UNCHANGED loop
     \/ pc[b] = "starting" /\ loop' = [loop EXCEPT ![b] = "waiting"]
  /\ UNCHANGED <<keepalive, stop, pings, asked, body>>

-----------------------------------------------------------------------------
(***************************************************************************)
(* The keepalive thread, _keepalive_loop.                                  *)
(***************************************************************************)

\* `stop_event.wait(interval)` returns True.
StopLoop(b) ==
  /\ loop[b] = "waiting"
  /\ b \in stop
  /\ loop' = [loop EXCEPT ![b] = "ended"]
  /\ UNCHANGED <<serviceVars, pc, keepalive, stop, pings, asked, body, outcome>>

\* Faulty variant of WakeLoop: the result of `stop_event.wait` is not looked at.
WakeLoopAnyway(b) ==
  /\ loop[b] = "waiting"
  /\ loop' = [loop EXCEPT ![b] = "woken"]
  /\ UNCHANGED <<serviceVars, pc, keepalive, stop, pings, asked, body, outcome>>

\* `stop_event.wait(interval)` times out with the event unset.
WakeLoop(b) ==
  /\ loop[b] = "waiting"
  /\ b \notin stop
  /\ loop' = [loop EXCEPT ![b] = "woken"]
  /\ UNCHANGED <<serviceVars, pc, keepalive, stop, pings, asked, body, outcome>>

\* `service.keepalive(sessionId=session_id)`, whether or not the event has been set
\* since the wait returned.  The count stops at two, one more than is right.
Ping(b) ==
  /\ loop[b] = "woken"
  /\ StartCall(Keeper(b), "keepalive")
  /\ loop' = [loop EXCEPT ![b] = "pinging"]
  /\ pings' = [pings EXCEPT ![b] = IF b \in stop /\ @ < 2 THEN @ + 1 ELSE @]
  /\ UNCHANGED <<pc, keepalive, stop, asked, body, outcome>>

\* Faulty variant of PingDone: no suppress() around keepalive.
PingDoneUnsuppressed(b) ==
  /\ loop[b] = "pinging"
  /\ ~InCall(Keeper(b))
  /\ loop' = [loop EXCEPT ![b] = IF call[Keeper(b)].at = "error" THEN "ended"
                                                              ELSE "waiting"]
  /\ UNCHANGED <<serviceVars, pc, keepalive, stop, pings, asked, body, outcome>>

\* keepalive returned, or raised an Exception that suppress() swallowed.
PingDone(b) ==
  /\ loop[b] = "pinging"
  /\ ~InCall(Keeper(b))
  /\ loop' = [loop EXCEPT ![b] = "waiting"]
  /\ UNCHANGED <<serviceVars, pc, keepalive, stop, pings, asked, body, outcome>>

-----------------------------------------------------------------------------
User(b) == Connect(b) \/ EndBody(b) \/ Interrupt(b)

MainStep(b) ==
  \/ Connected(b) \/ ConnectRaised(b) \/ StartThread(b) \/ StartThreadRaised(b)
  \/ Join(b) \/ Disconnect(b) \/ Leave(b)

LoopStep(b) == StopLoop(b) \/ WakeLoop(b) \/ Ping(b) \/ PingDone(b)

\* The fate of a thread's current attempt.
Attempt(t) == (Answer(t) \/ LoseAttempt(t)) /\ UNCHANGED sessionVars

Arrival == \E a \in late : LateArrival(a) /\ UNCHANGED sessionVars

Over == {"exited", "aborted", "interrupted"}

Terminated ==
  /\ \A b \in Blocks : pc[b] \in Over /\ loop[b] \in {"none", "ended"}
  /\ UNCHANGED vars

Next ==
  \/ \E b \in Blocks : User(b) \/ MainStep(b) \/ LoopStep(b)
  \/ \E t \in Threads : Attempt(t)
  \/ Arrival
  \/ Terminated

Spec == Init /\ [][Next]_vars

\* The main thread runs, and every attempt of its calls ends within a timeout; but
\* nothing makes the body end, and nothing is assumed of the keepalive thread.
MainFairness ==
  \A b \in Blocks : WF_vars(MainStep(b)) /\ WF_vars(Attempt(Main(b)))

\* The keepalive thread runs too.
LoopFairness ==
  \A b \in Blocks : WF_vars(LoopStep(b)) /\ WF_vars(Attempt(Keeper(b)))

MainFairSpec == Spec /\ MainFairness
FairSpec == MainFairSpec /\ LoopFairness

-----------------------------------------------------------------------------
(***************************************************************************)
(* Properties.                                                             *)
(***************************************************************************)
TypeOK ==
  /\ ServiceTypeOK
  /\ pc \in [Blocks -> Interruptible \cup {"outside", "inside"} \cup Over]
  /\ keepalive \in [Blocks -> BOOLEAN]
  /\ loop \in [Blocks -> {"none", "waiting", "woken", "pinging", "ended"}]
  /\ stop \subseteq Blocks
  /\ pings \in [Blocks -> 0 .. 2]
  /\ asked \subseteq Blocks
  /\ body \in [Blocks -> {"none", "returned", "raised"}]
  /\ outcome \in [Blocks -> {"none", "returned", "raised", "connect error",
                             "thread error", "interrupt"}]

\* Once the body is over the keepalive thread begins at most one more ping: the one
\* whose wait had timed out just before stop_event was set.
AtMostOnePingAfterStop == \A b \in Blocks : pings[b] <= 1

\* A block that was left leaves no session behind, unless its disconnect raised or
\* an attempt of its connect had been given up, which may arrive after the disconnect.
LeavesNoSession ==
  \A b \in Blocks :
    /\ pc[b] = "exited" /\ b \in open
    /\ \A n \in 0 .. MaxRetries : <<b, "connect", n>> \notin abandoned
    => call[Main(b)].op = "disconnect" /\ call[Main(b)].at = "error"

\* Leaving a block takes a bounded time even when a ping hangs and the keepalive
\* thread never runs again: the join has a timeout.
BlockIsLeft == \A b \in Blocks : pc[b] = "joining" ~> pc[b] \in Over

\* No keepalive thread outlives for good a block that was left.
KeepaliveThreadEnds ==
  \A b \in Blocks : pc[b] \in {"exited", "interrupted"} ~> loop[b] \in {"none", "ended"}

\* While the body runs, a session opened with keepalive=True is pinged again and
\* again, whatever became of the pings before: lost, refused or retried.
SessionKeptAlive ==
  \A b \in Blocks : []<>(keepalive[b] /\ pc[b] = "inside" => loop[b] = "pinging")

\* The block as its caller sees it.  A main thread interrupted in disconnect has
\* asked for it and is out of the block.
PhaseOf(b) ==
  CASE pc[b] \in {"outside", "connecting", "starting"} -> "outside"
    [] pc[b] \in {"inside", "joining", "leaving", "disconnecting"} -> "inside"
    [] pc[b] = "aborted" -> "aborted"
    [] pc[b] \in {"exited", "interrupted"} -> "exited"

L == INSTANCE SessionLifecycle WITH phase <- [b \in Blocks |-> PhaseOf(b)]

\* ssh_session implements the promise of SessionLifecycle: connect before the body,
\* disconnect asked for before a block that was entered is left, and once.
ImplementsLifecycle == L!Spec

\* Refuted: _session.py says the session of a block is "disconnected automatically,
\* even on error"; an interrupt of the join leaves the block without asking for it.
DisconnectedEvenOnError ==
  \A b \in Blocks : pc[b] \in {"exited", "interrupted"} => b \in asked
=============================================================================
