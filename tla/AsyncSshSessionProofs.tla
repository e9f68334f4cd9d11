----------------------- MODULE AsyncSshSessionProofs ------------------------
(***************************************************************************)
(* Theorems about AsyncSshSession, for every set of blocks and every       *)
(* number of retries.                                                      *)
(***************************************************************************)
EXTENDS AsyncSshSession, TLAPS

-----------------------------------------------------------------------------
(***************************************************************************)
(* What the calls preserve.                                                *)
(***************************************************************************)
\* No attempt of b's connect was given up, so none can arrive late.
NoConnectLeft(b) == \A n \in 0 .. MaxRetries : <<b, "connect", n>> \notin abandoned

\* The keepalive thread makes no other call.
KeepersPing == \A b \in Blocks : call[Keeper(b)].op \in {"none", "keepalive"}

\* A disconnect that succeeded has closed the session for good.
DisconnectCloses ==
  \A b \in Blocks :
    call[Main(b)].op = "disconnect" /\ call[Main(b)].at = "ok" /\ NoConnectLeft(b)
      => b \notin open

ServiceInv == ServiceTypeOK /\ KeepersPing /\ DisconnectCloses

-----------------------------------------------------------------------------
(***************************************************************************)
(* Threads and calls.                                                      *)
(***************************************************************************)
\* A thread is the main one or the keeper of one block.
LEMMA ThreadFacts ==
  /\ \A b \in Blocks : Main(b) \in Threads /\ Keeper(b) \in Threads
  /\ \A t \in Threads : t[1] \in Blocks /\ (t = Main(t[1]) \/ t = Keeper(t[1]))
  /\ \A b, c \in Blocks : /\ Main(b) # Keeper(c)
                          /\ Main(b) = Main(c) => b = c
                          /\ Keeper(b) = Keeper(c) => b = c
  /\ \A b \in Blocks : Main(b)[1] = b /\ Keeper(b)[1] = b
BY DEF Main, Keeper, Threads

\* A call that was sent is a call of the service, and ends as one.
LEMMA CallFacts ==
  ASSUME NEW c \in Calls, c.at = "sent"
  PROVE  /\ c.op \in Ops /\ c.tries \in 0 .. MaxRetries
         /\ \A result \in {"ok", "error"} :
              /\ [c EXCEPT !.at = result] \in Calls
              /\ [c EXCEPT !.at = result].at = result
              /\ [c EXCEPT !.at = result].op = c.op
         /\ /\ c.tries < MaxRetries => [c EXCEPT !.tries = @ + 1] \in Calls
            /\ [c EXCEPT !.tries = @ + 1].at = "sent"
            /\ [c EXCEPT !.tries = @ + 1].op = c.op
<1>1. c \in [op : Ops, tries : 0 .. MaxRetries, at : {"sent", "ok", "error"}]
  BY DEF Calls, NoCall
<1>2. c.tries < MaxRetries => c.tries + 1 \in 0 .. MaxRetries
  BY <1>1, SessionAssumption
<1> QED BY <1>1, <1>2 DEF Calls

\* The operations of the service change the session of their own block only.
LEMMA EffectFacts ==
  ASSUME open \subseteq Blocks, NEW b \in Blocks, NEW op, open' \in Effects(b, op)
  PROVE  /\ open' \subseteq Blocks
         /\ \A c \in Blocks \ {b} : c \in open' <=> c \in open
         /\ op # "connect" => (b \in open' => b \in open)
BY DEF Effects

-----------------------------------------------------------------------------
(***************************************************************************)
(* The steps of the service.                                               *)
(***************************************************************************)
\* At first nobody calls and nothing is open.
LEMMA ServiceStart == ServiceInit => ServiceInv
BY ThreadFacts
   DEF ServiceInit, ServiceInv, ServiceTypeOK, KeepersPing, DisconnectCloses, Calls, NoCall

\* A step that leaves the service alone keeps its invariant.
LEMMA ServiceIdle ==
  ASSUME ServiceInv, UNCHANGED serviceVars
  PROVE  ServiceInv'
BY DEF ServiceInv, serviceVars, ServiceTypeOK, KeepersPing, DisconnectCloses, NoConnectLeft,
       Calls, NoCall, Attempts

\* A call that starts has not succeeded yet.
LEMMA ServiceStartCall ==
  ASSUME ServiceInv, NEW t \in Threads, NEW op \in Ops,
         t = Keeper(t[1]) => op = "keepalive",
         StartCall(t, op)
  PROVE  ServiceInv'
<1> DEFINE c == [op |-> op, tries |-> 0, at |-> "sent"]
<1>1. c \in Calls /\ c.op = op /\ c.at = "sent"
  BY SessionAssumption DEF Calls
<1>2. call \in [Threads -> Calls] /\ call' = [call EXCEPT ![t] = c]
  BY DEF ServiceInv, ServiceTypeOK, StartCall
<1> HIDE DEF c
<1>3. ServiceTypeOK'
  BY <1>1, <1>2 DEF ServiceInv, ServiceTypeOK, StartCall, Attempts
<1>4. KeepersPing'
  BY <1>1, <1>2, ThreadFacts DEF ServiceInv, KeepersPing
<1>5. DisconnectCloses'
  BY <1>1, <1>2, ThreadFacts DEF ServiceInv, DisconnectCloses, StartCall, NoConnectLeft
<1> QED BY <1>3, <1>4, <1>5 DEF ServiceInv

\* An answer concerns the session of its own block, and a disconnect that succeeds
\* has closed it.
LEMMA ServiceAnswer ==
  ASSUME ServiceInv, NEW t \in Threads, Answer(t)
  PROVE  ServiceInv'
<1> DEFINE b == t[1]
<1>1. PICK result \in {"ok", "error"} :
        /\ result = "ok" /\ call[t].op = "disconnect" => b \notin open'
        /\ call' = [call EXCEPT ![t].at = result]
  BY DEF Answer
<1>2. /\ call \in [Threads -> Calls] /\ open \subseteq Blocks /\ b \in Blocks
      /\ call[t] \in Calls /\ call[t].at = "sent"
      /\ open' \in Effects(b, call[t].op) /\ UNCHANGED <<abandoned, late>>
  BY ThreadFacts DEF ServiceInv, ServiceTypeOK, Answer, InCall
<1>3. /\ call'[t] \in Calls /\ call'[t].at = result /\ call'[t].op = call[t].op
      /\ call' = [call EXCEPT ![t] = call'[t]]
  BY <1>1, <1>2, CallFacts
<1>4. /\ open' \subseteq Blocks
      /\ \A c \in Blocks \ {b} : c \in open' <=> c \in open
      /\ call[t].op # "connect" => (b \in open' => b \in open)
  BY <1>2, EffectFacts
<1>5. ServiceTypeOK'
  BY <1>2, <1>3, <1>4 DEF ServiceInv, ServiceTypeOK, Attempts
<1>6. KeepersPing'
  BY <1>2, <1>3, ThreadFacts DEF ServiceInv, KeepersPing
<1>7. DisconnectCloses'
  <2> SUFFICES ASSUME NEW c \in Blocks, call'[Main(c)].op = "disconnect",
                      call'[Main(c)].at = "ok", NoConnectLeft(c)'
               PROVE  c \notin open'
    BY DEF DisconnectCloses
  <2>1. NoConnectLeft(c)
    BY <1>2 DEF NoConnectLeft
  <2>2. CASE t = Main(c)
    BY <1>1, <1>3, <2>2, ThreadFacts
  <2>3. CASE t # Main(c)
    <3>1. call'[Main(c)] = call[Main(c)]
      BY <1>2, <1>3, <2>3, ThreadFacts
    <3>2. c \notin open
      BY <2>1, <3>1 DEF ServiceInv, DisconnectCloses
    <3>3. CASE c # b
      BY <1>4, <3>2, <3>3
    <3>4. CASE c = b
      <4>1. t = Keeper(b)
        BY <2>3, <3>4, ThreadFacts
      <4>2. call[t].op # "connect"
        BY <1>2, <4>1 DEF ServiceInv, KeepersPing
      <4> QED BY <1>4, <3>2, <3>4, <4>2
    <3> QED BY <3>3, <3>4
  <2> QED BY <2>2, <2>3
<1> QED BY <1>5, <1>6, <1>7 DEF ServiceInv

\* An attempt that is given up leaves the call under way, or makes it raise.
LEMMA ServiceGiveUp ==
  ASSUME ServiceInv, NEW t \in Threads, NEW next \in Calls, GiveUp(t, next),
         next.op = call[t].op, next.at # "ok"
  PROVE  ServiceInv'
<1>1. /\ call \in [Threads -> Calls] /\ call' = [call EXCEPT ![t] = next]
      /\ UNCHANGED open /\ abandoned \subseteq abandoned'
      /\ abandoned' \subseteq Attempts /\ late' \subseteq abandoned'
  BY DEF ServiceInv, ServiceTypeOK, GiveUp
<1>2. ServiceTypeOK'
  BY <1>1 DEF ServiceInv, ServiceTypeOK, Attempts
<1>3. KeepersPing'
  BY <1>1, ThreadFacts DEF ServiceInv, KeepersPing
<1>4. DisconnectCloses'
  BY <1>1, ThreadFacts DEF ServiceInv, DisconnectCloses, NoConnectLeft
<1> QED BY <1>2, <1>3, <1>4 DEF ServiceInv

\* The call that LoseAttempt and AbandonCall leave.
LEMMA LostCall ==
  ASSUME ServiceInv, NEW t \in Threads, InCall(t)
  PROVE  LET retried == [call[t] EXCEPT !.tries = @ + 1]
             failed == [call[t] EXCEPT !.at = "error"]
         IN  /\ call[t].tries < MaxRetries => retried \in Calls
             /\ retried.op = call[t].op /\ retried.at = "sent"
             /\ failed \in Calls /\ failed.op = call[t].op /\ failed.at = "error"
BY CallFacts DEF ServiceInv, ServiceTypeOK, InCall

\* An attempt is lost: another follows, or the call raises.
LEMMA ServiceLoseAttempt ==
  ASSUME ServiceInv, NEW t \in Threads, LoseAttempt(t)
  PROVE  ServiceInv'
<1>1. InCall(t)
  BY DEF LoseAttempt, GiveUp
<1>2. CASE call[t].tries < MaxRetries
  BY <1>1, <1>2, LostCall, ServiceGiveUp DEF LoseAttempt
<1>3. CASE ~(call[t].tries < MaxRetries)
  BY <1>1, <1>3, LostCall, ServiceGiveUp DEF LoseAttempt
<1> QED BY <1>2, <1>3

\* A caller that is interrupted or cancelled gives its attempt up.
LEMMA ServiceAbandonCall ==
  ASSUME ServiceInv, NEW t \in Threads, AbandonCall(t)
  PROVE  ServiceInv'
<1>1. InCall(t)
  BY DEF AbandonCall, GiveUp
<1> QED BY <1>1, LostCall, ServiceGiveUp DEF AbandonCall

\* An attempt that arrives late may open a session only if it is a connect that was
\* given up.
LEMMA ServiceLateArrival ==
  ASSUME ServiceInv, NEW a, LateArrival(a)
  PROVE  ServiceInv'
<1>1. /\ a \in late /\ a \in abandoned /\ a \in Attempts /\ a[1] \in Blocks
      /\ open \subseteq Blocks /\ open' \in Effects(a[1], a[2])
      /\ UNCHANGED <<call, abandoned>> /\ late' \subseteq abandoned
  BY DEF ServiceInv, ServiceTypeOK, LateArrival, Attempts
<1>2. /\ open' \subseteq Blocks
      /\ \A c \in Blocks \ {a[1]} : c \in open' <=> c \in open
      /\ a[2] # "connect" => (a[1] \in open' => a[1] \in open)
  BY <1>1, EffectFacts
<1>3. a[2] = "connect" => ~NoConnectLeft(a[1])
  BY <1>1 DEF NoConnectLeft, Attempts
<1>4. ServiceTypeOK'
  BY <1>1, <1>2 DEF ServiceInv, ServiceTypeOK, Attempts, Calls, NoCall
<1>5. KeepersPing'
  BY <1>1 DEF ServiceInv, KeepersPing
<1>6. DisconnectCloses'
  <2>1. \A c \in Blocks : NoConnectLeft(c)' => NoConnectLeft(c)
    BY <1>1 DEF NoConnectLeft
  <2> QED BY <1>1, <1>2, <1>3, <2>1 DEF ServiceInv, DisconnectCloses
<1> QED BY <1>4, <1>5, <1>6 DEF ServiceInv

\* The end of an attempt starts no call.
LEMMA AttemptFacts ==
  ASSUME ServiceInv, NEW t \in Threads, Answer(t) \/ LoseAttempt(t) \/ AbandonCall(t)
  PROVE  /\ \A u \in Threads : call'[u].op = call[u].op /\ (InCall(u)' => InCall(u))
         /\ AbandonCall(t) => ~InCall(t)'
<1>1. call \in [Threads -> Calls] /\ call[t] \in Calls /\ call[t].at = "sent"
  BY DEF ServiceInv, ServiceTypeOK, InCall, Answer, LoseAttempt, AbandonCall, GiveUp
<1>2. CASE Answer(t)
  <2>1. PICK result \in {"ok", "error"} : call' = [call EXCEPT ![t].at = result]
    BY <1>2 DEF Answer
  <2>2. /\ call' = [call EXCEPT ![t] = call'[t]]
        /\ call'[t].op = call[t].op /\ call'[t].at # "sent"
    BY <1>1, <2>1, CallFacts
  <2> QED BY <1>1, <2>2 DEF InCall
<1>3. CASE LoseAttempt(t) \/ AbandonCall(t)
  <2>1. PICK next : /\ call' = [call EXCEPT ![t] = next] /\ next.op = call[t].op
                    /\ AbandonCall(t) => next.at = "error"
    BY <1>1, <1>3, CallFacts DEF LoseAttempt, AbandonCall, GiveUp
  <2> QED BY <1>1, <2>1 DEF InCall
<1> QED BY <1>2, <1>3

\* A call starts on its own thread.
LEMMA CallStarted ==
  ASSUME ServiceInv, NEW t \in Threads, NEW op, StartCall(t, op)
  PROVE  /\ call'[t].op = op /\ InCall(t)'
         /\ \A u \in Threads \ {t} : call'[u] = call[u]
BY DEF ServiceInv, ServiceTypeOK, StartCall, InCall

-----------------------------------------------------------------------------
(***************************************************************************)
(* The inductive invariant.                                                *)
(***************************************************************************)
Places == {"outside", "connecting", "inside", "joining", "leaving", "disconnecting"} \cup Over

SessionTypeOK ==
  /\ pc \in [Blocks -> Places]
  /\ keepalive \in [Blocks -> BOOLEAN]
  /\ loop \in [Blocks -> {"none", "sleeping", "pinging", "ended"}]
  /\ stop \subseteq Blocks
  /\ asked \subseteq Blocks
  /\ body \in [Blocks -> {"none", "returned", "raised"}]
  /\ outcome \in [Blocks -> {"none", "returned", "raised", "connect error", "cancelled"}]

\* The last call of a block is disconnect, which is over when the block was left.
DisconnectLast ==
  \A b \in Blocks :
    /\ pc[b] \in {"disconnecting", "exited"} => call[Main(b)].op = "disconnect"
    /\ pc[b] = "exited" => ~InCall(Main(b))

\* The keepalive task lives from the start of the body to the end of `await task`, and
\* every call it makes is a ping it waits for.
TaskWithinBlock ==
  \A b \in Blocks :
    /\ pc[b] \in {"outside", "connecting", "aborted"} \/ ~keepalive[b] => loop[b] = "none"
    /\ pc[b] \in {"leaving", "disconnecting", "exited", "cancelled"} =>
         loop[b] \in {"none", "ended"}

PingAwaited == \A b \in Blocks : InCall(Keeper(b)) => loop[b] = "pinging"

\* disconnect is called once, on the way out.
AskedOnTheWayOut ==
  \A b \in Blocks :
    /\ pc[b] \in {"disconnecting", "exited"} => b \in asked
    /\ b \in asked => pc[b] \in {"disconnecting", "exited", "cancelled"}

SInv == SessionTypeOK /\ TaskWithinBlock /\ AskedOnTheWayOut

CallsInv == DisconnectLast /\ PingAwaited

IInv == ServiceInv /\ SInv /\ CallsInv

-----------------------------------------------------------------------------
\* Initially no block was entered.
LEMMA InitEstablishes == Init => IInv
<1> SUFFICES ASSUME Init PROVE IInv
  OBVIOUS
<1>1. ServiceInv
  BY ServiceStart DEF Init
<1>2. SInv
  BY DEF Init, SInv, SessionTypeOK, TaskWithinBlock, AskedOnTheWayOut, Places
<1>3. CallsInv
  BY ThreadFacts DEF Init, CallsInv, DisconnectLast, PingAwaited, ServiceInit, NoCall, InCall
<1> QED BY <1>1, <1>2, <1>3 DEF IInv

\* The steps of a task other than the calls: the service stands still.
LEMMA IdleStep ==
  ASSUME IInv, UNCHANGED serviceVars,
         \A b \in Blocks :
           /\ pc'[b] \in {"disconnecting", "exited"} =>
                pc[b] \in {"disconnecting", "exited"}
           /\ pc'[b] = "exited" => pc[b] = "exited" \/ ~InCall(Main(b))
           /\ loop[b] = "pinging" => loop'[b] = "pinging" \/ ~InCall(Keeper(b))
  PROVE  ServiceInv' /\ CallsInv'
<1>1. ServiceInv'
  BY ServiceIdle DEF IInv
<1>2. CallsInv'
  BY DEF IInv, CallsInv, DisconnectLast, PingAwaited, serviceVars, InCall
<1> QED BY <1>1, <1>2

\* The service moves, the tasks do not.
LEMMA AttemptStep ==
  ASSUME IInv, NEW t \in Threads, Attempt(t)
  PROVE  IInv'
<1>1. ServiceInv'
  BY ServiceAnswer, ServiceLoseAttempt DEF IInv, Attempt
<1>2. SInv'
  BY DEF IInv, SInv, Attempt, sessionVars, SessionTypeOK, TaskWithinBlock, AskedOnTheWayOut
<1>3. \A u \in Threads : call'[u].op = call[u].op /\ (InCall(u)' => InCall(u))
  BY AttemptFacts DEF IInv, Attempt
<1>4. CallsInv'
  BY <1>3, ThreadFacts
     DEF IInv, CallsInv, DisconnectLast, PingAwaited, Attempt, sessionVars
<1> QED BY <1>1, <1>2, <1>4 DEF IInv

\* A late attempt moves no task.
LEMMA ArrivalStep ==
  ASSUME IInv, Arrival
  PROVE  IInv'
<1>1. PICK a : LateArrival(a) /\ UNCHANGED sessionVars
  BY DEF Arrival
<1>2. ServiceInv'
  BY <1>1, ServiceLateArrival DEF IInv
<1>3. SInv'
  BY <1>1 DEF IInv, SInv, sessionVars, SessionTypeOK, TaskWithinBlock, AskedOnTheWayOut
<1>4. CallsInv'
  BY <1>1
     DEF IInv, CallsInv, DisconnectLast, PingAwaited, LateArrival, InCall, sessionVars
<1> QED BY <1>2, <1>3, <1>4 DEF IInv

-----------------------------------------------------------------------------
(***************************************************************************)
(* The main task.                                                          *)
(***************************************************************************)
\* Goto moves one block.
LEMMA Moved ==
  ASSUME IInv, NEW b \in Blocks, NEW place, Goto(b, place)
  PROVE  pc'[b] = place /\ \A c \in Blocks \ {b} : pc'[c] = pc[c]
BY DEF IInv, SInv, SessionTypeOK, Goto

\* connect begins.
LEMMA ConnectStep ==
  ASSUME IInv, NEW b \in Blocks, Connect(b)
  PROVE  IInv'
<1>1. ServiceInv'
  BY ServiceStartCall, ThreadFacts DEF IInv, Connect, Ops
<1>2. SInv'
  <2>1. SessionTypeOK'
    BY DEF IInv, SInv, SessionTypeOK, Places, Connect, Goto
  <2>2. TaskWithinBlock'
    BY DEF IInv, SInv, SessionTypeOK, TaskWithinBlock, Connect, Goto
  <2>3. AskedOnTheWayOut'
    BY DEF IInv, SInv, SessionTypeOK, AskedOnTheWayOut, Connect, Goto
  <2> QED BY <2>1, <2>2, <2>3 DEF SInv
<1>3. \A u \in Threads \ {Main(b)} : call'[u] = call[u]
  BY CallStarted, ThreadFacts DEF IInv, Connect
<1>4. CallsInv'
  BY <1>3, Moved, ThreadFacts
     DEF IInv, CallsInv, DisconnectLast, PingAwaited, Connect, InCall
<1> QED BY <1>1, <1>2, <1>4 DEF IInv

\* disconnect begins, for the first time.
LEMMA DisconnectStep ==
  ASSUME IInv, NEW b \in Blocks, Disconnect(b)
  PROVE  IInv'
<1>1. ServiceInv'
  BY ServiceStartCall, ThreadFacts DEF IInv, Disconnect, Ops
<1>2. SInv'
  <2>1. SessionTypeOK'
    BY DEF IInv, SInv, SessionTypeOK, Places, Disconnect, Goto
  <2>2. TaskWithinBlock'
    BY DEF IInv, SInv, SessionTypeOK, TaskWithinBlock, Disconnect, Goto
  <2>3. AskedOnTheWayOut'
    BY DEF IInv, SInv, SessionTypeOK, AskedOnTheWayOut, Disconnect, Goto
  <2> QED BY <2>1, <2>2, <2>3 DEF SInv
<1>3. /\ call'[Main(b)].op = "disconnect"
      /\ \A u \in Threads \ {Main(b)} : call'[u] = call[u]
  BY CallStarted, ThreadFacts DEF IInv, Disconnect
<1>4. CallsInv'
  BY <1>3, Moved, ThreadFacts
     DEF IInv, CallsInv, DisconnectLast, PingAwaited, Disconnect, InCall
<1> QED BY <1>1, <1>2, <1>4 DEF IInv

\* Steps on the way in and out of the block.
LEMMA PassStep ==
  ASSUME IInv, NEW b \in Blocks,
         Connected(b) \/ ConnectRaised(b) \/ EndBody(b) \/ Join(b) \/ Leave(b)
  PROVE  IInv'
<1>1. SInv'
  <2>1. CASE Connected(b)
    <3>1. SessionTypeOK'
      BY <2>1 DEF IInv, SInv, SessionTypeOK, Places, Over, Connected, Goto
    <3>2. TaskWithinBlock'
      BY <2>1, ZenonT(40) DEF IInv, SInv, SessionTypeOK, TaskWithinBlock, Connected, Goto
    <3>3. AskedOnTheWayOut'
      BY <2>1 DEF IInv, SInv, SessionTypeOK, AskedOnTheWayOut, Connected, Goto
    <3> QED BY <3>1, <3>2, <3>3 DEF SInv
  <2>2. CASE ConnectRaised(b)
    <3>1. SessionTypeOK'
      BY <2>2 DEF IInv, SInv, SessionTypeOK, Places, Over, ConnectRaised, EndWith, Goto
    <3>2. TaskWithinBlock'
      BY <2>2 DEF IInv, SInv, SessionTypeOK, TaskWithinBlock, ConnectRaised, EndWith, Goto
    <3>3. AskedOnTheWayOut'
      BY <2>2 DEF IInv, SInv, SessionTypeOK, AskedOnTheWayOut, ConnectRaised, EndWith, Goto
    <3> QED BY <3>1, <3>2, <3>3 DEF SInv
  <2>3. CASE EndBody(b)
    <3>1. SessionTypeOK'
      BY <2>3 DEF IInv, SInv, SessionTypeOK, Places, Over, EndBody, Goto
    <3>2. TaskWithinBlock'
      BY <2>3 DEF IInv, SInv, SessionTypeOK, TaskWithinBlock, EndBody, Goto
    <3>3. AskedOnTheWayOut'
      BY <2>3 DEF IInv, SInv, SessionTypeOK, AskedOnTheWayOut, EndBody, Goto
    <3> QED BY <3>1, <3>2, <3>3 DEF SInv
  <2>4. CASE Join(b)
    <3>1. SessionTypeOK'
      BY <2>4 DEF IInv, SInv, SessionTypeOK, Places, Over, Join, Goto
    <3>2. TaskWithinBlock'
      BY <2>4 DEF IInv, SInv, SessionTypeOK, TaskWithinBlock, Join, Goto
    <3>3. AskedOnTheWayOut'
      BY <2>4 DEF IInv, SInv, SessionTypeOK, AskedOnTheWayOut, Join, Goto
    <3> QED BY <3>1, <3>2, <3>3 DEF SInv
  <2>5. CASE Leave(b)
    <3>1. SessionTypeOK'
      BY <2>5 DEF IInv, SInv, SessionTypeOK, Places, Over, Leave, EndWith, Goto
    <3>2. TaskWithinBlock'
      BY <2>5 DEF IInv, SInv, SessionTypeOK, TaskWithinBlock, Leave, EndWith, Goto
    <3>3. AskedOnTheWayOut'
      BY <2>5 DEF IInv, SInv, SessionTypeOK, AskedOnTheWayOut, Leave, EndWith, Goto
    <3> QED BY <3>1, <3>2, <3>3 DEF SInv
  <2> QED BY <2>1, <2>2, <2>3, <2>4, <2>5
<1>2. PICK place : /\ UNCHANGED serviceVars /\ Goto(b, place)
                   /\ place = "exited" => pc[b] = "disconnecting" /\ ~InCall(Main(b))
                   /\ place # "disconnecting"
  BY DEF EndWith, Connected, ConnectRaised, EndBody, Join, Leave
<1>3. \A c \in Blocks :
        /\ pc'[c] \in {"disconnecting", "exited"} => pc[c] \in {"disconnecting", "exited"}
        /\ pc'[c] = "exited" => pc[c] = "exited" \/ ~InCall(Main(c))
  BY <1>2, Moved
<1>4. \A c \in Blocks : loop[c] = "pinging" => loop'[c] = "pinging"
  <2>1. CASE Connected(b)
    BY <2>1 DEF IInv, SInv, SessionTypeOK, TaskWithinBlock, Connected
  <2>2. CASE ~Connected(b)
    BY <2>2 DEF ConnectRaised, EndBody, Join, Leave
  <2> QED BY <2>1, <2>2
<1> QED BY <1>1, <1>2, <1>3, <1>4, IdleStep DEF IInv

\* A cancellation leads out of the block, in connect before it and in disconnect after it.
LEMMA CancelStep ==
  ASSUME IInv, NEW b \in Blocks, Cancel(b)
  PROVE  IInv'
<1>1. SInv'
  <2>1. SessionTypeOK'
    BY DEF IInv, SInv, SessionTypeOK, Places, Over, Cancel, EndWith, Goto
  <2>2. TaskWithinBlock'
    BY DEF IInv, SInv, SessionTypeOK, TaskWithinBlock, Cancel, EndWith, Goto
  <2>3. AskedOnTheWayOut'
    BY DEF IInv, SInv, SessionTypeOK, AskedOnTheWayOut, Cancel, EndWith, Goto
  <2> QED BY <2>1, <2>2, <2>3 DEF SInv
<1>2. /\ \A c \in Blocks : pc'[c] \in {"disconnecting", "exited"} => pc'[c] = pc[c]
      /\ UNCHANGED loop
  BY DEF IInv, SInv, SessionTypeOK, Cancel, EndWith, Goto
<1>3. CASE InCall(Main(b))
  <2>1. AbandonCall(Main(b)) /\ Main(b) \in Threads
    BY <1>3, ThreadFacts DEF Cancel
  <2>2. ServiceInv'
    BY <2>1, ServiceAbandonCall DEF IInv
  <2>3. \A u \in Threads : call'[u].op = call[u].op /\ (InCall(u)' => InCall(u))
    BY <2>1, AttemptFacts DEF IInv
  <2>4. CallsInv'
    BY <1>2, <2>3, ThreadFacts DEF IInv, CallsInv, DisconnectLast, PingAwaited
  <2> QED BY <1>1, <2>2, <2>4 DEF IInv
<1>4. CASE ~InCall(Main(b))
  BY <1>1, <1>2, <1>4, IdleStep DEF Cancel, IInv
<1> QED BY <1>3, <1>4

-----------------------------------------------------------------------------
(***************************************************************************)
(* The keepalive task.                                                     *)
(***************************************************************************)
\* The sleep ends and a ping begins; the task was not cancelled.
LEMMA PingStep ==
  ASSUME IInv, NEW b \in Blocks, Ping(b)
  PROVE  IInv'
<1>1. ServiceInv'
  BY ServiceStartCall, ThreadFacts DEF IInv, Ping, Ops
<1>2. SInv'
  BY DEF IInv, SInv, SessionTypeOK, TaskWithinBlock, AskedOnTheWayOut, Ping
<1>3. \A u \in Threads \ {Keeper(b)} : call'[u] = call[u]
  BY CallStarted, ThreadFacts DEF IInv, Ping
<1>4. loop'[b] = "pinging" /\ \A c \in Blocks \ {b} : loop'[c] = loop[c]
  BY DEF IInv, SInv, SessionTypeOK, Ping
<1>5. CallsInv'
  BY <1>3, <1>4, ThreadFacts
     DEF IInv, CallsInv, DisconnectLast, PingAwaited, Ping, InCall
<1> QED BY <1>1, <1>2, <1>5 DEF IInv

\* The ping is over and the task sleeps again.
LEMMA PingDoneStep ==
  ASSUME IInv, NEW b \in Blocks, PingDone(b)
  PROVE  IInv'
<1>1. SInv'
  BY DEF IInv, SInv, SessionTypeOK, TaskWithinBlock, AskedOnTheWayOut, PingDone
<1>2. /\ UNCHANGED <<serviceVars, pc>> /\ ~InCall(Keeper(b))
      /\ \A c \in Blocks \ {b} : loop'[c] = loop[c]
  BY DEF IInv, SInv, SessionTypeOK, PingDone
<1> QED BY <1>1, <1>2, IdleStep DEF IInv

\* The cancellation ends the task, and gives up a ping under way.
LEMMA StopLoopStep ==
  ASSUME IInv, NEW b \in Blocks, StopLoop(b)
  PROVE  IInv'
<1>1. SInv'
  BY DEF IInv, SInv, SessionTypeOK, TaskWithinBlock, AskedOnTheWayOut, StopLoop
<1>2. UNCHANGED pc /\ \A c \in Blocks \ {b} : loop'[c] = loop[c]
  BY DEF IInv, SInv, SessionTypeOK, StopLoop
<1>3. CASE InCall(Keeper(b))
  <2>1. AbandonCall(Keeper(b)) /\ Keeper(b) \in Threads
    BY <1>3, ThreadFacts DEF StopLoop
  <2>2. ServiceInv'
    BY <2>1, ServiceAbandonCall DEF IInv
  <2>3. /\ \A u \in Threads : call'[u].op = call[u].op /\ (InCall(u)' => InCall(u))
        /\ ~InCall(Keeper(b))'
    BY <2>1, AttemptFacts DEF IInv
  <2>4. CallsInv'
    BY <1>2, <2>3, ThreadFacts DEF IInv, CallsInv, DisconnectLast, PingAwaited
  <2> QED BY <1>1, <2>2, <2>4 DEF IInv
<1>4. CASE ~InCall(Keeper(b))
  BY <1>1, <1>2, <1>4, IdleStep DEF StopLoop, IInv
<1> QED BY <1>3, <1>4

-----------------------------------------------------------------------------
\* Every step preserves the invariant.
LEMMA StepPreserves == IInv /\ [Next]_vars => IInv'
<1> SUFFICES ASSUME IInv, [Next]_vars PROVE IInv'
  OBVIOUS
<1>1. ASSUME NEW b \in Blocks, User(b) \/ MainStep(b) \/ LoopStep(b) PROVE IInv'
  BY <1>1, ConnectStep, DisconnectStep, PassStep, CancelStep, PingStep, PingDoneStep,
     StopLoopStep DEF User, MainStep, LoopStep
<1>2. CASE UNCHANGED vars
  <2>1. SInv' /\ UNCHANGED <<serviceVars, pc, loop>>
    BY <1>2 DEF vars, sessionVars, IInv, SInv, SessionTypeOK, TaskWithinBlock, AskedOnTheWayOut
  <2> QED BY <2>1, IdleStep DEF IInv
<1> QED BY <1>1, <1>2, AttemptStep, ArrivalStep DEF Next, Terminated

\* IInv is an invariant of AsyncSshSession.
THEOREM Invariance == Spec => []IInv
BY InitEstablishes, StepPreserves, PTL DEF Spec

-----------------------------------------------------------------------------
(***************************************************************************)
(* The properties.                                                         *)
(***************************************************************************)
\* Every call keeps to its retry limit, and every place is one of the program.
THEOREM TypeCorrect == Spec => []TypeOK
<1>1. IInv => TypeOK
  BY DEF IInv, SInv, ServiceInv, SessionTypeOK, TypeOK, Places
<1> QED BY <1>1, Invariance, PTL

\* The keepalive task is over, and no ping under way, before disconnect and ever after.
THEOREM NoPingOutlives == Spec => []NoPingOutlivesBlock
<1>1. IInv => NoPingOutlivesBlock
  BY DEF IInv, SInv, CallsInv, TaskWithinBlock, PingAwaited, NoPingOutlivesBlock
<1> QED BY <1>1, Invariance, PTL

\* A block that was left leaves no session, unless disconnect raised or an attempt of
\* connect was given up.
THEOREM NoSessionLeft == Spec => []LeavesNoSession
<1>1. ASSUME IInv PROVE LeavesNoSession
  <2> SUFFICES ASSUME NEW b \in Blocks, pc[b] = "exited", b \in open, NoConnectLeft(b)
               PROVE  call[Main(b)].op = "disconnect" /\ call[Main(b)].at = "error"
    BY DEF LeavesNoSession, NoConnectLeft
  <2>1. call[Main(b)].op = "disconnect" /\ call[Main(b)].at # "sent"
    BY <1>1 DEF IInv, CallsInv, DisconnectLast, InCall
  <2>2. call[Main(b)].at # "ok"
    BY <1>1, <2>1 DEF IInv, ServiceInv, DisconnectCloses
  <2>3. call[Main(b)].at \in {"sent", "ok", "error"}
    BY <1>1, ThreadFacts DEF IInv, ServiceInv, ServiceTypeOK, Calls, NoCall
  <2> QED BY <2>1, <2>2, <2>3
<1> QED BY <1>1, Invariance, PTL

-----------------------------------------------------------------------------
(***************************************************************************)
(* The promise of SessionLifecycle.                                        *)
(***************************************************************************)
\* The phase a place belongs to, and the same in the next state.
LEMMA Phases ==
  ASSUME NEW b \in Blocks, pc[b] \in Places
  PROVE  /\ pc[b] \in {"outside", "connecting"} => PhaseOf(b) = "outside"
         /\ pc[b] \in {"inside", "joining", "leaving", "disconnecting"} => PhaseOf(b) = "inside"
         /\ pc[b] = "aborted" => PhaseOf(b) = "aborted"
         /\ pc[b] \in {"exited", "cancelled"} => PhaseOf(b) = "exited"
BY DEF PhaseOf, Places, Over

\* The phase a place leads to.
LEMMA PhasesNext ==
  ASSUME NEW b \in Blocks, pc'[b] \in Places
  PROVE  /\ pc'[b] \in {"outside", "connecting"} => PhaseOf(b)' = "outside"
         /\ pc'[b] \in {"inside", "joining", "leaving", "disconnecting"} => PhaseOf(b)' = "inside"
         /\ pc'[b] = "aborted" => PhaseOf(b)' = "aborted"
         /\ pc'[b] \in {"exited", "cancelled"} => PhaseOf(b)' = "exited"
BY DEF PhaseOf, Places, Over

\* At first every block is outside.
LEMMA InitRefines == Init => L!Init
<1> SUFFICES ASSUME Init PROVE L!Init
  OBVIOUS
<1>1. \A b \in Blocks : PhaseOf(b) = "outside"
  BY Phases DEF Init, Places
<1> QED BY <1>1 DEF Init, L!Init

\* One block changes its phase.
LEMMA PhaseMoved ==
  ASSUME IInv, NEW b \in Blocks, NEW place, Goto(b, place),
         NEW next, PhaseOf(b)' = next
  PROVE  /\ [c \in Blocks |-> PhaseOf(c)][b] = PhaseOf(b)
         /\ [c \in Blocks |-> PhaseOf(c)]' = [[c \in Blocks |-> PhaseOf(c)] EXCEPT ![b] = next]
<1>1. \A c \in Blocks \ {b} : PhaseOf(c)' = PhaseOf(c)
  BY Moved DEF PhaseOf
<1> QED BY <1>1

\* A block that could not be entered.
LEMMA AbortRefines ==
  ASSUME IInv, NEW b \in Blocks, pc[b] = "connecting", Goto(b, "aborted"),
         UNCHANGED asked
  PROVE  L!Next
<1>1. PhaseOf(b) = "outside" /\ PhaseOf(b)' = "aborted"
  BY Phases, PhasesNext, Moved DEF Places, Over
<1>2. L!Abort(b)
  BY <1>1, PhaseMoved DEF L!Abort
<1> QED BY <1>2 DEF L!Next

\* The body is entered.
LEMMA EnterRefines ==
  ASSUME IInv, NEW b \in Blocks, pc[b] = "connecting", Goto(b, "inside"),
         UNCHANGED asked
  PROVE  L!Next
<1>1. PhaseOf(b) = "outside" /\ PhaseOf(b)' = "inside"
  BY Phases, PhasesNext, Moved DEF Places, Over
<1>2. L!Enter(b)
  BY <1>1, PhaseMoved DEF L!Enter
<1> QED BY <1>2 DEF L!Next

\* disconnect was asked for, so the block may be left.
LEMMA ExitRefines ==
  ASSUME IInv, NEW b \in Blocks, NEW place \in {"exited", "cancelled"},
         pc[b] = "disconnecting", Goto(b, place), UNCHANGED asked
  PROVE  L!Next
<1>1. PhaseOf(b) = "inside" /\ PhaseOf(b)' = "exited" /\ b \in asked
  BY Phases, PhasesNext, Moved DEF Places, Over, IInv, SInv, AskedOnTheWayOut
<1>2. L!Exit(b)
  BY <1>1, PhaseMoved DEF L!Exit
<1> QED BY <1>2 DEF L!Next

\* Steps within a phase.
LEMMA StaysInPhase ==
  ASSUME IInv, NEW b \in Blocks, NEW place \in Places, Goto(b, place),
         \/ pc[b] = "outside" /\ place = "connecting"
         \/ pc[b] \in {"inside", "joining", "leaving"}
            /\ place \in {"joining", "leaving", "disconnecting"}
  PROVE  UNCHANGED [c \in Blocks |-> PhaseOf(c)]
<1>1. PhaseOf(b)' = PhaseOf(b)
  BY Phases, PhasesNext, Moved DEF Places, Over
<1>2. \A c \in Blocks \ {b} : PhaseOf(c)' = PhaseOf(c)
  BY Moved DEF PhaseOf
<1> QED BY <1>1, <1>2

\* disconnect is asked for once.
LEMMA AskRefines ==
  ASSUME IInv, NEW b \in Blocks, Disconnect(b)
  PROVE  L!Next
<1>1. UNCHANGED [c \in Blocks |-> PhaseOf(c)]
  BY StaysInPhase DEF Disconnect, Places
<1>2. PhaseOf(b) = "inside" /\ b \notin asked /\ asked' = asked \cup {b}
  BY Phases DEF Disconnect, Places, IInv, SInv, AskedOnTheWayOut
<1>3. L!AskDisconnect(b)
  BY <1>1, <1>2 DEF L!AskDisconnect
<1> QED BY <1>3 DEF L!Next

\* The phases depend on pc alone.
LEMMA PlacesStay ==
  ASSUME UNCHANGED <<pc, asked>>
  PROVE  UNCHANGED L!vars
BY DEF L!vars, PhaseOf

\* Every step is one of SessionLifecycle or changes nothing there.
LEMMA StepRefines == IInv /\ [Next]_vars => [L!Next]_L!vars
<1> SUFFICES ASSUME IInv, [Next]_vars PROVE [L!Next]_L!vars
  OBVIOUS
<1>1. ASSUME NEW b \in Blocks, User(b) PROVE [L!Next]_L!vars
  <2>1. CASE Connect(b) \/ EndBody(b)
    BY <2>1, StaysInPhase DEF Connect, EndBody, L!vars, Places
  <2>2. CASE Cancel(b)
    BY <2>2, AbortRefines, ExitRefines DEF Cancel, EndWith
  <2> QED BY <1>1, <2>1, <2>2 DEF User
<1>2. ASSUME NEW b \in Blocks, MainStep(b) PROVE [L!Next]_L!vars
  <2>1. CASE Connected(b)
    BY <2>1, EnterRefines DEF Connected
  <2>2. CASE ConnectRaised(b)
    BY <2>2, AbortRefines DEF ConnectRaised, EndWith
  <2>3. CASE Join(b)
    BY <2>3, StaysInPhase DEF Join, L!vars, Places
  <2>4. CASE Disconnect(b)
    BY <2>4, AskRefines
  <2>5. CASE Leave(b)
    BY <2>5, ExitRefines DEF Leave, EndWith
  <2> QED BY <1>2, <2>1, <2>2, <2>3, <2>4, <2>5 DEF MainStep
<1>3. ASSUME NEW b \in Blocks, LoopStep(b) PROVE [L!Next]_L!vars
  BY <1>3, PlacesStay DEF LoopStep, StopLoop, Ping, PingDone
<1>4. CASE \/ \E t \in Threads : Attempt(t)
           \/ Arrival \/ Terminated \/ UNCHANGED vars
  BY <1>4, PlacesStay DEF Attempt, Arrival, Terminated, vars, sessionVars
<1> QED BY <1>1, <1>2, <1>3, <1>4 DEF Next

\* async_ssh_session keeps the promise of SessionLifecycle whatever await a cancellation
\* of the main task strikes.
THEOREM AsyncSshSessionImplementsLifecycle == Spec => ImplementsLifecycle
<1>1. IInv /\ [Next]_vars => [L!Next]_L!vars
  BY StepRefines
<1> QED
  BY <1>1, InitRefines, Invariance, PTL DEF Spec, ImplementsLifecycle, L!Spec
=============================================================================
