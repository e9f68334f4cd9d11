--------------------------- MODULE SessionService ---------------------------
(***************************************************************************)
(* The three calls a session helper makes on client.file_manager or        *)
(* client.docker (connect, keepalive, disconnect) and the server that      *)
(* holds the sessions.  A call is what Delivery promises of it: attempts   *)
(* are retried on connection failures, a lost attempt may still be         *)
(* executed later, and success means executed.  All three are POSTs, so an *)
(* answer is never retried.  The server is external.                       *)
(***************************************************************************)
EXTENDS Naturals

CONSTANTS Blocks,      \* the `with` blocks; each has a session id of its own
          MaxRetries   \* max_network_retries of the client

ASSUME SessionAssumption == MaxRetries \in Nat

VARIABLES call,      \* the call each thread or task is making, or made last
          abandoned, \* connect and disconnect attempts given up without an answer
          late,      \* those of them that may still reach the server
          open       \* blocks whose session is open on the server

serviceVars == <<call, abandoned, late, open>>

\* The two threads (tasks) of a block.
Main(b) == <<b, "main">>
Keeper(b) == <<b, "keepalive">>
Threads == Blocks \X {"main", "keepalive"}

Ops == {"connect", "keepalive", "disconnect"}

\* The attempts that can change the set of open sessions.
Attempts == Blocks \X {"connect", "disconnect"} \X (0 .. MaxRetries)

NoCall == [op |-> "none", tries |-> 0, at |-> "ok"]
Calls == [op : Ops, tries : 0 .. MaxRetries, at : {"sent", "ok", "error"}] \cup {NoCall}

ServiceInit ==
  /\ call = [t \in Threads |-> NoCall]
  /\ abandoned = {}
  /\ late = {}
  /\ open = {}

ServiceTypeOK ==
  /\ call \in [Threads -> Calls]
  /\ abandoned \subseteq Attempts
  /\ late \subseteq abandoned
  /\ open \subseteq Blocks

InCall(t) == call[t].at = "sent"

\* The thread starts a call: its first attempt is sent.
StartCall(t, op) ==
  /\ call' = [call EXCEPT ![t] = [op |-> op, tries |-> 0, at |-> "sent"]]
  /\ UNCHANGED <<abandoned, late, open>>

-----------------------------------------------------------------------------
\* What executing an operation may do to the set of open sessions.  connect can
\* answer 200 without a session (auth_required, requires_totp, ...), and connect and
\* disconnect can each fail before or after their effect.
Effects(b, op) ==
  {open} \cup (IF op = "connect" THEN {open \cup {b}} ELSE {})
         \cup (IF op = "disconnect" THEN {open \ {b}} ELSE {})

\* The server answers the current attempt.  A 2xx to disconnect means the session is
\* gone; keepalive answers 400 when there is none.
Answer(t) ==
  LET b == t[1]
      op == call[t].op
  IN /\ InCall(t)
     /\ open' \in Effects(b, op)
     /\ \E result \in {"ok", "error"} :
          /\ result = "ok" /\ op = "disconnect" => b \notin open'
          /\ result = "ok" /\ op = "keepalive" => b \in open
          /\ call' = [call EXCEPT ![t].at = result]
     /\ UNCHANGED <<abandoned, late>>

\* The current attempt is given up without an answer, as the call goes on to become
\* `next`; the attempt may still get through.
GiveUp(t, next) ==
  LET attempt == <<t[1], call[t].op, call[t].tries>>
  IN /\ InCall(t)
     /\ call' = [call EXCEPT ![t] = next]
     /\ abandoned' = abandoned \cup ({attempt} \cap Attempts)
     /\ late' \in {late, late \cup ({attempt} \cap Attempts)}
     /\ UNCHANGED open

\* Faulty variant of LoseAttempt: `num_retries <= max_retries`.
LoseAttemptOffByOne(t) ==
  GiveUp(t, IF call[t].tries <= MaxRetries THEN [call[t] EXCEPT !.tries = @ + 1]
                                           ELSE [call[t] EXCEPT !.at = "error"])

\* The connection of the current attempt fails: the call is retried, or raises.
LoseAttempt(t) ==
  GiveUp(t, IF call[t].tries < MaxRetries THEN [call[t] EXCEPT !.tries = @ + 1]
                                          ELSE [call[t] EXCEPT !.at = "error"])

\* The calling thread is interrupted, or its task cancelled, in the call.
AbandonCall(t) == GiveUp(t, [call[t] EXCEPT !.at = "error"])

\* An attempt that was given up is executed after all.
LateArrival(a) ==
  /\ a \in late
  /\ late' = late \ {a}
  /\ open' \in Effects(a[1], a[2])
  /\ UNCHANGED <<call, abandoned>>
=============================================================================
