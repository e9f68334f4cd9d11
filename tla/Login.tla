-------------------------------- MODULE Login -------------------------------
(***************************************************************************)
(* From a password to clients (_auth.py, _client.py): login, the second    *)
(* factor, and the clients that come of it.  They all share one requestor, *)
(* whose options each successful exchange replaces.  Several threads may   *)
(* call verify() on the same PendingTOTP, and each may do so again.        *)
(*                                                                         *)
(* An exchange is a POST that the transport sends again when an attempt is *)
(* lost (HttpClient); the server may carry out an attempt that was given   *)
(* up.  A token is named after the attempt that the server issued it for.  *)
(***************************************************************************)
EXTENDS ClientOptions, Naturals, Sequences, FiniteSets

CONSTANTS
  Callers,        \* threads of the program
  MaxExchanges,   \* how often each of them tries
  MaxRetries,     \* max_network_retries
  DefaultHeaders  \* what the program may give as default_headers

ASSUME LoginAssumption == MaxExchanges \in Nat \ {0} /\ MaxRetries \in Nat

VARIABLES
  default_headers, \* what it gave
  totp,            \* whether the account has a second factor
  singleUse,       \* whether the server accepts a temp_token for one verification only
  flow,            \* what became of the construction or the login
  options,         \* requestor._options
  open,            \* whether the requestor's httpx client is open
  pending,         \* PendingTOTP.temp_token
  exchange,        \* the POST each caller is in
  tries,           \* how many exchanges each caller began
  answer,          \* the answer to its current attempt
  client,          \* the options of the client each caller was given
  wire,            \* attempts the server has not seen yet
  issued,          \* tokens the server issued
  spent,           \* temp_tokens that were verified
  lost,            \* attempts that were given up
  installs         \* the tokens that became the requestor's, in order

serverVars == <<totp, singleUse, wire, issued, spent>>
clientVars == <<default_headers, flow, options, open, pending, exchange, tries, answer,
                client, lost, installs>>
vars == <<serverVars, clientVars>>

NoOptions == anonymous(NoHeaders)
NoExchange == [kind |-> "none"]
NoAnswer == [outcome |-> "none"]
Attempts == Callers \X (1..MaxExchanges) \X (1..MaxRetries + 1)

Init ==
  /\ default_headers \in DefaultHeaders
  /\ totp \in BOOLEAN /\ singleUse \in BOOLEAN
  /\ flow = "idle"
  /\ options = NoOptions /\ open = FALSE /\ pending = NoCredential
  /\ exchange = [p \in Callers |-> NoExchange]
  /\ tries = [p \in Callers |-> 0]
  /\ answer = [p \in Callers |-> NoAnswer]
  /\ client = [p \in Callers |-> NoOptions]
  /\ wire = {} /\ issued = {} /\ spent = {} /\ lost = {} /\ installs = <<>>

-----------------------------------------------------------------------------
(***************************************************************************)
(* Exchanges.                                                              *)
(***************************************************************************)
AttemptOf(p, x) == <<p, x.serial, x.n>>

\* The n-th attempt of exchange x goes on the wire.
Post(p, x) ==
  /\ exchange' = [exchange EXCEPT ![p] = x]
  /\ wire' = wire \cup {[id |-> AttemptOf(p, x), kind |-> x.kind, temp |-> x.temp,
                         headers |-> x.headers]}

EndExchange(p) ==
  /\ exchange' = [exchange EXCEPT ![p] = NoExchange]
  /\ answer' = [answer EXCEPT ![p] = NoAnswer]

StartExchange(p, kind, opts, temp) ==
  /\ tries' = [tries EXCEPT ![p] = @ + 1]
  /\ Post(p, [kind |-> kind, serial |-> tries[p] + 1, n |-> 1, temp |-> temp,
              headers |-> headers(opts, NoHeaders)])

\* TermixClient(api_key=..., jwt=...)
Construct(p, api_key, jwt) ==
  /\ flow = "idle"
  /\ IF CanConstruct(api_key, jwt, FALSE)
     THEN /\ flow' = "direct" /\ open' = TRUE
          /\ options' = Options(api_key, jwt, default_headers)
          /\ client' = [client EXCEPT ![p] = options']
          /\ installs' = <<bearer_token(options')>>
     ELSE flow' = "invalid" /\ UNCHANGED <<options, open, client, installs>>
  /\ UNCHANGED <<serverVars, default_headers, pending, exchange, tries, answer, lost>>

\* login(): an anonymous requestor, and a POST to /users/login.
StartLogin(p) ==
  /\ flow = "idle"
  /\ flow' = "login" /\ open' = TRUE
  /\ options' = anonymous(merge_native_headers(default_headers))
  /\ StartExchange(p, "login", options', NoCredential)
  /\ UNCHANGED <<totp, singleUse, issued, spent, default_headers, pending, answer, client, lost, installs>>

\* PendingTOTP.verify(): a POST to /users/totp/verify-login through the same requestor.
StartVerify(p) ==
  /\ flow = "pending" /\ exchange[p] = NoExchange
  /\ client[p] = NoOptions /\ tries[p] < MaxExchanges
  /\ open
  /\ StartExchange(p, "verify", options, pending)
  /\ UNCHANGED <<totp, singleUse, issued, spent, default_headers, flow, options, open,
                 pending, answer, client, lost, installs>>

-----------------------------------------------------------------------------
(***************************************************************************)
(* The network and the server (external).                                  *)
(***************************************************************************)
Reply(a, r) ==
  LET p == a.id[1]
  IN  answer' = IF exchange[p] # NoExchange /\ AttemptOf(p, exchange[p]) = a.id
                THEN [answer EXCEPT ![p] = r] ELSE answer

\* The token is in the body for a native app; otherwise it is a cookie.
IsNative(a) ==
  "X-Electron-App" \in DOMAIN a.headers /\ a.headers["X-Electron-App"] = "true"

Grant(a) ==
  /\ issued' = issued \cup {a.id}
  /\ Reply(a, [outcome |-> IF IsNative(a) THEN "token" ELSE "cookie", token |-> a.id])

Refuse(a) == issued' = issued /\ Reply(a, [outcome |-> "refused"])

ServeLogin(a) ==
  /\ a.kind = "login"
  /\ \/ ~totp /\ Grant(a)
     \/ totp /\ issued' = issued /\ Reply(a, [outcome |-> "totp", temp |-> a.id])
     \/ Refuse(a)
  /\ spent' = spent

ServeVerify(a) ==
  /\ a.kind = "verify"
  /\ \/ /\ ~(singleUse /\ a.temp \in spent)
        /\ Grant(a) /\ spent' = spent \cup {a.temp}
     \/ Refuse(a) /\ spent' = spent

Serve ==
  \E a \in wire :
    /\ wire' = wire \ {a}
    /\ ServeLogin(a) \/ ServeVerify(a)
    /\ UNCHANGED <<totp, singleUse, default_headers, flow, options, open, pending, exchange,
                   tries, client, lost, installs>>

-----------------------------------------------------------------------------
(***************************************************************************)
(* What the caller makes of it.                                            *)
(***************************************************************************)
\* An exchange that raises: a login is over for good, a verify() leaves the PendingTOTP
\* as it was.
Raise(p) ==
  /\ EndExchange(p)
  /\ flow' = IF exchange[p].kind = "login" THEN "raised" ELSE flow

\* Faulty variant of CanRetry: one attempt too many.
CanRetryOffByOne(x) == x.n <= MaxRetries + 1 /\ open

CanRetry(x) == x.n <= MaxRetries /\ open

\* Faulty variant of NextAttempt: retries are not counted.
NextAttemptUncounted(x) == x

NextAttempt(x) == [x EXCEPT !.n = @ + 1]

\* A connection failure: the next attempt, or APIConnectionError after the last, or the
\* RuntimeError of a closed httpx client.
LoseAttempt(p) ==
  /\ exchange[p] # NoExchange
  /\ lost' = lost \cup {AttemptOf(p, exchange[p])}
  /\ IF CanRetry(exchange[p])
     THEN /\ Post(p, NextAttempt(exchange[p]))
          /\ answer' = [answer EXCEPT ![p] = NoAnswer]
          /\ UNCHANGED flow
     ELSE Raise(p) /\ UNCHANGED wire
  /\ UNCHANGED <<totp, singleUse, issued, spent, default_headers, options, open, pending,
                 tries, client, installs>>

\* AuthenticationError, or the TermixError of _extract_token.
Fail(p) ==
  /\ answer[p].outcome \in {"refused", "cookie"}
  /\ Raise(p)
  /\ UNCHANGED <<serverVars, default_headers, options, open, pending, tries, client,
                 lost, installs>>

\* Faulty variant of RequireTotp: the temp_token is taken for a credential.
RequireTotpInstalled(p) ==
  /\ answer[p].outcome = "totp"
  /\ pending' = answer[p].temp
  /\ options' = with_jwt(options, answer[p].temp)
  /\ flow' = "pending"
  /\ EndExchange(p)
  /\ UNCHANGED <<serverVars, default_headers, open, tries, client, lost, installs>>

RequireTotp(p) ==
  /\ answer[p].outcome = "totp"
  /\ pending' = answer[p].temp
  /\ flow' = "pending"
  /\ EndExchange(p)
  /\ UNCHANGED <<serverVars, default_headers, options, open, tries, client, lost,
                 installs>>

\* Faulty variant of Succeed: the requestor keeps its options.
SucceedUninstalled(p) ==
  /\ answer[p].outcome = "token"
  /\ client' = [client EXCEPT ![p] = with_jwt(options, answer[p].token)]
  /\ installs' = Append(installs, answer[p].token)
  /\ flow' = IF flow = "login" THEN "client" ELSE flow
  /\ EndExchange(p)
  /\ UNCHANGED <<serverVars, default_headers, options, open, pending, tries, lost>>

\* Faulty variant of Succeed: the first credential of a requestor stays.
SucceedOnce(p) ==
  /\ answer[p].outcome = "token"
  /\ client' = [client EXCEPT ![p] = with_jwt(options, answer[p].token)]
  /\ options' = IF bearer_token(options) = NoCredential THEN client'[p] ELSE options
  /\ installs' = Append(installs, answer[p].token)
  /\ flow' = IF flow = "login" THEN "client" ELSE flow
  /\ EndExchange(p)
  /\ UNCHANGED <<serverVars, default_headers, open, pending, tries, lost>>

\* _extract_token, with_jwt, the requestor's new options, TermixClient._with_options.
Succeed(p) ==
  /\ answer[p].outcome = "token"
  /\ options' = with_jwt(options, answer[p].token)
  /\ client' = [client EXCEPT ![p] = options']
  /\ installs' = Append(installs, answer[p].token)
  /\ flow' = IF flow = "login" THEN "client" ELSE flow
  /\ EndExchange(p)
  /\ UNCHANGED <<serverVars, default_headers, open, pending, tries, lost>>

-----------------------------------------------------------------------------
(***************************************************************************)
(* The clients.                                                            *)
(***************************************************************************)
\* The headers of a call made through a client: those of the requestor, when it is made.
Says(impersonate_user) == headers(options, request_headers(impersonate_user))

\* client.close(): the httpx client of every client of this requestor.
Close(p) ==
  /\ client[p] # NoOptions
  /\ open' = FALSE
  /\ UNCHANGED <<serverVars, default_headers, flow, options, pending, exchange, tries,
                 answer, client, lost, installs>>

-----------------------------------------------------------------------------
Step(p) == LoseAttempt(p) \/ Fail(p) \/ RequireTotp(p) \/ Succeed(p)

Use(p) ==
  \/ StartLogin(p) \/ StartVerify(p) \/ Close(p)
  \/ \E k \in {NoCredential, <<"key">>}, j \in {NoCredential, <<"jwt">>} : Construct(p, k, j)

Terminated ==
  /\ flow # "idle"
  /\ \A p \in Callers : exchange[p] = NoExchange
  /\ UNCHANGED vars

Next == Serve \/ Terminated \/ \E p \in Callers : Step(p) \/ Use(p)

\* An attempt is answered or times out, and a caller goes on with what it was answered.
Fairness == \A p \in Callers : WF_vars(Step(p))

Spec == Init /\ [][Next]_vars /\ Fairness

-----------------------------------------------------------------------------
(***************************************************************************)
(* Properties.                                                             *)
(***************************************************************************)
\* Every variable has its type; no exchange sends more attempts than the limit.
TypeOK ==
  /\ flow \in {"idle", "direct", "invalid", "login", "pending", "client", "raised"}
  /\ issued \subseteq Attempts /\ lost \subseteq Attempts /\ spent \subseteq Attempts
  /\ \A p \in Callers :
       /\ tries[p] \in 0..MaxExchanges
       /\ exchange[p] # NoExchange =>
            /\ exchange[p].kind \in {"login", "verify"}
            /\ AttemptOf(p, exchange[p]) \in Attempts
       /\ answer[p] # NoAnswer => exchange[p] # NoExchange

Overrides(name) == name \in DOMAIN default_headers

Position(credential) == CHOOSE i \in DOMAIN installs : installs[i] = credential

\* A request made through a client carries the credential of that client, or that of an
\* exchange which ended later on the same requestor (verify() called again swaps it under
\* the first client); never none, never an older one.  Only default_headers stand above.
SpeaksAsItself ==
  \A p \in Callers, i \in BOOLEAN : client[p] # NoOptions =>
    IF Overrides("Authorization")
    THEN Says(i)["Authorization"] = default_headers["Authorization"]
    ELSE /\ "Authorization" \in DOMAIN Says(i)
         /\ Position(Says(i)["Authorization"]) >= Position(bearer_token(client[p]))

\* The requestor's credential changes only when an exchange takes a token from an answer,
\* and then it is the token of the client handed out; nothing that fails, ends late or is
\* given up touches it, and no step takes a client away or changes its options.
CredentialFollowsExchange ==
  [][flow # "idle" =>
       \/ options' = options /\ client' = client
       \/ \E p \in Callers :
            /\ answer[p].outcome = "token" /\ client[p] = NoOptions
            /\ bearer_token(options') = answer[p].token
            /\ client' = [client EXCEPT ![p] = options']]_vars

\* A token the server issued reaches a client.  It is lost with the attempt it was issued
\* for, or when default_headers made the server put it into a cookie.
TokenReachesClient ==
  \A t \in issued :
    \/ t \in lost
    \/ \E p \in Callers : answer[p] # NoAnswer /\ AttemptOf(p, exchange[p]) = t
    \/ \E p \in Callers : client[p].jwt = t
    \/ Overrides("X-Electron-App")

\* Before a token was taken the requestor speaks to nobody in anybody's name: the POSTs of
\* a login carry a credential only once another verify() has succeeded.
LoginSpeaksAnonymously ==
  \A p \in Callers :
    exchange[p] # NoExchange /\ "Authorization" \in DOMAIN exchange[p].headers =>
      Overrides("Authorization") \/ installs # <<>>

\* Every login and every verify() ends: with a client, a PendingTOTP or an exception.
ExchangeEnds == \A p \in Callers : exchange[p] # NoExchange ~> exchange[p] = NoExchange

=============================================================================
