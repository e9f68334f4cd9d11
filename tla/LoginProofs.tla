----------------------------- MODULE LoginProofs -----------------------------
(***************************************************************************)
(* Theorems about Login, for every set of callers, every number of         *)
(* exchanges and retries, and all default_headers.                         *)
(***************************************************************************)
EXTENDS Login, TLAPS

-----------------------------------------------------------------------------
(***************************************************************************)
(* The inductive invariant.                                                *)
(***************************************************************************)
Tokens == Attempts \cup {<<"key">>, <<"jwt">>}

\* The attempt that caller p waits for.
Current(p) == AttemptOf(p, exchange[p])

\* Before a construction or a login, and after one that was refused, there is nothing.
NothingYet ==
  flow \in {"idle", "invalid"} =>
    /\ installs = <<>>
    /\ \A p \in Callers : client[p] = NoOptions

NoExchangeYet ==
  flow \in {"idle", "invalid", "direct"} => \A p \in Callers : exchange[p] = NoExchange

NoTriesYet == flow = "idle" => \A p \in Callers : tries[p] = 0

\* The values of the variables, as far as the properties depend on them.
Shape ==
  /\ flow \in {"idle", "direct", "invalid", "login", "pending", "client", "raised"}
  /\ tries \in [Callers -> 0..MaxExchanges]
  /\ DOMAIN exchange = Callers /\ DOMAIN answer = Callers /\ DOMAIN client = Callers
  /\ installs \in Seq(Tokens)
  /\ issued \subseteq Attempts /\ lost \subseteq Attempts /\ spent \subseteq Attempts
  /\ flow = "pending" => pending \in Attempts

\* Headers that ask for the token in the body, unless the program overrides them.
AsksForBody(h) ==
  Overrides("X-Electron-App") \/ ("X-Electron-App" \in DOMAIN h /\ h["X-Electron-App"] = "true")

\* An exchange is the latest of its caller, who has no client yet.
ExchangesInOrder ==
  \A p \in Callers : exchange[p] # NoExchange =>
    /\ exchange[p].kind \in {"login", "verify"}
    /\ exchange[p].serial = tries[p] /\ exchange[p].serial \in 1..MaxExchanges
    /\ exchange[p].n \in 1..MaxRetries + 1
    /\ exchange[p].kind = "verify" => exchange[p].temp \in Attempts
    /\ client[p] = NoOptions
    /\ AsksForBody(exchange[p].headers)

\* An attempt of the past or the present.
Reached(id) ==
  /\ id[2] <= tries[id[1]]
  /\ exchange[id[1]] # NoExchange /\ id[2] = exchange[id[1]].serial =>
       id[3] <= exchange[id[1]].n

\* An attempt on the wire has not been served, and was given up if it is not current.
OnTheWire ==
  \A a \in wire :
    /\ a.id \in Attempts /\ Reached(a.id) /\ a.id \notin issued
    /\ a.kind \in {"login", "verify"}
    /\ a.kind = "verify" => a.temp \in Attempts
    /\ AsksForBody(a.headers)
    /\ a.id \in lost \/ (exchange[a.id[1]] # NoExchange /\ Current(a.id[1]) = a.id)

WireOnce == \A a, b \in wire : a.id = b.id => a = b

IssuedReached == \A t \in issued : Reached(t)

\* An answer is that to the current attempt, which is off the wire.
AnswersAreCurrent ==
  \A p \in Callers : answer[p] # NoAnswer =>
    /\ exchange[p] # NoExchange
    /\ \A a \in wire : a.id # Current(p)
    /\ \/ /\ answer[p].outcome \in {"token", "cookie"}
          /\ answer[p].token = Current(p)
          /\ answer[p].outcome = "cookie" => Overrides("X-Electron-App")
       \/ /\ answer[p].outcome = "totp"
          /\ answer[p].temp \in Attempts
          /\ Current(p) \notin issued
       \/ answer[p].outcome = "refused" /\ Current(p) \notin issued

\* The options of the requestor: the program's headers, and the last credential.
RequestorOptions ==
  flow \notin {"idle", "invalid"} =>
    /\ "Authorization" \in DOMAIN options.default_headers <=> Overrides("Authorization")
    /\ Overrides("Authorization") =>
         options.default_headers["Authorization"] = default_headers["Authorization"]
    /\ flow # "direct" => AsksForBody(options.default_headers)
    /\ installs = <<>> => bearer_token(options) = NoCredential
    /\ installs # <<>> => /\ bearer_token(options) = installs[Len(installs)]
                          /\ bearer_token(options) # NoCredential

\* Each token was installed once, for a caller that is given no other.
InstalledOnce ==
  /\ \A i, j \in DOMAIN installs : installs[i] = installs[j] => i = j
  /\ flow # "direct" =>
       \A i \in DOMAIN installs : installs[i] \in Attempts /\ client[installs[i][1]] # NoOptions

ClientsInstalled ==
  \A p \in Callers : client[p] # NoOptions =>
    \E i \in DOMAIN installs : installs[i] = bearer_token(client[p])

IInv ==
  /\ Shape
  /\ NothingYet /\ NoExchangeYet /\ NoTriesYet
  /\ ExchangesInOrder
  /\ OnTheWire /\ WireOnce /\ IssuedReached
  /\ AnswersAreCurrent
  /\ RequestorOptions /\ InstalledOnce /\ ClientsInstalled
  /\ LoginSpeaksAnonymously /\ TokenReachesClient

-----------------------------------------------------------------------------
(***************************************************************************)
(* Headers and attempts.                                                   *)
(***************************************************************************)
\* The credential is sent unless a header of the program stands in its place.
LEMMA AuthorizationSent ==
  ASSUME NEW o, NEW per, "Authorization" \notin DOMAIN per
  PROVE  /\ "Authorization" \in DOMAIN headers(o, per) <=>
              \/ "Authorization" \in DOMAIN o.default_headers
              \/ bearer_token(o) # NoCredential
         /\ "Authorization" \in DOMAIN o.default_headers =>
              headers(o, per)["Authorization"] = o.default_headers["Authorization"]
         /\ "Authorization" \notin DOMAIN o.default_headers /\ bearer_token(o) # NoCredential =>
              headers(o, per)["Authorization"] = bearer_token(o)
BY DEF headers, Over, Header, NoHeaders

\* The header of impersonation is not the credential.
LEMMA ImpersonationIsNoCredential ==
  ASSUME NEW i \in BOOLEAN
  PROVE  "Authorization" \notin DOMAIN request_headers(i)
BY DEF request_headers, Header, NoHeaders

\* A request asks for the token in the body if the options do.
LEMMA BodyAskedFor ==
  ASSUME NEW o, AsksForBody(o.default_headers)
  PROVE  AsksForBody(headers(o, NoHeaders))
BY DEF AsksForBody, headers, Over, Header, NoHeaders

\* What login() adds to the program's headers.
LEMMA NativeHeaders ==
  LET h == merge_native_headers(default_headers)
  IN  /\ AsksForBody(h)
      /\ "Authorization" \in DOMAIN h <=> Overrides("Authorization")
      /\ Overrides("Authorization") => h["Authorization"] = default_headers["Authorization"]
BY DEF merge_native_headers, NATIVE_APP_HEADERS, AsksForBody, Overrides, Over, Header

\* What an attempt is made of.
LEMMA AttemptParts ==
  ASSUME NEW id \in Attempts
  PROVE  /\ id[1] \in Callers /\ id[2] \in 1..MaxExchanges /\ id[3] \in 1..MaxRetries + 1
         /\ id = <<id[1], id[2], id[3]>>
         /\ id # NoCredential
BY DEF Attempts, NoCredential

\* The attempt a caller waits for is one of the model's.
LEMMA AttemptMade ==
  ASSUME NEW p \in Callers, NEW x, x.serial \in 1..MaxExchanges, x.n \in 1..MaxRetries + 1
  PROVE  /\ AttemptOf(p, x) \in Attempts
         /\ AttemptOf(p, x)[1] = p
         /\ AttemptOf(p, x)[2] = x.serial
         /\ AttemptOf(p, x)[3] = x.n
BY DEF AttemptOf, Attempts

-----------------------------------------------------------------------------
(***************************************************************************)
(* An attempt goes on the wire, or an exchange ends: what that does to the *)
(* exchanges, the attempts and the answers.                                *)
(***************************************************************************)
Traffic ==
  ExchangesInOrder /\ OnTheWire /\ WireOnce /\ IssuedReached /\ AnswersAreCurrent

\* The first attempt of the next exchange of p, or the next attempt of its present one.
NewAttempt(p, x) ==
  \/ /\ exchange[p] = NoExchange
     /\ x.serial = tries[p] + 1 /\ x.n = 1
     /\ tries' = [tries EXCEPT ![p] = x.serial] /\ lost' = lost
  \/ /\ exchange[p] # NoExchange
     /\ x.serial = exchange[p].serial /\ x.n = exchange[p].n + 1
     /\ tries' = tries /\ lost' = lost \cup {Current(p)}

\* An attempt that is put on the wire, the first of an exchange or the next.
LEMMA Posted ==
  ASSUME IInv, NEW p \in Callers, NEW x, Post(p, x), NewAttempt(p, x),
         x.kind \in {"login", "verify"},
         x.serial \in 1..MaxExchanges, x.n \in 1..MaxRetries + 1,
         x.kind = "verify" => x.temp \in Attempts,
         AsksForBody(x.headers),
         client[p] = NoOptions, client' = client,
         issued' = issued, default_headers' = default_headers,
         answer'[p] = NoAnswer, \A q \in Callers \ {p} : answer'[q] = answer[q]
  PROVE  Traffic'
<1> USE LoginAssumption
<1> DEFINE id == AttemptOf(p, x)
<1>1. /\ DOMAIN exchange = Callers /\ DOMAIN answer = Callers
      /\ tries \in [Callers -> 0..MaxExchanges]
      /\ ExchangesInOrder /\ OnTheWire /\ WireOnce /\ IssuedReached /\ AnswersAreCurrent
      /\ issued \subseteq Attempts
  BY DEF IInv, Shape
<1>2. /\ exchange' = [exchange EXCEPT ![p] = x]
      /\ wire' = wire \cup {[id |-> id, kind |-> x.kind, temp |-> x.temp, headers |-> x.headers]}
  BY DEF Post
<1>3. exchange'[p] = x /\ \A q \in Callers \ {p} : exchange'[q] = exchange[q]
  BY <1>1, <1>2
<1>4. x # NoExchange
  BY DEF NoExchange
<1>5. id \in Attempts /\ id[1] = p /\ id[2] = x.serial /\ id[3] = x.n
  BY AttemptMade
<1>6. tries'[p] = x.serial /\ \A q \in Callers \ {p} : tries'[q] = tries[q]
  BY <1>1 DEF NewAttempt, ExchangesInOrder
<1>7. \A i \in Attempts : Reached(i) => i # id /\ Reached(i)'
  <2> SUFFICES ASSUME NEW i \in Attempts, Reached(i)
               PROVE  i # id /\ Reached(i)'
    OBVIOUS
  <2>1. i[1] \in Callers /\ i[2] \in Nat /\ i[3] \in Nat
    BY AttemptParts
  <2>2. CASE i[1] # p
    BY <2>1, <2>2, <1>3, <1>5, <1>6 DEF Reached
  <2>3. CASE i[1] = p /\ exchange[p] = NoExchange
    <3>1. i[2] <= tries[p] /\ x.serial = tries[p] + 1
      BY <2>3 DEF Reached, NewAttempt
    <3> QED BY <3>1, <2>1, <2>3, <1>1, <1>3, <1>5, <1>6 DEF Reached
  <2>4. CASE i[1] = p /\ exchange[p] # NoExchange
    <3>1. /\ i[2] <= tries[p] /\ x.serial = tries[p] /\ x.n = exchange[p].n + 1
          /\ i[2] = x.serial => i[3] <= exchange[p].n
          /\ exchange[p].n \in Nat
      BY <2>4, <1>1 DEF Reached, NewAttempt, ExchangesInOrder
    <3> QED BY <3>1, <2>1, <2>4, <1>1, <1>3, <1>5, <1>6 DEF Reached
  <2> QED BY <2>2, <2>3, <2>4
<1>8. Reached(id)'
  BY <1>3, <1>5, <1>6 DEF Reached
<1>9. ExchangesInOrder'
  BY <1>1, <1>3, <1>6 DEF ExchangesInOrder, AsksForBody, Overrides
<1>10. OnTheWire'
  <2> SUFFICES ASSUME NEW a \in wire'
               PROVE  /\ a.id \in Attempts /\ Reached(a.id)' /\ a.id \notin issued'
                      /\ a.kind \in {"login", "verify"}
                      /\ a.kind = "verify" => a.temp \in Attempts
                      /\ AsksForBody(a.headers)'
                      /\ \/ a.id \in lost'
                         \/ exchange'[a.id[1]] # NoExchange /\ Current(a.id[1])' = a.id
    BY DEF OnTheWire
  <2>1. CASE a \in wire
    <3>1. /\ a.id \in Attempts /\ Reached(a.id)' /\ a.id \notin issued'
          /\ a.kind \in {"login", "verify"}
          /\ a.kind = "verify" => a.temp \in Attempts
          /\ AsksForBody(a.headers)'
      BY <2>1, <1>1, <1>7 DEF OnTheWire, AsksForBody, Overrides
    <3>2. lost \subseteq lost'
      BY DEF NewAttempt
    <3>3. CASE a.id \in lost
      BY <3>1, <3>2, <3>3
    <3>4. CASE exchange[a.id[1]] # NoExchange /\ Current(a.id[1]) = a.id
      BY <3>1, <3>4, <1>3, AttemptParts DEF Current, NewAttempt
    <3> QED BY <2>1, <3>3, <3>4, <1>1 DEF OnTheWire
  <2>2. CASE a = [id |-> id, kind |-> x.kind, temp |-> x.temp, headers |-> x.headers]
    <3>1. id \notin issued
      BY <1>1, <1>7, <1>5 DEF IssuedReached
    <3> QED BY <2>2, <3>1, <1>3, <1>4, <1>5, <1>8 DEF Current, AsksForBody, Overrides
  <2> QED BY <2>1, <2>2, <1>2
<1>11. WireOnce'
  BY <1>1, <1>2, <1>5, <1>7 DEF WireOnce, OnTheWire
<1>12. IssuedReached'
  BY <1>1, <1>7 DEF IssuedReached
<1>13. AnswersAreCurrent'
  <2> SUFFICES ASSUME NEW q \in Callers, answer'[q] # NoAnswer
               PROVE  /\ exchange'[q] # NoExchange
                      /\ \A a \in wire' : a.id # Current(q)'
                      /\ \/ /\ answer'[q].outcome \in {"token", "cookie"}
                            /\ answer'[q].token = Current(q)'
                            /\ answer'[q].outcome = "cookie" => Overrides("X-Electron-App")'
                         \/ /\ answer'[q].outcome = "totp"
                            /\ answer'[q].temp \in Attempts
                            /\ Current(q)' \notin issued'
                         \/ answer'[q].outcome = "refused" /\ Current(q)' \notin issued'
    BY DEF AnswersAreCurrent
  <2>1. q # p /\ answer'[q] = answer[q] /\ Current(q)' = Current(q)
    BY <1>1, <1>3 DEF Current
  <2>2. Current(q) # id
    BY <2>1, <1>5 DEF Current, AttemptOf
  <2> QED BY <2>1, <2>2, <1>1, <1>2, <1>3 DEF AnswersAreCurrent, Overrides
<1> QED BY <1>9, <1>10, <1>11, <1>12, <1>13 DEF Traffic

\* The exchange of p ends, with an answer or with its last attempt given up.
LEMMA Ended ==
  ASSUME IInv, NEW p \in Callers, EndExchange(p),
         \/ lost' = lost /\ answer[p] # NoAnswer
         \/ lost' = lost \cup {Current(p)},
         \A q \in Callers \ {p} : client'[q] = client[q],
         UNCHANGED <<default_headers, tries, issued, wire>>
  PROVE  Traffic'
<1>1. /\ DOMAIN exchange = Callers /\ DOMAIN answer = Callers
      /\ ExchangesInOrder /\ OnTheWire /\ WireOnce /\ IssuedReached /\ AnswersAreCurrent
      /\ issued \subseteq Attempts
  BY DEF IInv, Shape
<1>2. /\ exchange'[p] = NoExchange /\ \A q \in Callers \ {p} : exchange'[q] = exchange[q]
      /\ answer'[p] = NoAnswer /\ \A q \in Callers \ {p} : answer'[q] = answer[q]
  BY <1>1 DEF EndExchange
<1>3. ExchangesInOrder'
  BY <1>1, <1>2 DEF ExchangesInOrder, AsksForBody, Overrides
<1>4. \A i \in Attempts : Reached(i) => Reached(i)'
  BY <1>2, AttemptParts DEF Reached
<1>5. OnTheWire'
  <2> SUFFICES ASSUME NEW a \in wire
               PROVE  /\ a.id \in Attempts /\ Reached(a.id)' /\ a.id \notin issued'
                      /\ a.kind \in {"login", "verify"}
                      /\ a.kind = "verify" => a.temp \in Attempts
                      /\ AsksForBody(a.headers)'
                      /\ \/ a.id \in lost'
                         \/ exchange'[a.id[1]] # NoExchange /\ Current(a.id[1])' = a.id
    BY DEF OnTheWire
  <2>1. /\ a.id \in Attempts /\ Reached(a.id)' /\ a.id \notin issued'
        /\ a.kind \in {"login", "verify"}
        /\ a.kind = "verify" => a.temp \in Attempts
        /\ AsksForBody(a.headers)'
    BY <1>1, <1>4 DEF OnTheWire, AsksForBody, Overrides
  <2>2. CASE a.id \in lost
    BY <2>1, <2>2
  <2>3. CASE exchange[a.id[1]] # NoExchange /\ Current(a.id[1]) = a.id
    <3>1. CASE a.id[1] = p
      <4>1. a.id = Current(p)
        BY <2>3, <3>1
      <4>2. answer[p] = NoAnswer
        BY <4>1, <1>1 DEF AnswersAreCurrent
      <4> QED BY <2>1, <4>1, <4>2
    <3>2. CASE a.id[1] # p
      BY <2>1, <2>3, <3>2, <1>2, AttemptParts DEF Current
    <3> QED BY <3>1, <3>2
  <2> QED BY <2>2, <2>3, <1>1 DEF OnTheWire
<1>6. WireOnce' /\ IssuedReached'
  BY <1>1, <1>4 DEF WireOnce, IssuedReached
<1>7. AnswersAreCurrent'
  <2> SUFFICES ASSUME NEW q \in Callers, answer'[q] # NoAnswer
               PROVE  /\ exchange'[q] # NoExchange
                      /\ \A a \in wire' : a.id # Current(q)'
                      /\ \/ /\ answer'[q].outcome \in {"token", "cookie"}
                            /\ answer'[q].token = Current(q)'
                            /\ answer'[q].outcome = "cookie" => Overrides("X-Electron-App")'
                         \/ /\ answer'[q].outcome = "totp"
                            /\ answer'[q].temp \in Attempts
                            /\ Current(q)' \notin issued'
                         \/ answer'[q].outcome = "refused" /\ Current(q)' \notin issued'
    BY DEF AnswersAreCurrent
  <2>1. q # p /\ answer'[q] = answer[q] /\ Current(q)' = Current(q)
    BY <1>2 DEF Current
  <2> QED BY <2>1, <1>1, <1>2 DEF AnswersAreCurrent, Overrides
<1> QED BY <1>3, <1>5, <1>6, <1>7 DEF Traffic

-----------------------------------------------------------------------------
(***************************************************************************)
(* Every action preserves the inductive invariant.                         *)
(***************************************************************************)
\* Initially there are no options and nobody waits.
LEMMA InitEstablishes == Init => IInv
<1> SUFFICES ASSUME Init PROVE IInv
  OBVIOUS
<1> USE LoginAssumption DEF Init
<1>1. Shape
  BY DEF Shape
<1>2. NothingYet /\ NoExchangeYet /\ NoTriesYet
  BY DEF NothingYet, NoExchangeYet, NoTriesYet
<1>3. ExchangesInOrder /\ OnTheWire /\ WireOnce /\ IssuedReached /\ AnswersAreCurrent
  BY DEF ExchangesInOrder, OnTheWire, WireOnce, IssuedReached, AnswersAreCurrent
<1>4. RequestorOptions /\ InstalledOnce /\ ClientsInstalled
  BY DEF RequestorOptions, InstalledOnce, ClientsInstalled
<1>5. LoginSpeaksAnonymously /\ TokenReachesClient
  BY DEF LoginSpeaksAnonymously, TokenReachesClient
<1> QED BY <1>1, <1>2, <1>3, <1>4, <1>5 DEF IInv

\* Options with exactly one credential are no empty options, and have a bearer token.
LEMMA OneCredential ==
  ASSUME NEW k \in {NoCredential, <<"key">>}, NEW j \in {NoCredential, <<"jwt">>}, NEW h,
         CanConstruct(k, j, FALSE)
  PROVE  /\ bearer_token(Options(k, j, h)) \in Tokens
         /\ bearer_token(Options(k, j, h)) # NoCredential
         /\ Options(k, j, h).default_headers = h
<1>1. <<"key">> # NoCredential /\ <<"jwt">> # NoCredential
  BY DEF NoCredential
<1> QED BY <1>1 DEF CanConstruct, bearer_token, Options, Tokens

\* A client is constructed, or the construction raises.
LEMMA ConstructStep ==
  ASSUME IInv, NEW p \in Callers,
         NEW k \in {NoCredential, <<"key">>}, NEW j \in {NoCredential, <<"jwt">>},
         Construct(p, k, j)
  PROVE  IInv'
<1> USE LoginAssumption DEF Construct, serverVars
<1> DEFINE o == Options(k, j, default_headers)
<1>1. /\ flow = "idle" /\ Shape /\ NothingYet /\ NoExchangeYet
      /\ ExchangesInOrder /\ OnTheWire /\ WireOnce /\ IssuedReached /\ AnswersAreCurrent
      /\ LoginSpeaksAnonymously /\ TokenReachesClient
  BY DEF IInv
<1>2. installs = <<>> /\ \A q \in Callers : client[q] = NoOptions /\ exchange[q] = NoExchange
  BY <1>1 DEF NothingYet, NoExchangeYet
<1>3. Traffic'
  BY <1>1, <1>2 DEF Traffic, ExchangesInOrder, OnTheWire, WireOnce, IssuedReached,
     AnswersAreCurrent, Reached, Current, AsksForBody, Overrides
<1>4. LoginSpeaksAnonymously'
  BY <1>2 DEF LoginSpeaksAnonymously
<1>5. CASE CanConstruct(k, j, FALSE)
  <2>1. /\ flow' = "direct" /\ options' = o /\ client' = [client EXCEPT ![p] = o]
        /\ installs' = <<bearer_token(o)>>
    BY <1>5
  <2>2. bearer_token(o) \in Tokens /\ bearer_token(o) # NoCredential
        /\ o.default_headers = default_headers
    BY <1>5, OneCredential
  <2>3. Shape'
    BY <1>1, <2>1, <2>2 DEF Shape
  <2>4. NothingYet' /\ NoExchangeYet' /\ NoTriesYet'
    BY <1>2, <2>1 DEF NothingYet, NoExchangeYet, NoTriesYet
  <2>5. RequestorOptions'
    <3> HIDE DEF o
    <3> QED BY <2>1, <2>2 DEF RequestorOptions, Overrides
  <2>6. InstalledOnce'
    BY <2>1 DEF InstalledOnce
  <2>7. ClientsInstalled'
    <3> HIDE DEF o
    <3>1. DOMAIN client = Callers /\ client'[p] = o
          /\ \A q \in Callers \ {p} : client'[q] = NoOptions
      BY <1>1, <1>2, <2>1 DEF Shape
    <3>2. 1 \in DOMAIN installs' /\ installs'[1] = bearer_token(o)
      BY <2>1
    <3> QED BY <3>1, <3>2 DEF ClientsInstalled
  <2>8. TokenReachesClient'
    <3>1. \A t \in issued : \A q \in Callers : client[q].jwt # t
      BY <1>1, <1>2, AttemptParts DEF Shape, NoOptions, anonymous, Options
    <3> QED BY <1>1, <3>1 DEF TokenReachesClient, Overrides
  <2> QED BY <1>3, <1>4, <2>3, <2>4, <2>5, <2>6, <2>7, <2>8 DEF IInv, Traffic
<1>6. CASE ~CanConstruct(k, j, FALSE)
  <2>1. flow' = "invalid" /\ UNCHANGED <<options, client, installs>>
    BY <1>6
  <2>2. Shape'
    BY <1>1, <2>1 DEF Shape
  <2>3. NothingYet' /\ NoExchangeYet' /\ NoTriesYet'
    BY <1>2, <2>1 DEF NothingYet, NoExchangeYet, NoTriesYet
  <2>4. RequestorOptions' /\ InstalledOnce' /\ ClientsInstalled'
    BY <1>2, <2>1 DEF RequestorOptions, InstalledOnce, ClientsInstalled
  <2>5. TokenReachesClient'
    BY <1>1, <2>1 DEF TokenReachesClient, Overrides
  <2> QED BY <1>3, <1>4, <2>2, <2>3, <2>4, <2>5 DEF IInv, Traffic
<1> QED BY <1>5, <1>6

\* login() takes its options and sends its first attempt.
LEMMA StartLoginStep ==
  ASSUME IInv, NEW p \in Callers, StartLogin(p)
  PROVE  IInv'
<1> USE LoginAssumption DEF StartLogin
<1> DEFINE h == headers(options', NoHeaders)
           x == [kind |-> "login", serial |-> tries[p] + 1, n |-> 1, temp |-> NoCredential,
                 headers |-> h]
<1>1. /\ flow = "idle" /\ flow' = "login" /\ Shape /\ NothingYet /\ NoExchangeYet /\ NoTriesYet
      /\ ExchangesInOrder /\ OnTheWire /\ WireOnce /\ IssuedReached /\ AnswersAreCurrent
      /\ InstalledOnce /\ LoginSpeaksAnonymously /\ TokenReachesClient
  BY DEF IInv
<1>2. /\ installs = <<>> /\ tries[p] = 0
      /\ \A q \in Callers : client[q] = NoOptions /\ exchange[q] = NoExchange /\ answer[q] = NoAnswer
  BY <1>1 DEF NothingYet, NoExchangeYet, NoTriesYet, AnswersAreCurrent
<1>3. /\ options'.default_headers = merge_native_headers(default_headers)
      /\ bearer_token(options') = NoCredential
  BY DEF anonymous, Options, bearer_token, NoCredential
<1>4. AsksForBody(options'.default_headers) /\ AsksForBody(h)
  BY <1>3, NativeHeaders, BodyAskedFor
<1>5. Post(p, x) /\ tries' = [tries EXCEPT ![p] = 1]
  BY <1>2 DEF StartExchange
<1>6. Traffic'
  <2>1. NewAttempt(p, x)
    BY <1>2, <1>5 DEF NewAttempt
  <2>2. answer'[p] = NoAnswer /\ \A q \in Callers \ {p} : answer'[q] = answer[q]
    BY <1>2
  <2>3. /\ x.kind = "login" /\ x.serial = 1 /\ x.n = 1 /\ x.headers = h
    BY <1>2
  <2>4. x.serial \in 1..MaxExchanges /\ x.n \in 1..MaxRetries + 1
    BY <2>3
  <2> HIDE DEF x, h
  <2> QED BY <1>2, <1>4, <1>5, <2>1, <2>2, <2>3, <2>4, Posted
<1>7. exchange'[p] = x /\ DOMAIN exchange' = Callers
      /\ \A q \in Callers \ {p} : exchange'[q] = NoExchange
  BY <1>1, <1>2, <1>5 DEF Post, Shape
<1>8. Shape'
  BY <1>1, <1>5, <1>7 DEF Shape
<1>9. NothingYet' /\ NoExchangeYet' /\ NoTriesYet'
  BY <1>1 DEF NothingYet, NoExchangeYet, NoTriesYet
<1>10. RequestorOptions'
  BY <1>1, <1>2, <1>3, <1>4, NativeHeaders DEF RequestorOptions, Overrides, AsksForBody
<1>11. InstalledOnce' /\ ClientsInstalled'
  BY <1>1, <1>2 DEF InstalledOnce, ClientsInstalled
<1>12. LoginSpeaksAnonymously'
  <2>1. "Authorization" \in DOMAIN h => Overrides("Authorization")
    BY <1>3, AuthorizationSent, NativeHeaders DEF NoHeaders
  <2>2. exchange'[p].headers = h
    BY <1>7
  <2> HIDE DEF h, x
  <2> QED BY <1>7, <2>1, <2>2 DEF LoginSpeaksAnonymously, Overrides
<1>13. TokenReachesClient'
  BY <1>1, <1>2 DEF TokenReachesClient, Overrides
<1> QED BY <1>6, <1>8, <1>9, <1>10, <1>11, <1>12, <1>13 DEF IInv, Traffic

\* verify() sends its first attempt.
LEMMA StartVerifyStep ==
  ASSUME IInv, NEW p \in Callers, StartVerify(p)
  PROVE  IInv'
<1> USE LoginAssumption DEF StartVerify
<1> DEFINE h == headers(options, NoHeaders)
           x == [kind |-> "verify", serial |-> tries[p] + 1, n |-> 1, temp |-> pending,
                 headers |-> h]
<1>1. /\ flow = "pending" /\ flow' = "pending" /\ Shape
      /\ ExchangesInOrder /\ AnswersAreCurrent
      /\ RequestorOptions /\ InstalledOnce /\ ClientsInstalled
      /\ LoginSpeaksAnonymously /\ TokenReachesClient
  BY DEF IInv
<1>2. exchange[p] = NoExchange /\ client[p] = NoOptions /\ answer[p] = NoAnswer
      /\ tries[p] \in Nat /\ tries[p] < MaxExchanges
  BY <1>1 DEF AnswersAreCurrent, Shape
<1>3. AsksForBody(h)
  BY <1>1, BodyAskedFor DEF RequestorOptions
<1>4. Post(p, x) /\ tries' = [tries EXCEPT ![p] = tries[p] + 1]
  BY DEF StartExchange
<1>5. Traffic'
  <2>1. NewAttempt(p, x)
    BY <1>2, <1>4 DEF NewAttempt
  <2>2. answer'[p] = NoAnswer /\ \A q \in Callers \ {p} : answer'[q] = answer[q]
    BY <1>2
  <2>3. x.kind = "verify" /\ x.temp \in Attempts /\ x.headers = h
    BY <1>1 DEF Shape
  <2>4. x.serial \in 1..MaxExchanges /\ x.n \in 1..MaxRetries + 1
    BY <1>2
  <2> HIDE DEF x, h
  <2> QED BY <1>2, <1>3, <1>4, <2>1, <2>2, <2>3, <2>4, Posted
<1>6. exchange'[p] = x /\ DOMAIN exchange' = Callers
      /\ \A q \in Callers \ {p} : exchange'[q] = exchange[q]
  BY <1>1, <1>4 DEF Post, Shape
<1>7. Shape'
  BY <1>1, <1>2, <1>4, <1>6 DEF Shape
<1>8. NothingYet' /\ NoExchangeYet' /\ NoTriesYet'
  BY <1>1 DEF NothingYet, NoExchangeYet, NoTriesYet
<1>9. RequestorOptions' /\ InstalledOnce' /\ ClientsInstalled'
  BY <1>1 DEF RequestorOptions, InstalledOnce, ClientsInstalled, Overrides, AsksForBody
<1>10. LoginSpeaksAnonymously'
  <2>1. "Authorization" \in DOMAIN h => Overrides("Authorization") \/ installs # <<>>
    BY <1>1, AuthorizationSent DEF NoHeaders, RequestorOptions
  <2>2. exchange'[p].headers = h
    BY <1>6
  <2> HIDE DEF h, x
  <2> QED BY <1>1, <1>6, <2>1, <2>2 DEF LoginSpeaksAnonymously, Overrides
<1>11. TokenReachesClient'
  <2>1. \A q \in Callers : answer[q] # NoAnswer => q # p
    BY <1>2
  <2> QED BY <1>1, <1>6, <2>1 DEF TokenReachesClient, Overrides
<1> QED BY <1>5, <1>7, <1>8, <1>9, <1>10, <1>11 DEF IInv, Traffic

\* The next attempt, or the end of the exchange: the options and the clients stay.
LEMMA LoseAttemptStep ==
  ASSUME IInv, NEW p \in Callers, LoseAttempt(p)
  PROVE  IInv'
<1> USE LoginAssumption DEF LoseAttempt
<1>1. /\ Shape /\ NothingYet /\ NoExchangeYet /\ NoTriesYet
      /\ ExchangesInOrder /\ AnswersAreCurrent
      /\ RequestorOptions /\ InstalledOnce /\ ClientsInstalled
      /\ LoginSpeaksAnonymously /\ TokenReachesClient
  BY DEF IInv
<1>2. exchange[p] # NoExchange /\ Current(p) \in Attempts /\ client[p] = NoOptions
      /\ flow \notin {"idle", "invalid", "direct"}
  BY <1>1, AttemptMade DEF ExchangesInOrder, Current, NoExchangeYet
<1>3. /\ lost' = lost \cup {Current(p)}
      /\ UNCHANGED <<totp, singleUse, issued, spent, default_headers, options, open, pending,
                     tries, client, installs>>
  BY DEF Current
<1>4. /\ Traffic'
      /\ flow' \in {flow, "raised"}
      /\ DOMAIN exchange' = Callers /\ DOMAIN answer' = Callers
      /\ answer'[p] = NoAnswer
      /\ \A q \in Callers \ {p} : answer'[q] = answer[q] /\ exchange'[q] = exchange[q]
      /\ exchange'[p] = NoExchange \/ exchange'[p].headers = exchange[p].headers
  <2>1. CASE CanRetry(exchange[p])
    <3> DEFINE x == NextAttempt(exchange[p])
    <3>1. Post(p, x) /\ flow' = flow /\ answer' = [answer EXCEPT ![p] = NoAnswer]
      BY <2>1
    <3>2. /\ DOMAIN answer' = Callers /\ answer'[p] = NoAnswer
          /\ \A q \in Callers \ {p} : answer'[q] = answer[q]
      BY <3>1, <1>1 DEF Shape
    <3>3. /\ DOMAIN exchange' = Callers /\ exchange'[p] = x
          /\ \A q \in Callers \ {p} : exchange'[q] = exchange[q]
      BY <3>1, <1>1 DEF Shape, Post
    <3>4. /\ exchange[p].kind \in {"login", "verify"}
          /\ exchange[p].serial \in 1..MaxExchanges
          /\ exchange[p].n \in 1..MaxRetries + 1 /\ exchange[p].n <= MaxRetries
          /\ exchange[p].kind = "verify" => exchange[p].temp \in Attempts
          /\ AsksForBody(exchange[p].headers)
      BY <1>1, <1>2, <2>1 DEF ExchangesInOrder, CanRetry
    <3>5. /\ x.kind = exchange[p].kind /\ x.serial = exchange[p].serial
          /\ x.temp = exchange[p].temp /\ x.headers = exchange[p].headers
      BY DEF NextAttempt
    <3>6. x.n = exchange[p].n + 1
      BY DEF NextAttempt
    <3> HIDE DEF x
    <3>7. NewAttempt(p, x)
      BY <1>2, <1>3, <3>5, <3>6 DEF NewAttempt
    <3>8. Traffic'
      BY <1>2, <1>3, <3>1, <3>2, <3>4, <3>5, <3>6, <3>7, Posted
    <3> QED BY <3>1, <3>2, <3>3, <3>5, <3>8
  <2>2. CASE ~CanRetry(exchange[p])
    <3>1. EndExchange(p) /\ wire' = wire /\ flow' \in {flow, "raised"}
      BY <2>2 DEF Raise
    <3>2. Traffic'
      BY <3>1, <1>3, Ended
    <3> QED BY <3>1, <3>2, <1>1 DEF EndExchange, Shape
  <2> QED BY <2>1, <2>2
<1>5. Shape'
  BY <1>1, <1>2, <1>3, <1>4 DEF Shape
<1>6. NothingYet' /\ NoExchangeYet' /\ NoTriesYet'
  BY <1>2, <1>4 DEF NothingYet, NoExchangeYet, NoTriesYet
<1>7. RequestorOptions' /\ InstalledOnce' /\ ClientsInstalled'
  BY <1>1, <1>2, <1>3, <1>4
     DEF RequestorOptions, InstalledOnce, ClientsInstalled, Overrides, AsksForBody
<1>8. LoginSpeaksAnonymously'
  BY <1>1, <1>2, <1>3, <1>4 DEF LoginSpeaksAnonymously, Overrides
<1>9. TokenReachesClient'
  <2> SUFFICES ASSUME NEW t \in issued
               PROVE  \/ t \in lost'
                      \/ \E q \in Callers : answer'[q] # NoAnswer /\ AttemptOf(q, exchange'[q]) = t
                      \/ \E q \in Callers : client[q].jwt = t
                      \/ Overrides("X-Electron-App")'
    BY <1>3 DEF TokenReachesClient
  <2>1. ASSUME NEW q \in Callers, answer[q] # NoAnswer, AttemptOf(q, exchange[q]) = t
        PROVE  t \in lost' \/ (answer'[q] # NoAnswer /\ AttemptOf(q, exchange'[q]) = t)
    BY <2>1, <1>3, <1>4 DEF Current
  <2> QED BY <1>1, <1>3, <2>1 DEF TokenReachesClient, Overrides
<1> QED BY <1>4, <1>5, <1>6, <1>7, <1>8, <1>9 DEF IInv, Traffic

\* The server takes an attempt off the wire; the answer arrives if somebody waits for it.
LEMMA Served ==
  ASSUME IInv, NEW a \in wire, wire' = wire \ {a}, NEW r, Reply(a, r),
         \/ /\ r.outcome \in {"token", "cookie"} /\ r.token = a.id
            /\ r.outcome = "cookie" => Overrides("X-Electron-App")
            /\ issued' = issued \cup {a.id}
         \/ r.outcome = "totp" /\ r.temp = a.id /\ issued' = issued
         \/ r.outcome = "refused" /\ issued' = issued,
         spent' \subseteq Attempts,
         UNCHANGED <<totp, singleUse, default_headers, flow, options, open, pending, exchange,
                     tries, client, lost, installs>>
  PROVE  IInv'
<1> DEFINE p == a.id[1]
<1>1. /\ Shape /\ NothingYet /\ NoExchangeYet /\ NoTriesYet
      /\ ExchangesInOrder /\ OnTheWire /\ WireOnce /\ IssuedReached /\ AnswersAreCurrent
      /\ RequestorOptions /\ InstalledOnce /\ ClientsInstalled
      /\ LoginSpeaksAnonymously /\ TokenReachesClient
  BY DEF IInv
<1>2. /\ a.id \in Attempts /\ p \in Callers /\ Reached(a.id) /\ a.id \notin issued
      /\ a.id \in lost \/ (exchange[p] # NoExchange /\ Current(p) = a.id)
  BY <1>1, AttemptParts DEF OnTheWire
<1>3. DOMAIN answer = Callers
  BY <1>1 DEF Shape
<1>4. /\ DOMAIN answer' = Callers
      /\ \A q \in Callers : q # p => answer'[q] = answer[q]
      /\ exchange[p] # NoExchange /\ Current(p) = a.id => answer'[p] = r
      /\ ~(exchange[p] # NoExchange /\ Current(p) = a.id) => answer'[p] = answer[p]
  BY <1>2, <1>3 DEF Reply, Current
<1>5. issued \subseteq issued' /\ issued' \subseteq issued \cup {a.id}
  OBVIOUS
<1>6. ExchangesInOrder' /\ IssuedReached'
  BY <1>1, <1>2, <1>5 DEF ExchangesInOrder, IssuedReached, Reached, AsksForBody, Overrides
<1>7. \A b \in wire' : b \in wire /\ b.id # a.id
  BY <1>1 DEF WireOnce
<1>8. OnTheWire' /\ WireOnce'
  BY <1>1, <1>5, <1>7 DEF OnTheWire, WireOnce, Reached, Current, AsksForBody, Overrides
<1>9. AnswersAreCurrent'
  <2> SUFFICES ASSUME NEW q \in Callers, answer'[q] # NoAnswer
               PROVE  /\ exchange[q] # NoExchange
                      /\ \A b \in wire' : b.id # Current(q)
                      /\ \/ /\ answer'[q].outcome \in {"token", "cookie"}
                            /\ answer'[q].token = Current(q)
                            /\ answer'[q].outcome = "cookie" => Overrides("X-Electron-App")
                         \/ /\ answer'[q].outcome = "totp"
                            /\ answer'[q].temp \in Attempts
                            /\ Current(q) \notin issued'
                         \/ answer'[q].outcome = "refused" /\ Current(q) \notin issued'
    BY DEF AnswersAreCurrent, Current, Overrides
  <2>1. CASE q = p /\ exchange[p] # NoExchange /\ Current(p) = a.id
    BY <2>1, <1>2, <1>4, <1>7
  <2>2. CASE ~(q = p /\ exchange[p] # NoExchange /\ Current(p) = a.id)
    <3>1. answer'[q] = answer[q]
      BY <2>2, <1>4
    <3>2. \A b \in wire : b.id # Current(q)
      BY <3>1, <1>1 DEF AnswersAreCurrent
    <3>3. Current(q) # a.id
      BY <3>2
    <3> QED BY <3>1, <3>2, <3>3, <1>1, <1>5, <1>7 DEF AnswersAreCurrent
  <2> QED BY <2>1, <2>2
<1>10. Shape'
  BY <1>1, <1>2, <1>4, <1>5 DEF Shape
<1>11. NothingYet' /\ NoExchangeYet' /\ NoTriesYet'
  BY <1>1 DEF NothingYet, NoExchangeYet, NoTriesYet
<1>12. RequestorOptions' /\ InstalledOnce' /\ ClientsInstalled'
  BY <1>1 DEF RequestorOptions, InstalledOnce, ClientsInstalled, Overrides, AsksForBody
<1>13. LoginSpeaksAnonymously'
  BY <1>1 DEF LoginSpeaksAnonymously, Overrides
<1>14. TokenReachesClient'
  <2> SUFFICES ASSUME NEW t \in issued'
               PROVE  \/ t \in lost
                      \/ \E q \in Callers : answer'[q] # NoAnswer /\ AttemptOf(q, exchange[q]) = t
                      \/ \E q \in Callers : client[q].jwt = t
                      \/ Overrides("X-Electron-App")
    BY DEF TokenReachesClient, Overrides
  <2>1. CASE t \in issued
    <3>1. ASSUME NEW q \in Callers, answer[q] # NoAnswer, AttemptOf(q, exchange[q]) = t
          PROVE  answer'[q] # NoAnswer
      <4>1. t # a.id
        BY <2>1, <1>2
      <4> QED BY <3>1, <4>1, <1>4 DEF Current
    <3> QED BY <2>1, <3>1, <1>1 DEF TokenReachesClient
  <2>2. CASE t = a.id /\ t \notin issued
    <3>1. r # NoAnswer
      BY DEF NoAnswer
    <3> QED BY <2>2, <3>1, <1>2, <1>4 DEF Current
  <2> QED BY <2>1, <2>2, <1>5
<1> QED BY <1>6, <1>8, <1>9, <1>10, <1>11, <1>12, <1>13, <1>14 DEF IInv

\* Whatever the server does keeps the invariant.
LEMMA ServeStep ==
  ASSUME IInv, Serve
  PROVE  IInv'
<1>1. PICK a \in wire :
        /\ wire' = wire \ {a}
        /\ ServeLogin(a) \/ ServeVerify(a)
        /\ UNCHANGED <<totp, singleUse, default_headers, flow, options, open, pending, exchange,
                       tries, client, lost, installs>>
  BY DEF Serve
<1>2. /\ a.id \in Attempts /\ AsksForBody(a.headers) /\ spent \subseteq Attempts
      /\ a.kind = "verify" => a.temp \in Attempts
  BY DEF IInv, OnTheWire, Shape
<1>3. spent' \subseteq Attempts
  BY <1>1, <1>2 DEF ServeLogin, ServeVerify
<1>4. CASE Grant(a)
  <2> DEFINE r == [outcome |-> IF IsNative(a) THEN "token" ELSE "cookie", token |-> a.id]
  <2>1. r.outcome = "cookie" => Overrides("X-Electron-App")
    BY <1>2 DEF IsNative, AsksForBody
  <2>2. r.outcome \in {"token", "cookie"} /\ r.token = a.id
    OBVIOUS
  <2>3. issued' = issued \cup {a.id} /\ Reply(a, r)
    BY <1>4 DEF Grant
  <2> HIDE DEF r
  <2> QED BY <1>1, <1>3, <2>1, <2>2, <2>3, Served
<1>5. CASE Refuse(a)
  BY <1>1, <1>3, <1>5, Served DEF Refuse
<1>6. CASE issued' = issued /\ Reply(a, [outcome |-> "totp", temp |-> a.id])
  BY <1>1, <1>3, <1>6, Served
<1> QED BY <1>1, <1>4, <1>5, <1>6 DEF ServeLogin, ServeVerify

\* A refusal, a cookie, the second factor: an exchange ends that brought no token.
LEMMA GaveNoToken ==
  ASSUME IInv, NEW p \in Callers, EndExchange(p),
         answer[p].outcome \in {"refused", "cookie", "totp"},
         flow' \in {flow, "raised", "pending"}, flow' = "pending" => pending' \in Attempts,
         UNCHANGED <<serverVars, default_headers, options, open, tries, client, lost, installs>>
  PROVE  IInv'
<1> USE DEF serverVars
<1>1. /\ Shape /\ NothingYet /\ NoExchangeYet /\ NoTriesYet
      /\ ExchangesInOrder /\ AnswersAreCurrent
      /\ RequestorOptions /\ InstalledOnce /\ ClientsInstalled
      /\ LoginSpeaksAnonymously /\ TokenReachesClient
  BY DEF IInv
<1>2. answer[p] # NoAnswer
  BY DEF NoAnswer
<1>3. exchange[p] # NoExchange /\ flow \notin {"idle", "invalid", "direct"}
      /\ (Current(p) \notin issued \/ Overrides("X-Electron-App"))
  BY <1>1, <1>2 DEF AnswersAreCurrent, NoExchangeYet
<1>4. Traffic'
  BY <1>2, Ended
<1>5. /\ DOMAIN exchange' = Callers /\ DOMAIN answer' = Callers
      /\ exchange'[p] = NoExchange /\ answer'[p] = NoAnswer
      /\ \A q \in Callers \ {p} : exchange'[q] = exchange[q] /\ answer'[q] = answer[q]
  BY <1>1 DEF EndExchange, Shape
<1>6. Shape'
  BY <1>1, <1>5 DEF Shape
<1>7. NothingYet' /\ NoExchangeYet' /\ NoTriesYet'
  BY <1>3 DEF NothingYet, NoExchangeYet, NoTriesYet
<1>8. RequestorOptions' /\ InstalledOnce' /\ ClientsInstalled'
  BY <1>1, <1>3 DEF RequestorOptions, InstalledOnce, ClientsInstalled, Overrides, AsksForBody
<1>9. LoginSpeaksAnonymously'
  BY <1>1, <1>5 DEF LoginSpeaksAnonymously, Overrides
<1>10. TokenReachesClient'
  BY <1>1, <1>3, <1>5 DEF TokenReachesClient, Overrides, Current
<1> QED BY <1>4, <1>6, <1>7, <1>8, <1>9, <1>10 DEF IInv, Traffic

\* The exchange ends in an exception.
LEMMA FailStep ==
  ASSUME IInv, NEW p \in Callers, Fail(p)
  PROVE  IInv'
<1>1. flow' = "pending" => pending' \in Attempts
  BY DEF Fail, Raise, IInv, Shape
<1> QED BY <1>1, GaveNoToken DEF Fail, Raise

\* login() returns a PendingTOTP.
LEMMA RequireTotpStep ==
  ASSUME IInv, NEW p \in Callers, RequireTotp(p)
  PROVE  IInv'
<1>1. answer[p] # NoAnswer
  BY DEF RequireTotp, NoAnswer
<1>2. pending' \in Attempts
  BY <1>1 DEF RequireTotp, IInv, AnswersAreCurrent
<1> QED BY <1>2, GaveNoToken DEF RequireTotp

\* What a token that is taken from an answer makes of the options.
LEMMA Taken ==
  ASSUME IInv, NEW p \in Callers, answer[p].outcome = "token"
  PROVE  LET t == answer[p].token
             o == with_jwt(options, t)
         IN  /\ t = Current(p) /\ t \in Attempts /\ t[1] = p /\ t # NoCredential
             /\ answer[p] # NoAnswer /\ exchange[p] # NoExchange /\ client[p] = NoOptions
             /\ flow \notin {"idle", "invalid", "direct"}
             /\ bearer_token(o) = t /\ o.jwt = t
             /\ o.default_headers = options.default_headers
             /\ o # NoOptions
<1> DEFINE t == answer[p].token
           o == with_jwt(options, t)
<1>1. answer[p] # NoAnswer
  BY DEF NoAnswer
<1>2. t = Current(p) /\ exchange[p] # NoExchange /\ client[p] = NoOptions
      /\ flow \notin {"idle", "invalid", "direct"}
  BY <1>1 DEF IInv, AnswersAreCurrent, ExchangesInOrder, NoExchangeYet
<1>3. t \in Attempts /\ t[1] = p
  BY <1>2, AttemptMade DEF IInv, ExchangesInOrder, Current
<1>4. t # NoCredential
  BY <1>3, AttemptParts
<1>5. bearer_token(o) = t /\ o.jwt = t /\ o.default_headers = options.default_headers
  BY DEF bearer_token, with_jwt, Options
<1>6. NoOptions.jwt = NoCredential
  BY DEF NoOptions, anonymous, Options
<1> QED BY <1>1, <1>2, <1>3, <1>4, <1>5, <1>6

\* A token is taken, and a client made of it.
LEMMA SucceedStep ==
  ASSUME IInv, NEW p \in Callers, Succeed(p)
  PROVE  IInv'
<1> USE DEF serverVars, Succeed
<1> DEFINE t == answer[p].token
           o == with_jwt(options, t)
<1>1. /\ Shape /\ NothingYet /\ NoExchangeYet /\ NoTriesYet
      /\ ExchangesInOrder /\ AnswersAreCurrent
      /\ RequestorOptions /\ InstalledOnce /\ ClientsInstalled
      /\ LoginSpeaksAnonymously /\ TokenReachesClient
  BY DEF IInv
<1>2. /\ t = Current(p) /\ t \in Attempts /\ t[1] = p /\ t # NoCredential
      /\ answer[p] # NoAnswer /\ exchange[p] # NoExchange /\ client[p] = NoOptions
      /\ flow \notin {"idle", "invalid", "direct"}
      /\ bearer_token(o) = t /\ o.jwt = t
      /\ o.default_headers = options.default_headers
      /\ o # NoOptions
  BY Taken
<1>3. /\ options' = o /\ client'[p] = o
      /\ DOMAIN client' = Callers /\ \A q \in Callers \ {p} : client'[q] = client[q]
  BY <1>1 DEF Shape
<1>4. flow' \in {flow, "client"}
  OBVIOUS
<1>5. Traffic'
  BY <1>2, <1>3, Ended
<1>6. /\ DOMAIN exchange' = Callers /\ DOMAIN answer' = Callers
      /\ exchange'[p] = NoExchange /\ answer'[p] = NoAnswer
      /\ \A q \in Callers \ {p} : exchange'[q] = exchange[q] /\ answer'[q] = answer[q]
  BY <1>1 DEF EndExchange, Shape
<1>7. /\ installs \in Seq(Tokens) /\ t \in Tokens
      /\ installs' = Append(installs, t)
  BY <1>1, <1>2 DEF Shape, Tokens
<1> HIDE DEF o, t
<1>8. /\ Len(installs') = Len(installs) + 1 /\ installs'[Len(installs')] = t
      /\ \A i \in DOMAIN installs : i \in DOMAIN installs' /\ installs'[i] = installs[i]
      /\ \A i \in DOMAIN installs' : i \in DOMAIN installs \/ i = Len(installs')
      /\ installs' # <<>> /\ installs' \in Seq(Tokens) /\ Len(installs') \in DOMAIN installs'
  BY <1>7
<1>9. Shape'
  BY <1>1, <1>2, <1>3, <1>4, <1>6, <1>8 DEF Shape
<1>10. NothingYet' /\ NoExchangeYet' /\ NoTriesYet'
  BY <1>2, <1>4 DEF NothingYet, NoExchangeYet, NoTriesYet
<1>11. RequestorOptions'
  BY <1>1, <1>2, <1>3, <1>8 DEF RequestorOptions, Overrides, AsksForBody
<1>12. InstalledOnce'
  <2>1. \A i \in DOMAIN installs :
          installs[i] \in Attempts /\ client[installs[i][1]] # NoOptions /\ installs[i] # t
    BY <1>1, <1>2 DEF InstalledOnce
  <2>2. \A i \in DOMAIN installs : client'[installs[i][1]] # NoOptions
    BY <2>1, <1>2, <1>3, AttemptParts
  <2>3. \A i, j \in DOMAIN installs' : installs'[i] = installs'[j] => i = j
    BY <2>1, <1>1, <1>8 DEF InstalledOnce
  <2>4. \A i \in DOMAIN installs' :
          installs'[i] \in Attempts /\ client'[installs'[i][1]] # NoOptions
    BY <2>1, <2>2, <1>2, <1>3, <1>8
  <2> QED BY <2>3, <2>4 DEF InstalledOnce
<1>13. ClientsInstalled'
  <2> SUFFICES ASSUME NEW q \in Callers, client'[q] # NoOptions
               PROVE  \E i \in DOMAIN installs' : installs'[i] = bearer_token(client'[q])
    BY DEF ClientsInstalled
  <2>1. CASE q = p
    BY <2>1, <1>2, <1>3, <1>8
  <2>2. CASE q # p
    BY <2>2, <1>1, <1>3, <1>8 DEF ClientsInstalled
  <2> QED BY <2>1, <2>2
<1>14. LoginSpeaksAnonymously'
  BY <1>6, <1>8 DEF LoginSpeaksAnonymously, Overrides
<1>15. TokenReachesClient'
  <2> SUFFICES ASSUME NEW u \in issued
               PROVE  \/ u \in lost
                      \/ \E q \in Callers : answer'[q] # NoAnswer /\ AttemptOf(q, exchange'[q]) = u
                      \/ \E q \in Callers : client'[q].jwt = u
                      \/ Overrides("X-Electron-App")
    BY DEF TokenReachesClient, Overrides
  <2>1. ASSUME NEW q \in Callers, answer[q] # NoAnswer, AttemptOf(q, exchange[q]) = u
        PROVE  \/ answer'[q] # NoAnswer /\ AttemptOf(q, exchange'[q]) = u
               \/ client'[p].jwt = u
    BY <2>1, <1>2, <1>3, <1>6 DEF Current
  <2>2. ASSUME NEW q \in Callers, client[q].jwt = u
        PROVE  client'[q].jwt = u
    <3>1. NoOptions.jwt = NoCredential /\ u # NoCredential
      BY <1>1, AttemptParts DEF NoOptions, anonymous, Options, Shape
    <3> QED BY <2>2, <3>1, <1>2, <1>3
  <2> QED BY <2>1, <2>2, <1>1 DEF TokenReachesClient
<1> QED BY <1>5, <1>9, <1>10, <1>11, <1>12, <1>13, <1>14, <1>15 DEF IInv, Traffic

\* A step that leaves the variables of IInv alone: close(), and stuttering.
LEMMA Untouched ==
  ASSUME IInv,
         UNCHANGED <<serverVars, default_headers, flow, options, pending, exchange, tries,
                     answer, client, lost, installs>>
  PROVE  IInv'
<1> USE DEF serverVars
<1>1. (Shape /\ NothingYet /\ NoExchangeYet /\ NoTriesYet)'
  BY DEF IInv, Shape, NothingYet, NoExchangeYet, NoTriesYet
<1>2. (ExchangesInOrder /\ OnTheWire /\ WireOnce /\ IssuedReached /\ AnswersAreCurrent)'
  BY DEF IInv, ExchangesInOrder, OnTheWire, WireOnce, IssuedReached, AnswersAreCurrent,
         Reached, Current, AsksForBody, Overrides
<1>3. (RequestorOptions /\ InstalledOnce /\ ClientsInstalled)'
  BY DEF IInv, RequestorOptions, InstalledOnce, ClientsInstalled, AsksForBody, Overrides
<1>4. (LoginSpeaksAnonymously /\ TokenReachesClient)'
  BY DEF IInv, LoginSpeaksAnonymously, TokenReachesClient, Overrides
<1> QED BY <1>1, <1>2, <1>3, <1>4 DEF IInv

\* Every step preserves the invariant.
LEMMA StepPreserves == IInv /\ [Next]_vars => IInv'
<1> SUFFICES ASSUME IInv, [Next]_vars PROVE IInv'
  OBVIOUS
<1>1. CASE Serve
  BY <1>1, ServeStep
<1>2. CASE Terminated \/ UNCHANGED vars
  BY <1>2, Untouched DEF Terminated, vars, serverVars, clientVars
<1>3. ASSUME NEW p \in Callers, Step(p) PROVE IInv'
  BY <1>3, LoseAttemptStep, FailStep, RequireTotpStep, SucceedStep DEF Step
<1>4. ASSUME NEW p \in Callers, Use(p) PROVE IInv'
  <2>1. CASE StartLogin(p) \/ StartVerify(p)
    BY <2>1, StartLoginStep, StartVerifyStep
  <2>2. CASE Close(p)
    BY <2>2, Untouched DEF Close
  <2>3. CASE \E k \in {NoCredential, <<"key">>}, j \in {NoCredential, <<"jwt">>} :
               Construct(p, k, j)
    BY <2>3, ConstructStep
  <2> QED BY <1>4, <2>1, <2>2, <2>3 DEF Use
<1> QED BY <1>1, <1>2, <1>3, <1>4 DEF Next

\* IInv is an invariant of Login.
THEOREM Invariance == Spec => []IInv
BY InitEstablishes, StepPreserves, PTL DEF Spec

-----------------------------------------------------------------------------
(***************************************************************************)
(* The properties.                                                         *)
(***************************************************************************)
\* No login and no verify() sends more attempts than the limit, and everything the server
\* sees or issues is an attempt of a caller.
THEOREM TypeCorrect == Spec => []TypeOK
<1>1. IInv => TypeOK
  BY AttemptMade DEF IInv, Shape, ExchangesInOrder, AnswersAreCurrent, TypeOK
<1> QED BY <1>1, Invariance, PTL

\* A client speaks with its own credential or with a later one of its requestor.
THEOREM SpeaksAsItselfAlways == Spec => []SpeaksAsItself
<1>1. ASSUME IInv PROVE SpeaksAsItself
  <2> SUFFICES ASSUME NEW p \in Callers, NEW i \in BOOLEAN, client[p] # NoOptions
               PROVE  IF Overrides("Authorization")
                      THEN Says(i)["Authorization"] = default_headers["Authorization"]
                      ELSE /\ "Authorization" \in DOMAIN Says(i)
                           /\ Position(Says(i)["Authorization"]) >=
                                Position(bearer_token(client[p]))
    BY DEF SpeaksAsItself
  <2>1. /\ installs \in Seq(Tokens) /\ RequestorOptions
        /\ flow \notin {"idle", "invalid"}
        /\ \A a, b \in DOMAIN installs : installs[a] = installs[b] => a = b
    BY <1>1 DEF IInv, Shape, NothingYet, InstalledOnce
  <2>2. PICK k \in DOMAIN installs : installs[k] = bearer_token(client[p])
    BY <1>1 DEF IInv, ClientsInstalled
  <2>3. installs # <<>> /\ Len(installs) \in DOMAIN installs /\ k \in 1..Len(installs)
    BY <2>1, <2>2
  <2>4. bearer_token(options) = installs[Len(installs)] /\ bearer_token(options) # NoCredential
    BY <2>1, <2>3 DEF RequestorOptions
  <2>5. \A a \in DOMAIN installs : Position(installs[a]) = a
    BY <2>1 DEF Position
  <2>6. "Authorization" \notin DOMAIN request_headers(i)
    BY ImpersonationIsNoCredential
  <2>7. CASE Overrides("Authorization")
    BY <2>1, <2>6, <2>7, AuthorizationSent DEF RequestorOptions, Says
  <2>8. CASE ~Overrides("Authorization")
    <3>1. "Authorization" \in DOMAIN Says(i) /\ Says(i)["Authorization"] = installs[Len(installs)]
      BY <2>1, <2>4, <2>6, <2>8, AuthorizationSent DEF RequestorOptions, Says
    <3> QED BY <2>2, <2>3, <2>5, <2>8, <3>1
  <2> QED BY <2>7, <2>8
<1> QED BY <1>1, Invariance, PTL

\* A token the server issued reaches a client, or is lost for one of two reasons.
THEOREM TokensArrive == Spec => []TokenReachesClient
<1>1. IInv => TokenReachesClient
  BY DEF IInv
<1> QED BY <1>1, Invariance, PTL

\* Nothing is said in anybody's name before a token was taken.
THEOREM AnonymousBefore == Spec => []LoginSpeaksAnonymously
<1>1. IInv => LoginSpeaksAnonymously
  BY DEF IInv
<1> QED BY <1>1, Invariance, PTL

\* The requestor's credential changes only with a token that is taken from an answer, and
\* then one client without options gets the same ones.
THEOREM CredentialChanges == Spec => CredentialFollowsExchange
<1> DEFINE Follows ==
      flow # "idle" =>
       \/ options' = options /\ client' = client
       \/ \E p \in Callers :
            /\ answer[p].outcome = "token" /\ client[p] = NoOptions
            /\ bearer_token(options') = answer[p].token
            /\ client' = [client EXCEPT ![p] = options']
<1>1. ASSUME IInv, [Next]_vars PROVE [Follows]_vars
  <2>1. ASSUME NEW p \in Callers, Succeed(p) PROVE Follows
    <3>1. answer[p].outcome = "token" /\ client[p] = NoOptions
          /\ bearer_token(with_jwt(options, answer[p].token)) = answer[p].token
      BY <1>1, <2>1, Taken DEF Succeed
    <3> QED BY <2>1, <3>1 DEF Succeed
  <2>2. ASSUME NEW p \in Callers, LoseAttempt(p) \/ Fail(p) \/ RequireTotp(p)
        PROVE  options' = options /\ client' = client
    BY <2>2 DEF LoseAttempt, Fail, RequireTotp
  <2>3. ASSUME NEW p \in Callers, Use(p) PROVE Follows
    BY <2>3 DEF Use, StartLogin, StartVerify, Close, Construct
  <2>4. CASE Serve
    BY <2>4 DEF Serve
  <2>5. CASE Terminated \/ UNCHANGED vars
    BY <2>5 DEF Terminated, vars, clientVars
  <2> QED BY <1>1, <2>1, <2>2, <2>3, <2>4, <2>5 DEF Next, Step
<1>2. IInv /\ [Next]_vars => [Follows]_vars
  BY <1>1
<1> QED BY <1>2, Invariance, PTL DEF Spec, CredentialFollowsExchange

=============================================================================
