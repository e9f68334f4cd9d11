--------------------------- MODULE ClientOptions ----------------------------
(***************************************************************************)
(* The options of a client (_client_options.py) and the headers a request  *)
(* goes out with (_api_requestor.py, _request_options.py, _auth.py).  A    *)
(* credential is a tuple, <<>> if there is none; headers are a function    *)
(* from header names.  URLs are modelled in Services.                      *)
(***************************************************************************)
NoCredential == <<>>

\* dict.update seen from its argument: the headers of f, and those of g that f has not.
Over(f, g) ==
  [x \in DOMAIN f \cup DOMAIN g |-> IF x \in DOMAIN f THEN f[x] ELSE g[x]]

Header(name, value) == [x \in {name} |-> value]
NoHeaders == [x \in {} |-> ""]

\* ClientOptions.__init__ raises ValueError otherwise.
CanConstruct(api_key, jwt, allow_anonymous) ==
  /\ api_key # NoCredential \/ jwt # NoCredential \/ allow_anonymous
  /\ api_key = NoCredential \/ jwt = NoCredential

Options(api_key, jwt, default_headers) ==
  [api_key |-> api_key, jwt |-> jwt, default_headers |-> default_headers]

anonymous(default_headers) == Options(NoCredential, NoCredential, default_headers)

with_jwt(options, jwt) == Options(NoCredential, jwt, options.default_headers)

bearer_token(options) ==
  IF options.api_key # NoCredential THEN options.api_key ELSE options.jwt

NATIVE_APP_HEADERS == Header("X-Electron-App", "true")

\* Faulty variant of merge_native_headers: headers of the caller replace the SDK's.
replace_native_headers(default_headers) ==
  IF DOMAIN default_headers = {} THEN NATIVE_APP_HEADERS ELSE default_headers

\* The caller's headers win.
merge_native_headers(default_headers) == Over(default_headers, NATIVE_APP_HEADERS)

request_headers(impersonate_user) ==
  IF impersonate_user THEN Header("x-admin-target-user", "user") ELSE NoHeaders

\* Headers of the call win over the client's, and these over the credential.
headers(options, per_call) ==
  LET credential == IF bearer_token(options) = NoCredential THEN NoHeaders
                    ELSE Header("Authorization", bearer_token(options))
  IN  Over(per_call, Over(options.default_headers, credential))

=============================================================================
