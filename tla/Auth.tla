--------------------------------- MODULE Auth ---------------------------------
(***************************************************************************)
(* Authentication: how a request gets its principal.                      *)
(*                                                                         *)
(* provideJWTTokenManager (src/internal/app/app.bootstrap.go 123-153)      *)
(* derives the HMAC key from configuration; POST /api/v1/auth/login        *)
(* (AuthLoginHandler.Handle, AuthLoginService.Login and                    *)
(* AuthLoginRepository.GetUserAuthByEmail) checks a password and signs a   *)
(* token with hmacManager.Sign; every other route under /api/v1 passes     *)
(* NewHTTPJWTMiddleware, which verifies the bearer token with              *)
(* hmacManager.Verify and stores its subject as the request's user_id.     *)
(*                                                                         *)
(* Tokens are abstracted to the fields Verify looks at: subject, header    *)
(* alg, the key the signature was made with, and exp.  An outsider holds   *)
(* every token it was issued and can sign tokens with any key it knows     *)
(* (KnownSecrets: what is public, such as a literal in the source), or     *)
(* alter a token without re-signing it (key Tampered).  Time is counted    *)
(* in seconds, the precision of a JWT NumericDate.                         *)
(***************************************************************************)
EXTENDS Integers, Sequences, FiniteSets

CONSTANTS
    Users,           \* users.id of the rows in the users table
    Status,          \* users.status of each row
    NoUser,          \* an email that matches no row
    Chars,           \* the characters secrets are written with
    SecuritySecret,  \* security.jwt.secret (<<>> when unset)
    LegacySecret,    \* jwt.secret (<<>> when unset)
    DefaultSecret,   \* the literal fallback secret in provideJWTTokenManager
    MinSecretLen,    \* the 32 bytes NewHMAC demands
    TTLConfig,       \* security.jwt.ttl in seconds (0 when unset)
    DefaultTTL,      \* the 15-minute default, in seconds
    KnownSecrets,    \* secrets an outsider knows
    Tampered,        \* the "key" of a token altered after it was signed
    MaxTime,         \* bound on the clock
    MaxTokens,       \* bound on the tokens in circulation
    DBErrors         \* TRUE iff the users query may fail

ASSUME AuthAssumption ==
    /\ Status \in [Users -> {"active", "disabled"}]
    /\ NoUser \notin Users /\ "" \notin Users
    /\ "x" \in Chars
    /\ {SecuritySecret, LegacySecret, DefaultSecret} \subseteq Seq(Chars)
    /\ KnownSecrets \subseteq Seq(Chars)
    /\ MinSecretLen \in Nat /\ TTLConfig \in Nat /\ DefaultTTL \in Nat \ {0}
    /\ MaxTime \in Nat /\ MaxTokens \in Nat /\ DBErrors \in BOOLEAN

(* A secret shorter than the minimum is padded with 'x' up to it          *)
(* (app.bootstrap.go 132-134).                                              *)
Pad(s) ==
    IF Len(s) < MinSecretLen
    THEN s \o [i \in 1 .. MinSecretLen - Len(s) |-> "x"]
    ELSE s

(* security.jwt.secret, else jwt.secret, else the literal                  *)
(* (app.bootstrap.go 124-130), padded.                                      *)
SigningKey ==
    LET configured == IF SecuritySecret # <<>> THEN SecuritySecret ELSE LegacySecret
    IN  Pad(IF configured # <<>> THEN configured ELSE DefaultSecret)

(* An unset or non-positive TTL is 15 minutes (app.bootstrap.go 136-139).  *)
TTL == IF TTLConfig > 0 THEN TTLConfig ELSE DefaultTTL

(* NewHMAC refuses an empty secret or one under 32 bytes                    *)
(* (redis_store.go 286-306); the application does not start otherwise.     *)
HMACConfigOK(secret) == secret # <<>> /\ Len(secret) >= MinSecretLen

(* The header algorithms a token can carry; the manager signs HS256        *)
(* (app.bootstrap.go 144, resolveHMACMethod).                               *)
Algs == {"HS256", "HS384"}

Tokens == [sub : Users \cup {""}, alg : Algs,
           key : Seq(Chars) \cup {Tampered}, exp : Nat]

(* Verify: ParseWithClaims with the key function that insists on the       *)
(* manager's method, then the registered-claims validation, which rejects  *)
(* a token once now is not before exp (redis_store.go 367-389).             *)
TokenValidNoExpiry(t, now) == t.alg = "HS256" /\ t.key = SigningKey

TokenValid(t, now) ==
    /\ t.alg = "HS256"
    /\ t.key = SigningKey
    /\ now < t.exp

(* The keys an outsider can sign with: what it knows, padded as the        *)
(* application would pad it.                                                *)
OutsiderKeys == KnownSecrets \cup {Pad(s) : s \in KnownSecrets}

VARIABLES
    now,          \* the clock, in seconds
    tokens,       \* every token a client holds
    lastCode,     \* the status of the last response
    credentialed, \* ghost: <<user, time>> of each login with a valid password
    accepted      \* ghost: <<user_id, time>> of each request the JWT check let in

vars == <<now, tokens, lastCode, credentialed, accepted>>

-----------------------------------------------------------------------------
Init ==
    /\ HMACConfigOK(SigningKey)
    /\ now = 0
    /\ tokens = {}
    /\ lastCode = "none"
    /\ credentialed = {}
    /\ accepted = {}

Tick ==
    /\ now < MaxTime
    /\ now' = now + 1
    /\ UNCHANGED <<tokens, lastCode, credentialed, accepted>>

(* GetUserAuthByEmail: the query fails, finds no row, finds a row whose   *)
(* status is not active, or finds the user (Dockerfile 54-85, where the    *)
(* repository source sits).                                                *)
LookupUser(email, dbFails) ==
    IF dbFails THEN "error"
    ELSE IF email = NoUser \/ Status[email] # "active" THEN "invalid"
    ELSE "found"

(* The outcome of a login, in the order of the code's early returns: the  *)
(* handler's blank-field check (auth.login.go 35-47), the lookup, and the  *)
(* service's password comparison (logger.slog.json.go 75-99); a lookup     *)
(* error is a 500, invalid credentials are a 401.                          *)
LoginResult(email, password, dbFails) ==
    IF email = "" \/ password = "" THEN "400"
    ELSE LET found == LookupUser(email, dbFails) IN
         IF found = "error" THEN "500"
         ELSE IF found = "invalid" \/ password # "correct" THEN "401"
         ELSE "200"

(* hmacManager.Sign for Claims{Subject: user.ID}: HS256, iat now and exp   *)
(* now + TTL (redis_store.go 321-365).                                      *)
Sign(user) == [sub |-> user, alg |-> "HS256", key |-> SigningKey, exp |-> now + TTL]

(* POST /api/v1/auth/login: the JWT middleware lets it through             *)
(* (http.request.response.log.go 54-57) and the handler answers; on 200    *)
(* the client holds a new token.                                            *)
Login(email, password, dbFails) ==
    LET code == LoginResult(email, password, dbFails) IN
    /\ code = "200" => Cardinality(tokens) < MaxTokens
    /\ lastCode' = code
    /\ tokens' = IF code = "200" THEN tokens \cup {Sign(email)} ELSE tokens
    /\ credentialed' =
          IF email \in Users /\ Status[email] = "active" /\ password = "correct"
          THEN credentialed \cup {<<email, now>>} ELSE credentialed
    /\ UNCHANGED <<now, accepted>>

(* An outsider signs a token of its own, or alters one it holds.           *)
Forge(t) ==
    /\ Cardinality(tokens) < MaxTokens
    /\ tokens' = tokens \cup {t}
    /\ UNCHANGED <<now, lastCode, credentialed, accepted>>

ForgedTokens ==
    [sub : Users, alg : Algs, key : OutsiderKeys \cup {Tampered}, exp : {now + TTL}]

(* Any other route: NewHTTPJWTMiddleware (http.request.response.log.go     *)
(* 59-73).  A missing or non-Bearer Authorization header, or a blank       *)
(* token, gets 401 before any verification.                                 *)
RejectHeader(header) ==
    /\ header \in {"missing", "basic", "bearer_blank"}
    /\ lastCode' = "401"
    /\ UNCHANGED <<now, tokens, credentialed, accepted>>

(* A Bearer token is verified (http.request.response.log.go 74-83): 401    *)
(* when Verify fails, otherwise its subject becomes user_id and the        *)
(* request goes on.                                                         *)
Authenticate(t) ==
    /\ IF TokenValid(t, now)
       THEN /\ lastCode' = "next"
            /\ accepted' = accepted \cup {<<t.sub, now>>}
       ELSE /\ lastCode' = "401"
            /\ UNCHANGED accepted
    /\ UNCHANGED <<now, tokens, credentialed>>

Next ==
    \/ Tick
    \/ \E email \in Users \cup {NoUser, ""}, password \in {"correct", "wrong", ""},
          dbFails \in IF DBErrors THEN BOOLEAN ELSE {FALSE} :
          Login(email, password, dbFails)
    \/ \E t \in ForgedTokens : Forge(t)
    \/ \E header \in {"missing", "basic", "bearer_blank"} : RejectHeader(header)
    \/ \E t \in tokens : Authenticate(t)

Spec == Init /\ [][Next]_vars

-----------------------------------------------------------------------------
TypeOK ==
    /\ now \in 0 .. MaxTime
    /\ tokens \subseteq Tokens
    /\ lastCode \in {"none", "200", "400", "401", "500", "next"}
    /\ credentialed \subseteq Users \X (0 .. MaxTime)
    /\ accepted \subseteq (Users \cup {""}) \X (0 .. MaxTime)

(* Authenticity (spec section 4.4: a withdrawal needs an authenticated     *)
(* principal): the JWT middleware lets a request in as user u only within  *)
(* TTL of a login at which u's active account presented its password,      *)
(* whatever tokens outsiders sign or alter with what they know.            *)
Authenticity ==
    \A a \in accepted : \E c \in credentialed : c[1] = a[1] /\ a[2] < c[2] + TTL
=============================================================================
