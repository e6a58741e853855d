------------------------------ MODULE AuthProofs ------------------------------
(***************************************************************************)
(* Proof that the JWT check admits only principals that logged in, for     *)
(* every configuration whose signing key an outsider does not know.        *)
(***************************************************************************)
EXTENDS Auth, TLAPS

(* The signing key provideJWTTokenManager derives is none of the keys an   *)
(* outsider can sign with, and an altered token carries no valid           *)
(* signature.  default_secret_forgery is the configuration where this      *)
(* fails: the literal fallback secret is public.                           *)
SecretUnknown == SigningKey \notin OutsiderKeys \cup {Tampered}

(* Every token signed with the application's key was issued by Sign at a   *)
(* login where its subject presented the right password, and expires TTL  *)
(* after that login.                                                        *)
IssuedAtLogin ==
    \A t \in tokens :
        t.key = SigningKey => \E c \in credentialed : c[1] = t.sub /\ t.exp = c[2] + TTL

(* The inductive invariant: Authenticity alone is not preserved by a     *)
(* request, which needs to know where a validly signed token came from.   *)
AuthInv == IssuedAtLogin /\ Authenticity

-----------------------------------------------------------------------------
(* A login answered 200 is one whose user exists, is active and gave the   *)
(* right password (the handler's blank check, GetUserAuthByEmail and the  *)
(* password comparison, in that order).                                    *)
LEMMA LoginOKIsCredentialed ==
    ASSUME NEW email \in Users \cup {NoUser, ""}, NEW password \in {"correct", "wrong", ""},
           NEW dbFails \in BOOLEAN, LoginResult(email, password, dbFails) = "200"
    PROVE  email \in Users /\ Status[email] = "active" /\ password = "correct"
BY Zenon DEF LoginResult, LookupUser

(* Every step of the JWT login and middleware model preserves AuthInv.    *)
LEMMA AuthStep ==
    ASSUME SecretUnknown, AuthInv, [Next]_vars
    PROVE  AuthInv'
<1>1. CASE Tick
  BY <1>1 DEF Tick, AuthInv, IssuedAtLogin, Authenticity
<1>2. ASSUME NEW email \in Users \cup {NoUser, ""}, NEW password \in {"correct", "wrong", ""},
             NEW dbFails \in BOOLEAN, Login(email, password, dbFails)
      PROVE  AuthInv'
  <2> DEFINE code == LoginResult(email, password, dbFails)
  <2>1. CASE code = "200"
    <3>1. email \in Users /\ Status[email] = "active" /\ password = "correct"
      BY <2>1, LoginOKIsCredentialed, Zenon
    <3>2. tokens' = tokens \cup {Sign(email)} /\ credentialed' = credentialed \cup {<<email, now>>}
      BY <1>2, <2>1, <3>1, Zenon DEF Login
    <3>3. Sign(email).key = SigningKey /\ Sign(email).sub = email
          /\ Sign(email).exp = now + TTL
      BY Zenon DEF Sign
    <3>4. IssuedAtLogin'
      <4> SUFFICES ASSUME NEW t \in tokens', t.key = SigningKey
                   PROVE  \E c \in credentialed' : c[1] = t.sub /\ t.exp = c[2] + TTL
        BY Zenon DEF IssuedAtLogin
      <4>1. CASE t \in tokens
        BY <4>1, <3>2, Zenon DEF AuthInv, IssuedAtLogin
      <4>2. CASE t = Sign(email)
        <5>1. <<email, now>> \in credentialed'
          BY <3>2, Zenon
        <5>2. <<email, now>>[1] = t.sub /\ t.exp = <<email, now>>[2] + TTL
          BY <4>2, <3>3, Zenon
        <5>3. QED
          BY <5>1, <5>2, Zenon
      <4>3. QED
        BY <3>2, <4>1, <4>2, Zenon
    <3>5. Authenticity'
      BY <1>2, <3>2, Zenon DEF Login, AuthInv, Authenticity
    <3>6. QED
      BY <3>4, <3>5, Zenon DEF AuthInv
  <2>2. CASE code # "200"
    <3>1. tokens' = tokens /\ credentialed \subseteq credentialed' /\ accepted' = accepted
      BY <1>2, <2>2, Zenon DEF Login
    <3>2. QED
      BY <3>1, Zenon DEF AuthInv, IssuedAtLogin, Authenticity
  <2>3. QED
    BY <2>1, <2>2, Zenon
<1>3. ASSUME NEW t \in ForgedTokens, Forge(t) PROVE AuthInv'
  <2>1. t.key # SigningKey
    BY DEF ForgedTokens, SecretUnknown
  <2>2. QED
    BY <1>3, <2>1 DEF Forge, AuthInv, IssuedAtLogin, Authenticity
<1>4. ASSUME NEW header \in {"missing", "basic", "bearer_blank"}, RejectHeader(header)
      PROVE  AuthInv'
  BY <1>4 DEF RejectHeader, AuthInv, IssuedAtLogin, Authenticity
<1>5. ASSUME NEW t \in tokens, Authenticate(t) PROVE AuthInv'
  <2>1. CASE TokenValid(t, now)
    <3>1. accepted' = accepted \cup {<<t.sub, now>>}
          /\ UNCHANGED <<now, tokens, credentialed>>
      BY <1>5, <2>1 DEF Authenticate
    <3>2. PICK c \in credentialed : c[1] = t.sub /\ t.exp = c[2] + TTL
      BY <2>1 DEF TokenValid, AuthInv, IssuedAtLogin
    <3>3. now < c[2] + TTL
      BY <2>1, <3>2 DEF TokenValid
    <3>4. QED
      BY <3>1, <3>2, <3>3 DEF AuthInv, IssuedAtLogin, Authenticity
  <2>2. CASE ~TokenValid(t, now)
    BY <1>5, <2>2 DEF Authenticate, AuthInv, IssuedAtLogin, Authenticity
  <2>3. QED
    BY <2>1, <2>2
<1>6. CASE UNCHANGED vars
  BY <1>6 DEF vars, AuthInv, IssuedAtLogin, Authenticity
<1>7. QED
  BY <1>1, <1>2, <1>3, <1>4, <1>5, <1>6, Zenon DEF Next

(* Authenticity for every configuration whose key is secret: the JWT       *)
(* middleware lets a request in as user u only within TTL of a login at    *)
(* which u's active account presented its password, whatever tokens an    *)
(* outsider signs with the keys it knows or alters, and however logins,    *)
(* query failures and the clock interleave.                                *)
THEOREM AuthenticityHolds == SecretUnknown => (Spec => []Authenticity)
<1> SUFFICES ASSUME SecretUnknown PROVE Spec => []Authenticity
  OBVIOUS
<1>1. Init => AuthInv
  BY DEF Init, AuthInv, IssuedAtLogin, Authenticity
<1>2. AuthInv /\ [Next]_vars => AuthInv'
  BY AuthStep
<1>3. AuthInv => Authenticity
  BY DEF AuthInv
<1>4. QED
  BY <1>1, <1>2, <1>3, PTL DEF Spec
=============================================================================
