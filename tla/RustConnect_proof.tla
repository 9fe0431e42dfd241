----------------------------- MODULE RustConnect_proof -----------------------------
(***************************************************************************)
(* Safety of RustConnect for every set of worlds, accounts and addresses.  *)
(***************************************************************************)
EXTENDS RustConnect, TLAPS

\* Nothing that the client does before it has sent its request, and nothing that
\* happens on the network, reaches what the server decides over.
Early == {"args", "start", "resolve", "connecting", "bootstrap", "authenticate",
          "discovery", "callback", "exchange", "request"}
Deciding == {"verify", "discovery", "jwks"}

RequestInv ==
    /\ pc \in Early => request = None
    /\ server \in Deciding \cup {"authorize", "admitted"} => request # None

TokenInv ==
    /\ server \in Deciding => Authorization.kind = "Bearer"
    /\ server \in {"discovery", "jwks"} =>
          /\ next \in 1..Len(Identities)
          /\ Identities[next].kind # "key"
          /\ OidcClaimsHold(Identities[next], Authorization.token, peer, checked)

AdmitInv == RequestInv /\ TokenInv /\ AdmittedIsEntitled

\* What the verdict depends on.
subject == <<world, peer, request, server, user, next, checked>>

-----------------------------------------------------------------------------
LEMMA SubjectUnchanged ==
    ASSUME TokenInv, AdmittedIsEntitled, UNCHANGED subject
    PROVE  TokenInv' /\ AdmittedIsEntitled'
<1>1. /\ Identities' = Identities
      /\ Authorization' = Authorization
      /\ Config' = Config
  BY DEF subject, Identities, Authorization, Config
<1>2. \A token : Listed(token)' <=> Listed(token)
  BY <1>1 DEF subject, Listed, Made, Issuer
<1>. QED
  BY <1>1, <1>2 DEF TokenInv, AdmittedIsEntitled, subject, Deciding

\* A server that has not come to a verdict has nothing to show for it.
LEMMA BeforeVerdict ==
    ASSUME server' \notin Deciding \cup {"admitted"}
    PROVE  TokenInv' /\ AdmittedIsEntitled'
BY DEF TokenInv, AdmittedIsEntitled, Deciding

-----------------------------------------------------------------------------
LEMMA AdmitInitially == Init => AdmitInv
BY DEF Init, AdmitInv, RequestInv, TokenInv, AdmittedIsEntitled, Early, Deciding

LEMMA RequestStep == RequestInv /\ [Next]_vars => RequestInv'
<1>. SUFFICES ASSUME RequestInv, [Next]_vars PROVE RequestInv'
  OBVIOUS
<1>. USE DEF RequestInv, Early, Deciding
<1>1. CASE ClientStep
  <2>1. CASE ParseArgs
    BY <2>1 DEF ParseArgs, Fail, serverVars, wireVars
  <2>2. CASE Precompute
    BY <2>2 DEF Precompute, Fail, serverVars, wireVars
  <2>3. CASE ConnectTarget
    BY <2>3 DEF ConnectTarget, Fail, serverVars, wireVars
  <2>4. CASE AttemptsExhausted
    BY <2>4 DEF AttemptsExhausted, Fail, serverVars, wireVars
  <2>5. CASE Bootstrap
    BY <2>5 DEF Bootstrap, Fail, serverVars, wireVars
  <2>6. CASE Authenticate
    BY <2>6 DEF Authenticate, Fail, serverVars, wireVars
  <2>7. CASE OidcDiscovery
    BY <2>7 DEF OidcDiscovery, Fail, serverVars, wireVars
  <2>8. CASE OidcExchange
    BY <2>8 DEF OidcExchange, Fail, serverVars, wireVars
  <2>9. CASE SendRequest
    BY <2>9 DEF SendRequest, Fail, serverVars
  <2>10. CASE ReceiveResponse
    BY <2>10 DEF ReceiveResponse, Fail, serverVars, wireVars
  <2>11. CASE Activate
    BY <2>11 DEF Activate, serverVars, wireVars
  <2>. QED
    BY <1>1, <2>1, <2>2, <2>3, <2>4, <2>5, <2>6, <2>7, <2>8, <2>9, <2>10, <2>11
       DEF ClientStep
<1>2. CASE DriverStep
  BY <1>2 DEF DriverStep, DriverPauses, DriverEnds, clientVars, serverVars, wireVars
<1>3. CASE ServerStep
  <2>1. UNCHANGED <<pc, request>>
    BY <1>3 DEF ServerStep, Serve, Accept, Authorize, VerifyIdentity, VerifyDiscovery,
       VerifyJwks, ServerDrops, clientVars, wireVars
  <2>2. request' = None => server' \notin Deciding \cup {"authorize", "admitted"}
    BY <1>3, <2>1 DEF ServerStep, Serve, Accept, Authorize, VerifyIdentity,
       VerifyDiscovery, VerifyJwks, ServerDrops
  <2>. QED
    BY <2>1, <2>2
<1>4. ASSUME NEW a \in Addrs, Handshake(a) \/ AttemptFails(a) PROVE RequestInv'
  BY <1>4 DEF Handshake, AttemptFails, Fail, clientVars, serverVars, wireVars
<1>5. CASE OidcCallback
  BY <1>5 DEF OidcCallback, Fail, serverVars, wireVars
<1>6. CASE OpenSession \/ OpenStream \/ AcceptStream
  BY <1>6 DEF OpenSession, OpenStream, AcceptStream, clientVars, serverVars, wireVars
<1>7. CASE Tick \/ ConnectionLost
  BY <1>7 DEF Tick, ConnectionLost, clientVars, serverVars, wireVars
<1>8. CASE UNCHANGED vars
  BY <1>8 DEF vars, clientVars, serverVars, wireVars
<1>. QED
  BY <1>1, <1>2, <1>3, <1>4, <1>5, <1>6, <1>7, <1>8 DEF Next

-----------------------------------------------------------------------------
\* The signature that admits an OIDC token is of one of the issuer's keys and over the
\* header and the claims that were looked at.
LEMMA SignedByIssuer ==
    ASSUME NEW jwks, NEW token, VerifyOidcSignature(jwks, token)
    PROVE  \E k \in 1..Len(jwks) :
              token.sig = SignJwt(jwks[k].key, token.header, token.claims)
<1>. DEFINE jwk == SelectOidcJwk(jwks, token.header)
<1>1. jwk # None /\ token.sig = [by |-> jwk.key, over |-> <<token.header, token.claims>>]
  BY DEF VerifyOidcSignature, VerifyJwtSignature
<1>2. PICK k \in 1..Len(jwks) : jwk = jwks[k]
  BY <1>1 DEF SelectOidcJwk
<1>. QED
  BY <1>1, <1>2 DEF SignJwt

LEMMA KeyTokenMade ==
    ASSUME NEW identity, NEW token, identity.kind = "key",
           VerifyBearerToken(identity.key, token, user, peer, now)
    PROVE  Made(token, identity) /\ now < token.claims.exp
BY DEF VerifyBearerToken, VerifyJwtSignature, SignJwt, Made, JwtClaims

LEMMA OidcTokenMade ==
    ASSUME NEW identity, NEW token, NEW at, identity.kind # "key",
           OidcClaimsHold(identity, token, peer, at),
           VerifyOidcSignature(Issuer(identity.issuer).jwks, token)
    PROVE  Made(token, identity) /\ at < token.claims.exp
BY SignedByIssuer DEF OidcClaimsHold, Made

\* The password that verify_password accepts is the one of the account.
LEMMA PasswordFits ==
    ASSUME NEW config, NEW name, NEW password,
           VerifyPassword(config, name, password) = "yes"
    PROVE  Accounts[name].password = password
BY DEF VerifyPassword, DefaultPasswordVerifier

LEMMA Kinds ==
    ASSUME NEW value
    PROVE  ParseRequestAuthorization(value).kind \in {"Basic", "Bearer", "None"}
BY DEF ParseRequestAuthorization

-----------------------------------------------------------------------------
\* The last step before each verdict, and the steps on the way to it.
LEMMA AuthorizeAdmits ==
    ASSUME Authorize
    PROVE  TokenInv' /\ AdmittedIsEntitled'
<1>. DEFINE given == Authorization
            who == ResolveSessionUser(request, given, Config)
<1>1. /\ user' = who
      /\ UNCHANGED <<world, peer, request>>
      /\ Authorization' = given
      /\ Config' = Config
  BY DEF Authorize, netVars, Authorization, Config
<1>2. server' \notin {"discovery", "jwks"}
  BY DEF Authorize, Answer
<1>3. server' = "verify" => given.kind = "Bearer"
  <2>1. given.kind \in {"Basic", "Bearer", "None"}
    BY Kinds DEF Authorization
  <2>. QED
    BY <2>1 DEF Authorize, Answer
<1>4. ASSUME server' = "admitted", ShouldAuthenticate(Config)
      PROVE  /\ given.kind = "Basic"
             /\ given.username = who
             /\ VerifyPassword(Config, who, given.password) = "yes"
  BY <1>4 DEF Authorize, Answer
<1>5. server' = "admitted" /\ ShouldAuthenticate(Config) =>
          Accounts[who].password = given.password
  BY <1>4, PasswordFits
<1>. QED
  BY <1>1, <1>2, <1>3, <1>4, <1>5 DEF TokenInv, AdmittedIsEntitled, Deciding

LEMMA VerifyIdentityAdmits ==
    ASSUME TokenInv, VerifyIdentity
    PROVE  TokenInv' /\ AdmittedIsEntitled'
<1>. DEFINE identity == Identities[next]
            token == Authorization.token
<1>1. /\ UNCHANGED <<world, peer, request, user>>
      /\ checked' = now
      /\ next \in 1..Len(Identities)
      /\ Authorization.kind = "Bearer"
  BY DEF VerifyIdentity, netVars, TokenInv, Deciding
<1>2. Identities' = Identities /\ Authorization' = Authorization
  BY <1>1 DEF Identities, Authorization, Config
<1>3. \A t, i : Made(t, i)' <=> Made(t, i)
  BY <1>1 DEF Made, Issuer
<1>4. CASE server' = "admitted"
  <2>1. identity.kind = "key" /\ VerifyBearerToken(identity.key, token, user, peer, now)
    BY <1>4 DEF VerifyIdentity, NextIdentity, Answer
  <2>2. Made(token, identity) /\ checked' < token.claims.exp
    BY <1>1, <2>1, KeyTokenMade
  <2>3. Listed(token)'
    BY <1>1, <1>2, <1>3, <2>2 DEF Listed
  <2>. QED
    BY <1>1, <1>2, <1>4, <2>2, <2>3 DEF TokenInv, AdmittedIsEntitled, Deciding
<1>5. CASE server' = "discovery"
  <2>1. /\ identity.kind # "key"
        /\ OidcClaimsHold(identity, token, peer, now)
        /\ next' = next
    BY <1>5 DEF VerifyIdentity, NextIdentity, Answer
  <2>. QED
    BY <1>1, <1>2, <1>5, <2>1 DEF TokenInv, AdmittedIsEntitled
<1>6. CASE server' \notin {"admitted", "discovery"}
  <2>1. server' # "jwks"
    BY <1>6 DEF VerifyIdentity, NextIdentity, Answer
  <2>. QED
    BY <1>1, <1>2, <1>6, <2>1 DEF TokenInv, AdmittedIsEntitled
<1>. QED
  BY <1>4, <1>5, <1>6

LEMMA VerifyDiscoveryAdmits ==
    ASSUME TokenInv, VerifyDiscovery
    PROVE  TokenInv' /\ AdmittedIsEntitled'
<1>1. /\ UNCHANGED <<world, peer, request, user, checked>>
      /\ server = "discovery"
      /\ server' \notin {"admitted", "discovery"}
      /\ server' = "jwks" => next' = next
  BY DEF VerifyDiscovery, NextIdentity, Answer, netVars
<1>2. Identities' = Identities /\ Authorization' = Authorization
  BY <1>1 DEF Identities, Authorization, Config
<1>. QED
  BY <1>1, <1>2 DEF TokenInv, AdmittedIsEntitled, Deciding

LEMMA VerifyJwksAdmits ==
    ASSUME TokenInv, VerifyJwks
    PROVE  TokenInv' /\ AdmittedIsEntitled'
<1>. DEFINE identity == Identities[next]
            token == Authorization.token
<1>1. /\ UNCHANGED <<world, peer, request, user, checked>>
      /\ server = "jwks"
      /\ server' \notin {"discovery", "jwks"}
      /\ server' = "admitted" => VerifyOidcSignature(Issuer(identity.issuer).jwks, token)
  BY DEF VerifyJwks, NextIdentity, Answer, netVars
<1>2. Identities' = Identities /\ Authorization' = Authorization
  BY <1>1 DEF Identities, Authorization, Config
<1>3. \A t, i : Made(t, i)' <=> Made(t, i)
  BY <1>1 DEF Made, Issuer
<1>4. /\ Authorization.kind = "Bearer"
      /\ next \in 1..Len(Identities)
      /\ identity.kind # "key"
      /\ OidcClaimsHold(identity, token, peer, checked)
  BY <1>1 DEF TokenInv, Deciding
<1>5. CASE server' = "admitted"
  <2>1. Made(token, identity) /\ checked < token.claims.exp
    BY <1>1, <1>4, <1>5, OidcTokenMade
  <2>2. Listed(token)'
    BY <1>2, <1>3, <1>4, <2>1 DEF Listed
  <2>. QED
    BY <1>1, <1>2, <1>4, <1>5, <2>1, <2>2 DEF TokenInv, AdmittedIsEntitled, Deciding
<1>6. CASE server' # "admitted"
  BY <1>1, <1>2, <1>4, <1>6 DEF TokenInv, AdmittedIsEntitled, Deciding
<1>. QED
  BY <1>5, <1>6

\* Every other step leaves what the verdict depends on alone, but for the time.
LEMMA OtherSteps ==
    ASSUME [Next]_vars
    PROVE  \/ ServerStep \/ SendRequest \/ \E a \in Addrs : Handshake(a)
           \/ UNCHANGED subject /\ (now' = now \/ now' = now + 1)
<1>. DEFINE Other == UNCHANGED subject /\ (now' = now \/ now' = now + 1)
<1>. SUFFICES ASSUME ~ServerStep, ~SendRequest, ~\E a \in Addrs : Handshake(a)
              PROVE  Other
  OBVIOUS
<1>. USE DEF subject, netVars, serverVars, wireVars
<1>1. CASE ClientStep
  BY <1>1 DEF ClientStep, ParseArgs, Precompute, ConnectTarget, AttemptsExhausted,
     Bootstrap, Authenticate, OidcDiscovery, OidcExchange, ReceiveResponse, Activate
<1>2. CASE DriverStep
  BY <1>2 DEF DriverStep, DriverPauses, DriverEnds
<1>3. ASSUME NEW a \in Addrs, AttemptFails(a) PROVE Other
  BY <1>3 DEF AttemptFails
<1>4. CASE OidcCallback \/ OpenSession \/ OpenStream \/ AcceptStream
  BY <1>4 DEF OidcCallback, OpenSession, OpenStream, AcceptStream
<1>5. CASE Tick \/ ConnectionLost
  BY <1>5 DEF Tick, ConnectionLost
<1>6. CASE UNCHANGED vars
  BY <1>6 DEF vars
<1>. QED
  BY <1>1, <1>2, <1>3, <1>4, <1>5, <1>6 DEF Next

LEMMA AdmitStep == AdmitInv /\ [Next]_vars => AdmitInv'
<1>. SUFFICES ASSUME AdmitInv, [Next]_vars PROVE TokenInv' /\ AdmittedIsEntitled'
  BY RequestStep DEF AdmitInv
<1>. USE DEF AdmitInv
<1>1. CASE ServerStep
  <2>1. CASE Serve \/ Accept \/ ServerDrops
    BY <2>1, BeforeVerdict DEF Serve, Accept, ServerDrops, Deciding
  <2>. QED
    BY <1>1, <2>1, AuthorizeAdmits, VerifyIdentityAdmits, VerifyDiscoveryAdmits,
       VerifyJwksAdmits DEF ServerStep
<1>2. CASE SendRequest \/ \E a \in Addrs : Handshake(a)
  <2>1. request = None /\ UNCHANGED server
    BY <1>2 DEF SendRequest, Handshake, RequestInv, Early, serverVars
  <2>. QED
    BY <2>1, BeforeVerdict DEF RequestInv, Deciding
<1>3. CASE UNCHANGED subject
  BY <1>3, SubjectUnchanged
<1>. QED
  BY <1>1, <1>2, <1>3, OtherSteps

\* handle_conversation and authorize_request: whatever the worlds, a server that
\* authenticates admits a connection only on the password of the user or on a token
\* that a listed key or issuer made for this user and connection, live when checked.
THEOREM OnlyEntitledAdmitted == Spec => []AdmittedIsEntitled
<1>1. AdmitInv => AdmittedIsEntitled
  BY DEF AdmitInv
<1>. QED
  BY <1>1, AdmitInitially, AdmitStep, PTL DEF Spec

-----------------------------------------------------------------------------
(* The other half of the verdict: a client is refused only when everything *)
(* that could have admitted it was looked at.                              *)

\* What the loop of authorize_request asks of one identity at time t.
Accepts(identity, token, t) ==
    IF identity.kind = "key"
    THEN VerifyBearerToken(identity.key, token, user, peer, t)
    ELSE /\ OidcClaimsHold(identity, token, peer, t)
         /\ Issuer(identity.issuer).state = "up"
         /\ Issuer(identity.issuer).says = Issuer(identity.issuer).name
         /\ Issuer(identity.issuer).jwks_state = "up"
         /\ VerifyOidcSignature(Issuer(identity.issuer).jwks, token)

\* Identity n had its turn, and did not accept the token.
TurnedDown(n) == \E t \in 0..now : ~Accepts(Identities[n], Authorization.token, t)

\* A server refuses a request that is not of ssh3 or of nobody it knows; if it
\* authenticates, one with a wrong password, one without a credential, and one with a
\* token that no identity in the files accepted when its turn came, the last one
\* included: an identity that errs, or whose issuer does, hides none behind it.
RefusedForAReason ==
    server = "refused" =>
        \/ ~request.ssh3
        \/ user = None
        \/ /\ ShouldAuthenticate(Config)
           /\ \/ /\ Authorization.kind = "Basic"
                 /\ \/ ~Config.enable_password_login
                    \/ Authorization.username # user
                    \/ VerifyPassword(Config, user, Authorization.password) # "yes"
              \/ Authorization.kind = "None"
              \/ /\ Authorization.kind = "Bearer"
                 /\ \/ Identities = <<>>
                    \/ /\ next >= 1
                       /\ ~(next < Len(Identities))
                       /\ \A n \in 1..next : TurnedDown(n)

RefusedInv ==
    /\ now \in Nat
    /\ server = "refused" => request # None
    /\ server \in Deciding =>
          /\ ShouldAuthenticate(Config)
          /\ next \in Nat
          /\ next >= 1
          /\ \A n \in 1..(next - 1) : TurnedDown(n)
    /\ RefusedForAReason

\* A server that has not started on the identities and has not refused says nothing.
LEMMA NotRefused ==
    ASSUME RefusedInv, now' \in Nat, server' \notin Deciding \cup {"refused"}
    PROVE  RefusedInv'
BY DEF RefusedInv, RefusedForAReason, Deciding

\* Time passes, and what was turned down stays turned down.
LEMMA StaysTurnedDown ==
    ASSUME UNCHANGED <<world, peer, request, user>>, now \in Nat, now' \in Nat, now <= now',
           NEW n, TurnedDown(n)
    PROVE  TurnedDown(n)'
<1>1. Identities' = Identities /\ Authorization' = Authorization
  BY DEF Identities, Authorization, Config
<1>2. PICK t \in 0..now : ~Accepts(Identities[n], Authorization.token, t)
  BY DEF TurnedDown
<1>3. t \in 0..now'
  BY <1>2
<1>4. ~Accepts(Identities[n], Authorization.token, t)'
  BY <1>1, <1>2 DEF Accepts, Issuer
<1>. QED
  BY <1>1, <1>3, <1>4 DEF TurnedDown

LEMMA RefusedUnchanged ==
    ASSUME RefusedInv, UNCHANGED subject, now' \in Nat, now <= now'
    PROVE  RefusedInv'
<1>1. /\ UNCHANGED <<world, peer, request, user, server, next>>
      /\ Identities' = Identities
      /\ Authorization' = Authorization
      /\ Config' = Config
  BY DEF subject, Identities, Authorization, Config
<1>2. now \in Nat
  BY DEF RefusedInv
<1>3. \A n : TurnedDown(n) => TurnedDown(n)'
  BY <1>1, <1>2, StaysTurnedDown
<1>. QED
  BY <1>1, <1>3 DEF RefusedInv, RefusedForAReason

\* The loop starts with the first identity; each earlier refusal has its reason.
LEMMA AuthorizeRefuses ==
    ASSUME RefusedInv, RequestInv, Authorize
    PROVE  RefusedInv'
<1>. DEFINE given == Authorization
            who == ResolveSessionUser(request, given, Config)
            files == LoadAuthorizedIdentities(IdentityFiles(Config, who))
<1>1. /\ user' = who
      /\ UNCHANGED <<world, peer, request, now>>
      /\ Authorization' = given
      /\ Config' = Config
      /\ Identities' = files
  BY DEF Authorize, netVars, Authorization, Config, Identities
<1>2. request # None
  BY DEF Authorize, RequestInv
<1>3. given.kind \in {"Basic", "Bearer", "None"}
  BY Kinds DEF Authorization
<1>4. ASSUME server' \in Deciding
      PROVE  ShouldAuthenticate(Config) /\ next' = 1
  BY <1>4 DEF Authorize, Answer, Deciding
<1>5. ASSUME server' = "refused"
      PROVE  \/ ~request.ssh3
             \/ who = None
             \/ /\ ShouldAuthenticate(Config)
                /\ \/ /\ given.kind = "Basic"
                      /\ \/ ~Config.enable_password_login
                         \/ given.username # who
                         \/ VerifyPassword(Config, who, given.password) # "yes"
                   \/ given.kind = "None"
                   \/ given.kind = "Bearer" /\ files = <<>>
  <2>. SUFFICES ASSUME request.ssh3, who # None
                PROVE  /\ ShouldAuthenticate(Config)
                       /\ \/ /\ given.kind = "Basic"
                             /\ \/ ~Config.enable_password_login
                                \/ given.username # who
                                \/ VerifyPassword(Config, who, given.password) # "yes"
                          \/ given.kind = "None"
                          \/ given.kind = "Bearer" /\ files = <<>>
    OBVIOUS
  <2>1. ShouldAuthenticate(Config)
    BY <1>5 DEF Authorize, Answer
  <2>2. CASE given.kind = "Basic"
    BY <1>5, <2>1, <2>2 DEF Authorize, Answer
  <2>3. CASE given.kind = "Bearer"
    BY <1>5, <2>1, <2>3 DEF Authorize, Answer
  <2>. QED
    BY <1>3, <2>1, <2>2, <2>3
<1>6. RefusedForAReason'
  BY <1>1, <1>5 DEF RefusedForAReason
<1>7. \A n \in 1..(1 - 1) : TurnedDown(n)'
  OBVIOUS
<1>. HIDE DEF given, who, files
<1>. QED
  BY <1>1, <1>2, <1>4, <1>6, <1>7 DEF RefusedInv

\* The loop goes on to the next identity, or ends behind the last one.
LEMMA NextIdentityRefuses ==
    ASSUME RefusedInv, RequestInv, TokenInv, server \in Deciding, NextIdentity,
           UNCHANGED <<world, peer, request, user, now>>, TurnedDown(next)
    PROVE  RefusedInv'
<1>1. /\ Identities' = Identities /\ Authorization' = Authorization /\ Config' = Config
  BY DEF Identities, Authorization, Config
<1>2. /\ now \in Nat /\ ShouldAuthenticate(Config) /\ next \in Nat /\ next >= 1
      /\ \A n \in 1..(next - 1) : TurnedDown(n)
  BY DEF RefusedInv
<1>3. request # None /\ Authorization.kind = "Bearer"
  BY DEF RequestInv, TokenInv
<1>4. \A n \in 1..next : n \in 1..(next - 1) \/ n = next
  BY <1>2
<1>5. \A n \in 1..next : TurnedDown(n)
  BY <1>2, <1>4
<1>6. \A n : TurnedDown(n) => TurnedDown(n)'
  BY <1>2, StaysTurnedDown
<1>7. \A n \in 1..next : TurnedDown(n)'
  BY <1>5, <1>6
<1>8. CASE next < Len(Identities)
  <2>1. server' = "verify" /\ next' = next + 1
    BY <1>8 DEF NextIdentity
  <2>2. next' \in Nat /\ next' >= 1 /\ next' - 1 = next
    BY <1>2, <2>1
  <2>3. \A n \in 1..(next' - 1) : TurnedDown(n)'
    BY <1>7, <2>2
  <2>. QED
    BY <1>1, <1>2, <2>1, <2>2, <2>3 DEF RefusedInv, RefusedForAReason
<1>9. CASE ~(next < Len(Identities))
  <2>1. next' = next /\ server' \in {"refused", "failed"}
    BY <1>9 DEF NextIdentity, Answer
  <2>2. RefusedForAReason'
    BY <1>1, <1>2, <1>3, <1>7, <1>9, <2>1 DEF RefusedForAReason
  <2>. QED
    BY <1>2, <1>3, <2>1, <2>2 DEF RefusedInv, Deciding
<1>. QED
  BY <1>8, <1>9

\* A step that stays at the identity, or admits.
LEMMA SameIdentityRefuses ==
    ASSUME RefusedInv, server \in Deciding, next' = next,
           server' \in Deciding \cup {"admitted", "failed"},
           UNCHANGED <<world, peer, request, user, now>>
    PROVE  RefusedInv'
<1>1. Config' = Config
  BY DEF Config
<1>2. now \in Nat
  BY DEF RefusedInv
<1>3. \A n : TurnedDown(n) => TurnedDown(n)'
  BY <1>2, StaysTurnedDown
<1>. QED
  BY <1>1, <1>3 DEF RefusedInv, RefusedForAReason, Deciding

\* One turn of the loop: an identity is left behind only when it did not accept.
LEMMA LoopRefuses ==
    ASSUME RefusedInv, RequestInv, TokenInv,
           VerifyIdentity \/ VerifyDiscovery \/ VerifyJwks
    PROVE  RefusedInv'
<1>. DEFINE identity == Identities[next]
            token == Authorization.token
            Left == NextIdentity /\ ~Accepts(identity, token, now)
            Stays == next' = next /\ server' \in Deciding \cup {"admitted", "failed"}
<1>1. UNCHANGED <<world, peer, request, user, now>> /\ server \in Deciding
  BY DEF VerifyIdentity, VerifyDiscovery, VerifyJwks, netVars, Deciding
<1>2. now \in 0..now
  BY DEF RefusedInv
<1>3. server \in {"discovery", "jwks"} => identity.kind # "key"
  BY DEF TokenInv
<1>4. Left \/ Stays
  <2>1. CASE VerifyIdentity
    BY <2>1 DEF VerifyIdentity, Answer, Accepts, Deciding
  <2>2. CASE VerifyDiscovery
    <3>1. identity.kind # "key"
      BY <1>3, <2>2 DEF VerifyDiscovery
    <3>. QED
      BY <2>2, <3>1 DEF VerifyDiscovery, Accepts, Deciding
  <2>3. CASE VerifyJwks
    <3>1. identity.kind # "key"
      BY <1>3, <2>3 DEF VerifyJwks
    <3>. QED
      BY <2>3, <3>1 DEF VerifyJwks, Answer, Accepts, Deciding
  <2>. QED
    BY <2>1, <2>2, <2>3
<1>5. CASE Left
  <2>1. TurnedDown(next)
    BY <1>2, <1>5 DEF TurnedDown
  <2>. QED
    BY <1>1, <1>5, <2>1, NextIdentityRefuses
<1>6. CASE Stays
  BY <1>1, <1>6, SameIdentityRefuses
<1>. QED
  BY <1>4, <1>5, <1>6

LEMMA RefusedInitially == Init => RefusedInv
BY DEF Init, RefusedInv, RefusedForAReason, Deciding

LEMMA RefusedStep == AdmitInv /\ RefusedInv /\ [Next]_vars => RefusedInv'
<1>. SUFFICES ASSUME AdmitInv, RefusedInv, [Next]_vars PROVE RefusedInv'
  OBVIOUS
<1>. USE DEF AdmitInv
<1>0. now \in Nat
  BY DEF RefusedInv
<1>1. CASE ServerStep
  <2>1. CASE Serve \/ Accept \/ ServerDrops
    <3>1. server' \notin Deciding \cup {"refused"} /\ now' = now
      BY <2>1 DEF Serve, Accept, ServerDrops, Deciding
    <3>. QED
      BY <1>0, <3>1, NotRefused
  <2>. QED
    BY <1>1, <2>1, AuthorizeRefuses, LoopRefuses DEF ServerStep
<1>2. CASE SendRequest \/ \E a \in Addrs : Handshake(a)
  <2>1. request = None /\ UNCHANGED <<server, now>>
    BY <1>2 DEF SendRequest, Handshake, RequestInv, Early, serverVars
  <2>2. server' \notin Deciding \cup {"refused"}
    BY <2>1 DEF RequestInv, RefusedInv, Deciding
  <2>. QED
    BY <1>0, <2>1, <2>2, NotRefused
<1>3. CASE UNCHANGED subject /\ (now' = now \/ now' = now + 1)
  <2>1. now' \in Nat /\ now <= now'
    BY <1>0, <1>3
  <2>. QED
    BY <1>3, <2>1, RefusedUnchanged
<1>. QED
  BY <1>1, <1>2, <1>3, OtherSteps

\* authorize_request: whatever the worlds, a client is refused only for what it asked or
\* showed, and a token only after every listed identity had its turn and did not accept
\* it, whatever lines, keys or issuers failed before.
THEOREM NobodySkipped == Spec => []RefusedForAReason
<1>1. RefusedInv => RefusedForAReason
  BY DEF RefusedInv
<1>. QED
  BY <1>1, AdmitInitially, AdmitStep, RefusedInitially, RefusedStep, PTL DEF Spec

-----------------------------------------------------------------------------
(* NoStreamRejected: by the time a stream of the server can exist, the     *)
(* client has opened a session, which it does only when the driver has     *)
(* left the connection alone.                                              *)

DriverInv ==
    /\ session => pc = "active"
    /\ stream # "none" => session
    /\ pc = "active" => driver # "polling"
    /\ NoStreamRejected

LEMMA DriverInitially == Init => DriverInv
BY DEF Init, DriverInv, NoStreamRejected

LEMMA DriverInvStep == DriverInv /\ [Next]_vars => DriverInv'
<1>. SUFFICES ASSUME DriverInv, [Next]_vars PROVE DriverInv'
  OBVIOUS
<1>. USE DEF DriverInv, NoStreamRejected
<1>1. CASE ClientStep
  <2>1. CASE ConnectTarget
    BY <2>1 DEF ConnectTarget, Fail, wireVars
  <2>2. CASE ~ConnectTarget
    BY <1>1, <2>2 DEF ClientStep, ParseArgs, Precompute, AttemptsExhausted, Bootstrap,
       Authenticate, OidcDiscovery, OidcExchange, SendRequest, ReceiveResponse,
       Activate, Fail, wireVars
  <2>. QED
    BY <2>1, <2>2
<1>2. CASE DriverStep
  BY <1>2 DEF DriverStep, DriverPauses, DriverEnds, clientVars, wireVars
<1>3. CASE ServerStep
  BY <1>3 DEF ServerStep, Serve, Accept, Authorize, VerifyIdentity, VerifyDiscovery,
     VerifyJwks, ServerDrops, clientVars, wireVars
<1>4. ASSUME NEW a \in Addrs, Handshake(a) \/ AttemptFails(a) PROVE DriverInv'
  BY <1>4 DEF Handshake, AttemptFails, Fail, clientVars, wireVars
<1>5. CASE OidcCallback
  BY <1>5 DEF OidcCallback, Fail, wireVars
<1>6. CASE OpenSession \/ OpenStream
  BY <1>6 DEF OpenSession, OpenStream, clientVars, wireVars
<1>7. CASE AcceptStream
  BY <1>7 DEF AcceptStream, clientVars
<1>8. CASE Tick \/ ConnectionLost
  BY <1>8 DEF Tick, ConnectionLost, clientVars, wireVars
<1>9. CASE UNCHANGED vars
  BY <1>9 DEF vars, clientVars, wireVars
<1>. QED
  BY <1>1, <1>2, <1>3, <1>4, <1>5, <1>6, <1>7, <1>8, <1>9 DEF Next

\* spawn_bootstrap_driver: no interleaving of client, driver and server lets the driver
\* see a stream that the server opened.
THEOREM StreamsNotRejected == Spec => []NoStreamRejected
<1>1. DriverInv => NoStreamRejected
  BY DEF DriverInv
<1>. QED
  BY <1>1, DriverInitially, DriverInvStep, PTL DEF Spec

-----------------------------------------------------------------------------
(* VerdictAgrees: the response is there only after the verdict, which does *)
(* not change, and the user that the client named is in every part of the  *)
(* request that the server looks at.                                       *)

Undecided == Deciding \cup {"idle", "accept", "authorize", "failed"}
Refusal == {"refused", "ended"}

ReplyInv ==
    /\ server \in Undecided => reply = None
    /\ reply = 200 => server = "admitted"
    /\ reply \notin {None, 200} => server \in Refusal
    /\ pc \in {"pausing", "active"} => server = "admitted"
    /\ failure = "UnexpectedStatus" => server \in Refusal

Names(value) == value.scheme = "Basic" => value.parts[1] = Client.username

UserInv ==
    /\ Names(auth)
    /\ request # None => request.header = Client.username /\ Names(request.auth)
    /\ server \in Deciding \cup {"admitted"} => Client.username \in {None, user}

VerdictInv == RequestInv /\ ReplyInv /\ UserInv

LEMMA VerdictInitially == Init => VerdictInv
<1>. SUFFICES ASSUME Init PROVE VerdictInv
  OBVIOUS
<1>1. RequestInv
  BY AdmitInitially DEF AdmitInv
<1>2. ReplyInv
  BY NoneAssumption DEF Init, NoneAssumption, ReplyInv, Undecided, Refusal, Deciding
<1>3. UserInv
  BY DEF Init, UserInv, Names, NoAuthorization, Deciding
<1>. QED
  BY <1>1, <1>2, <1>3 DEF VerdictInv

\* A verdict, and the response that goes with it.
LEMMA AnswerStep ==
    ASSUME ReplyInv, server \in Deciding \cup {"authorize"}, UNCHANGED <<pc, failure>>,
           \/ \E status \in {200, 401, 404} : Answer(status)
           \/ server' \in Deciding \cup {"failed"} /\ UNCHANGED reply
    PROVE  ReplyInv'
<1>. USE NoneAssumption DEF NoneAssumption, ReplyInv, Undecided, Refusal, Deciding
<1>1. reply = None
  OBVIOUS
<1>2. ASSUME NEW status \in {200, 401, 404}, Answer(status)
      PROVE  ReplyInv'
  <2>1. CASE link = "open" /\ status = 200
    BY <1>1, <1>2, <2>1 DEF Answer
  <2>2. CASE link = "open" /\ status # 200
    BY <1>1, <1>2, <2>2 DEF Answer
  <2>3. CASE link # "open"
    BY <1>1, <1>2, <2>3 DEF Answer
  <2>. QED
    BY <2>1, <2>2, <2>3
<1>3. CASE server' \in Deciding \cup {"failed"} /\ UNCHANGED reply
  BY <1>1, <1>3
<1>. QED
  BY <1>2, <1>3

LEMMA ReplyStep == ReplyInv /\ [Next]_vars => ReplyInv'
<1>. SUFFICES ASSUME ReplyInv, [Next]_vars PROVE ReplyInv'
  OBVIOUS
<1>1. CASE ServerStep
  <2>1. CASE Serve \/ Accept \/ ServerDrops
    BY <2>1, NoneAssumption DEF NoneAssumption, Serve, Accept, ServerDrops, ReplyInv,
       Undecided, Refusal, Deciding, clientVars, wireVars
  <2>2. CASE Authorize
    BY <2>2, AnswerStep DEF Authorize, Deciding, clientVars
  <2>3. CASE VerifyIdentity
    BY <2>3, AnswerStep DEF VerifyIdentity, NextIdentity, Deciding, clientVars
  <2>4. CASE VerifyDiscovery
    BY <2>4, AnswerStep DEF VerifyDiscovery, NextIdentity, Deciding, clientVars
  <2>5. CASE VerifyJwks
    BY <2>5, AnswerStep DEF VerifyJwks, NextIdentity, Deciding, clientVars
  <2>. QED
    BY <1>1, <2>1, <2>2, <2>3, <2>4, <2>5 DEF ServerStep
<1>. USE DEF ReplyInv, serverVars
<1>2. CASE ClientStep
  <2>1. CASE ConnectTarget
    BY <2>1 DEF ConnectTarget, Fail, wireVars
  <2>2. CASE ReceiveResponse
    BY <2>2, NoneAssumption
       DEF NoneAssumption, ReceiveResponse, Fail, wireVars, Refusal
  <2>3. CASE ~ConnectTarget /\ ~ReceiveResponse
    BY <1>2, <2>3 DEF ClientStep, ParseArgs, Precompute, AttemptsExhausted, Bootstrap,
       Authenticate, OidcDiscovery, OidcExchange, SendRequest, Activate, Fail, wireVars
  <2>. QED
    BY <2>1, <2>2, <2>3
<1>3. CASE DriverStep
  BY <1>3 DEF DriverStep, DriverPauses, DriverEnds, clientVars, wireVars
<1>4. ASSUME NEW a \in Addrs, Handshake(a) \/ AttemptFails(a) PROVE ReplyInv'
  BY <1>4 DEF Handshake, AttemptFails, Fail, clientVars, wireVars
<1>5. CASE OidcCallback
  BY <1>5 DEF OidcCallback, Fail, wireVars
<1>6. CASE OpenSession \/ OpenStream \/ AcceptStream
  BY <1>6 DEF OpenSession, OpenStream, AcceptStream, clientVars, wireVars
<1>7. CASE Tick \/ ConnectionLost
  BY <1>7 DEF Tick, ConnectionLost, clientVars, wireVars
<1>8. CASE UNCHANGED vars
  BY <1>8 DEF vars, clientVars, wireVars
<1>. QED
  BY <1>1, <1>2, <1>3, <1>4, <1>5, <1>6, <1>7, <1>8 DEF Next

\* resolve_session_user takes the name of the request.
LEMMA UserIsNamed ==
    ASSUME request.header = Client.username, Names(request.auth),
           ResolveSessionUser(request, Authorization, Config) # None
    PROVE  Client.username \in {None, ResolveSessionUser(request, Authorization, Config)}
<1>1. Authorization.kind = "Basic" => Authorization.username = Client.username
  BY DEF Authorization, ParseRequestAuthorization, Names
<1>2. request.header # None => RequestedUsername(request, Config) = request.header
  BY DEF RequestedUsername
<1>. QED
  BY <1>1, <1>2 DEF ResolveSessionUser, LookupSessionUser

LEMMA UserStep == RequestInv /\ UserInv /\ [Next]_vars => UserInv'
<1>. SUFFICES ASSUME RequestInv, UserInv, [Next]_vars PROVE UserInv'
  OBVIOUS
<1>0. world' = world
  BY DEF Next, vars, ClientStep, DriverStep, ServerStep, ParseArgs, Precompute,
     ConnectTarget, AttemptsExhausted, Bootstrap, Authenticate, OidcDiscovery,
     OidcExchange, SendRequest, ReceiveResponse, Activate, DriverPauses, DriverEnds,
     Serve, Accept, Authorize, VerifyIdentity, VerifyDiscovery, VerifyJwks, ServerDrops,
     Handshake, AttemptFails, OidcCallback, OpenSession, OpenStream, AcceptStream,
     Tick, ConnectionLost
<1>c. Client' = Client
  BY <1>0 DEF Client
<1>n. \A value : Names(value)' <=> Names(value)
  BY <1>c DEF Names
<1>1. CASE UNCHANGED <<auth, request, server, user>>
  BY <1>1, <1>c, <1>n DEF UserInv
<1>2. CASE Precompute
  <2>1. Names(auth')
    BY <1>2 DEF Precompute, BasicAuthorizationValue, BearerAuthorizationValue, Names,
       UserInv
  <2>. QED
    BY <1>2, <1>c, <1>n, <2>1 DEF Precompute, serverVars, wireVars, UserInv
<1>3. CASE Authenticate \/ OidcExchange
  <2>1. Names(auth')
    BY <1>3 DEF Authenticate, OidcExchange, BearerAuthorizationValue, Names, UserInv
  <2>. QED
    BY <1>3, <1>c, <1>n, <2>1
       DEF Authenticate, OidcExchange, serverVars, wireVars, UserInv
<1>4. CASE SendRequest
  <2>1. request' # None => request'.header = Client.username /\ Names(request'.auth)
    BY <1>4 DEF SendRequest, UserInv
  <2>. QED
    BY <1>4, <1>c, <1>n, <2>1 DEF SendRequest, serverVars, UserInv
<1>5. CASE Authorize
  <2>1. /\ UNCHANGED <<auth, request>>
        /\ user' = ResolveSessionUser(request, Authorization, Config)
        /\ server' \in Deciding \cup {"admitted"} => user' # None
    BY <1>5 DEF Authorize, Answer, clientVars, Deciding
  <2>2. request # None
    BY <1>5 DEF Authorize, RequestInv
  <2>. QED
    BY <1>c, <1>n, <2>1, <2>2, UserIsNamed DEF UserInv
<1>6. CASE ServerStep /\ ~Authorize
  <2>1. /\ UNCHANGED <<auth, request, user>>
        /\ server' \in Deciding \cup {"admitted"} => server \in Deciding
    BY <1>6 DEF ServerStep, Serve, Accept, VerifyIdentity, VerifyDiscovery, VerifyJwks,
       ServerDrops, Deciding, clientVars, wireVars
  <2>. QED
    BY <1>c, <1>n, <2>1 DEF UserInv
<1>7. \/ UNCHANGED <<auth, request, server, user>>
      \/ Precompute \/ Authenticate \/ OidcExchange \/ SendRequest \/ ServerStep
  BY DEF Next, vars, ClientStep, DriverStep, ParseArgs, ConnectTarget,
     AttemptsExhausted, Bootstrap, OidcDiscovery, ReceiveResponse, Activate,
     DriverPauses, DriverEnds, Handshake, AttemptFails, OidcCallback, OpenSession,
     OpenStream, AcceptStream, Tick, ConnectionLost, clientVars, serverVars, wireVars
<1>. QED
  BY <1>1, <1>2, <1>3, <1>4, <1>5, <1>6, <1>7

LEMMA VerdictStep == VerdictInv /\ [Next]_vars => VerdictInv'
BY RequestStep, ReplyStep, UserStep DEF VerdictInv

\* connect_client against handle_conversation: a client that goes on was admitted, as
\* the user it named if it named one, and a client that saw another status was not.
THEOREM BothSidesAgree == Spec => []VerdictAgrees
<1>1. VerdictInv => VerdictAgrees
  <2>1. world.cli # None => Client.username = world.cli.user
    BY DEF Client, BuildConfig
  <2>. QED
    BY <2>1 DEF VerdictInv, ReplyInv, UserInv, VerdictAgrees, Refusal, Deciding
<1>. QED
  BY <1>1, VerdictInitially, VerdictStep, PTL DEF Spec
===================================================================================
