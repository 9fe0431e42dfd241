-------------------------------- MODULE RustAuth --------------------------------
(***************************************************************************)
(* How the Rust client proves who it is and what the Rust server makes of  *)
(* it: bearer tokens signed with an SSH key or by an OIDC issuer, the      *)
(* files of authorized identities, the SSH agent, and the server's choice  *)
(* of user.  These are pure operators; RustConnect says when they run.     *)
(*                                                                         *)
(* A key is [kty, id].  A signature is the pair of who signed and what was *)
(* signed, so that it verifies under one key and for one content.  A       *)
(* conversation id stands for itself: its base64 form is one to one.       *)
(***************************************************************************)
EXTENDS Integers, Sequences

CONSTANTS
    Lifetime,  \* TOKEN_LIFETIME_SECS
    Accounts,  \* users of the host: name |-> [password, shadow, files]
    None

-----------------------------------------------------------------------------
(* Tokens *)

JwtAlgorithm(key) ==
    CASE key.kty = "Ed25519" -> "EdDSA"
      [] key.kty = "P256" -> "ES256"
      [] key.kty = "RSA" -> "RS256"
      [] OTHER -> None

SignJwt(key, header, claims) == [by |-> key, over |-> <<header, claims>>]

VerifyJwtSignature(key, token) ==
    token.sig = [by |-> key, over |-> <<token.header, token.claims>>]

\* The file may be unreadable, no key, or a key that is encrypted.
LoadPrivateKey(file) == IF file.usable THEN file.key ELSE None

BuildBearerToken(key, username, conversation, now) ==
    LET header == [alg |-> JwtAlgorithm(key), kid |-> None]
        claims == [iss |-> username, sub |-> "ssh3", aud |-> "unused",
                   iat |-> now, exp |-> now + Lifetime,
                   client_id |-> <<"ssh3", username>>, jti |-> conversation]
    IN  [header |-> header, claims |-> claims,
         sig |-> SignJwt(key, header, claims)]

\* Mutant of VerifyBearerToken: the token is not bound to the conversation.
VerifyBearerTokenAnyConversation(key, token, username, conversation, now) ==
    /\ JwtAlgorithm(key) # None
    /\ token.header.alg = JwtAlgorithm(key)
    /\ token.claims.iss = username
    /\ token.claims.iat <= now
    /\ now < token.claims.exp
    /\ VerifyJwtSignature(key, token)

\* The fields of JwtClaims: a token that lacks one of them does not parse.
JwtClaims == {"iss", "sub", "aud", "iat", "exp", "client_id", "jti"}

VerifyBearerToken(key, token, username, conversation, now) ==
    /\ JwtAlgorithm(key) # None
    /\ token.header.alg = JwtAlgorithm(key)
    /\ JwtClaims \subseteq DOMAIN token.claims
    /\ token.claims.iss = username
    /\ token.claims.sub = "ssh3"
    /\ token.claims.aud = "unused"
    /\ token.claims.client_id = <<"ssh3", username>>
    /\ token.claims.jti = conversation
    /\ token.claims.iat <= now
    /\ now < token.claims.exp
    /\ VerifyJwtSignature(key, token)

\* Mutant of OidcClaimsHold: the issuer is asked before the claims are looked at.
OidcClaimsHoldAskFirst(identity, token, nonce, now) == TRUE

\* Mutant of OidcClaimsHold: a token that the issuer made for any client will do.
OidcClaimsHoldAnyAudience(identity, token, nonce, now) ==
    /\ token.claims.iss = identity.issuer
    /\ now < token.claims.exp
    /\ token.claims.email = identity.email
    /\ token.claims.email_verified
    /\ "nonce" \in DOMAIN token.claims
    /\ token.claims.nonce = nonce

\* What verify_oidc_identity_token looks at before it asks the issuer anything.
OidcClaimsHold(identity, token, nonce, now) ==
    /\ token.claims.iss = identity.issuer
    /\ identity.client_id \in token.claims.aud
    /\ now < token.claims.exp
    /\ token.claims.email = identity.email
    /\ token.claims.email_verified
    /\ "nonce" \in DOMAIN token.claims
    /\ token.claims.nonce = nonce

OidcJwkSupports(jwk, alg) ==
    \/ alg = "RS256" /\ jwk.key.kty = "RSA"
    \/ alg = "ES256" /\ jwk.key.kty = "P256"

\* The first key that fits is the only one that is tried.
SelectOidcJwk(jwks, header) ==
    LET Fits(jwk) == /\ header.kid \in {None, jwk.kid}
                     /\ jwk.alg \in {None, header.alg}
                     /\ OidcJwkSupports(jwk, header.alg)
        First(i) == Fits(jwks[i]) /\ \A j \in 1..(i - 1) : ~Fits(jwks[j])
    IN  IF \E i \in 1..Len(jwks) : First(i)
        THEN jwks[CHOOSE i \in 1..Len(jwks) : First(i)]
        ELSE None

VerifyOidcSignature(jwks, token) ==
    LET jwk == SelectOidcJwk(jwks, token.header)
    IN  jwk # None /\ VerifyJwtSignature(jwk.key, token)

-----------------------------------------------------------------------------
(* The files of authorized identities.  A line is an OIDC identity, a key, *)
(* or something that parses as neither.                                    *)

ParseAuthorizedIdentities(lines) ==
    SelectSeq(lines, LAMBDA line : line.kind \in {"oidc", "key"})

\* None when a file that exists cannot be read.
LoadAuthorizedIdentities(files) ==
    LET read[n \in 0..Len(files)] ==
            IF n = 0 THEN <<>>
            ELSE read[n - 1] \o
                 (IF files[n].state = "ok"
                  THEN ParseAuthorizedIdentities(files[n].lines) ELSE <<>>)
    IN  IF \E n \in 1..Len(files) : files[n].state = "unreadable"
        THEN None
        ELSE read[Len(files)]

-----------------------------------------------------------------------------
(* The SSH agent: its keys, or None when nothing listens, and the          *)
(* algorithm of its RSA signatures, or None when it refuses to sign.  A    *)
(* key that the ssh_key crate cannot parse has kty None.                   *)

SupportedByAgent(key) == key.kty \in {"Ed25519", "RSA"}

ListIdentities(agent) ==
    IF agent.keys = None \/ \E i \in 1..Len(agent.keys) : agent.keys[i].kty = None
    THEN None
    ELSE agent.keys

\* selection is None (AgentSelection::First) or the key whose file is named.
SelectIdentity(agent, selection) ==
    LET keys == ListIdentities(agent)
        Wanted(key) == IF selection = None THEN SupportedByAgent(key)
                       ELSE key = selection
    IN  IF keys = None \/ SelectSeq(keys, Wanted) = <<>> THEN None
        ELSE LET key == SelectSeq(keys, Wanted)[1]
             IN  IF SupportedByAgent(key) THEN key ELSE None

\* The algorithm of the signature that the agent sends, or None.
AgentSign(agent, key) ==
    IF key.kty = "RSA" \/ agent.signs = None THEN agent.signs ELSE key.kty

\* The flags ask for SHA-256, which an agent may ignore.
AgentSignatureFits(jwt_algorithm, algorithm) ==
    \/ jwt_algorithm = "EdDSA" /\ algorithm = "Ed25519"
    \/ jwt_algorithm = "RS256" /\ algorithm = "rsa-sha2-256"

BuildAgentBearerToken(agent, username, conversation, now) ==
    LET key == SelectIdentity(agent, agent.selection)
    IN  IF /\ key # None
           /\ AgentSignatureFits(JwtAlgorithm(key), AgentSign(agent, key))
        THEN BuildBearerToken(key, username, conversation, now)
        ELSE None

-----------------------------------------------------------------------------
(* The server's configuration and its choice of user *)

ShouldAuthenticate(config) ==
    \/ config.require_authentication
    \/ config.enable_password_login
    \/ config.authorized_identity_paths # <<>>

\* A verifier of the caller, or the shadow file, which only Linux has.
PasswordAuthAvailable(config) == config.password_verifier \/ config.linux

\* validate_listener_addr at the start, and validate_connection_addresses for
\* every connection: both ends of an open server have to be on the loopback.
ListenerAllowed(config) ==
    /\ config.enable_password_login => PasswordAuthAvailable(config)
    /\ \/ config.bind_addr = "loopback"
       \/ ShouldAuthenticate(config)
       \/ config.allow_insecure_unauthenticated_remote

ConnectionAllowed(config, local, remote) ==
    \/ ShouldAuthenticate(config)
    \/ config.allow_insecure_unauthenticated_remote
    \/ remote = "loopback" /\ local \in {None, "loopback"}

IdentityFiles(config, user) ==
    IF config.authorized_identity_paths = <<>>
    THEN Accounts[user].files
    ELSE config.authorized_identity_paths

\* Mutant of RequestedUsername: the server's default user comes first.
RequestedUsernameDefaultFirst(request, config) ==
    IF config.default_user # None THEN config.default_user ELSE request.header

RequestedUsername(request, config) ==
    CASE request.header # None -> request.header
      [] request.header = None /\ request.query # None -> request.query
      [] OTHER -> config.default_user

\* The value of the Authorization header is a scheme and what follows it: for Basic
\* the encoded text in the parts that its first colon makes.  User names are taken to
\* hold no colon, as in a password file; of another one the server would see the front.
BasicAuthorizationValue(username, password) ==
    [scheme |-> "Basic", parts |-> <<username, password>>]

BearerAuthorizationValue(token) == [scheme |-> "Bearer", parts |-> <<token>>]

ParseRequestAuthorization(value) ==
    CASE value.scheme = "Basic" /\ Len(value.parts) = 2 ->
            [kind |-> "Basic", username |-> value.parts[1],
             password |-> value.parts[2]]
      [] value.scheme = "Bearer" /\ value.parts # <<>> ->
            [kind |-> "Bearer", token |-> value.parts[1]]
      [] OTHER -> [kind |-> "None"]

LookupSessionUser(name) == IF name \in DOMAIN Accounts THEN name ELSE None

ResolveSessionUser(request, authorization, config) ==
    LookupSessionUser(IF /\ authorization.kind = "Basic"
                         /\ authorization.username # None
                      THEN authorization.username
                      ELSE RequestedUsername(request, config))

\* "error" when the shadow file may not be read; no password fits an account that has
\* no entry there or is locked.
DefaultPasswordVerifier(username, password) ==
    LET account == Accounts[username]
    IN  CASE account.shadow = "denied" -> "error"
          [] account.shadow = "hash" /\ account.password = password -> "yes"
          [] OTHER -> "no"

\* A verifier of the caller is taken to know the passwords.
VerifyPassword(config, username, password) ==
    IF config.password_verifier
    THEN IF Accounts[username].password = password THEN "yes" ELSE "no"
    ELSE DefaultPasswordVerifier(username, password)
=================================================================================
