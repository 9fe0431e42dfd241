------------------------------- MODULE RustConnect -------------------------------
(***************************************************************************)
(* How a Rust client gets a conversation with a Rust server:               *)
(* connect_client on one side, serve_connection and handle_conversation up *)
(* to the response on the other.  The client races the addresses of its    *)
(* target, starts the HTTP/3 driver, makes a credential (which may take a  *)
(* browser and an OIDC issuer), sends the CONNECT request and waits; the   *)
(* server resolves the user, goes through the authorized identities one by *)
(* one (which may take an issuer too) and answers.  The connection may be  *)
(* lost at any time, and it is lost when both sides are silent for long:   *)
(* no keep-alive is configured.                                            *)
(*                                                                         *)
(* What does not change during a run is a world: the client's command line *)
(* or configuration, what its addresses do, the server's configuration,    *)
(* the issuers. The conversation id that both sides export from the TLS    *)
(* session of a connection is represented by the address it goes to.       *)
(***************************************************************************)
EXTENDS RustAuth, FiniteSets

CONSTANTS
    Addrs,   \* what the target may resolve to; an id of the connection, too
    Worlds,
    MaxNow   \* bound on the clock

\* None is neither a status of a response nor an error of the client.
ASSUME NoneAssumption == None # 200 /\ None # "UnexpectedStatus"

VARIABLES
    world,
    now,        \* unix_timestamp_now, the same for everyone
    attempts,   \* the futures of connect_resolved_target
    pc,         \* where connect_client is
    failure,    \* the ClientError it ended with
    link,       \* the QUIC connection: "none", "open", "closed"
    peer,       \* the address that won
    driver,     \* the task of spawn_bootstrap_driver
    auth,       \* the authorization header the client has made
    request,    \* the CONNECT request on its way
    reply,      \* the status of the response on its way
    server,     \* where serve_connection is
    user,       \* session_user
    next,       \* the identity that authorize_request is at
    checked,    \* when the claims of the token at that identity were checked
    session,    \* has the client opened its session channel?
    stream      \* the stream that the server opens for the session's agent

netVars == <<attempts, link, peer>>
clientVars == <<pc, failure, auth, session>>
serverVars == <<server, user, next, checked>>
wireVars == <<request, reply, stream>>
vars == <<world, now, netVars, clientVars, driver, serverVars, wireVars>>

-----------------------------------------------------------------------------
(* The command line of the client *)

AuthArgs == {"identity", "agent", "agent_key", "password", "password_file",
             "bearer_token", "bearer_token_file", "oidc_issuer_url"}

\* The groups, conflicts and requirements that clap checks.
CliAccepted(cli) ==
    /\ Cardinality({arg \in AuthArgs : cli[arg] # None}) <= 1
    /\ \A arg \in {"agent", "agent_key", "password", "password_file"} :
          cli[arg] # None => cli.user # None
    /\ cli.oidc_issuer_url = None <=> cli.oidc_client_id = None
    /\ cli.insecure => cli.ca_cert = None

\* A file of a secret is [state, text], one of certificates [state, roots].
Readable(cli) ==
    \A arg \in {"password_file", "bearer_token_file", "ca_cert"} :
        cli[arg] # None => cli[arg].state = "ok"

Secret(text, file) == IF file # None THEN file.text ELSE text

\* agent is the agent that the user runs.
BuildConfig(cli, agent) ==
    [username |-> cli.user, identity |-> cli.identity,
     agent |-> IF cli.agent # None THEN [agent EXCEPT !.selection = None]
               ELSE IF cli.agent_key # None
               THEN [agent EXCEPT !.selection = cli.agent_key] ELSE None,
     password |-> Secret(cli.password, cli.password_file),
     bearer |-> Secret(cli.bearer_token, cli.bearer_token_file),
     oidc |-> IF cli.oidc_issuer_url = None THEN None
              ELSE [issuer |-> cli.oidc_issuer_url, client_id |-> cli.oidc_client_id],
     trust |-> [insecure |-> cli.insecure,
                roots |-> IF cli.insecure THEN {} ELSE IF cli.ca_cert # None
                          THEN cli.ca_cert.roots ELSE {"webpki"}],
     server_name |-> IF cli.server_name # None THEN cli.server_name ELSE cli.host,
     query |-> cli.query, ssh3 |-> TRUE]

\* A program that calls the library brings a configuration of its own.
Client ==
    IF world.cli = None THEN world.client ELSE BuildConfig(world.cli, world.agent)

-----------------------------------------------------------------------------
Config == world.config
Identities == LoadAuthorizedIdentities(IdentityFiles(Config, user))

\* A request without the header.
NoAuthorization == [scheme |-> "none", parts |-> <<>>]
Authorization == ParseRequestAuthorization(request.auth)

Init ==
    /\ world \in Worlds
    /\ now = 0
    /\ attempts = [a \in Addrs |-> "none"]
    /\ pc = IF world.cli = None THEN "start" ELSE "args"
    /\ failure = None
    /\ link = "none"
    /\ peer = None
    /\ driver = "none"
    /\ auth = NoAuthorization
    /\ request = None
    /\ reply = None
    /\ server = "idle"
    /\ user = None
    /\ next = 0
    /\ checked = None
    /\ session = FALSE
    /\ stream = "none"

-----------------------------------------------------------------------------
(* The client *)

Fail(error) == pc' = "failed" /\ failure' = error

ParseArgs ==
    /\ pc = "args"
    /\ IF CliAccepted(world.cli) /\ Readable(world.cli)
         THEN pc' = "start" /\ UNCHANGED failure
         ELSE Fail("usage")
    /\ UNCHANGED <<world, now, netVars, driver, auth, session, serverVars, wireVars>>

AuthMethodCount ==
    Cardinality({m \in {"identity", "agent", "password", "bearer", "oidc"} :
                    Client[m] # None})

\* precomputed_authorization_header: a token or a password of the configuration.
Precompute ==
    /\ pc = "start"
    /\ IF AuthMethodCount > 1
         THEN Fail("ConflictingAuthenticationMethods") /\ UNCHANGED auth
         ELSE IF Client.password # None /\ Client.username = None
         THEN Fail("MissingUsernameForPassword") /\ UNCHANGED auth
         ELSE /\ pc' = "resolve"
              /\ auth' = IF Client.bearer # None
                         THEN BearerAuthorizationValue(Client.bearer)
                         ELSE IF Client.password # None
                         THEN BasicAuthorizationValue(Client.username, Client.password)
                         ELSE auth
              /\ UNCHANGED failure
    /\ UNCHANGED <<world, now, netVars, driver, serverVars, wireVars, session>>

\* trust.roots are the roots of the trust strategy; Insecure asks for none.
TrustUsable(trust) == trust.insecure \/ trust.roots # {}
CertificateAccepted(trust, name, cert) ==
    trust.insecure \/ (cert.root \in trust.roots /\ name \in cert.names)

\* Mutant of ConnectTarget: the addresses are tried one after the other.
ConnectTargetOneByOne ==
    /\ pc = "resolve"
    /\ world.resolved # {}
    /\ LET first == CHOOSE a \in world.resolved : TRUE
       IN  attempts' = [a \in Addrs |-> IF a = first THEN "connecting" ELSE "none"]
    /\ pc' = "connecting"
    /\ UNCHANGED <<world, now, link, peer, driver, auth, failure, session, serverVars,
                   wireVars>>

\* resolve_target, then one endpoint and one attempt for each address.  An address that
\* the endpoint will not connect to fails them all.
ConnectTarget ==
    /\ pc = "resolve"
    /\ IF world.resolved = {}
         THEN Fail("Resolve") /\ UNCHANGED attempts
         ELSE IF ~TrustUsable(Client.trust)
         THEN Fail("InvalidCertificateBundle") /\ UNCHANGED attempts
         ELSE IF \E a \in world.resolved : world.net[a] = "no connect"
         THEN Fail("Connect") /\ UNCHANGED attempts
         ELSE /\ attempts' = [a \in Addrs |->
                                CASE a \notin world.resolved -> "none"
                                  [] world.net[a] = "no socket" -> "failed"
                                  [] OTHER -> "connecting"]
              /\ pc' = "connecting"
              /\ UNCHANGED failure
    /\ UNCHANGED <<world, now, link, peer, driver, auth, session, serverVars,
                   wireVars>>

\* The rest of the race is dropped, and its endpoints with it.
Dropped(winner) ==
    [a \in Addrs |-> IF a = winner THEN "up" ELSE "dropped"]

\* A server whose configuration is refused does not listen.
Listens(a) == world.net[a] = "serves" /\ ListenerAllowed(Config)

Handshake(a) ==
    /\ pc = "connecting"
    /\ attempts[a] = "connecting"
    /\ Listens(a)
    /\ IF CertificateAccepted(Client.trust, Client.server_name, world.cert)
         THEN /\ pc' = "bootstrap"
              /\ link' = "open"
              /\ peer' = a
              /\ attempts' = Dropped(a)
              /\ UNCHANGED failure
         ELSE /\ Fail("TransportError")
              /\ attempts' = Dropped(None)
              /\ UNCHANGED <<link, peer>>
    /\ UNCHANGED <<world, now, driver, auth, session, serverVars, wireVars>>

AttemptFails(a) ==
    /\ pc = "connecting"
    /\ attempts[a] = "connecting"
    /\ ~Listens(a)
    /\ attempts' = [attempts EXCEPT ![a] = "failed"]
    /\ UNCHANGED <<world, now, link, peer, clientVars, driver, serverVars, wireVars>>

\* The loop has seen every attempt end: the last error is the result.
AttemptsExhausted ==
    /\ pc = "connecting"
    /\ \A a \in Addrs : attempts[a] \in {"failed", "none"}
    /\ Fail("Connection")
    /\ UNCHANGED <<world, now, netVars, driver, auth, session, serverVars, wireVars>>

\* new_client and spawn_bootstrap_driver.
Bootstrap ==
    /\ pc = "bootstrap"
    /\ IF link = "open"
         THEN pc' = "authenticate" /\ driver' = "polling" /\ UNCHANGED failure
         ELSE Fail("H3") /\ UNCHANGED driver
    /\ UNCHANGED <<world, now, netVars, auth, session, serverVars, wireVars>>

\* The token of the identity file or of the agent, or None.
BearerToken ==
    IF Client.identity = None
    THEN BuildAgentBearerToken(Client.agent, Client.username, peer, now)
    ELSE LET key == LoadPrivateKey(Client.identity)
         IN  IF key = None \/ JwtAlgorithm(key) = None THEN None
             ELSE BuildBearerToken(key, Client.username, peer, now)

Authenticate ==
    /\ pc = "authenticate"
    /\ IF auth # NoAuthorization THEN pc' = "request" /\ UNCHANGED <<auth, failure>>
       ELSE IF Client.oidc # None
         THEN pc' = "discovery" /\ UNCHANGED <<auth, failure>>
       ELSE IF Client.identity = None /\ Client.agent = None
         THEN pc' = "request" /\ UNCHANGED <<auth, failure>>
       ELSE IF Client.username = None
         THEN Fail("MissingUsername") /\ UNCHANGED auth
       ELSE IF BearerToken = None
         THEN Fail("Key") /\ UNCHANGED auth
       ELSE /\ auth' = BearerAuthorizationValue(BearerToken)
            /\ pc' = "request"
            /\ UNCHANGED failure
    /\ UNCHANGED <<world, now, netVars, driver, session, serverVars, wireVars>>

Issuer(name) == world.issuers[name]

\* fetch_oidc_discovery_document, without a timeout.
OidcDiscovery ==
    /\ pc = "discovery"
    /\ LET issuer == Issuer(Client.oidc.issuer)
       IN  \/ issuer.state = "up" /\ pc' = "callback" /\ UNCHANGED failure
           \/ issuer.state = "down" /\ Fail("Oidc")
    /\ UNCHANGED <<world, now, netVars, driver, auth, session, serverVars, wireVars>>

\* wait_for_oidc_callback takes the first connection to its listener for the
\* browser, and gives up if that brings an error, another state or no code.
OidcCallback ==
    /\ pc = "callback"
    /\ \/ pc' = "exchange" /\ UNCHANGED failure
       \/ Fail("Oidc")
    /\ UNCHANGED <<world, now, netVars, driver, auth, session, serverVars, wireVars>>

\* What the issuer signs for a client: the nonce is the one the client asked for.
IdToken(issuer, client_id, nonce, at) ==
    LET header == [alg |-> JwtAlgorithm(issuer.signer.key), kid |-> issuer.signer.kid]
        claims == [iss |-> issuer.name, aud |-> {client_id}, exp |-> at + Lifetime,
                   nonce |-> nonce, email |-> issuer.email,
                   email_verified |-> issuer.email_verified]
    IN  [header |-> header, claims |-> claims,
         sig |-> SignJwt(issuer.signer.key, header, claims)]

\* exchange_oidc_code: the token endpoint may fail, or give no id_token.
OidcExchange ==
    /\ pc = "exchange"
    /\ \/ /\ auth' = BearerAuthorizationValue(
                       IdToken(Issuer(Client.oidc.issuer), Client.oidc.client_id, peer, now))
          /\ pc' = "request"
          /\ UNCHANGED failure
       \/ Fail("Oidc") /\ UNCHANGED auth
    /\ UNCHANGED <<world, now, netVars, driver, session, serverVars, wireVars>>

\* establish_client_conversation
SendRequest ==
    /\ pc = "request"
    /\ IF link = "open"
         THEN /\ request' = [ssh3 |-> Client.ssh3, header |-> Client.username,
                             query |-> Client.query, auth |-> auth]
              /\ pc' = "response"
              /\ UNCHANGED failure
         ELSE Fail("Stream") /\ UNCHANGED request
    /\ UNCHANGED <<world, now, netVars, driver, auth, session, serverVars, reply,
                   stream>>

ReceiveResponse ==
    /\ pc = "response"
    /\ \/ reply = 200 /\ pc' = "pausing" /\ UNCHANGED failure
       \/ reply \notin {None, 200} /\ Fail("UnexpectedStatus")
       \/ link = "closed" /\ Fail("Stream")
    /\ UNCHANGED <<world, now, netVars, driver, auth, session, serverVars, wireVars>>

\* Mutants of Activate: the driver is told to pause and not waited for; an answer of
\* a driver that has ended is waited for.
ActivateNoWait ==
    /\ pc = "pausing"
    /\ pc' = "active"
    /\ UNCHANGED <<world, now, netVars, failure, driver, auth, session, serverVars,
                   wireVars>>
ActivateNeedsPaused ==
    /\ pc = "pausing"
    /\ driver = "paused"
    /\ pc' = "active"
    /\ UNCHANGED <<world, now, netVars, failure, driver, auth, session, serverVars,
                   wireVars>>

\* driver_paused.await, which also returns when the task has ended.
Activate ==
    /\ pc = "pausing"
    /\ driver \in {"paused", "ended"}
    /\ pc' = "active"
    /\ UNCHANGED <<world, now, netVars, failure, driver, auth, session, serverVars,
                   wireVars>>

OpenSession ==
    /\ pc = "active"
    /\ link = "open"
    /\ ~session
    /\ session' = TRUE
    /\ UNCHANGED <<world, now, netVars, pc, failure, driver, auth, serverVars,
                   wireVars>>

-----------------------------------------------------------------------------
(* The HTTP/3 driver of the client: poll_close until it is told to pause   *)
(* or the sender is dropped, then until the connection has closed.         *)

DriverPauses ==
    /\ driver = "polling"
    /\ pc \in {"pausing", "active", "failed"}
    /\ driver' = "paused"
    /\ UNCHANGED <<world, now, netVars, clientVars, serverVars, wireVars>>

\* A failed client has dropped its SendRequest, which a poll turns into a close.
DriverEnds ==
    /\ \/ driver \in {"polling", "paused"} /\ link = "closed"
       \/ driver = "polling" /\ pc = "failed"
    /\ driver' = "ended"
    /\ link' = "closed"
    /\ UNCHANGED <<world, now, attempts, peer, clientVars, serverVars, wireVars>>

\* Whoever accepts first has the server's stream: the router of activate_client, or
\* a driver that still polls, to which it is a connection error.
AcceptStream ==
    /\ stream = "open"
    /\ stream' \in {t \in {"routed", "rejected"} :
                       IF t = "routed" THEN pc = "active" ELSE driver = "polling"}
    /\ IF stream' = "rejected"
         THEN driver' = "ended" /\ link' = "closed"
         ELSE UNCHANGED <<driver, link>>
    /\ UNCHANGED <<world, now, attempts, peer, clientVars, serverVars, request, reply>>

-----------------------------------------------------------------------------
(* The server *)

Serve ==
    /\ server = "idle"
    /\ link # "none"
    /\ IF ConnectionAllowed(Config, world.local, world.remote)
         THEN server' = "accept" /\ UNCHANGED link
         ELSE server' = "ended" /\ link' = "closed"
    /\ UNCHANGED <<world, now, attempts, peer, clientVars, driver, user, next,
                   checked, wireVars>>

\* The conversation is registered with the router from here on.
Accept ==
    /\ server = "accept"
    /\ \/ request # None /\ server' = "authorize"
       \/ link = "closed" /\ server' = "ended"
    /\ UNCHANGED <<world, now, netVars, clientVars, driver, user, next, checked,
                   wireVars>>

\* Sending the response fails on a connection that is gone.
Answer(status) ==
    IF link = "open"
    THEN reply' = status /\ server' = IF status = 200 THEN "admitted" ELSE "refused"
    ELSE server' = "failed" /\ UNCHANGED reply

\* handle_conversation up to the loop of authorize_request.
Authorize ==
    LET given == Authorization
        who == ResolveSessionUser(request, given, Config)
        files == LoadAuthorizedIdentities(IdentityFiles(Config, who))
    IN  /\ server = "authorize"
        /\ user' = who
        /\ IF ~request.ssh3 THEN Answer(404) /\ UNCHANGED next
           ELSE IF who = None THEN Answer(401) /\ UNCHANGED next
           ELSE IF ~ShouldAuthenticate(Config) THEN Answer(200) /\ UNCHANGED next
           ELSE IF given.kind = "Basic"
             THEN LET verdict == IF Config.enable_password_login /\ given.username = who
                                 THEN VerifyPassword(Config, who, given.password)
                                 ELSE "no"
                  IN  /\ \/ verdict = "error" /\ server' = "failed" /\ UNCHANGED reply
                         \/ verdict = "yes" /\ Answer(200)
                         \/ verdict = "no" /\ Answer(401)
                      /\ UNCHANGED next
           ELSE IF given.kind = "None" THEN Answer(401) /\ UNCHANGED next
           ELSE IF files = None
             THEN server' = "failed" /\ UNCHANGED <<reply, next>>
           ELSE IF files = <<>> THEN Answer(401) /\ UNCHANGED next
           ELSE server' = "verify" /\ next' = 1 /\ UNCHANGED reply
        /\ UNCHANGED <<world, now, netVars, clientVars, driver, checked, request,
                       stream>>

NextIdentity ==
    IF next < Len(Identities)
    THEN server' = "verify" /\ next' = next + 1 /\ UNCHANGED reply
    ELSE Answer(401) /\ UNCHANGED next

\* One turn of the loop.  The errors of an identity are not errors of the loop.
VerifyIdentity ==
    LET identity == Identities[next]
        token == Authorization.token
    IN  /\ server = "verify"
        /\ next \in 1..Len(Identities)
        /\ checked' = now
        /\ IF identity.kind = "key"
           THEN IF VerifyBearerToken(identity.key, token, user, peer, now)
                THEN Answer(200) /\ UNCHANGED next
                ELSE NextIdentity
           ELSE IF OidcClaimsHold(identity, token, peer, now)
                THEN server' = "discovery" /\ UNCHANGED <<next, reply>>
                ELSE NextIdentity
        /\ UNCHANGED <<world, now, netVars, clientVars, driver, user, request, stream>>

\* The two requests to the issuer, without a timeout.
VerifyDiscovery ==
    LET issuer == Issuer(Identities[next].issuer)
    IN  /\ server = "discovery"
        /\ \/ /\ issuer.state = "up" /\ issuer.says = issuer.name
              /\ server' = "jwks" /\ UNCHANGED <<next, reply>>
           \/ /\ issuer.state = "down" \/ issuer.says # issuer.name
              /\ NextIdentity
        /\ UNCHANGED <<world, now, netVars, clientVars, driver, user, checked,
                       request, stream>>

VerifyJwks ==
    LET issuer == Issuer(Identities[next].issuer)
    IN  /\ server = "jwks"
        /\ \/ /\ issuer.jwks_state = "up"
              /\ VerifyOidcSignature(issuer.jwks, Authorization.token)
              /\ Answer(200) /\ UNCHANGED next
           \/ /\ \/ issuer.jwks_state = "down"
                 \/ /\ issuer.jwks_state = "up"
                    /\ ~VerifyOidcSignature(issuer.jwks, Authorization.token)
              /\ NextIdentity
        /\ UNCHANGED <<world, now, netVars, clientVars, driver, user, checked,
                       request, stream>>

\* serve_connection returns and drops the HTTP/3 connection, which closes the QUIC
\* connection: a response that the client has not read yet may be lost.
ServerDrops ==
    /\ server \in {"refused", "failed"}
    /\ server' = "ended"
    /\ link' = "closed"
    /\ reply' \in {reply, None}
    /\ UNCHANGED <<world, now, attempts, peer, clientVars, driver, user, next,
                   checked, request, stream>>

\* handle_agent_socket_conn of a session (RustAgent says when).
OpenStream ==
    /\ server = "admitted"
    /\ link = "open"
    /\ session
    /\ stream = "none"
    /\ stream' = "open"
    /\ UNCHANGED <<world, now, netVars, clientVars, driver, serverVars, request,
                   reply>>

-----------------------------------------------------------------------------
(* The environment *)

Tick ==
    /\ now < MaxNow
    /\ now' = now + 1
    /\ UNCHANGED <<world, netVars, clientVars, driver, serverVars, wireVars>>

ConnectionLost ==
    /\ link = "open"
    /\ link' = "closed"
    /\ UNCHANGED <<world, now, attempts, peer, clientVars, driver, serverVars,
                   wireVars>>

\* A side waits for something that is not the other side, which has nothing to send.
Quiet ==
    \/ pc \in {"discovery", "callback", "exchange"}
    \/ pc = "response" /\ server \in {"discovery", "jwks"}

ClientStep ==
    \/ ParseArgs \/ Precompute \/ ConnectTarget \/ AttemptsExhausted \/ Bootstrap
    \/ Authenticate \/ OidcDiscovery \/ OidcExchange \/ SendRequest \/ ReceiveResponse
    \/ Activate
DriverStep == DriverPauses \/ DriverEnds
ServerStep ==
    \/ Serve \/ Accept \/ Authorize \/ VerifyIdentity \/ VerifyDiscovery \/ VerifyJwks
    \/ ServerDrops

Next ==
    \/ ClientStep \/ DriverStep \/ ServerStep
    \/ \E a \in Addrs : Handshake(a) \/ AttemptFails(a)
    \/ OidcCallback \/ OpenSession \/ OpenStream \/ AcceptStream
    \/ Tick \/ ConnectionLost

\* Tasks that can go on do, a server that listens answers, an address that refuses
\* says so, and a silent connection times out.  Nothing is assumed of the addresses
\* that do not answer, of the browser, or of an issuer that is silent.
Fairness ==
    /\ WF_vars(ClientStep)
    /\ WF_vars(DriverStep)
    /\ WF_vars(ServerStep)
    /\ \A a \in Addrs :
          /\ WF_vars(Handshake(a))
          /\ WF_vars(world.net[a] = "refuses" /\ AttemptFails(a))
    /\ WF_vars(Quiet /\ ConnectionLost)

Spec == Init /\ [][Next]_vars /\ Fairness

-----------------------------------------------------------------------------
(* Properties *)

\* Whether the credential of the request is one that the files of the user entitle,
\* said of who made it, for whom, for which connection, and when it was looked at.
Made(token, identity) ==
    IF identity.kind = "key"
    THEN /\ token.sig = SignJwt(identity.key, token.header, token.claims)
         /\ "jti" \in DOMAIN token.claims
         /\ token.claims.jti = peer
         /\ token.claims.iss = user
    ELSE /\ "nonce" \in DOMAIN token.claims
         /\ token.claims.nonce = peer
         /\ token.claims.iss = identity.issuer
         /\ identity.client_id \in token.claims.aud
         /\ token.claims.email = identity.email
         /\ token.claims.email_verified
         /\ \E k \in 1..Len(Issuer(identity.issuer).jwks) :
                token.sig = SignJwt(Issuer(identity.issuer).jwks[k].key,
                                    token.header, token.claims)

Listed(token) ==
    \E n \in 1..Len(Identities) : Made(token, Identities[n])

\* A server that authenticates admits a connection only on the password of the user
\* it runs sessions as, or on a token that a key or an issuer listed for that user
\* made for this very connection and that was live when its claims were checked:
\* not one of another connection or another user, not one an issuer made for another
\* client or for an address it has not verified, and not one that was altered.
AdmittedIsEntitled ==
    (server = "admitted" /\ ShouldAuthenticate(Config)) =>
        \/ /\ Authorization.kind = "Basic"
           /\ Authorization.username = user
           /\ Accounts[user].password = Authorization.password
        \/ /\ Authorization.kind = "Bearer"
           /\ Listed(Authorization.token)
           /\ checked < Authorization.token.claims.exp

Expired ==
    /\ request # None
    /\ Authorization.kind = "Bearer"
    /\ now >= Authorization.token.claims.exp

\* What the server still needs to find it good: a clock that is not behind, and for
\* an OIDC token its issuer.
Checkable(token) ==
    IF "jti" \in DOMAIN token.claims
    THEN token.claims.iat <= now
    ELSE /\ Issuer(token.claims.iss).state = "up"
         /\ Issuer(token.claims.iss).says = token.claims.iss
         /\ Issuer(token.claims.iss).jwks_state = "up"

\* A client with a token of a listed identity is admitted, whatever stands before
\* that identity in the files (broken lines, keys of unknown types, identities of
\* issuers that are down or never answer), unless the token expires or the
\* connection is gone when the server answers.
EntitledIsAdmitted ==
    (/\ server = "verify"
     /\ next = 1
     /\ Listed(Authorization.token)
     /\ Checkable(Authorization.token))
        ~> \/ server = "admitted"
           \/ link = "closed" /\ server \in {"failed", "ended"}
           \/ Expired

\* "Race addresses so an unreachable address family cannot stall a working one":
\* with one address that has a server, or none that is silent, the race ends.
UnreachableCannotStall ==
    (/\ pc = "connecting"
     /\ \/ \E a \in world.resolved : Listens(a)
        \/ \A a \in world.resolved : world.net[a] = "refuses")
        ~> pc # "connecting"

\* Both sides agree: a client that is active was admitted, to the user it asked for,
\* and one that saw another status was not.
VerdictAgrees ==
    /\ pc \in {"pausing", "active"} =>
          /\ server = "admitted"
          /\ IF world.cli = None THEN Client.username \in {None, user}
                                 ELSE world.cli.user \in {None, user}
    /\ failure = "UnexpectedStatus" => server \in {"refused", "ended"}

\* The HTTP/3 driver has let go of the connection before the server can open a
\* stream: none of the server's channels is taken for an HTTP/3 violation.
NoStreamRejected == stream # "rejected"

\* Once it has a credential the client does not hang: not on a server that has died,
\* nor on one that itself waits for an issuer that never answers.
ConnectEnds == pc \in {"request", "response", "pausing"} ~> pc \in {"active", "failed"}
=================================================================================
