-------------------------------- MODULE MCConnect --------------------------------
(***************************************************************************)
(* Worlds for RustConnect: every way to authenticate against files that    *)
(* hold what it needs behind what it does not, and every kind of target.   *)
(***************************************************************************)
EXTENDS RustConnect

CONSTANTS a1, a2

Key(kty, id) == [kty |-> kty, id |-> id]
Mine == Key("Ed25519", "mine")
MineRsa == Key("RSA", "mine")
MineP256 == Key("P256", "mine")
Other == Key("Ed25519", "other")
Dsa == Key("DSA", "old")
Unparsed == Key(None, "unparsed")

KeyLine(key) == [kind |-> "key", key |-> key]
OidcLine(issuer, email) ==
    [kind |-> "oidc", issuer |-> issuer, client_id |-> "client", email |-> email]
Junk == [kind |-> "junk"]
File(lines) == [state |-> "ok", lines |-> lines]
Missing == [state |-> "missing", lines |-> <<>>]
Unreadable == [state |-> "unreadable", lines |-> <<>>]

MCAccounts ==
    [alice |-> [password |-> "pw", shadow |-> "hash",
                files |-> <<Missing,
                            File(<<Junk, KeyLine(Dsa), OidcLine("silent", "alice"),
                                   OidcLine("idp", "bob"), OidcLine("idp", "alice"),
                                   OidcLine("down", "alice"), KeyLine(Mine),
                                   KeyLine(MineRsa), KeyLine(MineP256)>>)>>],
     bob |-> [password |-> "bobs", shadow |-> "locked",
             files |-> <<File(<<KeyLine(Other)>>)>>],
     dave |-> [password |-> "pw", shadow |-> "denied", files |-> <<>>]]

Jwk(key, kid) == [key |-> key, kid |-> kid, alg |-> None]
RsaA == Jwk(Key("RSA", "a"), "a")
RsaB == Jwk(Key("RSA", "b"), "b")
AnIssuer(name, state, says, signer) ==
    [name |-> name, state |-> state, says |-> says, email |-> "alice",
     email_verified |-> TRUE, signer |-> signer, jwks_state |-> "up",
     jwks |-> <<RsaA, Jwk(Key("P256", "c"), "c"), RsaB>>]
Issuers ==
    [idp |-> AnIssuer("idp", "up", "idp", RsaB),
     silent |-> AnIssuer("silent", "silent", "silent", RsaA),
     down |-> AnIssuer("down", "down", "down", RsaA)]
Deceived == [Issuers EXCEPT !.idp.says = "another"]
Rotated == [Issuers EXCEPT !.idp.signer = Jwk(Key("RSA", "gone"), "a")]
Unverified == [Issuers EXCEPT !.idp.email_verified = FALSE]
Keyless(state) == [Issuers EXCEPT !.idp.jwks_state = state]
\* The issuer stops answering once it has signed: only the server asks it.
IssuedFor(issuer, nonce) == IdToken(Issuers[issuer], "client", nonce, 0)
Oidc(issuer) == [issuer |-> issuer, client_id |-> "client"]

Webpki == [insecure |-> FALSE, roots |-> {"webpki"}]
Insecure == [insecure |-> TRUE, roots |-> {}]
NoRoots == [insecure |-> FALSE, roots |-> {}]

Nobody ==
    [username |-> "alice", identity |-> None, agent |-> None, password |-> None,
     bearer |-> None, oidc |-> None, query |-> None, trust |-> Webpki,
     server_name |-> "host", ssh3 |-> TRUE]
File1(key) == [key |-> key, usable |-> TRUE]
WithKey == [Nobody EXCEPT !.identity = File1(Mine)]
Agent(keys, selection) ==
    [keys |-> keys, selection |-> selection, signs |-> "rsa-sha2-256"]

\* The same from the command line.
NoArgs ==
    [user |-> "alice", identity |-> None, agent |-> None, agent_key |-> None,
     password |-> None, password_file |-> None, bearer_token |-> None,
     bearer_token_file |-> None, oidc_issuer_url |-> None, oidc_client_id |-> None,
     insecure |-> FALSE, ca_cert |-> None, server_name |-> None, host |-> "host",
     query |-> None]
Text(text) == [state |-> "ok", text |-> text]
Certificates(roots) == [state |-> "ok", roots |-> roots]
Clis ==
    { [NoArgs EXCEPT !.identity = File1(Mine)],
      [NoArgs EXCEPT !.identity = File1(Mine), !.password = "pw"],
      [NoArgs EXCEPT !.agent = TRUE],
      [NoArgs EXCEPT !.agent = TRUE, !.user = None],
      [NoArgs EXCEPT !.agent_key = Mine],
      [NoArgs EXCEPT !.agent_key = Mine, !.server_name = "else"],
      [NoArgs EXCEPT !.password_file = Text("pw")],
      [NoArgs EXCEPT !.password_file = [state |-> "missing", text |-> "pw"]],
      [NoArgs EXCEPT !.bearer_token_file =
                        Text(BuildBearerToken(Mine, "alice", "earlier", 0))],
      [NoArgs EXCEPT !.oidc_issuer_url = "idp"],
      [NoArgs EXCEPT !.oidc_issuer_url = "idp", !.oidc_client_id = "client"],
      [NoArgs EXCEPT !.agent = TRUE, !.insecure = TRUE],
      [NoArgs EXCEPT !.agent = TRUE, !.ca_cert = Certificates({})],
      [NoArgs EXCEPT !.agent = TRUE, !.ca_cert = Certificates({"own", "webpki"})] }

Clients ==
    { WithKey,
      [Nobody EXCEPT !.identity = File1(MineP256)],
      [Nobody EXCEPT !.identity = File1(Dsa)],
      [Nobody EXCEPT !.identity = File1(Other)],
      [Nobody EXCEPT !.identity = [key |-> Mine, usable |-> FALSE]],
      [WithKey EXCEPT !.username = None],
      [WithKey EXCEPT !.password = "pw"],
      [Nobody EXCEPT !.agent = Agent(<<MineP256, MineRsa>>, None)],
      [Nobody EXCEPT !.agent = Agent(<<MineRsa, Mine>>, Mine)],
      [Nobody EXCEPT !.agent = Agent(<<MineP256>>, MineP256)],
      [Nobody EXCEPT !.agent = Agent(<<Unparsed, Mine>>, Mine)],
      [Nobody EXCEPT !.agent = Agent(None, None)],
      [Nobody EXCEPT !.agent = [Agent(<<MineRsa>>, None) EXCEPT !.signs = "ssh-rsa"]],
      [Nobody EXCEPT !.agent = [Agent(<<Mine>>, None) EXCEPT !.signs = None]],
      [Nobody EXCEPT !.password = "pw"],
      [Nobody EXCEPT !.password = "bobs"],
      [Nobody EXCEPT !.password = "pw", !.username = None],
      [Nobody EXCEPT !.oidc = Oidc("idp")],
      [Nobody EXCEPT !.oidc = [Oidc("idp") EXCEPT !.client_id = "another"]],
      [Nobody EXCEPT !.oidc = Oidc("down")],
      [Nobody EXCEPT !.oidc = Oidc("silent")],
      [Nobody EXCEPT !.bearer = BuildBearerToken(Mine, "alice", "earlier", 0)],
      [Nobody EXCEPT !.bearer = BuildBearerToken(Other, "bob", a1, 0)],
      [Nobody EXCEPT !.bearer = BuildBearerToken(Other, "alice", a1, 0)],
      [Nobody EXCEPT !.bearer = IssuedFor("idp", "earlier")],
      [Nobody EXCEPT !.bearer = IssuedFor("silent", a1)],
      [Nobody EXCEPT !.bearer =
          [IdToken(Unverified.idp, "another", a1, 0) EXCEPT
              !.claims.aud = {"client"}, !.claims.email_verified = TRUE]],
      [Nobody EXCEPT !.username = None],
      [Nobody EXCEPT !.username = None, !.query = "bob"],
      [Nobody EXCEPT !.username = "carol"],
      [Nobody EXCEPT !.ssh3 = FALSE] }

Strict ==
    [require_authentication |-> TRUE, enable_password_login |-> FALSE,
     authorized_identity_paths |-> <<>>, bind_addr |-> "any",
     allow_insecure_unauthenticated_remote |-> FALSE, default_user |-> "alice",
     password_verifier |-> FALSE, linux |-> TRUE]
Passwords == [Strict EXCEPT !.enable_password_login = TRUE,
                            !.require_authentication = FALSE]
NoPasswords == [Passwords EXCEPT !.linux = FALSE]
Verifier == [NoPasswords EXCEPT !.password_verifier = TRUE]
Open == [Strict EXCEPT !.require_authentication = FALSE, !.bind_addr = "loopback"]
OpenToAll == [Open EXCEPT !.bind_addr = "any",
                          !.allow_insecure_unauthenticated_remote = TRUE]
Refused == [Open EXCEPT !.bind_addr = "any"]
Broken == [Strict EXCEPT !.authorized_identity_paths = <<Missing, Unreadable>>]
Empty == [Strict EXCEPT !.authorized_identity_paths = <<File(<<Junk>>)>>,
                        !.default_user = None]

Plain ==
    [client |-> WithKey, cli |-> None, agent |-> Agent(<<MineRsa, Mine>>, None),
     config |-> Strict, issuers |-> Issuers,
     resolved |-> {a1}, net |-> [a \in Addrs |-> "serves"],
     cert |-> [root |-> "webpki", names |-> {"host"}],
     local |-> None, remote |-> "lan"]

MCWorlds ==
    UNION {
      { [Plain EXCEPT !.client = c] : c \in Clients },
      { [Plain EXCEPT !.cli = c] : c \in Clis },
      { [Plain EXCEPT !.client = c, !.config = s] :
            c \in {WithKey, [Nobody EXCEPT !.username = "bob"],
                   [Nobody EXCEPT !.password = "pw"],
                   [Nobody EXCEPT !.password = "bobs", !.username = "bob"],
                   [Nobody EXCEPT !.password = "pw", !.username = "dave"],
                   [Nobody EXCEPT !.username = None]},
            s \in {Passwords, NoPasswords, Verifier, OpenToAll, Refused, Broken, Empty} },
      { [Plain EXCEPT !.config = Open, !.remote = r] : r \in {"lan", "loopback"} },
      { [Plain EXCEPT !.client = [Nobody EXCEPT !.oidc = Oidc("idp")], !.issuers = i] :
            i \in {Deceived, Rotated, Unverified, Keyless("down"), Keyless("silent")} },
      { [Plain EXCEPT !.resolved = r, !.net = [a1 |-> m, a2 |-> n] ] :
            r \in {{}, {a1, a2}}, m \in {"silent", "no socket", "no connect", "refuses"},
            n \in {"serves", "silent", "refuses"} },
      { [Plain EXCEPT !.resolved = {a1, a2}, !.cert.root = "own",
                      !.net = [a1 |-> "silent", a2 |-> "serves"],
                      !.client.trust = t] : t \in {Webpki, Insecure, NoRoots} } }
=================================================================================
