------------------------------ MODULE MysqlAuth ------------------------------
(***************************************************************************)
(* The connection phase of PyMySQL (connections.py, _auth.py), the driver   *)
(* the setup and validation Lambdas carry: greeting, handshake response,    *)
(* auth switch, the plugins, the packages they need, against a server       *)
(* (external) that authenticates one account with one plugin.  Hashes and   *)
(* ciphers are symbols: who made one, from which password, salt and key.    *)
(***************************************************************************)
EXTENDS Naturals, Sequences

CONSTANTS
  Passwords,         \* passwords that are not empty
  Plugins            \* plugins an account may have

VARIABLES
  cli,    \* the client: where it stands, what its Connection holds
  srv,    \* the server: where it stands, the account
  toSrv,  \* packets on their way to the server
  toCli   \* packets on their way to the client

authVars == <<cli, srv, toSrv, toCli>>

NoPassword == "no password"
ASSUME AuthAssumption == NoPassword \notin Passwords /\ "none" \notin Plugins

Known == Passwords \cup {NoPassword}

(* What _process_auth can carry through without a plugin handler. *)
Supported == {"native", "caching", "sha256", "clear", "dialog"}

Answer(form, pw, salt, key) == [form |-> form, pw |-> pw, salt |-> salt, key |-> key]
Empty == Answer("empty", NoPassword, 0, "none")
Scramble(plugin, pw, salt) ==
  IF pw = NoPassword THEN Empty ELSE Answer(plugin, pw, salt, "none")
Plain(pw) == Answer("plain", pw, 0, "none")
AskKey == Answer("askKey", NoPassword, 0, "none")
Rsa(pw, salt, key) == Answer("rsa", pw, salt, key)

(* auth switch: salt is the scramble it brings; extra data: first byte 1. *)
Packet(kind, plugin, salt) == [kind |-> kind, plugin |-> plugin, salt |-> salt]
Say(kind) == Packet(kind, "none", 0)
ExtraData == {"fastOk", "full", "key"}

AuthStart(at, pw, tls, crypto, key, announced, plugin, secret, cached) ==
  /\ cli = [at |-> at, password |-> pw, secure |-> tls, crypto |-> crypto, key |-> key,
            plugin |-> "none", salt |-> 0]
  /\ srv = [at |-> at, announced |-> announced, plugin |-> plugin,
            secret |-> secret, cached |-> cached, salt |-> 0]
  /\ toSrv = <<>> /\ toCli = <<>>

(* crypto: the package `cryptography` is installed (it is not in the setup   *)
(* Lambda's).  The key may be given to the Connection or kept from an earlier connect(), *)
(* and the server may have another one by now.                               *)
AuthInit ==
  \E pw, secret \in Known, tls, crypto, cached \in BOOLEAN, key \in {"none", "current", "old"},
     announced \in Plugins \cup {"none"}, plugin \in Plugins :
       /\ announced = "none" => plugin = "native"   \* a server without plugins
       /\ AuthStart("hello", pw, tls, crypto, key, announced, plugin, secret, cached)

-----------------------------------------------------------------------------
(* The server (external).                                                   *)
Tell(packets, at) ==
  /\ toCli' = toCli \o packets
  /\ srv' = [srv EXCEPT !.at = at]

Decide(right) ==
  IF right THEN Tell(<<Say("ok")>>, "accepted") ELSE Tell(<<Say("err")>>, "denied")

Greet ==
  /\ srv.at = "hello"
  /\ Tell(<<Packet("hello", srv.announced, 0)>>, "login")
  /\ UNCHANGED <<cli, toSrv>>

(* Only a whole, current proof of the password opens the account. *)
Proves(m) ==
  \/ m.form = "empty" /\ srv.secret = NoPassword
  \/ /\ m.form \in {"native", "plain", "rsa"}
     /\ m.pw = srv.secret
     /\ m.form = "native" => m.salt = srv.salt /\ srv.plugin = "native"
     /\ m.form = "rsa" => m.salt = srv.salt /\ m.key = "current"

(* A password seen before is cached; else the server wants all of it. *)
FastOrFull(m) ==
  \/ Tell(<<Say("full")>>, "full")
  \/ /\ srv.cached /\ m.pw = srv.secret /\ m.salt = srv.salt
     /\ Tell(<<Say("fastOk"), Say("ok")>>, "accepted")

Switch ==
  /\ toCli' = Append(toCli, Packet("switch", srv.plugin, 1))
  /\ srv' = [srv EXCEPT !.at = "answer", !.salt = 1]

Judge ==
  /\ toSrv # <<>> /\ toSrv' = Tail(toSrv)
  /\ LET m == Head(toSrv).answer IN
       IF srv.at = "login" /\ srv.announced # "none" /\ Head(toSrv).plugin # srv.plugin
         THEN Switch
         ELSE CASE m.form = "caching" /\ srv.plugin = "caching" ->
                     IF srv.secret = NoPassword THEN Decide(FALSE) ELSE FastOrFull(m)
                [] m.form = "askKey" /\ ~cli.secure -> Tell(<<Say("key")>>, "cipher")
                [] srv.plugin = "dialog" /\ srv.at = "answer" /\ Proves(m) ->
                     Decide(TRUE) \/ Tell(<<Say("prompt")>>, "lastAnswer")
                [] OTHER -> Decide(Proves(m))
  /\ UNCHANGED cli

-----------------------------------------------------------------------------
(* The client: one action per packet it reads, up to the next one it awaits. *)
Respond(plugin, answer) == toSrv' = Append(toSrv, [plugin |-> plugin, answer |-> answer])
Next1(at) == cli' = [cli EXCEPT !.at = at]
Raise == Next1("raised") /\ UNCHANGED toSrv
Accept == Next1("ok") /\ UNCHANGED toSrv

(* Mutant: _roundtrip forgets check_error. *)
ReadUnchecked(at) ==
  /\ cli.at = at /\ toCli # <<>> /\ toCli' = Tail(toCli)
  /\ UNCHANGED srv

Read(at) ==
  /\ cli.at = at /\ toCli # <<>> /\ Head(toCli).kind # "err"
  /\ toCli' = Tail(toCli)
  /\ UNCHANGED srv

(* _read_packet and check_error raise the server's error. *)
ReadError ==
  /\ toCli # <<>> /\ Head(toCli).kind = "err" /\ cli.at \notin {"ok", "raised"}
  /\ toCli' = Tail(toCli)
  /\ Raise
  /\ UNCHANGED srv

(* The response for the plugin the greeting announced. *)
FirstAnswer(plugin, salt) ==
  CASE plugin \in {"none", "native"} -> Scramble("native", cli.password, salt)
    [] plugin = "caching" -> Scramble("caching", cli.password, salt)
    [] plugin = "sha256" ->
         CASE cli.secure -> Plain(cli.password)
           [] ~cli.secure /\ cli.password # NoPassword -> AskKey
           [] OTHER -> Empty
    [] OTHER -> Empty

Login ==
  /\ Read("hello")
  /\ LET p == Head(toCli) IN
       /\ cli' = [cli EXCEPT !.at = "first", !.salt = p.salt, !.plugin = p.plugin]
       /\ Respond(IF p.plugin \in {"native", "caching", "sha256"} THEN p.plugin ELSE "none",
                FirstAnswer(p.plugin, p.salt))

(* sha2_rsa_encrypt *)
Encrypt(key) ==
  IF cli.crypto
    THEN /\ cli' = [cli EXCEPT !.at = "final", !.key = key]
         /\ Respond("none", Rsa(cli.password, cli.salt, key))
    ELSE cli' = [cli EXCEPT !.at = "raised", !.key = key] /\ UNCHANGED toSrv

(* Mutant: the salt of the greeting is used for the plugin switched to. *)
OldSalt(p) ==
  /\ cli' = [cli EXCEPT !.at = "fast"]
  /\ Respond("none", Scramble("caching", cli.password, cli.salt))

CachingSwitch(p) ==
  IF cli.password = NoPassword
    THEN Next1("final") /\ Respond("none", Empty)
    ELSE /\ cli' = [cli EXCEPT !.at = "fast", !.salt = p.salt]
         /\ Respond("none", Scramble("caching", cli.password, p.salt))

Sha256Switch(p) ==
  CASE cli.secure -> Next1("final") /\ Respond("none", Plain(cli.password))
    [] ~cli.secure /\ cli.password = NoPassword ->
         /\ cli' = [cli EXCEPT !.at = "final", !.salt = p.salt]
         /\ Respond("none", Empty)
    [] ~cli.secure /\ cli.password # NoPassword /\ cli.key = "none" ->
         /\ cli' = [cli EXCEPT !.at = "key", !.salt = p.salt]
         /\ Respond("none", AskKey)
    [] OTHER ->
         IF cli.crypto
           THEN /\ cli' = [cli EXCEPT !.at = "final", !.salt = p.salt]
                /\ Respond("none", Rsa(cli.password, p.salt, cli.key))
           ELSE Raise

(* _process_auth; no handler is registered (auth_plugin_map is empty), *)
(* pynacl is not installed and scramble_old_password does not exist.   *)
ProcessAuth(p) ==
  CASE p.plugin = "caching" -> CachingSwitch(p)
    [] p.plugin = "sha256" -> Sha256Switch(p)
    [] p.plugin = "native" ->
         Next1("final") /\ Respond("none", Scramble("native", cli.password, p.salt))
    [] p.plugin = "clear" -> Next1("final") /\ Respond("none", Plain(cli.password))
    [] p.plugin = "dialog" -> Next1("dialog") /\ Respond("none", Plain(cli.password))
    [] OTHER -> Raise

(* caching_sha2_password_auth from the answer to the fast path on. *)
FullAuth ==
  CASE cli.secure -> Next1("final") /\ Respond("none", Plain(cli.password))
    [] ~cli.secure /\ cli.key = "none" -> Next1("key") /\ Respond("none", AskKey)
    [] OTHER -> Encrypt(cli.key)

AfterFast(kind) ==
  CASE kind = "fastOk" -> Next1("final") /\ UNCHANGED toSrv
    [] kind = "full" -> FullAuth
    [] OTHER -> Raise

FirstReply ==
  /\ Read("first")
  /\ LET p == Head(toCli) IN
       CASE p.kind = "switch" -> ProcessAuth(p)
         [] p.kind \in ExtraData /\ cli.plugin = "caching" ->
              IF cli.password = NoPassword
                THEN Next1("final") /\ Respond("none", Empty)
                ELSE AfterFast(p.kind)
         [] p.kind \in ExtraData /\ cli.plugin = "sha256" ->
              IF cli.secure
                THEN Next1("final") /\ Respond("none", Plain(cli.password))
                ELSE Encrypt("current")
         [] p.kind \in ExtraData /\ cli.plugin \notin {"caching", "sha256"} -> Raise
         [] OTHER -> Accept

FastReply == Read("fast") /\ AfterFast(Head(toCli).kind)

KeyReply ==
  /\ Read("key")
  /\ IF Head(toCli).kind \in ExtraData THEN Encrypt("current") ELSE Raise

(* A prompt other than "Password: " would need a handler. *)
DialogReply ==
  /\ Read("dialog")
  /\ IF Head(toCli).kind = "prompt"
       THEN Next1("dialog") /\ Respond("none", Plain(cli.password))
       ELSE Accept

FinalReply == Read("final") /\ Accept

(* The connection breaks: every read raises, what was sent may yet arrive. *)
AuthLost ==
  /\ cli.at \notin {"ok", "raised"}
  /\ cli' = [cli EXCEPT !.at = "raised"]
  /\ srv' = [srv EXCEPT !.at = "lost"]
  /\ toSrv' = <<>> /\ toCli' = <<>>

ClientReads == Login \/ FirstReply \/ FastReply \/ KeyReply \/ DialogReply \/ FinalReply \/ ReadError
ServerActs == Greet \/ Judge

-----------------------------------------------------------------------------
(* Whoever comes through the connection phase (the client) has been let in   *)
(* (by the server) for the account's own password, and has read every packet *)
(* of the phase: the first command meets no leftover answer.                 *)
Agreement ==
  cli.at = "ok" => /\ srv.at = "accepted" /\ cli.password = srv.secret
                   /\ toSrv = <<>> /\ toCli = <<>>

(* The right password is refused only for a plugin the client cannot do, for *)
(* want of the package that encrypts it where TLS does not, or with the key  *)
(* of another server; never because of the way the dialogue took.            *)
RightPasswordEnters ==
  cli.at = "raised" /\ srv.at # "lost" /\ cli.password = srv.secret =>
    \/ srv.plugin \notin Supported
    \/ /\ srv.plugin \in {"caching", "sha256"} /\ ~cli.secure
       /\ ~cli.crypto \/ cli.key = "old"

=============================================================================
