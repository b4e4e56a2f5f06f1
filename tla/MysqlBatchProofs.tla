--------------------------- MODULE MysqlBatchProofs ---------------------------
(***************************************************************************)
(* Theorems about a connection that is made and used, for its two halves.   *)
(* The connection phase: any passwords and any plugins a server may         *)
(* announce or an account have, known to the client or not.  executemany(): *)
(* batches, limits, packet lengths and numberings of any size, wherever the *)
(* connection breaks.                                                       *)
(***************************************************************************)
EXTENDS MysqlBatch, SequenceTheorems, TLAPS

(* The connection phase. *)
Clients == [at : {"hello", "first", "fast", "key", "dialog", "final", "ok", "raised"},
            password : Known, secure : BOOLEAN, crypto : BOOLEAN,
            key : {"none", "current", "old"}, plugin : Plugins \cup {"none"}, salt : {0, 1}]
Servers == [at : {"hello", "login", "answer", "full", "cipher", "lastAnswer", "accepted",
                  "denied", "lost"},
            announced : Plugins \cup {"none"}, plugin : Plugins, secret : Known,
            cached : BOOLEAN, salt : {0, 1}]

AuthTypes ==
  /\ cli \in Clients /\ srv \in Servers
  /\ srv.announced = "none" => srv.plugin = "native"

Right == cli.password = srv.secret

(* What may keep the right password out. *)
Excused ==
  \/ srv.plugin \notin Supported
  \/ srv.plugin \in {"caching", "sha256"} /\ ~cli.secure /\ (~cli.crypto \/ cli.key = "old")

(* An answer by which the server decides: it opens the account for the right *)
(* password alone, and for that one always.                                  *)
Final(m) ==
  /\ m.form \notin {"caching", "askKey"}
  /\ Proves(m) => Right
  /\ Right => Proves(m) \/ Excused

Hashed(m) == m.form = "caching" /\ srv.plugin = "caching" /\ cli.password # NoPassword
             /\ m.pw = cli.password
Asks(m) == m.form = "askKey" /\ ~cli.secure /\ srv.plugin \in {"caching", "sha256"}

(* Who has to speak, and what the two ends know of each other then. *)
Greeting ==
  /\ cli.at = "hello" /\ srv.salt = 0 /\ toSrv = <<>>
  /\ \/ srv.at = "hello" /\ toCli = <<>>
     \/ srv.at = "login" /\ toCli = <<Packet("hello", srv.announced, 0)>>

FirstTurn(r) ==
  /\ cli.at = "first" /\ srv.at = "login" /\ cli.salt = srv.salt
  /\ \/ srv.announced # "none" /\ r.plugin # srv.plugin
     \/ Hashed(r.answer) /\ cli.plugin = "caching"
     \/ Asks(r.answer) /\ cli.plugin = "sha256"
     \/ Final(r.answer)

LaterTurn(m) ==
  \/ cli.at = "fast" /\ srv.at = "answer" /\ Hashed(m) /\ cli.salt = srv.salt
  \/ cli.at = "key" /\ srv.at \in {"answer", "full"} /\ Asks(m) /\ cli.salt = srv.salt
  \/ cli.at = "final" /\ srv.at \in {"answer", "full", "cipher"} /\ Final(m) /\ srv.plugin # "dialog"
  \/ cli.at = "dialog" /\ srv.at \in {"answer", "lastAnswer"} /\ srv.plugin = "dialog"
     /\ Final(m)

ServersTurn ==
  toCli = <<>> /\ \E r : toSrv = <<r>> /\ (FirstTurn(r) \/ LaterTurn(r.answer))

Hashing == cli.at = "fast" \/ (cli.at = "first" /\ cli.plugin = "caching")
WantsKey == cli.at = "key" \/ (cli.at = "first" /\ cli.plugin = "sha256")

ClientsTurn ==
  /\ toSrv = <<>>
  /\ \/ toCli = <<Say("ok")>> /\ srv.at = "accepted" /\ Right
        /\ cli.at \in {"first", "dialog", "final"}
     \/ toCli = <<Say("fastOk"), Say("ok")>> /\ srv.at = "accepted" /\ Right
        /\ Hashing /\ cli.password # NoPassword
     \/ toCli = <<Say("err")>> /\ srv.at = "denied" /\ (Right => Excused)
        /\ cli.at \in {"first", "fast", "key", "dialog", "final"}
     \/ toCli = <<Packet("switch", srv.plugin, 1)>> /\ srv.at = "answer" /\ srv.salt = 1
        /\ cli.at = "first"
     \/ toCli = <<Say("full")>> /\ srv.at = "full" /\ srv.plugin = "caching"
        /\ Hashing /\ cli.password # NoPassword /\ cli.salt = srv.salt
     \/ toCli = <<Say("key")>> /\ srv.at = "cipher" /\ srv.plugin \in {"caching", "sha256"}
        /\ WantsKey /\ ~cli.secure /\ cli.salt = srv.salt
     \/ toCli = <<Say("prompt")>> /\ srv.at = "lastAnswer" /\ srv.plugin = "dialog"
        /\ cli.at = "dialog"

Ended ==
  /\ toSrv = <<>>
  /\ \/ cli.at = "ok" /\ srv.at = "accepted" /\ Right /\ toCli = <<>>
     \/ cli.at = "raised" /\ srv.at # "hello" /\ (srv.at = "lost" \/ (Right => Excused))

AuthInv == AuthTypes /\ (Greeting \/ ServersTurn \/ ClientsTurn \/ Ended)

-----------------------------------------------------------------------------
LEMMA InitAuthInv == AuthInit => AuthInv
<1> SUFFICES ASSUME AuthInit PROVE AuthInv
  OBVIOUS
<1>1. PICK pw \in Known, secret \in Known, tls \in BOOLEAN, crypto \in BOOLEAN, cached \in BOOLEAN,
           key \in {"none", "current", "old"},
           announced \in Plugins \cup {"none"}, plugin \in Plugins :
        /\ announced = "none" => plugin = "native"
        /\ AuthStart("hello", pw, tls, crypto, key, announced, plugin, secret, cached)
  BY DEF AuthInit
<1>2. AuthTypes
  BY <1>1 DEF AuthStart, AuthTypes, Clients, Servers
<1>3. Greeting
  BY <1>1 DEF AuthStart, Greeting
<1> QED BY <1>2, <1>3 DEF AuthInv

(* The server's steps. *)
LEMMA TellTypes ==
  ASSUME AuthTypes, UNCHANGED cli,
         NEW packets, NEW at \in {"login", "full", "cipher", "lastAnswer", "accepted", "denied"},
         Tell(packets, at)
  PROVE  /\ AuthTypes' /\ toCli' = toCli \o packets
         /\ srv'.at = at /\ srv'.salt = srv.salt /\ srv'.plugin = srv.plugin
         /\ srv'.announced = srv.announced
         /\ Right' = Right /\ Excused' = Excused
<1>1. /\ srv \in Servers /\ srv' = [srv EXCEPT !.at = at] /\ cli' = cli
      /\ toCli' = toCli \o packets
  BY DEF AuthTypes, Tell
<1>2. /\ srv' \in Servers /\ srv'.at = at /\ srv'.salt = srv.salt /\ srv'.plugin = srv.plugin
      /\ srv'.announced = srv.announced /\ srv'.secret = srv.secret
  BY <1>1 DEF Servers
<1> QED BY <1>1, <1>2 DEF AuthTypes, Right, Excused

LEMMA GreetInv == AuthInv /\ Greet => AuthInv'
<1> SUFFICES ASSUME AuthInv, Greet PROVE AuthInv'
  OBVIOUS
<1>1. /\ srv.at = "hello" /\ Tell(<<Packet("hello", srv.announced, 0)>>, "login")
      /\ UNCHANGED <<cli, toSrv>>
  BY DEF Greet
<1>2. AuthTypes /\ Greeting
  BY <1>1 DEF AuthInv, ServersTurn, FirstTurn, LaterTurn, ClientsTurn, Ended
<1>3. /\ AuthTypes' /\ toCli' = toCli \o <<Packet("hello", srv.announced, 0)>>
      /\ srv'.at = "login" /\ srv'.salt = srv.salt /\ srv'.announced = srv.announced
  BY <1>1, <1>2, TellTypes
<1>4. toCli' = <<Packet("hello", srv.announced, 0)>>
  BY <1>1, <1>2, <1>3 DEF Greeting
<1>5. Greeting'
  BY <1>1, <1>2, <1>3, <1>4 DEF Greeting, Packet
<1> QED BY <1>3, <1>5 DEF AuthInv

LEMMA DecideInv ==
  ASSUME AuthTypes, UNCHANGED cli, toSrv' = <<>>, toCli = <<>>,
         NEW right \in BOOLEAN, Decide(right),
         right => Right /\ cli.at \in {"first", "dialog", "final"},
         ~right => (Right => Excused) /\ cli.at \in {"first", "fast", "key", "dialog", "final"}
  PROVE  AuthInv'
<1>1. CASE right
  <2>1. Tell(<<Say("ok")>>, "accepted")
    BY <1>1 DEF Decide
  <2>2. /\ AuthTypes' /\ toCli' = <<>> \o <<Say("ok")>> /\ srv'.at = "accepted" /\ Right' = Right
    BY <2>1, TellTypes
  <2>3. toCli' = <<Say("ok")>>
    BY <2>2
  <2>4. ClientsTurn'
    BY <1>1, <2>2, <2>3 DEF ClientsTurn, Say, Packet
  <2> QED BY <2>2, <2>4 DEF AuthInv
<1>2. CASE ~right
  <2>1. Tell(<<Say("err")>>, "denied")
    BY <1>2 DEF Decide
  <2>2. /\ AuthTypes' /\ toCli' = <<>> \o <<Say("err")>> /\ srv'.at = "denied"
        /\ Right' = Right /\ Excused' = Excused
    BY <2>1, TellTypes
  <2>3. toCli' = <<Say("err")>>
    BY <2>2
  <2>4. ClientsTurn'
    BY <1>2, <2>2, <2>3 DEF ClientsTurn, Say, Packet
  <2> QED BY <2>2, <2>4 DEF AuthInv
<1> QED BY <1>1, <1>2

LEMMA JudgeInv == AuthInv /\ Judge => AuthInv'
<1> SUFFICES ASSUME AuthInv, Judge PROVE AuthInv'
  OBVIOUS
<1>1. AuthTypes /\ ServersTurn
  BY DEF Judge, AuthInv, Greeting, ClientsTurn, Ended
<1>2. PICK r : toSrv = <<r>> /\ (FirstTurn(r) \/ LaterTurn(r.answer))
  BY <1>1 DEF ServersTurn
<1> DEFINE m == r.answer
<1>3. Head(toSrv) = r /\ toSrv' = <<>> /\ toCli = <<>> /\ cli' = cli
  BY <1>1, <1>2 DEF Judge, ServersTurn
<1>4. IF srv.at = "login" /\ srv.announced # "none" /\ r.plugin # srv.plugin
        THEN Switch
        ELSE CASE m.form = "caching" /\ srv.plugin = "caching" ->
                    IF srv.secret = NoPassword THEN Decide(FALSE) ELSE FastOrFull(m)
               [] m.form = "askKey" /\ ~cli.secure -> Tell(<<Say("key")>>, "cipher")
               [] srv.plugin = "dialog" /\ srv.at = "answer" /\ Proves(m) ->
                    Decide(TRUE) \/ Tell(<<Say("prompt")>>, "lastAnswer")
               [] OTHER -> Decide(Proves(m))
  BY <1>3 DEF Judge
<1> HIDE DEF m
<1>5. CASE srv.at = "login" /\ srv.announced # "none" /\ r.plugin # srv.plugin
  <2>1. /\ toCli' = Append(toCli, Packet("switch", srv.plugin, 1))
        /\ srv' = [srv EXCEPT !.at = "answer", !.salt = 1]
    BY <1>4, <1>5 DEF Switch
  <2>2. srv \in Servers /\ srv' \in Servers /\ srv'.at = "answer" /\ srv'.salt = 1
        /\ srv'.plugin = srv.plugin /\ srv'.announced = srv.announced
    BY <1>1, <2>1 DEF AuthTypes, Servers
  <2>3. AuthTypes'
    BY <1>1, <1>3, <2>2 DEF AuthTypes
  <2>4. toCli' = <<Packet("switch", srv.plugin, 1)>>
    BY <1>3, <2>1
  <2>5. cli.at = "first"
    BY <1>2, <1>5 DEF FirstTurn, LaterTurn
  <2>6. ClientsTurn'
    BY <1>3, <2>2, <2>4, <2>5 DEF ClientsTurn
  <2> QED BY <2>3, <2>6 DEF AuthInv
<1>6. CASE ~(srv.at = "login" /\ srv.announced # "none" /\ r.plugin # srv.plugin)
  <2>1. \/ Hashed(m) /\ Hashing /\ cli.salt = srv.salt
        \/ Asks(m) /\ WantsKey /\ cli.salt = srv.salt
        \/ Final(m) /\ cli.at \in {"first", "final", "dialog"}
           /\ (srv.plugin = "dialog" /\ srv.at = "answer" => cli.at = "dialog")
    BY <1>2, <1>6 DEF FirstTurn, LaterTurn, Hashing, WantsKey, m
  <2>2. CASE Hashed(m) /\ Hashing /\ cli.salt = srv.salt
    <3>1. m.form = "caching" /\ srv.plugin = "caching" /\ cli.password # NoPassword /\ m.pw = cli.password
      BY <2>2 DEF Hashed
    <3>2. CASE srv.secret = NoPassword
      <4>1. Decide(FALSE)
        BY <1>4, <1>6, <3>1, <3>2
      <4>2. ~Right /\ cli.at \in {"first", "fast"}
        BY <2>2, <3>1, <3>2 DEF Right, Hashing
      <4> QED BY <1>1, <1>3, <4>1, <4>2, DecideInv
    <3>3. CASE srv.secret # NoPassword
      <4>1. FastOrFull(m)
        BY <1>4, <1>6, <3>1, <3>3
      <4>2. CASE Tell(<<Say("full")>>, "full")
        <5>1. /\ AuthTypes' /\ toCli' = <<>> \o <<Say("full")>> /\ srv'.at = "full"
              /\ srv'.plugin = srv.plugin /\ srv'.salt = srv.salt
          BY <1>1, <1>3, <4>2, TellTypes
        <5>2. toCli' = <<Say("full")>>
          BY <5>1
        <5>3. ClientsTurn'
          BY <1>3, <2>2, <3>1, <5>1, <5>2 DEF ClientsTurn, Hashing, Say, Packet
        <5> QED BY <5>1, <5>3 DEF AuthInv
      <4>3. CASE m.pw = srv.secret /\ Tell(<<Say("fastOk"), Say("ok")>>, "accepted")
        <5>1. /\ AuthTypes' /\ toCli' = <<>> \o <<Say("fastOk"), Say("ok")>>
              /\ srv'.at = "accepted" /\ Right' = Right
          BY <1>1, <1>3, <4>3, TellTypes
        <5>2. toCli' = <<Say("fastOk"), Say("ok")>> /\ Right
          BY <3>1, <4>3, <5>1 DEF Right
        <5>3. ClientsTurn'
          BY <1>3, <2>2, <3>1, <5>1, <5>2 DEF ClientsTurn, Hashing, Say, Packet
        <5> QED BY <5>1, <5>3 DEF AuthInv
      <4> QED BY <4>1, <4>2, <4>3 DEF FastOrFull
    <3> QED BY <3>2, <3>3
  <2>3. CASE Asks(m) /\ WantsKey /\ cli.salt = srv.salt
    <3>1. Tell(<<Say("key")>>, "cipher")
      BY <1>4, <1>6, <2>3 DEF Asks
    <3>2. /\ AuthTypes' /\ toCli' = <<>> \o <<Say("key")>> /\ srv'.at = "cipher"
          /\ srv'.plugin = srv.plugin /\ srv'.salt = srv.salt
      BY <1>1, <1>3, <3>1, TellTypes
    <3>3. toCli' = <<Say("key")>>
      BY <3>2
    <3>4. ClientsTurn'
      BY <1>3, <2>3, <3>2, <3>3 DEF ClientsTurn, WantsKey, Asks, Say, Packet
    <3> QED BY <3>2, <3>4 DEF AuthInv
  <2>4. CASE /\ Final(m) /\ cli.at \in {"first", "final", "dialog"}
             /\ (srv.plugin = "dialog" /\ srv.at = "answer" => cli.at = "dialog")
    <3>1. /\ m.form \notin {"caching", "askKey"} /\ (Proves(m) => Right)
          /\ (Right => Proves(m) \/ Excused)
      BY <2>4 DEF Final
    <3>2. CASE srv.plugin = "dialog" /\ srv.at = "answer" /\ Proves(m)
      <4>1. Decide(TRUE) \/ Tell(<<Say("prompt")>>, "lastAnswer")
        BY <1>4, <1>6, <3>1, <3>2
      <4>2. CASE Decide(TRUE)
        BY <1>1, <1>3, <2>4, <3>1, <3>2, <4>2, DecideInv
      <4>3. CASE Tell(<<Say("prompt")>>, "lastAnswer")
        <5>1. /\ AuthTypes' /\ toCli' = <<>> \o <<Say("prompt")>> /\ srv'.at = "lastAnswer"
              /\ srv'.plugin = srv.plugin
          BY <1>1, <1>3, <4>3, TellTypes
        <5>2. toCli' = <<Say("prompt")>>
          BY <5>1
        <5>3. ClientsTurn'
          BY <1>3, <2>4, <3>2, <5>1, <5>2 DEF ClientsTurn, Say, Packet
        <5> QED BY <5>1, <5>3 DEF AuthInv
      <4> QED BY <4>1, <4>2, <4>3
    <3>3. CASE ~(srv.plugin = "dialog" /\ srv.at = "answer" /\ Proves(m))
      <4>1. Decide(Proves(m))
        BY <1>4, <1>6, <3>1, <3>3
      <4>2. Proves(m) \in BOOLEAN
        BY DEF Proves
      <4> QED BY <1>1, <1>3, <2>4, <3>1, <4>1, <4>2, DecideInv
    <3> QED BY <3>2, <3>3
  <2> QED BY <2>1, <2>2, <2>3, <2>4
<1> QED BY <1>5, <1>6

(* The client's steps. *)
LEMMA SayInv ==
  ASSUME AuthTypes, cli' \in Clients, UNCHANGED srv, toSrv = <<>>, toCli' = <<>>,
         NEW plugin, NEW answer, Respond(plugin, answer),
         LaterTurn(answer)' \/ FirstTurn([plugin |-> plugin, answer |-> answer])'
  PROVE  AuthInv'
<1> DEFINE r == [plugin |-> plugin, answer |-> answer]
<1>1. toSrv' = <<r>>
  BY DEF Respond
<1>2. r.answer = answer
  OBVIOUS
<1> HIDE DEF r
<1>3. ServersTurn'
  BY <1>1, <1>2 DEF ServersTurn, r
<1>4. AuthTypes'
  BY DEF AuthTypes
<1> QED BY <1>3, <1>4 DEF AuthInv

LEMMA EndInv ==
  ASSUME AuthTypes, cli' \in Clients, cli'.at = "raised", UNCHANGED <<srv, toSrv>>, toSrv = <<>>,
         srv.at # "hello", (Right => Excused)'
  PROVE  AuthInv'
BY DEF AuthInv, AuthTypes, Ended

LEMMA EncryptInv ==
  ASSUME AuthTypes, UNCHANGED srv, toSrv = <<>>, toCli' = <<>>,
         srv.at \in {"answer", "full", "cipher"}, srv.plugin \in {"caching", "sha256"},
         ~cli.secure, cli.salt = srv.salt, NEW key \in {"current", "old"}, Encrypt(key)
  PROVE  AuthInv'
<1>1. cli \in Clients /\ srv \in Servers
  BY DEF AuthTypes
<1>2. CASE cli.crypto
  <2>1. /\ cli' = [cli EXCEPT !.at = "final", !.key = key]
        /\ Respond("none", Rsa(cli.password, cli.salt, key))
    BY <1>2 DEF Encrypt
  <2>2. /\ cli' \in Clients /\ cli'.at = "final" /\ cli'.key = key
        /\ cli'.password = cli.password /\ cli'.secure = cli.secure
    BY <1>1, <2>1 DEF Clients
  <2>3. Final(Rsa(cli.password, cli.salt, key))'
    BY <2>1, <2>2 DEF Final, Rsa, Answer, Proves, Right, Excused
  <2>4. LaterTurn(Rsa(cli.password, cli.salt, key))'
    BY <2>2, <2>3 DEF LaterTurn
  <2>5. Rsa(cli.password, cli.salt, key)' = Rsa(cli.password, cli.salt, key)
    BY <1>1, <2>1 DEF Clients, Rsa, Answer
  <2> QED BY <2>1, <2>2, <2>4, <2>5, SayInv
<1>3. CASE ~cli.crypto
  <2>1. cli' = [cli EXCEPT !.at = "raised", !.key = key] /\ toSrv' = toSrv
    BY <1>3 DEF Encrypt
  <2>2. /\ cli' \in Clients /\ cli'.at = "raised"
        /\ cli'.crypto = cli.crypto /\ cli'.secure = cli.secure
    BY <1>1, <2>1 DEF Clients
  <2>3. (Right => Excused)'
    BY <1>3, <2>2 DEF Excused
  <2> QED BY <2>1, <2>2, <2>3, EndInv
<1> QED BY <1>2, <1>3

(* The password itself, and none. *)
LEMMA PlainInv ==
  ASSUME AuthTypes, UNCHANGED srv, toSrv = <<>>, toCli' = <<>>,
         NEW at \in {"final", "dialog"}, Next1(at), Respond("none", Plain(cli.password)),
         srv.at \in (IF at = "final" THEN {"answer", "full", "cipher"} ELSE {"answer", "lastAnswer"}),
         (at = "dialog") <=> (srv.plugin = "dialog")
  PROVE  AuthInv'
<1>1. /\ cli' \in Clients /\ cli'.at = at /\ cli'.password = cli.password
  BY DEF AuthTypes, Clients, Next1
<1>2. Final(Plain(cli.password))'
  BY <1>1 DEF Final, Plain, Answer, Proves, Right
<1>3. LaterTurn(Plain(cli.password))'
  BY <1>1, <1>2 DEF LaterTurn
<1>4. Plain(cli.password)' = Plain(cli.password)
  BY <1>1 DEF Plain, Answer
<1> QED BY <1>1, <1>3, <1>4, SayInv

LEMMA EmptyInv ==
  ASSUME AuthTypes, UNCHANGED srv, toSrv = <<>>, toCli' = <<>>,
         cli' \in Clients, cli'.at = "final", cli'.password = NoPassword,
         Respond("none", Empty), srv.at \in {"answer", "full", "cipher"}, srv.plugin # "dialog"
  PROVE  AuthInv'
<1>1. Final(Empty)'
  BY DEF Final, Empty, Answer, Proves, Right
<1>2. LaterTurn(Empty)'
  BY <1>1 DEF LaterTurn
<1> QED BY <1>2, SayInv DEF Empty, Answer

LEMMA FullAuthInv ==
  ASSUME AuthTypes, UNCHANGED srv, toSrv = <<>>, toCli' = <<>>,
         srv.at = "full", srv.plugin = "caching", cli.salt = srv.salt, FullAuth
  PROVE  AuthInv'
<1>1. cli \in Clients
  BY DEF AuthTypes
<1>2. CASE cli.secure
  BY <1>2, PlainInv DEF FullAuth
<1>3. CASE ~cli.secure /\ cli.key = "none"
  <2>1. Next1("key") /\ Respond("none", AskKey)
    BY <1>3 DEF FullAuth
  <2>2. cli' \in Clients /\ cli'.at = "key" /\ cli'.secure = cli.secure /\ cli'.salt = cli.salt
    BY <1>1, <2>1 DEF Next1, Clients
  <2>3. LaterTurn(AskKey)'
    BY <1>3, <2>2 DEF LaterTurn, Asks, AskKey, Answer
  <2> QED BY <2>1, <2>2, <2>3, SayInv DEF AskKey, Answer
<1>4. CASE ~cli.secure /\ cli.key # "none"
  <2>1. Encrypt(cli.key) /\ cli.key \in {"current", "old"}
    BY <1>1, <1>4 DEF FullAuth, Clients
  <2> QED BY <1>4, <2>1, EncryptInv
<1> QED BY <1>2, <1>3, <1>4

LEMMA AcceptInv ==
  ASSUME AuthTypes, UNCHANGED srv, toSrv = <<>>, toCli' = <<>>,
         srv.at = "accepted", Right, Accept
  PROVE  AuthInv'
<1>1. cli' \in Clients /\ cli'.at = "ok" /\ cli'.password = cli.password /\ toSrv' = <<>>
  BY DEF AuthTypes, Accept, Next1, Clients
<1> QED BY <1>1 DEF AuthInv, AuthTypes, Ended, Right

LEMMA FastOkInv ==
  ASSUME AuthTypes, UNCHANGED <<srv, toSrv>>, toSrv = <<>>,
         toCli' = <<Say("ok")>>, srv.at = "accepted", Right, Next1("final")
  PROVE  AuthInv'
<1>1. cli' \in Clients /\ cli'.at = "final" /\ cli'.password = cli.password
  BY DEF AuthTypes, Next1, Clients
<1> QED BY <1>1 DEF AuthInv, AuthTypes, ClientsTurn, Right, Say, Packet

LEMMA LoginInv == AuthInv /\ Login => AuthInv'
<1> SUFFICES ASSUME AuthInv, Login PROVE AuthInv'
  OBVIOUS
<1> USE AuthAssumption
<1>1. cli.at = "hello" /\ toCli # <<>> /\ toCli' = Tail(toCli) /\ UNCHANGED srv
  BY DEF Login, Read
<1>2. AuthTypes /\ Greeting
  BY <1>1 DEF AuthInv, ServersTurn, FirstTurn, LaterTurn, ClientsTurn, Ended, Hashing, WantsKey
<1>3. /\ toCli = <<Packet("hello", srv.announced, 0)>> /\ srv.at = "login" /\ srv.salt = 0
      /\ toSrv = <<>>
  BY <1>1, <1>2 DEF Greeting
<1>4. PICK a, name, m :
        /\ a = srv.announced /\ m = FirstAnswer(a, 0)
        /\ name = IF a \in {"native", "caching", "sha256"} THEN a ELSE "none"
  OBVIOUS
<1>5. /\ Head(toCli).plugin = a /\ Head(toCli).salt = 0 /\ toCli' = <<>>
  BY <1>1, <1>3, <1>4 DEF Packet
<1>6. cli' = [cli EXCEPT !.at = "first", !.salt = 0, !.plugin = a] /\ Respond(name, m)
  BY <1>4, <1>5 DEF Login
<1>7. cli \in Clients /\ srv \in Servers /\ (a = "none" => srv.plugin = "native")
  BY <1>2, <1>4 DEF AuthTypes
<1>8. /\ cli' \in Clients /\ cli'.at = "first" /\ cli'.salt = 0 /\ cli'.plugin = a
      /\ cli'.password = cli.password /\ cli'.secure = cli.secure
  BY <1>4, <1>6, <1>7 DEF Clients, Servers
<1>9. \/ srv.announced # "none" /\ name # srv.plugin
      \/ Hashed(m)' /\ a = "caching"
      \/ Asks(m)' /\ a = "sha256"
      \/ Final(m)'
  <2> SUFFICES ASSUME a = "none" \/ name = srv.plugin
               PROVE  (Hashed(m)' /\ a = "caching") \/ (Asks(m)' /\ a = "sha256") \/ Final(m)'
    BY <1>4
  <2>1. CASE srv.plugin = "native" /\ a \in {"none", "native"}
    <3>1. m = Scramble("native", cli.password, 0)
      BY <1>4, <2>1 DEF FirstAnswer
    <3>2. Final(m)'
      BY <1>1, <1>3, <1>8, <2>1, <3>1 DEF Final, Scramble, Empty, Answer, Proves, Right
    <3> QED BY <3>2
  <2>2. CASE srv.plugin = "caching" /\ a = "caching"
    <3>1. m = Scramble("caching", cli.password, 0)
      BY <1>4, <2>2 DEF FirstAnswer
    <3>2. CASE cli.password = NoPassword
      BY <1>1, <1>8, <3>1, <3>2 DEF Final, Scramble, Empty, Answer, Proves, Right
    <3>3. CASE cli.password # NoPassword
      BY <1>1, <1>8, <2>2, <3>1, <3>3 DEF Hashed, Scramble, Answer
    <3> QED BY <3>2, <3>3
  <2>3. CASE srv.plugin = "sha256" /\ a = "sha256"
    <3>1. CASE cli.secure
      <4>1. m = Plain(cli.password)
        BY <1>4, <2>3, <3>1 DEF FirstAnswer
      <4> QED BY <1>1, <1>8, <4>1 DEF Final, Plain, Answer, Proves, Right
    <3>2. CASE ~cli.secure /\ cli.password # NoPassword
      <4>1. m = AskKey
        BY <1>4, <2>3, <3>2 DEF FirstAnswer
      <4> QED BY <1>1, <1>8, <2>3, <3>2, <4>1 DEF Asks, AskKey, Answer
    <3>3. CASE ~cli.secure /\ cli.password = NoPassword
      <4>1. m = Empty
        BY <1>4, <2>3, <3>3 DEF FirstAnswer
      <4> QED BY <1>1, <1>8, <3>3, <4>1 DEF Final, Empty, Answer, Proves, Right
    <3> QED BY <3>1, <3>2, <3>3
  <2> QED BY <1>4, <1>7, <2>1, <2>2, <2>3 DEF Servers
<1>10. FirstTurn([plugin |-> name, answer |-> m])'
  BY <1>1, <1>3, <1>8, <1>9 DEF FirstTurn
<1> QED BY <1>1, <1>2, <1>3, <1>5, <1>6, <1>8, <1>10, SayInv

LEMMA SwitchInv ==
  ASSUME AuthTypes, UNCHANGED srv, toSrv = <<>>, toCli' = <<>>, srv.at = "answer", srv.salt = 1,
         NEW p, p = Packet("switch", srv.plugin, 1), ProcessAuth(p)
  PROVE  AuthInv'
<1>1. cli \in Clients /\ p.plugin = srv.plugin /\ p.salt = 1
  BY DEF AuthTypes, Packet
<1>2. CASE srv.plugin = "caching"
  <2>1. CachingSwitch(p)
    BY <1>1, <1>2 DEF ProcessAuth
  <2>2. CASE cli.password = NoPassword
    <3>1. Next1("final") /\ Respond("none", Empty)
      BY <2>1, <2>2 DEF CachingSwitch
    <3>2. cli' \in Clients /\ cli'.at = "final" /\ cli'.password = NoPassword
      BY <1>1, <2>2, <3>1 DEF Next1, Clients
    <3> QED BY <1>2, <3>1, <3>2, EmptyInv
  <2>3. CASE cli.password # NoPassword
    <3>1. /\ cli' = [cli EXCEPT !.at = "fast", !.salt = 1]
          /\ Respond("none", Scramble("caching", cli.password, 1))
      BY <1>1, <2>1, <2>3 DEF CachingSwitch
    <3>2. cli' \in Clients /\ cli'.at = "fast" /\ cli'.salt = 1 /\ cli'.password = cli.password
      BY <1>1, <3>1 DEF Clients
    <3>3. LaterTurn(Scramble("caching", cli.password, 1))'
      BY <1>2, <2>3, <3>2 DEF LaterTurn, Hashed, Scramble, Answer
    <3>4. Scramble("caching", cli.password, 1)' = Scramble("caching", cli.password, 1)
      BY <3>2 DEF Scramble, Answer, Empty
    <3> QED BY <3>1, <3>2, <3>3, <3>4, SayInv
  <2> QED BY <2>2, <2>3
<1>3. CASE srv.plugin = "sha256"
  <2>1. Sha256Switch(p)
    BY <1>1, <1>3 DEF ProcessAuth
  <2>2. CASE cli.secure
    BY <1>3, <2>1, <2>2, PlainInv DEF Sha256Switch
  <2>3. CASE ~cli.secure /\ cli.password = NoPassword
    <3>1. cli' = [cli EXCEPT !.at = "final", !.salt = 1] /\ Respond("none", Empty)
      BY <1>1, <2>1, <2>3 DEF Sha256Switch
    <3>2. cli' \in Clients /\ cli'.at = "final" /\ cli'.password = NoPassword
      BY <1>1, <2>3, <3>1 DEF Clients
    <3> QED BY <1>3, <3>1, <3>2, EmptyInv
  <2>4. CASE ~cli.secure /\ cli.password # NoPassword /\ cli.key = "none"
    <3>1. cli' = [cli EXCEPT !.at = "key", !.salt = 1] /\ Respond("none", AskKey)
      BY <1>1, <2>1, <2>4 DEF Sha256Switch
    <3>2. cli' \in Clients /\ cli'.at = "key" /\ cli'.salt = 1 /\ cli'.secure = cli.secure
      BY <1>1, <3>1 DEF Clients
    <3>3. LaterTurn(AskKey)'
      BY <1>3, <2>4, <3>2 DEF LaterTurn, Asks, AskKey, Answer
    <3> QED BY <3>1, <3>2, <3>3, SayInv DEF AskKey, Answer
  <2>5. CASE ~cli.secure /\ cli.password # NoPassword /\ cli.key # "none"
    <3>1. CASE cli.crypto
      <4>1. /\ cli' = [cli EXCEPT !.at = "final", !.salt = 1]
            /\ Respond("none", Rsa(cli.password, 1, cli.key))
        BY <1>1, <2>1, <2>5, <3>1 DEF Sha256Switch
      <4>2. /\ cli' \in Clients /\ cli'.at = "final" /\ cli'.salt = 1 /\ cli'.secure = cli.secure
            /\ cli'.password = cli.password /\ cli'.key = cli.key
            /\ cli.key \in {"current", "old"}
        BY <1>1, <2>5, <4>1 DEF Clients
      <4>3. Final(Rsa(cli.password, 1, cli.key))'
        BY <1>3, <2>5, <4>2 DEF Final, Rsa, Answer, Proves, Right, Excused
      <4>4. LaterTurn(Rsa(cli.password, 1, cli.key))'
        BY <1>3, <4>2, <4>3 DEF LaterTurn
      <4>5. Rsa(cli.password, 1, cli.key)' = Rsa(cli.password, 1, cli.key)
        BY <4>2 DEF Rsa, Answer
      <4> QED BY <4>1, <4>2, <4>4, <4>5, SayInv
    <3>2. CASE ~cli.crypto
      <4>1. cli' = [cli EXCEPT !.at = "raised"] /\ toSrv' = toSrv
        BY <2>1, <2>5, <3>2 DEF Sha256Switch, Raise, Next1
      <4>2. /\ cli' \in Clients /\ cli'.at = "raised"
            /\ cli'.crypto = cli.crypto /\ cli'.secure = cli.secure
        BY <1>1, <4>1 DEF Clients
      <4>3. Excused'
        BY <1>3, <2>5, <3>2, <4>2 DEF Excused
      <4> QED BY <4>1, <4>2, <4>3, EndInv
    <3> QED BY <3>1, <3>2
  <2> QED BY <2>2, <2>3, <2>4, <2>5
<1>4. CASE srv.plugin = "native"
  <2>1. Next1("final") /\ Respond("none", Scramble("native", cli.password, 1))
    BY <1>1, <1>4 DEF ProcessAuth
  <2>2. cli' \in Clients /\ cli'.at = "final" /\ cli'.password = cli.password
    BY <1>1, <2>1 DEF Next1, Clients
  <2>3. Final(Scramble("native", cli.password, 1))'
    BY <1>4, <2>2 DEF Final, Scramble, Empty, Answer, Proves, Right
  <2>4. LaterTurn(Scramble("native", cli.password, 1))'
    BY <1>4, <2>2, <2>3 DEF LaterTurn
  <2>5. Scramble("native", cli.password, 1)' = Scramble("native", cli.password, 1)
    BY <2>2 DEF Scramble, Answer, Empty
  <2> QED BY <2>1, <2>2, <2>4, <2>5, SayInv
<1>5. CASE srv.plugin \in {"clear", "dialog"}
  <2> DEFINE at == IF srv.plugin = "clear" THEN "final" ELSE "dialog"
  <2>1. at \in {"final", "dialog"} /\ Next1(at) /\ Respond("none", Plain(cli.password))
    BY <1>1, <1>5 DEF ProcessAuth
  <2>2. /\ srv.at \in (IF at = "final" THEN {"answer", "full", "cipher"} ELSE {"answer", "lastAnswer"})
        /\ (at = "dialog") <=> (srv.plugin = "dialog")
    BY <1>5
  <2> HIDE DEF at
  <2> QED BY <2>1, <2>2, PlainInv
<1>6. CASE srv.plugin \notin Supported
  <2>1. cli' = [cli EXCEPT !.at = "raised"] /\ toSrv' = toSrv
    BY <1>1, <1>6 DEF ProcessAuth, Raise, Next1, Supported
  <2>2. cli' \in Clients /\ cli'.at = "raised"
    BY <1>1, <2>1 DEF Clients
  <2>3. Excused'
    BY <1>6 DEF Excused
  <2> QED BY <2>1, <2>2, <2>3, EndInv
<1> QED BY <1>2, <1>3, <1>4, <1>5, <1>6 DEF Supported

(* What the client reads in its turn. *)
LEMMA ReadsInTurn ==
  ASSUME AuthInv, NEW at \in {"first", "fast", "key", "dialog", "final"}, Read(at)
  PROVE  /\ AuthTypes /\ toSrv = <<>> /\ UNCHANGED srv /\ cli.at = at
         /\ \/ /\ Head(toCli) = Say("ok") /\ srv.at = "accepted" /\ Right /\ toCli' = <<>>
               /\ at \in {"first", "dialog", "final"}
            \/ /\ Head(toCli) = Say("fastOk") /\ srv.at = "accepted" /\ Right /\ Hashing
               /\ toCli' = <<Say("ok")>> /\ cli.password # NoPassword
            \/ /\ Head(toCli) = Packet("switch", srv.plugin, 1) /\ srv.at = "answer"
               /\ srv.salt = 1 /\ at = "first" /\ toCli' = <<>>
            \/ /\ Head(toCli) = Say("full") /\ srv.at = "full" /\ srv.plugin = "caching"
               /\ Hashing /\ cli.password # NoPassword /\ cli.salt = srv.salt /\ toCli' = <<>>
            \/ /\ Head(toCli) = Say("key") /\ srv.at = "cipher"
               /\ srv.plugin \in {"caching", "sha256"} /\ WantsKey /\ ~cli.secure
               /\ cli.salt = srv.salt /\ toCli' = <<>>
            \/ /\ Head(toCli) = Say("prompt") /\ srv.at = "lastAnswer" /\ srv.plugin = "dialog"
               /\ at = "dialog" /\ toCli' = <<>>
<1>1. /\ cli.at = at /\ toCli # <<>> /\ Head(toCli).kind # "err" /\ toCli' = Tail(toCli)
      /\ UNCHANGED srv
  BY DEF Read
<1>2. AuthTypes /\ ClientsTurn
  BY <1>1 DEF AuthInv, Greeting, ServersTurn, Ended
<1>3. toCli # <<Say("err")>>
  BY <1>1 DEF Say, Packet
<1>4. /\ \A x : Head(<<x>>) = x /\ Tail(<<x>>) = <<>>
      /\ \A x, y : Head(<<x, y>>) = x /\ Tail(<<x, y>>) = <<y>>
  OBVIOUS
<1>5. toSrv = <<>>
  BY <1>2 DEF ClientsTurn
<1> QED BY <1>1, <1>2, <1>3, <1>4, <1>5 DEF ClientsTurn

LEMMA FirstReplyInv == AuthInv /\ FirstReply => AuthInv'
<1> SUFFICES ASSUME AuthInv, FirstReply PROVE AuthInv'
  OBVIOUS
<1>1. Read("first")
  BY DEF FirstReply
<1> DEFINE p == Head(toCli)
<1>2. /\ AuthTypes /\ toSrv = <<>> /\ UNCHANGED srv /\ cli.at = "first"
  BY <1>1, ReadsInTurn
<1>3. CASE p = Say("ok") /\ srv.at = "accepted" /\ Right /\ toCli' = <<>>
  <2>1. Accept
    BY <1>3 DEF FirstReply, Say, Packet, ExtraData
  <2> QED BY <1>2, <1>3, <2>1, AcceptInv
<1>4. CASE /\ p = Say("fastOk") /\ srv.at = "accepted" /\ Right /\ Hashing
           /\ toCli' = <<Say("ok")>> /\ cli.password # NoPassword
  <2>1. cli.plugin = "caching"
    BY <1>2, <1>4 DEF Hashing
  <2>2. AfterFast("fastOk")
    BY <1>4, <2>1 DEF FirstReply, Say, Packet, ExtraData
  <2>3. Next1("final") /\ UNCHANGED toSrv
    BY <2>2 DEF AfterFast
  <2> QED BY <1>2, <1>4, <2>3, FastOkInv
<1>5. CASE /\ p = Packet("switch", srv.plugin, 1) /\ srv.at = "answer"
           /\ srv.salt = 1 /\ toCli' = <<>>
  <2>1. ProcessAuth(p)
    BY <1>5 DEF FirstReply, Packet, ExtraData
  <2>2. PICK q : q = p /\ ProcessAuth(q)
    BY <2>1
  <2> QED BY <1>2, <1>5, <2>2, SwitchInv
<1>6. CASE /\ p = Say("full") /\ srv.at = "full" /\ srv.plugin = "caching"
           /\ Hashing /\ cli.password # NoPassword /\ cli.salt = srv.salt /\ toCli' = <<>>
  <2>1. cli.plugin = "caching"
    BY <1>2, <1>6 DEF Hashing
  <2>2. AfterFast("full")
    BY <1>6, <2>1 DEF FirstReply, Say, Packet, ExtraData
  <2>3. FullAuth
    BY <2>2 DEF AfterFast
  <2> QED BY <1>2, <1>6, <2>3, FullAuthInv
<1>7. CASE /\ p = Say("key") /\ srv.at = "cipher" /\ srv.plugin \in {"caching", "sha256"}
           /\ WantsKey /\ ~cli.secure /\ cli.salt = srv.salt /\ toCli' = <<>>
  <2>1. cli.plugin = "sha256"
    BY <1>2, <1>7 DEF WantsKey
  <2>2. Encrypt("current")
    BY <1>7, <2>1 DEF FirstReply, Say, Packet, ExtraData
  <2> QED BY <1>2, <1>7, <2>2, EncryptInv
<1> QED BY <1>1, <1>3, <1>4, <1>5, <1>6, <1>7, ReadsInTurn

LEMMA FastReplyInv == AuthInv /\ FastReply => AuthInv'
<1> SUFFICES ASSUME AuthInv, FastReply PROVE AuthInv'
  OBVIOUS
<1>1. Read("fast") /\ AfterFast(Head(toCli).kind)
  BY DEF FastReply
<1>2. /\ AuthTypes /\ toSrv = <<>> /\ UNCHANGED srv /\ cli.at = "fast"
  BY <1>1, ReadsInTurn
<1>3. CASE /\ Head(toCli) = Say("fastOk") /\ srv.at = "accepted" /\ Right
           /\ toCli' = <<Say("ok")>>
  <2>1. Next1("final") /\ UNCHANGED toSrv
    BY <1>1, <1>3 DEF AfterFast, Say, Packet
  <2> QED BY <1>2, <1>3, <2>1, FastOkInv
<1>4. CASE /\ Head(toCli) = Say("full") /\ srv.at = "full" /\ srv.plugin = "caching"
           /\ cli.salt = srv.salt /\ toCli' = <<>>
  <2>1. FullAuth
    BY <1>1, <1>4 DEF AfterFast, Say, Packet
  <2> QED BY <1>2, <1>4, <2>1, FullAuthInv
<1> QED BY <1>1, <1>2, <1>3, <1>4, ReadsInTurn DEF WantsKey

LEMMA KeyReplyInv == AuthInv /\ KeyReply => AuthInv'
<1> SUFFICES ASSUME AuthInv, KeyReply PROVE AuthInv'
  OBVIOUS
<1>1. Read("key") /\ IF Head(toCli).kind \in ExtraData THEN Encrypt("current") ELSE Raise
  BY DEF KeyReply
<1>2. /\ AuthTypes /\ toSrv = <<>> /\ UNCHANGED srv /\ cli.at = "key"
      /\ Head(toCli) = Say("key") /\ srv.at = "cipher" /\ srv.plugin \in {"caching", "sha256"}
      /\ ~cli.secure /\ cli.salt = srv.salt /\ toCli' = <<>>
  BY <1>1, ReadsInTurn DEF Hashing
<1>3. Encrypt("current")
  BY <1>1, <1>2 DEF ExtraData, Say, Packet
<1> QED BY <1>2, <1>3, EncryptInv

LEMMA DialogReplyInv == AuthInv /\ DialogReply => AuthInv'
<1> SUFFICES ASSUME AuthInv, DialogReply PROVE AuthInv'
  OBVIOUS
<1>1. /\ Read("dialog")
      /\ IF Head(toCli).kind = "prompt"
           THEN Next1("dialog") /\ Respond("none", Plain(cli.password))
           ELSE Accept
  BY DEF DialogReply
<1>2. /\ AuthTypes /\ toSrv = <<>> /\ UNCHANGED srv /\ toCli' = <<>>
      /\ \/ Head(toCli) = Say("ok") /\ srv.at = "accepted" /\ Right
         \/ Head(toCli) = Say("prompt") /\ srv.at = "lastAnswer" /\ srv.plugin = "dialog"
  BY <1>1, ReadsInTurn DEF Hashing, WantsKey
<1>3. CASE Head(toCli) = Say("ok") /\ srv.at = "accepted" /\ Right
  <2>1. Accept
    BY <1>1, <1>3 DEF Say, Packet
  <2> QED BY <1>2, <1>3, <2>1, AcceptInv
<1>4. CASE Head(toCli) = Say("prompt") /\ srv.at = "lastAnswer" /\ srv.plugin = "dialog"
  <2>1. Next1("dialog") /\ Respond("none", Plain(cli.password))
    BY <1>1, <1>4 DEF Say, Packet
  <2> QED BY <1>2, <1>4, <2>1, PlainInv
<1> QED BY <1>2, <1>3, <1>4

LEMMA FinalReplyInv == AuthInv /\ FinalReply => AuthInv'
<1> SUFFICES ASSUME AuthInv, FinalReply PROVE AuthInv'
  OBVIOUS
<1>1. Read("final") /\ Accept
  BY DEF FinalReply
<1>2. /\ AuthTypes /\ toSrv = <<>> /\ UNCHANGED srv /\ toCli' = <<>>
      /\ srv.at = "accepted" /\ Right
  BY <1>1, ReadsInTurn DEF Hashing, WantsKey
<1> QED BY <1>1, <1>2, AcceptInv

LEMMA ReadErrorInv == AuthInv /\ ReadError => AuthInv'
<1> SUFFICES ASSUME AuthInv, ReadError PROVE AuthInv'
  OBVIOUS
<1>1. /\ toCli # <<>> /\ Head(toCli).kind = "err" /\ cli.at \notin {"ok", "raised"}
      /\ cli' = [cli EXCEPT !.at = "raised"] /\ UNCHANGED <<srv, toSrv>>
  BY DEF ReadError, Raise, Next1
<1>2. AuthTypes /\ ClientsTurn
  BY <1>1 DEF AuthInv, Greeting, ServersTurn, Ended, Packet
<1>3. srv.at = "denied" /\ (Right => Excused) /\ toSrv = <<>>
  BY <1>1, <1>2 DEF ClientsTurn, Say, Packet
<1>4. /\ cli' \in Clients /\ cli'.at = "raised" /\ cli'.password = cli.password
      /\ cli'.secure = cli.secure /\ cli'.crypto = cli.crypto /\ cli'.key = cli.key
  BY <1>1, <1>2 DEF AuthTypes, Clients
<1>5. (Right => Excused)'
  BY <1>1, <1>3, <1>4 DEF Right, Excused
<1> QED BY <1>1, <1>2, <1>3, <1>4, <1>5, EndInv

LEMMA LostInv == AuthInv /\ AuthLost => AuthInv'
<1> SUFFICES ASSUME AuthInv, AuthLost PROVE AuthInv'
  OBVIOUS
<1>1. cli \in Clients /\ srv \in Servers /\ (srv.announced = "none" => srv.plugin = "native")
  BY DEF AuthInv, AuthTypes
<1>2. /\ cli' \in Clients /\ cli'.at = "raised" /\ srv' \in Servers /\ srv'.at = "lost"
      /\ srv'.announced = srv.announced /\ srv'.plugin = srv.plugin /\ toSrv' = <<>>
  BY <1>1 DEF AuthLost, Clients, Servers
<1> QED BY <1>1, <1>2 DEF AuthInv, AuthTypes, Ended

LEMMA SameAuth == AuthInv /\ UNCHANGED authVars => AuthInv'
<1> SUFFICES ASSUME AuthInv, UNCHANGED authVars PROVE AuthInv'
  OBVIOUS
<1> USE DEF authVars
<1>1. AuthTypes' /\ Right' = Right /\ Excused' = Excused /\ Hashing' = Hashing /\ WantsKey' = WantsKey
  BY DEF AuthInv, AuthTypes, Right, Excused, Hashing, WantsKey
<1>2. ASSUME NEW m PROVE Final(m)' = Final(m) /\ Hashed(m)' = Hashed(m) /\ Asks(m)' = Asks(m)
  BY <1>1 DEF Final, Proves, Hashed, Asks
<1>3. ASSUME NEW r PROVE (FirstTurn(r) => FirstTurn(r)') /\ (LaterTurn(r.answer) => LaterTurn(r.answer)')
  BY <1>2 DEF FirstTurn, LaterTurn
<1>4. (Greeting => Greeting') /\ (Ended => Ended')
  BY <1>1 DEF Greeting, Ended
<1>5. ServersTurn => ServersTurn'
  BY <1>3 DEF ServersTurn
<1>6. ClientsTurn => ClientsTurn'
  BY <1>1 DEF ClientsTurn
<1> QED BY <1>1, <1>4, <1>5, <1>6 DEF AuthInv

(* Once connected, the connection phase is over. *)
BatchInv == cli.at = "over" \/ AuthInv

THEOREM ConnectionPhase == BatchSpec => []BatchInv
<1>1. BatchInit => BatchInv
  BY InitAuthInv DEF BatchInit, BatchInv
<1>2. BatchInv /\ [BatchNext]_vars => BatchInv'
  <2> SUFFICES ASSUME BatchInv, [BatchNext]_vars PROVE BatchInv'
    OBVIOUS
  <2>1. CASE UNCHANGED authVars
    BY <2>1, SameAuth DEF BatchInv, authVars
  <2>2. CASE Connected
    BY <2>2 DEF Connected, BatchInv
  <2>3. CASE cli.at # "over" /\ (ClientReads \/ ServerActs \/ AuthLost)
    BY <2>3, LoginInv, FirstReplyInv, FastReplyInv, KeyReplyInv, DialogReplyInv, FinalReplyInv,
       ReadErrorInv, GreetInv, JudgeInv, LostInv DEF BatchInv, ClientReads, ServerActs
  <2> QED BY <2>1, <2>2, <2>3
          DEF BatchNext, BatchClient, BatchServer, Connecting, Inserting, vars
<1> QED BY <1>1, <1>2, PTL DEF BatchSpec

-----------------------------------------------------------------------------
(* Whoever comes through the connection phase was let in for the account's   *)
(* own password and has read every packet of it, whichever plugins the two   *)
(* ends talked through.                                                      *)
THEOREM EndsAgree == BatchSpec => []Agreement
<1>1. BatchInv => Agreement
  BY DEF BatchInv, AuthInv, Greeting, ServersTurn, FirstTurn, LaterTurn, ClientsTurn, Ended,
         Hashing, WantsKey, Right, Agreement
<1> QED BY <1>1, ConnectionPhase, PTL

(* The right password is refused only for want of a plugin, of a package or  *)
(* of the server's key.                                                      *)
THEOREM RightPasswordIsLetIn == BatchSpec => []RightPasswordEnters
<1>1. BatchInv => RightPasswordEnters
  BY DEF BatchInv, AuthInv, Greeting, ServersTurn, FirstTurn, LaterTurn, ClientsTurn, Ended,
         Hashing, WantsKey, Right, Excused, RightPasswordEnters
<1> QED BY <1>1, ConnectionPhase, PTL

-----------------------------------------------------------------------------
(* executemany(). *)
Answers == [kind : {"none", "ok", "err"}, count : Nat, size : Nat]
UpPackets == [seq : Nat, from : Nat, to : Nat, size : Nat, first : Nat, last : Nat]
DownPackets == [seq : Nat, from : Nat, to : Nat, answer : Answers]

WireTypes ==
  /\ sizes \in Seq(Nat \ {0}) /\ bulk \in BOOLEAN /\ rows \in Nat
  /\ sql \in [first : Nat \ {0}, last : Nat, len : Nat]
  /\ pc \in {"idle", "build", "more", "read", "done", "raised"}
  /\ size \in Nat /\ off \in Nat /\ seq \in Nat /\ executed \in Nat
  /\ link \in {"up", "lost"} /\ up \in Seq(UpPackets) /\ down \in Seq(DownPackets)
  /\ server \in [at : {"read", "run", "answer"}, seq : Nat, got : Nat, first : Nat,
                 last : Nat, size : Nat, answer : Answers]

(* The statement begins after the rows counted. *)
Counted ==
  /\ sql.last <= Rows
  /\ IF pc = "idle" THEN sql.first = 1 ELSE pc # "done" => sql.first <= sql.last
  /\ IF pc = "done" THEN rows = Rows ELSE rows = sql.first - 1

(* A queue of packets with numbers in a row, all of them full but the last. *)
Full(p) == p.to - p.from = MaxPacket
AllFull(q) == \A i \in 1..Len(q) : Full(q[i])
Linked(q, n) ==
  \A i \in 1..Len(q) :
    /\ q[i].seq = IF i = 1 THEN n ELSE NextSeq(q[i - 1].seq)
    /\ i < Len(q) => Full(q[i])
Following(q, n) == IF q = <<>> THEN n ELSE NextSeq(q[Len(q)].seq)

(* The same of the bytes of the statement. *)
Spans(q, b) ==
  \A i \in 1..Len(q) :
    /\ q[i].from = IF i = 1 THEN b ELSE q[i - 1].to
    /\ q[i].from <= size /\ q[i].to = q[i].from + Smaller(MaxPacket, size - q[i].from)
    /\ q[i].size = size /\ q[i].first = sql.first /\ q[i].last = sql.last
EndOf(q, b) == IF q = <<>> THEN b ELSE q[Len(q)].to

(* Where a statement stands between the two ends. *)
Quiet ==
  /\ pc \in {"idle", "build", "done"} /\ up = <<>> /\ down = <<>>
  /\ server.at = "read" /\ server.seq = 0 /\ server.got = 0 /\ executed = rows

Requesting ==
  /\ pc \in {"more", "read", "raised"} /\ down = <<>>
  /\ server.at = "read" /\ server.got <= size /\ executed = rows
  /\ Linked(up, server.seq) /\ Spans(up, server.got)
  /\ pc = "more" => AllFull(up) /\ off <= size
  /\ link = "up" =>
       /\ pc # "raised" /\ Following(up, server.seq) = seq
       /\ pc = "more" => EndOf(up, server.got) = off
       /\ pc = "read" => up # <<>> /\ ~Full(up[Len(up)])

Running ==
  /\ pc \in {"read", "raised"} /\ up = <<>> /\ down = <<>>
  /\ server.at = "run" /\ server.got = size /\ server.size = size /\ executed = rows
  /\ server.first = sql.first /\ server.last = sql.last
  /\ link = "up" => pc = "read" /\ server.seq = seq

(* The server has run it, and what it says of it is so. *)
Ran ==
  /\ pc \in {"read", "raised"} /\ up = <<>>
  /\ executed = rows + server.answer.count
  /\ server.answer.kind \in {"ok", "err"}
  /\ server.answer.count = IF server.answer.kind = "ok" THEN sql.last - sql.first + 1 ELSE 0
  /\ \A i \in 1..Len(down) : down[i].answer = server.answer
  /\ pc = "read" => Linked(down, seq)

Answering ==
  /\ Ran /\ server.at = "answer" /\ server.got <= server.answer.size /\ AllFull(down)
  /\ link = "up" => pc = "read" /\ Following(down, seq) = server.seq

Answered ==
  /\ Ran /\ server.at = "read" /\ server.seq = 0 /\ server.got = 0
  /\ pc = "read" /\ link = "up" => down # <<>> /\ ~Full(down[Len(down)])

WireInv ==
  /\ WireTypes /\ Counted
  /\ Quiet \/ Requesting \/ Running \/ Answering \/ Answered

-----------------------------------------------------------------------------
(* Queues.                                                                   *)
LEMMA Numbers ==
  /\ NextSeq(0) = 1
  /\ \A n \in Nat : NextSeq(n) \in Nat
BY WireAssumption DEF NextSeq

LEMMA NoPacket ==
  ASSUME NEW S, NEW q \in Seq(S)
  PROVE  q = <<>> <=> Len(q) = 0
OBVIOUS

LEMMA TakeFirst ==
  ASSUME NEW S, NEW q \in Seq(S), q # <<>>, NEW n, Linked(q, n)
  PROVE  /\ Head(q) = q[1] /\ q[1] \in S /\ q[1].seq = n
         /\ Tail(q) \in Seq(S) /\ Linked(Tail(q), NextSeq(n))
         /\ Following(Tail(q), NextSeq(n)) = Following(q, n)
         /\ ~Full(q[1]) => Tail(q) = <<>>
         /\ IF Tail(q) = <<>> THEN q[1] = q[Len(q)] ELSE Tail(q)[Len(Tail(q))] = q[Len(q)]
         /\ AllFull(q) => AllFull(Tail(q))
<1>1. /\ Tail(q) \in Seq(S) /\ Len(q) \in Nat \ {0}
      /\ Len(Tail(q)) = Len(q) - 1
      /\ \A i \in 1..Len(Tail(q)) : Tail(q)[i] = q[i + 1]
  BY HeadTailProperties, EmptySeq
<1>2. Head(q) = q[1] /\ q[1] \in S
  BY <1>1
<1>3. Tail(q) = <<>> <=> Len(q) = 1
  BY <1>1
<1>4. q[1].seq = n
  BY <1>1 DEF Linked
<1>5. Linked(Tail(q), NextSeq(n))
  BY <1>1, <1>4 DEF Linked
<1>6. Tail(q) # <<>> => Tail(q)[Len(Tail(q))] = q[Len(q)]
  BY <1>1, <1>3
<1>7. Following(Tail(q), NextSeq(n)) = Following(q, n)
  BY <1>1, <1>3, <1>4, <1>6 DEF Following
<1>8. (~Full(q[1]) => Tail(q) = <<>>) /\ (Tail(q) = <<>> => q[1] = q[Len(q)])
  BY <1>1, <1>3 DEF Linked
<1>9. AllFull(q) => AllFull(Tail(q))
  BY <1>1 DEF AllFull
<1> QED BY <1>1, <1>2, <1>4, <1>5, <1>6, <1>7, <1>8, <1>9

LEMMA AddLast ==
  ASSUME NEW S, NEW q \in Seq(S), NEW n, Linked(q, n), AllFull(q),
         NEW p \in S, p.seq = Following(q, n)
  PROVE  /\ Append(q, p) \in Seq(S) /\ Append(q, p) # <<>>
         /\ Append(q, p)[Len(Append(q, p))] = p
         /\ Linked(Append(q, p), n) /\ Following(Append(q, p), n) = NextSeq(p.seq)
         /\ Full(p) => AllFull(Append(q, p))
<1> DEFINE r == Append(q, p)
<1>1. /\ r \in Seq(S) /\ r # <<>> /\ Len(q) \in Nat /\ Len(r) = Len(q) + 1
      /\ \A i \in 1..Len(q) : r[i] = q[i]
      /\ r[Len(q) + 1] = p
  BY AppendProperties, LenProperties
<1>2. q = <<>> <=> Len(q) = 0
  BY <1>1
<1> HIDE DEF r
<1>3. Linked(r, n)
  <2> SUFFICES ASSUME NEW i \in 1..Len(r)
               PROVE  /\ r[i].seq = IF i = 1 THEN n ELSE NextSeq(r[i - 1].seq)
                      /\ i < Len(r) => Full(r[i])
    BY DEF Linked
  <2>1. CASE i <= Len(q)
    <3>1. i \in 1..Len(q) /\ r[i] = q[i] /\ (i # 1 => i - 1 \in 1..Len(q) /\ r[i - 1] = q[i - 1])
      BY <1>1, <2>1
    <3> QED BY <3>1 DEF Linked, AllFull
  <2>2. CASE i = Len(q) + 1
    <3>1. r[i] = p /\ (i # 1 => Len(q) \in 1..Len(q) /\ r[i - 1] = q[Len(q)]) /\ ~(i < Len(r))
      BY <1>1, <2>2
    <3> QED BY <1>1, <1>2, <2>2, <3>1 DEF Following
  <2> QED BY <1>1, <2>1, <2>2
<1>4. Full(p) => AllFull(r)
  BY <1>1 DEF AllFull
<1>5. Following(r, n) = NextSeq(p.seq)
  BY <1>1 DEF Following
<1> QED BY <1>1, <1>3, <1>4, <1>5 DEF r

LEMMA LoseLast ==
  ASSUME NEW S, NEW q \in Seq(S), NEW k \in 0..Len(q)
  PROVE  /\ SubSeq(q, 1, k) \in Seq(S) /\ Len(SubSeq(q, 1, k)) = k
         /\ \A i \in 1..k : SubSeq(q, 1, k)[i] = q[i]
         /\ \A n : Linked(q, n) => Linked(SubSeq(q, 1, k), n)
         /\ \A b : Spans(q, b) => Spans(SubSeq(q, 1, k), b)
         /\ AllFull(q) => AllFull(SubSeq(q, 1, k))
<1> DEFINE r == SubSeq(q, 1, k)
<1>1. /\ Len(q) \in Nat /\ k \in Nat /\ k <= Len(q)
      /\ \A i \in 1..k : q[i] \in S
  BY LenProperties
<1>2. /\ r \in Seq(S) /\ Len(r) = k
      /\ \A i \in 1..k : r[i] = q[i]
  BY <1>1, SubSeqProperties
<1> HIDE DEF r
<1>3. ASSUME NEW n, Linked(q, n) PROVE Linked(r, n)
  <2> SUFFICES ASSUME NEW i \in 1..k
               PROVE  /\ r[i].seq = IF i = 1 THEN n ELSE NextSeq(r[i - 1].seq)
                      /\ i < k => Full(r[i])
    BY <1>2 DEF Linked
  <2>1. /\ i \in 1..Len(q) /\ r[i] = q[i] /\ (i < k => i < Len(q))
        /\ i # 1 => i - 1 \in 1..k /\ r[i - 1] = q[i - 1]
    BY <1>1, <1>2
  <2> QED BY <1>3, <2>1 DEF Linked
<1>4. \A b : Spans(q, b) => Spans(r, b)
  BY <1>1, <1>2 DEF Spans
<1>5. AllFull(q) => AllFull(r)
  BY <1>1, <1>2 DEF AllFull
<1> QED BY <1>2, <1>3, <1>4, <1>5 DEF r

LEMMA TakeSpan ==
  ASSUME NEW S, NEW q \in Seq(S), q # <<>>, NEW b, Spans(q, b)
  PROVE  /\ q[1].from = b /\ b <= size /\ q[1].to = b + Smaller(MaxPacket, size - b)
         /\ q[1].size = size /\ q[1].first = sql.first /\ q[1].last = sql.last
         /\ Spans(Tail(q), q[1].to) /\ EndOf(Tail(q), q[1].to) = EndOf(q, b)
<1>1. /\ Tail(q) \in Seq(S) /\ Len(q) \in Nat \ {0}
      /\ Len(Tail(q)) = Len(q) - 1
      /\ \A i \in 1..Len(Tail(q)) : Tail(q)[i] = q[i + 1]
  BY HeadTailProperties, EmptySeq
<1>2. Tail(q) = <<>> <=> Len(q) = 1
  <2>1. Tail(q) = <<>> <=> Len(Tail(q)) = 0
    BY <1>1, NoPacket
  <2> QED BY <1>1, <2>1
<1>3. Spans(Tail(q), q[1].to)
  <2> SUFFICES ASSUME NEW i \in 1..Len(Tail(q))
               PROVE  /\ q[i + 1].from = IF i = 1 THEN q[1].to ELSE q[i].to
                      /\ q[i + 1].from <= size
                      /\ q[i + 1].to = q[i + 1].from + Smaller(MaxPacket, size - q[i + 1].from)
                      /\ q[i + 1].size = size
                      /\ q[i + 1].first = sql.first /\ q[i + 1].last = sql.last
    <3>1. \A i \in 1..Len(Tail(q)) : i # 1 => i - 1 \in 1..Len(Tail(q)) /\ Tail(q)[i - 1] = q[i]
      BY <1>1
    <3> QED BY <1>1, <3>1 DEF Spans
  <2>1. i + 1 \in 1..Len(q) /\ i + 1 # 1 /\ (i + 1) - 1 = i
    BY <1>1
  <2> QED BY <2>1 DEF Spans
<1>4. EndOf(Tail(q), q[1].to) = EndOf(q, b)
  BY <1>1, <1>2 DEF EndOf
<1> QED BY <1>1, <1>3, <1>4 DEF Spans

LEMMA AddSpan ==
  ASSUME NEW S, NEW q \in Seq(S), NEW b, Spans(q, b),
         NEW p \in S, p.from = EndOf(q, b), p.from <= size,
         p.to = p.from + Smaller(MaxPacket, size - p.from),
         p.size = size, p.first = sql.first, p.last = sql.last
  PROVE  Spans(Append(q, p), b) /\ EndOf(Append(q, p), b) = p.to
<1> DEFINE r == Append(q, p)
<1>1. /\ r \in Seq(S) /\ r # <<>> /\ Len(q) \in Nat /\ Len(r) = Len(q) + 1
      /\ \A i \in 1..Len(q) : r[i] = q[i]
      /\ r[Len(q) + 1] = p
  BY AppendProperties, LenProperties
<1>2. q = <<>> <=> Len(q) = 0
  BY <1>1
<1> HIDE DEF r
<1>3. ASSUME NEW i \in 1..Len(r)
      PROVE  /\ r[i].from = IF i = 1 THEN b ELSE r[i - 1].to
             /\ r[i].from <= size /\ r[i].to = r[i].from + Smaller(MaxPacket, size - r[i].from)
             /\ r[i].size = size /\ r[i].first = sql.first /\ r[i].last = sql.last
  <2>1. CASE i <= Len(q)
    <3>1. i \in 1..Len(q) /\ r[i] = q[i] /\ (i # 1 => i - 1 \in 1..Len(q) /\ r[i - 1] = q[i - 1])
      BY <1>1, <2>1
    <3> QED BY <3>1 DEF Spans
  <2>2. CASE i = Len(q) + 1
    <3>1. r[i] = p /\ (i # 1 => Len(q) \in 1..Len(q) /\ r[i - 1] = q[Len(q)])
      BY <1>1, <2>2
    <3> QED BY <1>1, <1>2, <2>2, <3>1 DEF EndOf
  <2> QED BY <1>1, <2>1, <2>2
<1>4. EndOf(r, b) = p.to
  BY <1>1 DEF EndOf
<1> QED BY <1>3, <1>4 DEF r, Spans

(* An empty queue. *)
LEMMA EmptyQueue ==
  ASSUME NEW n
  PROVE  /\ Linked(<<>>, n) /\ AllFull(<<>>) /\ Spans(<<>>, n)
         /\ Following(<<>>, n) = n /\ EndOf(<<>>, n) = n
BY DEF Linked, AllFull, Spans, Following, EndOf

-----------------------------------------------------------------------------
(* The steps.                                                                *)
LEMMA InitWireInv == WireInit => WireInv
<1> SUFFICES ASSUME WireInit PROVE WireInv
  OBVIOUS
<1> USE DEF WireInit, NoRows, NoAnswer
<1>1. server \in [at : {"read", "run", "answer"}, seq : Nat, got : Nat, first : Nat,
                  last : Nat, size : Nat, answer : Answers]
  BY DEF Answers
<1>2. sizes \in Seq(Nat \ {0}) /\ up \in Seq(UpPackets) /\ down \in Seq(DownPackets) /\ Rows = 0
  BY EmptySeq DEF Rows
<1>3. /\ sql \in [first : Nat \ {0}, last : Nat, len : Nat]
      /\ rows \in Nat /\ size \in Nat /\ off \in Nat /\ seq \in Nat /\ executed \in Nat
  OBVIOUS
<1>4. bulk \in BOOLEAN
  OBVIOUS
<1>5. pc \in {"idle", "build", "more", "read", "done", "raised"} /\ link \in {"up", "lost"}
  OBVIOUS
<1>6. WireTypes
  BY <1>1, <1>2, <1>3, <1>4, <1>5 DEF WireTypes
<1>7. Counted /\ Quiet
  BY <1>2 DEF Counted, Quiet
<1> QED BY <1>6, <1>7 DEF WireInv

LEMMA BetweenStatements ==
  WireInv /\ pc \in {"idle", "build", "done"} => WireTypes /\ Counted /\ Quiet
BY DEF WireInv, Requesting, Running, Answering, Answered, Ran

LEMMA ExecutemanyInv == WireInv /\ Executemany => WireInv'
<1> SUFFICES ASSUME WireInv, Executemany PROVE WireInv'
  OBVIOUS
<1>1. PICK batch \in Batches, b \in BOOLEAN :
        /\ sizes' = batch /\ bulk' = b
        /\ sql' = IF batch = <<>> THEN NoRows ELSE OneRow(batch, 1)
        /\ pc' = IF batch = <<>> THEN "done" ELSE "build"
  BY DEF Executemany
<1>2. /\ batch \in Seq(Nat \ {0}) /\ Len(batch) \in Nat
      /\ batch # <<>> => Len(batch) >= 1 /\ batch[1] \in Nat
  BY WireAssumption
<1>3. pc = "idle" /\ Quiet /\ WireTypes /\ rows = 0
  BY DEF Executemany, WireInv, Counted, Quiet, Requesting, Running, Answering, Answered, Ran
<1>4. WireTypes' /\ Counted'
  BY <1>1, <1>2, <1>3, WireAssumption
     DEF Executemany, WireTypes, Counted, NoRows, OneRow, Rows, netVars
<1>5. Quiet'
  BY <1>1, <1>3 DEF Executemany, Quiet, netVars
<1> QED BY <1>4, <1>5 DEF WireInv

LEMMA AddRowInv == WireInv /\ AddRow => WireInv'
<1> SUFFICES ASSUME WireInv, AddRow PROVE WireInv'
  OBVIOUS
<1> USE DEF AddRow, netVars
<1>1. Quiet /\ WireTypes /\ Counted
  BY BetweenStatements
<1>2. /\ sql.last + 1 \in 1..Len(sizes) /\ sizes[sql.last + 1] \in Nat
      /\ sql \in [first : Nat \ {0}, last : Nat, len : Nat]
  <2>1. /\ sizes \in Seq(Nat \ {0}) /\ sql.last < Len(sizes)
        /\ sql \in [first : Nat \ {0}, last : Nat, len : Nat]
    BY <1>1 DEF WireTypes, HasMore, Rows
  <2>2. sql.last + 1 \in 1..Len(sizes)
    BY <2>1
  <2> QED BY <2>1, <2>2
<1>3. /\ sql' \in [first : Nat \ {0}, last : Nat, len : Nat]
      /\ sql'.first = sql.first /\ sql'.last = sql.last + 1
  <2> DEFINE last == sql.last + 1
             len == sql.len + 1 + sizes[sql.last + 1]
  <2>1. last \in Nat /\ len \in Nat /\ sql' = [sql EXCEPT !.last = last, !.len = len]
    BY <1>2
  <2> HIDE DEF last, len
  <2>2. /\ sql' \in [first : Nat \ {0}, last : Nat, len : Nat]
        /\ sql'.first = sql.first /\ sql'.last = last
    BY <1>2, <2>1
  <2> QED BY <2>2 DEF last
<1>a. WireTypes'
  BY <1>1, <1>3 DEF WireTypes
<1>4. Counted'
  BY <1>1, <1>2, <1>3 DEF Counted, Rows
<1>5. Quiet'
  BY <1>1 DEF Quiet
<1> QED BY <1>a, <1>4, <1>5 DEF WireInv

LEMMA ExecuteInv == WireInv /\ Execute => WireInv'
<1> SUFFICES ASSUME WireInv, Execute PROVE WireInv'
  OBVIOUS
<1> DEFINE total == sql.len + Postfix + 1
           to == Smaller(MaxPacket, total)
           p == UpPacket(0, 0, to, total)
<1>1. /\ pc = "build" /\ Write(p) /\ size' = total /\ off' = to /\ seq' = 1
      /\ pc' = AfterWrite(0, to, total) /\ UNCHANGED <<cursorVars, server, executed>>
  BY DEF Execute
<1>2. Quiet /\ WireTypes /\ Counted
  BY <1>1 DEF WireInv, Requesting, Running, Answering, Answered, Ran
<1>3. total \in Nat /\ to \in Nat /\ to <= total /\ to = 0 + Smaller(MaxPacket, total - 0)
  BY <1>2, WireAssumption DEF WireTypes, Smaller
<1>4. /\ p \in UpPackets /\ p.seq = 0 /\ p.from = 0 /\ p.to = to
      /\ p.size = total /\ p.first = sql.first /\ p.last = sql.last
  BY <1>2, <1>3 DEF WireTypes, UpPacket, UpPackets
<1>5. pc' \in {"more", "read"} /\ (pc' = "more" <=> Full(p))
  BY <1>1, <1>3, <1>4, WireAssumption DEF AfterWrite, Full, Smaller
<1> HIDE DEF total, to, p
<1>6. /\ up' \in Seq(UpPackets) /\ Linked(up', 0) /\ Spans(up, 0)' /\ (Full(p) => AllFull(up'))
      /\ link = "up" => /\ Following(up', 0) = 1 /\ EndOf(up', 0) = to
                        /\ up' # <<>> /\ up'[Len(up')] = p
  <2>0. up = <<>> /\ up \in Seq(UpPackets)
    BY <1>2 DEF Quiet, WireTypes
  <2>1. CASE link = "up"
    <3>1. up' = Append(up, p)
      BY <1>1, <2>1 DEF Write
    <3>2. /\ up' \in Seq(UpPackets) /\ up' # <<>> /\ up'[Len(up')] = p
          /\ Linked(up', 0) /\ Following(up', 0) = 1 /\ (Full(p) => AllFull(up'))
      <4>1. Linked(up, 0) /\ AllFull(up) /\ p.seq = Following(up, 0)
        BY <2>0, <1>4, EmptyQueue
      <4>a. up \in Seq(UpPackets) /\ p \in UpPackets
        BY <2>0, <1>4
      <4>2. /\ up' \in Seq(UpPackets) /\ up' # <<>> /\ up'[Len(up')] = p
            /\ Linked(up', 0) /\ Following(up', 0) = NextSeq(p.seq)
            /\ (Full(p) => AllFull(up'))
        BY <4>a, <4>1, <3>1, AddLast
      <4> QED BY <4>2, <1>4, Numbers
    <3>3. up' = <<p>> /\ Len(up') = 1
      BY <2>0, <3>1
    <3>4. Spans(up, 0)' /\ EndOf(up', 0) = to
      BY <3>3, <1>1, <1>3, <1>4 DEF Spans, EndOf, cursorVars
    <3> QED BY <3>2, <3>4
  <2>2. CASE link # "up"
    <3>1. up' = <<>>
      BY <1>1, <2>0, <2>2 DEF Write
    <3> QED BY <2>0, <2>2, <3>1 DEF Linked, Spans, AllFull
  <2> QED BY <2>1, <2>2
<1>7. WireTypes'
  BY <1>1, <1>2, <1>3, <1>5, <1>6 DEF WireTypes, Write, cursorVars
<1>8. Counted'
  BY <1>1, <1>2, <1>5 DEF Counted, Rows, cursorVars
<1>9. Requesting'
  <2>1. /\ down' = <<>> /\ link' = link /\ executed' = rows'
        /\ server'.at = "read" /\ server'.got = 0 /\ server'.seq = 0
    BY <1>1, <1>2 DEF Quiet, Write, cursorVars
  <2>2. link' = "up" => /\ pc' = "more" => EndOf(up', 0) = off'
                        /\ pc' = "read" => up' # <<>> /\ ~Full(up'[Len(up')])
    BY <2>1, <1>1, <1>5, <1>6
  <2> QED BY <2>1, <2>2, <1>1, <1>3, <1>5, <1>6 DEF Requesting
<1> QED BY <1>7, <1>8, <1>9 DEF WireInv

LEMMA SendMoreInv == WireInv /\ SendMore => WireInv'
<1> SUFFICES ASSUME WireInv, SendMore PROVE WireInv'
  OBVIOUS
<1> DEFINE to == off + Smaller(MaxPacket, size - off)
           p == UpPacket(seq, off, to, size)
<1>1. /\ pc = "more" /\ Write(p) /\ off' = to /\ seq' = NextSeq(seq)
      /\ pc' = AfterWrite(off, to, size)
      /\ UNCHANGED <<cursorVars, size, server, executed>>
  BY DEF SendMore
<1>2. Requesting /\ WireTypes /\ Counted
  BY <1>1 DEF WireInv, Quiet, Running, Answering, Answered, Ran
<1>3. to \in Nat /\ off <= size /\ to <= size
  BY <1>1, <1>2, WireAssumption DEF WireTypes, Requesting, Smaller
<1>4. /\ p \in UpPackets /\ p.seq = seq /\ p.from = off /\ p.to = to
      /\ p.size = size /\ p.first = sql.first /\ p.last = sql.last
  BY <1>2, <1>3 DEF WireTypes, UpPacket, UpPackets
<1>5. pc' \in {"more", "read"} /\ (pc' = "more" <=> Full(p))
  BY <1>1, <1>2, <1>4, WireAssumption DEF AfterWrite, Full, Smaller, WireTypes
<1>6. to = p.from + Smaller(MaxPacket, size - p.from)
  BY <1>4
<1> HIDE DEF to, p
<1>7. /\ up' \in Seq(UpPackets) /\ Linked(up', server.seq) /\ Spans(up', server.got)
      /\ (Full(p) => AllFull(up'))
      /\ link = "up" => /\ Following(up', server.seq) = NextSeq(seq) /\ EndOf(up', server.got) = to
                        /\ up' # <<>> /\ up'[Len(up')] = p
  <2>1. /\ up \in Seq(UpPackets) /\ AllFull(up) /\ Linked(up, server.seq) /\ Spans(up, server.got)
        /\ link = "up" => Following(up, server.seq) = seq /\ EndOf(up, server.got) = off
    BY <1>1, <1>2 DEF Requesting, WireTypes
  <2>2. CASE link = "up"
    <3>1. up' = Append(up, p)
      BY <1>1, <2>2 DEF Write
    <3>2. p \in UpPackets /\ p.seq = Following(up, server.seq)
      BY <1>4, <2>1, <2>2
    <3>3. /\ up' \in Seq(UpPackets) /\ up' # <<>> /\ up'[Len(up')] = p
          /\ Linked(up', server.seq) /\ Following(up', server.seq) = NextSeq(p.seq)
          /\ Full(p) => AllFull(up')
      BY <2>1, <3>1, <3>2, AddLast
    <3>4. /\ p.from = EndOf(up, server.got) /\ p.from <= size
          /\ p.to = p.from + Smaller(MaxPacket, size - p.from)
          /\ p.size = size /\ p.first = sql.first /\ p.last = sql.last
      BY <1>3, <1>4, <1>6, <2>1, <2>2
    <3>5. Spans(up', server.got) /\ EndOf(up', server.got) = p.to
      BY <2>1, <3>1, <3>2, <3>4, AddSpan
    <3> QED BY <1>4, <3>3, <3>5
  <2>3. CASE link # "up"
    BY <1>1, <2>1, <2>3 DEF Write
  <2> QED BY <2>2, <2>3
<1>8. WireTypes'
  BY <1>1, <1>2, <1>3, <1>5, <1>7, Numbers DEF WireTypes, Write, cursorVars
<1>9. Counted'
  BY <1>1, <1>2, <1>5 DEF Counted, Rows, cursorVars
<1>10. Requesting'
  <2>1. /\ down' = <<>> /\ link' = link /\ executed' = rows'
        /\ server' = server /\ server.at = "read" /\ server.got <= size /\ size' = size
        /\ sql' = sql
    BY <1>1, <1>2 DEF Requesting, Write, cursorVars
  <2>2. Spans(up, server.got)'
    BY <1>7, <2>1 DEF Spans
  <2>3. link' = "up" => /\ pc' = "more" => EndOf(up', server'.got) = off'
                        /\ pc' = "read" => up' # <<>> /\ ~Full(up'[Len(up')])
                        /\ pc' # "raised" /\ Following(up', server'.seq) = seq'
    BY <2>1, <1>1, <1>5, <1>7
  <2> QED BY <2>1, <2>2, <2>3, <1>1, <1>3, <1>5, <1>7 DEF Requesting
<1> QED BY <1>8, <1>9, <1>10 DEF WireInv

(* What follows of an unchanged queue. *)
LEMMA SameUp ==
  ASSUME UNCHANGED <<up, server, size, sql>>, Requesting
  PROVE  Linked(up, server.seq)' /\ Spans(up, server.got)'
BY DEF Requesting, Linked, Spans

LEMMA WriteRaisesInv == WireInv /\ WriteRaises => WireInv'
<1> SUFFICES ASSUME WireInv, WriteRaises PROVE WireInv'
  OBVIOUS
<1> USE DEF WriteRaises, cursorVars, netVars
<1>1. WireTypes /\ Counted /\ (Quiet \/ Requesting)
  BY DEF WireInv, Running, Answering, Answered, Ran
<1>2. WireTypes'
  BY <1>1 DEF WireTypes
<1>3. Counted'
  BY <1>1 DEF Counted, Rows
<1>4. CASE Quiet
  <2>1. Linked(up, server.seq)' /\ Spans(up, server.got)'
    BY <1>4 DEF Quiet, Linked, Spans
  <2>2. Requesting'
    BY <1>1, <1>4, <2>1 DEF Requesting, Quiet, WireTypes
  <2> QED BY <1>2, <1>3, <2>2 DEF WireInv
<1>5. CASE Requesting
  <2>1. Requesting'
    BY <1>5, SameUp DEF Requesting
  <2> QED BY <1>2, <1>3, <2>1 DEF WireInv
<1> QED BY <1>1, <1>4, <1>5

LEMMA ReadRaisesInv == WireInv /\ ReadRaises => WireInv'
<1> SUFFICES ASSUME WireInv, ReadRaises PROVE WireInv'
  OBVIOUS
<1> USE DEF ReadRaises, cursorVars, netVars
<1>1. WireTypes /\ Counted /\ (Requesting \/ Running \/ Answering \/ Answered)
  BY DEF WireInv, Quiet
<1>2. WireTypes'
  BY <1>1 DEF WireTypes
<1>3. Counted'
  BY <1>1 DEF Counted, Rows
<1>4. CASE Requesting
  BY <1>2, <1>3, <1>4, SameUp DEF Requesting, WireInv
<1>5. CASE Running
  BY <1>2, <1>3, <1>5 DEF Running, WireInv
<1>6. CASE Answering
  BY <1>2, <1>3, <1>6 DEF Answering, Ran, AllFull, Full, WireInv
<1>7. CASE Answered
  BY <1>2, <1>3, <1>7 DEF Answered, Ran, WireInv
<1> QED BY <1>1, <1>4, <1>5, <1>6, <1>7

LEMMA ReadPacketInv == WireInv /\ ReadPacket => WireInv'
<1> SUFFICES ASSUME WireInv, ReadPacket PROVE WireInv'
  OBVIOUS
<1> DEFINE p == down[1]
<1>1. /\ pc = "read" /\ down # <<>> /\ down' = Tail(down)
      /\ UNCHANGED <<sizes, bulk, size, off, link, up, server, executed>>
      /\ IF Head(down).seq # seq
           THEN pc' = "outOfSequence" /\ UNCHANGED <<sql, rows, seq>>
           ELSE /\ seq' = NextSeq(seq)
                /\ IF Full(Head(down)) THEN UNCHANGED <<pc, sql, rows>> ELSE Returns(Head(down).answer)
  BY DEF ReadPacket, Full
<1>2. WireTypes /\ Counted /\ (Answering \/ Answered)
  BY <1>1 DEF WireInv, Quiet, Requesting, Running
<1>3. Ran /\ down \in Seq(DownPackets) /\ Linked(down, seq)
  BY <1>1, <1>2 DEF Answering, Answered, Ran, WireTypes
<1>4. /\ Head(down) = p /\ p \in DownPackets /\ p.seq = seq
      /\ down' \in Seq(DownPackets) /\ Linked(down', NextSeq(seq))
      /\ Following(down', NextSeq(seq)) = Following(down, seq)
      /\ ~Full(p) => down' = <<>>
      /\ IF down' = <<>> THEN p = down[Len(down)] ELSE down'[Len(down')] = down[Len(down)]
      /\ AllFull(down) => AllFull(down')
  BY <1>1, <1>3, TakeFirst
<1>5. /\ p.answer = server.answer
      /\ \A i \in 1..Len(down') : down'[i].answer = server.answer
  <2>1. /\ Len(down) \in Nat \ {0} /\ Len(down') = Len(down) - 1
        /\ \A i \in 1..Len(down') : down'[i] = down[i + 1]
    BY <1>1, <1>3, HeadTailProperties, EmptySeq
  <2>2. \A i \in 1..Len(down) : down[i].answer = server.answer
    BY <1>3 DEF Ran
  <2> QED BY <2>1, <2>2
<1> HIDE DEF p
<1>6. seq' = NextSeq(seq) /\ seq' \in Nat
  BY <1>1, <1>2, <1>4, Numbers DEF WireTypes
<1>7. CASE Full(p)
  <2>1. UNCHANGED <<pc, sql, rows>>
    BY <1>1, <1>4, <1>7
  <2>2. WireTypes' /\ Counted'
    BY <1>1, <1>2, <1>4, <1>6, <2>1 DEF WireTypes, Counted, Rows
  <2>3. Ran'
    BY <1>1, <1>3, <1>4, <1>5, <1>6, <2>1 DEF Ran
  <2>4. CASE Answering
    <3>1. Answering'
      BY <1>1, <1>4, <1>6, <2>1, <2>3, <2>4 DEF Answering
    <3> QED BY <2>2, <3>1 DEF WireInv
  <2>5. CASE Answered
    <3>1. link = "up" => down' # <<>> /\ ~Full(down'[Len(down')])
      <4> SUFFICES ASSUME link = "up" PROVE down' # <<>> /\ ~Full(down'[Len(down')])
        OBVIOUS
      <4>1. ~Full(down[Len(down)])
        BY <1>1, <2>5 DEF Answered
      <4> QED BY <1>4, <1>7, <4>1
    <3>2. Answered'
      BY <1>1, <2>1, <2>3, <2>5, <3>1 DEF Answered
    <3> QED BY <2>2, <3>2 DEF WireInv
  <2> QED BY <1>2, <2>4, <2>5
<1>8. CASE ~Full(p)
  <2>1. down' = <<>> /\ p = down[Len(down)] /\ Returns(server.answer)
    BY <1>1, <1>4, <1>5, <1>8
  <2>2. Answered
    <3>1. Answering => AllFull(down) /\ Len(down) \in 1..Len(down)
      BY <1>1, <1>3, EmptySeq DEF Answering
    <3> QED BY <1>2, <1>8, <2>1, <3>1 DEF AllFull
  <2>3. CASE server.answer.kind = "err"
    <3>1. pc' = "raised" /\ UNCHANGED <<sql, rows>>
      BY <2>1, <2>3 DEF Returns
    <3>2. WireTypes' /\ Counted'
      BY <1>1, <1>2, <1>4, <1>6, <3>1 DEF WireTypes, Counted, Rows
    <3>3. Answered'
      BY <1>1, <1>5, <2>1, <2>2, <3>1 DEF Answered, Ran
    <3> QED BY <3>2, <3>3 DEF WireInv
  <2>4. CASE server.answer.kind = "ok"
    <3>1. /\ rows' = rows + server.answer.count
          /\ pc' = IF HasMore THEN "build" ELSE "done"
          /\ sql' = IF HasMore THEN OneRow(sizes, sql.last + 1) ELSE sql
      BY <2>1, <2>4 DEF Returns
    <3>2. /\ server.answer.count = sql.last - sql.first + 1 /\ executed = rows'
          /\ server.answer.count \in Nat
      BY <1>2, <1>3, <2>4, <3>1 DEF Ran, WireTypes, Answers
    <3>3. /\ rows' \in Nat /\ rows' = sql.last
          /\ sql \in [first : Nat \ {0}, last : Nat, len : Nat]
          /\ sizes \in Seq(Nat \ {0}) /\ Len(sizes) \in Nat
      <4>1. /\ sql \in [first : Nat \ {0}, last : Nat, len : Nat]
            /\ sizes \in Seq(Nat \ {0}) /\ Len(sizes) \in Nat
        BY <1>2, LenProperties DEF WireTypes
      <4>2. rows = sql.first - 1
        BY <1>1, <1>2 DEF Counted
      <4> QED BY <3>1, <3>2, <4>1, <4>2
    <3>4. HasMore => sizes[sql.last + 1] \in Nat
      BY <3>3 DEF HasMore, Rows
    <3>5. sql' \in [first : Nat \ {0}, last : Nat, len : Nat]
      BY <3>1, <3>3, <3>4, WireAssumption DEF OneRow
    <3>6. WireTypes'
      BY <1>1, <1>2, <1>4, <1>6, <3>1, <3>3, <3>5 DEF WireTypes
    <3>7. Counted'
      BY <1>1, <1>2, <3>1, <3>3 DEF Counted, HasMore, Rows, OneRow
    <3>8. Quiet'
      BY <1>1, <2>1, <2>2, <3>1, <3>2 DEF Quiet, Answered, Ran
    <3> QED BY <3>6, <3>7, <3>8 DEF WireInv
  <2> QED BY <1>3, <2>3, <2>4 DEF Ran
<1> QED BY <1>7, <1>8

LEMMA ServerReadsInv == WireInv /\ ServerReads => WireInv'
<1> SUFFICES ASSUME WireInv, ServerReads PROVE WireInv'
  OBVIOUS
<1> DEFINE p == up[1]
<1>1. /\ server.at = "read" /\ up # <<>> /\ up' = Tail(up)
      /\ server' = IF Head(up).seq # server.seq
                     THEN [server EXCEPT !.at = "gone"]
                     ELSE [server EXCEPT
                            !.at = IF Head(up).to - Head(up).from < MaxPacket THEN "run" ELSE "read",
                            !.seq = NextSeq(@), !.got = @ + Head(up).to - Head(up).from,
                            !.first = Head(up).first, !.last = Head(up).last, !.size = Head(up).size]
      /\ UNCHANGED <<cursorVars, pc, size, off, seq, link, down, executed>>
  BY DEF ServerReads
<1>2. WireTypes /\ Counted /\ Requesting
  BY <1>1 DEF WireInv, Quiet, Running, Answering, Answered, Ran
<1>3. /\ up \in Seq(UpPackets) /\ Linked(up, server.seq) /\ Spans(up, server.got)
      /\ server \in [at : {"read", "run", "answer"}, seq : Nat, got : Nat, first : Nat,
                     last : Nat, size : Nat, answer : Answers]
  BY <1>2 DEF Requesting, WireTypes
<1>4. /\ Head(up) = p /\ p \in UpPackets /\ p.seq = server.seq
      /\ up' \in Seq(UpPackets) /\ Linked(up', NextSeq(server.seq))
      /\ Following(up', NextSeq(server.seq)) = Following(up, server.seq)
      /\ ~Full(p) => up' = <<>>
      /\ IF up' = <<>> THEN p = up[Len(up)] ELSE up'[Len(up')] = up[Len(up)]
      /\ AllFull(up) => AllFull(up')
  BY <1>1, <1>3, TakeFirst
<1>5. /\ p.from = server.got /\ server.got <= size
      /\ p.to = server.got + Smaller(MaxPacket, size - server.got)
      /\ p.size = size /\ p.first = sql.first /\ p.last = sql.last
      /\ Spans(up', p.to) /\ EndOf(up', p.to) = EndOf(up, server.got)
  BY <1>1, <1>3, TakeSpan
<1> HIDE DEF p
<1>6. /\ p.to \in Nat /\ p.to <= size /\ size \in Nat
      /\ Full(p) <=> ~(p.to - p.from < MaxPacket)
      /\ ~Full(p) => p.to = size
      /\ server.got + p.to - p.from = p.to
  <2>1. server.got \in Nat /\ size \in Nat /\ server.got <= size
    BY <1>2, <1>3, <1>5 DEF WireTypes
  <2>2. p.to = IF MaxPacket < size - server.got THEN server.got + MaxPacket ELSE size
    BY <1>5, <2>1, WireAssumption DEF Smaller
  <2>3. p.to \in Nat /\ p.from = server.got
    BY <1>5, <2>1, <2>2, WireAssumption
  <2> QED BY <2>1, <2>2, <2>3, WireAssumption DEF Full
<1>7. /\ server'.at = IF Full(p) THEN "read" ELSE "run"
      /\ server'.seq = NextSeq(server.seq) /\ server'.got = p.to /\ server'.answer = server.answer
      /\ server'.first = sql.first /\ server'.last = sql.last /\ server'.size = size
      /\ server' \in [at : {"read", "run", "answer"}, seq : Nat, got : Nat, first : Nat,
                      last : Nat, size : Nat, answer : Answers]
  <2> DEFINE at == IF p.to - p.from < MaxPacket THEN "run" ELSE "read"
             n == NextSeq(server.seq)
             got == server.got + p.to - p.from
  <2>1. server' = [server EXCEPT !.at = at, !.seq = n, !.got = got,
                                 !.first = p.first, !.last = p.last, !.size = p.size]
    BY <1>1, <1>4
  <2>2. at \in {"read", "run", "answer"} /\ at = (IF Full(p) THEN "read" ELSE "run")
    BY <1>6
  <2>3. n \in Nat /\ n = NextSeq(server.seq) /\ got \in Nat /\ got = p.to
    BY <1>3, <1>6, Numbers
  <2>4. p.first \in Nat /\ p.last \in Nat /\ p.size \in Nat
    BY <1>4 DEF UpPackets
  <2> HIDE DEF at, n, got
  <2> QED BY <1>3, <1>5, <2>1, <2>2, <2>3, <2>4
<1>8. WireTypes' /\ Counted'
  BY <1>1, <1>2, <1>4, <1>7 DEF WireTypes, Counted, Rows, cursorVars
<1>9. CASE Full(p)
  <2>1. Linked(up, server.seq)' /\ Spans(up, server.got)'
    <3>1. server'.seq = NextSeq(server.seq) /\ server'.got = p.to /\ sql' = sql /\ size' = size
      BY <1>1, <1>7 DEF cursorVars
    <3>2. Linked(up', server'.seq)
      BY <1>4, <3>1
    <3>3. Spans(up', server'.got)
      BY <1>5, <3>1
    <3> QED BY <3>1, <3>2, <3>3 DEF Linked, Spans
  <2>2. link' = "up" =>
          /\ pc' # "raised" /\ Following(up', server'.seq) = seq'
          /\ pc' = "more" => EndOf(up', server'.got) = off'
          /\ pc' = "read" => up' # <<>> /\ ~Full(up'[Len(up')])
    BY <1>1, <1>2, <1>4, <1>5, <1>7, <1>9 DEF Requesting
  <2>3. Requesting'
    BY <1>1, <1>2, <1>4, <1>6, <1>7, <1>9, <2>1, <2>2 DEF Requesting, cursorVars
  <2> QED BY <1>8, <2>3 DEF WireInv
<1>10. CASE ~Full(p)
  <2>1. up' = <<>> /\ p = up[Len(up)]
    BY <1>4, <1>10
  <2>2. pc # "more"
    <3>1. Len(up) \in 1..Len(up)
      BY <1>1, <1>3, EmptySeq
    <3> QED BY <1>2, <1>10, <2>1, <3>1 DEF Requesting, AllFull
  <2>3. link = "up" => pc = "read" /\ server'.seq = seq
    BY <1>2, <1>4, <1>7, <2>1, <2>2 DEF Requesting, Following
  <2>4. Running'
    BY <1>1, <1>2, <1>6, <1>7, <1>10, <2>1, <2>2, <2>3 DEF Running, Requesting, cursorVars
  <2> QED BY <1>8, <2>4 DEF WireInv
<1> QED BY <1>9, <1>10

LEMMA ServerRunsInv == WireInv /\ ServerRuns => WireInv'
<1> SUFFICES ASSUME WireInv, ServerRuns PROVE WireInv'
  OBVIOUS
<1>1. PICK n \in AnswerSizes, kind \in {"ok", "err"} :
        LET count == IF kind = "ok" THEN server.last - server.first + 1 ELSE 0 IN
          /\ executed' = executed + count
          /\ server' = [server EXCEPT !.at = "answer", !.got = 0,
                          !.answer = [kind |-> kind, count |-> count, size |-> n]]
  BY DEF ServerRuns
<1> DEFINE count == IF kind = "ok" THEN server.last - server.first + 1 ELSE 0
           answer == [kind |-> kind, count |-> count, size |-> n]
<1>2. server.at = "run" /\ UNCHANGED <<cursorVars, pc, size, off, seq, netVars>>
  BY DEF ServerRuns
<1>3. WireTypes /\ Counted /\ Running
  BY <1>2 DEF WireInv, Quiet, Requesting, Answering, Answered, Ran
<1>4. /\ sql.first \in Nat /\ sql.last \in Nat /\ sql.first <= sql.last
      /\ server.first = sql.first /\ server.last = sql.last /\ n \in Nat
      /\ server \in [at : {"read", "run", "answer"}, seq : Nat, got : Nat, first : Nat,
                     last : Nat, size : Nat, answer : Answers]
  BY <1>3, WireAssumption DEF Running, Counted, WireTypes
<1>5. /\ count \in Nat /\ answer \in Answers /\ answer.kind = kind
      /\ answer.count = (IF kind = "ok" THEN sql.last - sql.first + 1 ELSE 0)
      /\ answer.size = n
  BY <1>4 DEF Answers
<1>6. server' = [server EXCEPT !.at = "answer", !.got = 0, !.answer = answer]
  BY <1>1
<1>7. executed' = executed + answer.count
  BY <1>1
<1> HIDE DEF answer, count
<1>8. /\ server'.at = "answer" /\ server'.got = 0 /\ server'.answer = answer
      /\ server'.seq = server.seq
      /\ server' \in [at : {"read", "run", "answer"}, seq : Nat, got : Nat, first : Nat,
                      last : Nat, size : Nat, answer : Answers]
  BY <1>4, <1>5, <1>6
<1>9. WireTypes' /\ Counted'
  <2>1. executed' \in Nat
    <3>1. executed \in Nat /\ answer.count \in Nat
      BY <1>3, <1>5 DEF WireTypes, Answers
    <3> QED BY <1>7, <3>1
  <2> QED BY <1>2, <1>3, <1>8, <2>1 DEF WireTypes, Counted, Rows, cursorVars, netVars
<1>10. Ran'
  <2>1. down' = <<>> /\ Linked(down', seq')
    BY <1>2, <1>3, EmptyQueue DEF Running, netVars
  <2> QED BY <1>2, <1>3, <1>5, <1>7, <1>8, <2>1 DEF Ran, Running, cursorVars, netVars
<1>11. Answering'
  <2>1. down' = <<>> /\ AllFull(down') /\ Following(down', seq') = seq
    BY <1>2, <1>3, EmptyQueue DEF Running, netVars
  <2> QED BY <1>2, <1>3, <1>4, <1>5, <1>8, <1>10, <2>1 DEF Answering, Running, netVars
<1> QED BY <1>9, <1>11 DEF WireInv

LEMMA ServerAnswersInv == WireInv /\ ServerAnswers => WireInv'
<1> SUFFICES ASSUME WireInv, ServerAnswers PROVE WireInv'
  OBVIOUS
<1> DEFINE to == server.got + Smaller(MaxPacket, server.answer.size - server.got)
           over == to - server.got < MaxPacket
           p == [seq |-> server.seq, from |-> server.got, to |-> to, answer |-> server.answer]
<1>1. /\ server.at = "answer"
      /\ down' = IF link = "up" THEN Append(down, p) ELSE down
      /\ server' = [server EXCEPT !.at = IF over THEN "read" ELSE "answer",
                                  !.seq = IF over THEN 0 ELSE NextSeq(@),
                                  !.got = IF over THEN 0 ELSE to]
      /\ UNCHANGED <<cursorVars, pc, size, off, seq, link, up, executed>>
  BY DEF ServerAnswers
<1>2. WireTypes /\ Counted /\ Answering
  BY <1>1 DEF WireInv, Quiet, Requesting, Running, Answered
<1>3. /\ server \in [at : {"read", "run", "answer"}, seq : Nat, got : Nat, first : Nat,
                     last : Nat, size : Nat, answer : Answers]
      /\ server.answer.size \in Nat /\ server.got <= server.answer.size
      /\ down \in Seq(DownPackets)
  BY <1>2 DEF WireTypes, Answering, Answers
<1>4. /\ to \in Nat /\ to <= server.answer.size
      /\ over <=> ~(to - server.got = MaxPacket)
  BY <1>3, WireAssumption DEF Smaller
<1>5. /\ p \in DownPackets /\ p.seq = server.seq /\ p.answer = server.answer
      /\ over <=> ~Full(p)
  BY <1>3, <1>4 DEF DownPackets, Full
<1>6. /\ server' \in [at : {"read", "run", "answer"}, seq : Nat, got : Nat, first : Nat,
                      last : Nat, size : Nat, answer : Answers]
      /\ server'.answer = server.answer
      /\ IF over THEN server'.at = "read" /\ server'.seq = 0 /\ server'.got = 0
                 ELSE server'.at = "answer" /\ server'.seq = NextSeq(server.seq) /\ server'.got = to
  <2> HIDE DEF over, to
  <2>1. CASE over
    BY <1>1, <1>3, <2>1
  <2>2. CASE ~over
    <3>1. NextSeq(server.seq) \in Nat
      BY <1>3, Numbers
    <3> QED BY <1>1, <1>3, <1>4, <2>2, <3>1
  <2> QED BY <2>1, <2>2
<1> HIDE DEF p, over, to
<1>7. /\ down' \in Seq(DownPackets)
      /\ \A i \in 1..Len(down') : down'[i].answer = server.answer
      /\ pc = "read" => Linked(down', seq)
      /\ ~over => AllFull(down')
      /\ link = "up" => /\ Following(down', seq) = NextSeq(server.seq)
                        /\ down' # <<>> /\ down'[Len(down')] = p
  <2>1. /\ AllFull(down) /\ \A i \in 1..Len(down) : down[i].answer = server.answer
        /\ pc = "read" => Linked(down, seq)
        /\ link = "up" => pc = "read" /\ Following(down, seq) = server.seq
    BY <1>2 DEF Answering, Ran
  <2>2. CASE link = "up"
    <3>1. down' = Append(down, p) /\ pc = "read" /\ p.seq = Following(down, seq)
      BY <1>1, <1>5, <2>1, <2>2
    <3>2. /\ down' \in Seq(DownPackets) /\ down' # <<>> /\ down'[Len(down')] = p
          /\ Linked(down', seq) /\ Following(down', seq) = NextSeq(p.seq)
          /\ Full(p) => AllFull(down')
      BY <1>3, <1>5, <2>1, <3>1, AddLast
    <3>3. /\ Len(down) \in Nat /\ Len(down') = Len(down) + 1
          /\ \A i \in 1..Len(down) : down'[i] = down[i]
          /\ down'[Len(down) + 1] = p
      BY <1>3, <1>5, <3>1, AppendProperties, LenProperties
    <3>4. ASSUME NEW i \in 1..Len(down') PROVE down'[i].answer = server.answer
      <4>1. i \in 1..Len(down) \/ i = Len(down) + 1
        BY <3>3
      <4> QED BY <1>5, <2>1, <3>3, <4>1
    <3> QED BY <1>5, <3>2, <3>4
  <2>3. CASE link # "up"
    BY <1>1, <1>3, <2>1, <2>3
  <2> QED BY <2>2, <2>3
<1>8. WireTypes' /\ Counted'
  BY <1>1, <1>2, <1>6, <1>7 DEF WireTypes, Counted, Rows, cursorVars
<1>9. Ran'
  BY <1>1, <1>2, <1>6, <1>7 DEF Ran, Answering, cursorVars
<1>10. CASE over
  <2>1. Answered'
    BY <1>1, <1>5, <1>6, <1>7, <1>9, <1>10 DEF Answered
  <2> QED BY <1>8, <2>1 DEF WireInv
<1>11. CASE ~over
  <2>1. Answering'
    BY <1>1, <1>2, <1>4, <1>6, <1>7, <1>9, <1>11 DEF Answering
  <2> QED BY <1>8, <2>1 DEF WireInv
<1> QED BY <1>10, <1>11

LEMMA LoseInv == WireInv /\ Lose => WireInv'
<1> SUFFICES ASSUME WireInv, Lose PROVE WireInv'
  OBVIOUS
<1>1. PICK i \in 0..Len(up), j \in 0..Len(down) :
        up' = SubSeq(up, 1, i) /\ down' = SubSeq(down, 1, j)
  BY DEF Lose
<1>2. link' = "lost" /\ UNCHANGED <<cursorVars, pc, size, off, seq, server, executed>>
  BY DEF Lose
<1>3. WireTypes /\ Counted /\ (Quiet \/ Requesting \/ Running \/ Answering \/ Answered)
  BY DEF WireInv
<1>4. up \in Seq(UpPackets) /\ down \in Seq(DownPackets)
  BY <1>3 DEF WireTypes
<1>5. /\ up' \in Seq(UpPackets) /\ (AllFull(up) => AllFull(up'))
      /\ \A n : Linked(up, n) => Linked(up', n)
      /\ \A b : Spans(up, b) => Spans(up', b)
      /\ Len(up') = i
  BY <1>1, <1>4, LoseLast
<1>6. /\ down' \in Seq(DownPackets) /\ (AllFull(down) => AllFull(down'))
      /\ \A n : Linked(down, n) => Linked(down', n)
      /\ Len(down') = j /\ \A k \in 1..j : down'[k] = down[k]
  BY <1>1, <1>4, LoseLast
<1>7. (up = <<>> => up' = <<>>) /\ (down = <<>> => down' = <<>>)
  <2>1. (up = <<>> => i = 0) /\ (down = <<>> => j = 0)
    BY <1>4
  <2> QED BY <1>5, <1>6, <2>1, NoPacket
<1>8. WireTypes' /\ Counted'
  BY <1>2, <1>3, <1>5, <1>6 DEF WireTypes, Counted, Rows, cursorVars
<1>9. Ran => Ran'
  <2> SUFFICES ASSUME Ran PROVE Ran'
    OBVIOUS
  <2>1. \A k \in 1..Len(down') : down'[k].answer = server.answer
    <3>1. Len(down) \in Nat /\ \A k \in 1..j : k \in 1..Len(down)
      BY <1>4, LenProperties
    <3> QED BY <1>6, <3>1 DEF Ran
  <2> QED BY <1>2, <1>6, <1>7, <2>1 DEF Ran, cursorVars
<1>10. CASE Quiet
  BY <1>2, <1>7, <1>8, <1>10 DEF Quiet, WireInv, cursorVars
<1>11. CASE Requesting
  <2>1. Spans(up, server.got)'
    <3>1. Spans(up', server.got)
      BY <1>5, <1>11 DEF Requesting
    <3> QED BY <1>2, <3>1 DEF Spans, cursorVars
  <2>2. Requesting'
    BY <1>2, <1>5, <1>7, <1>11, <2>1 DEF Requesting, cursorVars
  <2> QED BY <1>8, <2>2 DEF WireInv
<1>12. CASE Running
  BY <1>2, <1>7, <1>8, <1>12 DEF Running, WireInv, cursorVars
<1>13. CASE Answering
  BY <1>2, <1>6, <1>8, <1>9, <1>13 DEF Answering, WireInv
<1>14. CASE Answered
  BY <1>2, <1>8, <1>9, <1>14 DEF Answered, WireInv
<1> QED BY <1>3, <1>10, <1>11, <1>12, <1>13, <1>14

LEMMA SameWire == WireInv /\ UNCHANGED wireVars => WireInv'
<1> SUFFICES ASSUME WireInv, UNCHANGED wireVars PROVE WireInv'
  OBVIOUS
<1> USE DEF wireVars, cursorVars, netVars
<1>1. WireTypes' /\ Counted'
  BY DEF WireInv, WireTypes, Counted, Rows
<1>2. Quiet => Quiet'
  BY DEF Quiet
<1>3. Requesting => Requesting'
  BY SameUp DEF Requesting, AllFull, Full
<1>4. Running => Running'
  BY DEF Running
<1>5. Ran => Ran'
  BY DEF Ran, Linked
<1>6. (Answering => Answering') /\ (Answered => Answered')
  BY <1>5 DEF Answering, Answered, AllFull, Full
<1> QED BY <1>1, <1>2, <1>3, <1>4, <1>6 DEF WireInv

THEOREM Transfer == BatchSpec => []WireInv
<1>1. BatchInit => WireInv
  BY InitWireInv DEF BatchInit
<1>2. WireInv /\ [BatchNext]_vars => WireInv'
  <2> SUFFICES ASSUME WireInv, [BatchNext]_vars PROVE WireInv'
    OBVIOUS
  <2>1. ClientStep \/ ServerStep \/ Lose \/ UNCHANGED wireVars
    BY DEF BatchNext, BatchClient, BatchServer, Connecting, Inserting, Connected, vars
  <2>2. CASE ClientStep
    BY <2>2, ExecutemanyInv, AddRowInv, ExecuteInv, SendMoreInv, WriteRaisesInv,
       ReadPacketInv, ReadRaisesInv DEF ClientStep
  <2>3. CASE ServerStep
    BY <2>3, ServerReadsInv, ServerRunsInv, ServerAnswersInv DEF ServerStep
  <2> QED BY <2>1, <2>2, <2>3, LoseInv, SameWire
<1> QED BY <1>1, <1>2, PTL DEF BatchSpec

-----------------------------------------------------------------------------
(* The two ends number the packets of a command and its answer alike,        *)
(* however many there are and however the numbers wrap.                      *)
THEOREM NumberingAgrees == BatchSpec => []NumbersAgree
<1>1. WireInv => NumbersAgree
  BY DEF WireInv, WireTypes, NumbersAgree
<1> QED BY <1>1, Transfer, PTL

(* The server runs whole statements, one after the other.                    *)
THEOREM StatementsAreWhole == BatchSpec => []WholeStatements
<1>1. WireInv => WholeStatements
  <2> SUFFICES ASSUME WireInv, server.at = "run"
               PROVE  /\ server.got = server.size
                      /\ server.first = executed + 1 /\ server.last \in server.first..Rows
    BY DEF WholeStatements
  <2>1. WireTypes /\ Counted /\ Running
    BY DEF WireInv, Quiet, Requesting, Answering, Answered
  <2>2. sql.first \in Nat /\ sql.last \in Nat /\ Rows \in Nat
    BY <2>1, LenProperties DEF WireTypes, Rows
  <2> QED BY <2>1, <2>2 DEF Running, Counted
<1> QED BY <1>1, Transfer, PTL

(* The number of rows executemany() returns is the number inserted, and when *)
(* it raises at most one statement is in doubt.                              *)
THEOREM RowcountTellsTheTruth == BatchSpec => []RowcountIsTrue
<1>1. WireInv => RowcountIsTrue
  <2> SUFFICES ASSUME WireInv PROVE RowcountIsTrue
    OBVIOUS
  <2>1. WireTypes /\ Counted /\ (Quiet \/ Requesting \/ Running \/ Answering \/ Answered)
    BY DEF WireInv
  <2>2. /\ sql.first \in Nat /\ sql.last \in Nat /\ rows \in Nat
        /\ server.answer.count \in Nat
    BY <2>1 DEF WireTypes, Answers
  <2>3. CASE Quiet \/ Requesting \/ Running
    BY <2>1, <2>3 DEF RowcountIsTrue, Counted, Quiet, Requesting, Running
  <2>4. CASE Ran
    <3>1. pc # "done" /\ rows = sql.first - 1
      BY <2>1, <2>4 DEF Counted, Ran
    <3>2. executed = rows \/ executed = sql.last
      BY <2>2, <2>4, <3>1 DEF Ran
    <3> QED BY <3>1, <3>2 DEF RowcountIsTrue
  <2> QED BY <2>1, <2>3, <2>4 DEF Answering, Answered
<1> QED BY <1>1, Transfer, PTL

(* A statement of several rows never exceeds max_stmt_length.                *)
THEOREM StatementsFit == BatchSpec => []StatementFits
<1>1. BatchInit => StatementFits
  BY DEF BatchInit, WireInit, StatementFits, NoRows
<1>2. WireInv /\ StatementFits /\ [BatchNext]_vars => StatementFits'
  <2> SUFFICES ASSUME WireInv, StatementFits, [BatchNext]_vars PROVE StatementFits'
    OBVIOUS
  <2>1. CASE UNCHANGED sql
    BY <2>1 DEF StatementFits
  <2>2. ASSUME NEW batch, NEW i \in Nat, sql' = NoRows \/ sql' = OneRow(batch, i)
        PROVE  StatementFits'
    BY <2>2 DEF StatementFits, NoRows, OneRow
  <2>3. CASE Executemany
    BY <2>2, <2>3 DEF Executemany
  <2>4. CASE ReadPacket
    <3>1. sql.last + 1 \in Nat
      BY DEF WireInv, WireTypes
    <3>2. UNCHANGED sql \/ sql' = OneRow(sizes, sql.last + 1)
      BY <2>4 DEF ReadPacket, Returns
    <3> QED BY <2>1, <2>2, <3>1, <3>2
  <2>5. CASE AddRow
    <3>1. WireTypes /\ sql.last < Len(sizes)
      BY <2>5 DEF WireInv, AddRow, HasMore, Rows
    <3>2. /\ sql.len \in Nat /\ sql.last + 1 \in 1..Len(sizes) /\ sizes \in Seq(Nat \ {0})
          /\ sql \in [first : Nat \ {0}, last : Nat, len : Nat]
      BY <3>1 DEF WireTypes
    <3>3. sizes[sql.last + 1] \in Nat
      BY <3>2
    <3>4. /\ sql.len + sizes[sql.last + 1] + Postfix + 1 <= MaxStmt
          /\ sql'.len = sql.len + 1 + sizes[sql.last + 1]
      BY <2>5, <3>2 DEF AddRow, Fits
    <3> QED BY <3>2, <3>3, <3>4, WireAssumption DEF StatementFits
  <2>6. \/ Executemany \/ ReadPacket \/ AddRow \/ UNCHANGED sql
    BY DEF BatchNext, BatchClient, BatchServer, Connecting, Inserting, Connected, ClientStep,
           ServerStep, Execute, SendMore, WriteRaises, ReadRaises, ServerReads, ServerRuns,
           ServerAnswers, Lose, wireVars, cursorVars, vars
  <2> QED BY <2>1, <2>3, <2>4, <2>5, <2>6
<1> QED BY <1>1, <1>2, Transfer, PTL DEF BatchSpec

=============================================================================
