---------------------------- MODULE MysqlSession ----------------------------
(***************************************************************************)
(* A PyMySQL Connection and its cursors between connect() and close()       *)
(* (connections.py, cursors.py, protocol.py): results read whole or row by  *)
(* row, several results to a statement, settings, ping and reconnect, and   *)
(* what is left behind when a call raises.  A call is a list of things to   *)
(* do; each step does the first, and an exception drops the rest up to its  *)
(* handler.  The server (external) answers a command at once, with packets  *)
(* that the client has yet to read; the connection may break at any moment. *)
(***************************************************************************)
EXTENDS Naturals, Sequences, FiniteSets

CONSTANTS
  Buffered,    \* cursors of class Cursor
  Unbuffered,  \* cursors of class SSCursor
  MaxRows,     \* rows of a result set
  SeqMod       \* packet numbers are modulo this, 256

ASSUME SessionAssumption ==
  /\ Buffered \cap Unbuffered = {} /\ "nobody" \notin Buffered \cup Unbuffered
  /\ MaxRows \in Nat \ {0} /\ SeqMod \in Nat \ {0, 1}

VARIABLES
  conn,     \* the Connection object
  result,   \* its _result: whether there is one, unbuffered_active, has_next
  holder,   \* the cursor whose _result is the connection's
  cursors,  \* per cursor: connection set, _result set, rows owed to the caller
  by,       \* the cursor whose method is being called
  todo,     \* what the call has still to do
  wire,     \* packets the server has sent and nobody has read
  link,     \* the TCP connection
  autocommit, \* the session's autocommit at the server
  seen      \* history: see the properties

vars == <<conn, result, holder, cursors, by, todo, wire, link, autocommit, seen>>

Cursors == Buffered \cup Unbuffered
Nobody == "nobody"
NoResult == [set |-> FALSE, active |-> FALSE, next |-> FALSE]
Result(active, next) == [set |-> TRUE, active |-> active, next |-> next]
Fresh == [open |-> TRUE, res |-> FALSE, owed |-> 0, ended |-> FALSE]
Closed == [Fresh EXCEPT !.open = FALSE]
NothingSeen == [foreign |-> "none", torn |-> FALSE, over |-> FALSE, silent |-> FALSE]

(* autocommit_mode is set, connect() is deferred. *)
Init ==
  /\ conn \in [sock : {"none"}, seq : {0}, mode : BOOLEAN, status : {FALSE}]
  /\ result = NoResult /\ holder = Nobody
  /\ cursors = [c \in Cursors |-> Fresh]
  /\ by = Nobody /\ todo = <<>>
  /\ wire = <<>> /\ link = "cut" /\ autocommit = FALSE
  /\ seen = NothingSeen

-----------------------------------------------------------------------------
(* Packets: protocol.py tells them apart by first byte and length.          *)
FirstByte ==
  [ok |-> 0, cols |-> 1, row |-> 3, bad |-> 3, huge |-> 254, eof |-> 254,
   local |-> 251, err |-> 255]

(* Mutant: a first value of more than 16 MB looks like the end. *)
IsEofByte(p) == FirstByte[p.kind] = 254

IsEof(p) == FirstByte[p.kind] = 254 /\ p.kind # "huge"
IsOk(p) == FirstByte[p.kind] = 0
IsLocal(p) == FirstByte[p.kind] = 251
IsError(p) == FirstByte[p.kind] = 255

(* What a server may answer.  A row is huge when its first value is; a bad   *)
(* one holds a value that the converter or the codec refuses.                *)
P(kind, more) == [kind |-> kind, more |-> more]
RowLists ==
  {<<>>} \cup UNION {{[[i \in 1..n |-> "row"] EXCEPT ![j] = kind] :
                       j \in 1..n, kind \in {"row", "bad", "huge"}} : n \in 1..MaxRows}
Set(rows, last) == <<P("cols", FALSE)>> \o [i \in DOMAIN rows |-> P(rows[i], FALSE)] \o <<last>>
Endings == {P("eof", FALSE), P("err", FALSE)}
Finals == {<<P("ok", FALSE)>>, <<P("err", FALSE)>>}
Continued ==
  {first \o final : first \in {<<P("ok", TRUE)>>, Set(<<"row">>, P("eof", TRUE))}, final \in Finals}
  \cup {Set(<<>>, P("eof", TRUE)) \o Set(<<"row">>, P("eof", FALSE))}
QueryAnswers ==
  Finals \cup {Set(rows, last) : rows \in RowLists, last \in Endings}
         \cup Continued \cup {<<P("local", FALSE)>>}

(* The packets of an answer, numbered from n on. *)
Numbered(answer, n, auto) ==
  [i \in DOMAIN answer |->
     [kind |-> answer[i].kind, more |-> answer[i].more, n |-> n + i - 1,
      auto |-> auto, mine |-> TRUE]]

Unread == [i \in DOMAIN wire |-> [wire[i] EXCEPT !.mine = FALSE]]

(* Rows on the wire before the first packet that ends their set. *)
RowsWaiting ==
  LET ends == {i \in DOMAIN wire : wire[i].kind \in {"eof", "err"}} IN
    Cardinality({i \in DOMAIN wire : \A e \in ends : i < e})

-----------------------------------------------------------------------------
(* Control.                                                                 *)
Doing(what) == todo # <<>> /\ Head(todo) = what
Within(handler) == \E i \in DOMAIN todo : todo[i] = handler
Idle == todo = <<>> /\ seen.foreign = "none"

ToDo(frames) == todo' = frames /\ by' = IF frames = <<>> THEN Nobody ELSE by
Go(frames) == ToDo(frames \o Tail(todo))
Done == Go(<<>>)

ConnectFrames == <<"login", "mode", "inConnect">>
CommandFrames == <<"settle", "sendSimple", "ok">>

(* The exception tells a cursor's caller that rows are missing: none is owed. *)
Told == IF by \in Unbuffered THEN [cursors EXCEPT ![by].owed = 0] ELSE cursors

(* Mutant: ping() catches the second failure as well. *)
RaiseForEver(c, cs) ==
  /\ cursors' = cs
  /\ IF Within("inPing")
       THEN conn' = c /\ ToDo(ConnectFrames \o CommandFrames \o <<"inPing">>)
       ELSE /\ conn' = IF Within("inConnect") /\ c.sock = "open"
                         THEN [c EXCEPT !.sock = "dead"] ELSE c
            /\ ToDo(<<>>)

(* ping() connects again; connect() closes the socket and leaves it in _sock; *)
(* Cursor.close() lets go of the connection.                                 *)
RaiseWith(c, cs) ==
  /\ cursors' = IF Within("inClose") THEN [cs EXCEPT ![by] = Closed] ELSE cs
  /\ IF Within("inPing")
       THEN /\ conn' = c
            /\ ToDo(ConnectFrames \o CommandFrames)
       ELSE /\ conn' = IF Within("inConnect") /\ c.sock = "open"
                         THEN [c EXCEPT !.sock = "dead"] ELSE c
            /\ ToDo(<<>>)

Raise(c) == RaiseWith(c, Told)

-----------------------------------------------------------------------------
(* Reading and writing.                                                     *)
Readers == {"open", "openSS", "rows", "drain", "row", "ok", "fileOk", "skip"}
Reading == todo # <<>> /\ Head(todo) \in Readers
InOrder == Head(wire).n % SeqMod = conn.seq
NextSeq == (conn.seq + 1) % SeqMod
ForceClosed == [conn EXCEPT !.sock = "none"]
Connected == [conn EXCEPT !.seq = NextSeq]

(* The packet to be read next, if there is one. *)
Waiting == {wire[i] : i \in DOMAIN wire \cap {1}}

Taken(p) ==
  /\ wire' = Tail(wire)
  /\ seen' = [seen EXCEPT !.foreign =
                IF p.mine THEN @ ELSE IF p.n > SeqMod THEN "wrapped" ELSE "early",
                       !.torn = @ \/ (Doing("rows") /\ p.kind = "bad")]

(* Mutant: the packet number is not looked at. *)
GotUnnumbered(what, p) ==
  /\ Doing(what) /\ conn.sock = "open"
  /\ ~IsError(p) /\ Taken(p)

(* _read_packet returns p. *)
Got(what, p) ==
  /\ Doing(what) /\ conn.sock = "open"
  /\ InOrder /\ ~IsError(p) /\ Taken(p)

(* _read_packet raises: no socket or no reader (_rfile), the end of what had  *)
(* arrived, a wrong number, an error packet.                                 *)
ReadRaises ==
  /\ Reading
  /\ \/ /\ conn.sock # "open"
        /\ Raise(IF conn.sock = "deaf" THEN ForceClosed ELSE conn)
        /\ UNCHANGED <<wire, result, seen>>
     \/ /\ conn.sock = "open"
        /\ IF wire = <<>> THEN link = "cut" ELSE ~InOrder
        /\ Raise(ForceClosed) /\ wire' = <<>> /\ UNCHANGED <<result, seen>>
     \/ \E p \in Waiting :
          /\ conn.sock = "open" /\ InOrder /\ IsError(p) /\ Taken(p)
          /\ Raise(Connected)
          /\ result' = [result EXCEPT !.active = FALSE]
  /\ UNCHANGED <<holder, link, autocommit>>

Sending == \E what \in {"sendQuery", "sendMode", "sendSimple"} : Doing(what)

Answers == IF Doing("sendQuery") THEN QueryAnswers ELSE Finals

(* What autocommit is after the command. *)
Effect(answer) ==
  CASE Doing("sendQuery") /\ answer[Len(answer)].kind \in {"ok", "err"} -> BOOLEAN
    [] Doing("sendMode") /\ answer[1].kind = "ok" -> {conn.mode}
    [] OTHER -> {autocommit}

(* No status comes with the packets of the answer. *)
SaysNothing(answer) == \A i \in DOMAIN answer : answer[i].kind # "ok"

(* The server answers at once, after whatever is still unread. *)
Send ==
  /\ Sending /\ conn.sock \in {"open", "deaf"}
  /\ conn' = [conn EXCEPT !.seq = 1]
  /\ IF link = "up"
       THEN \E answer \in Answers : \E auto \in Effect(answer) :
              /\ autocommit' = auto
              /\ wire' = Unread \o Numbered(answer, 1, auto)
              /\ seen' = [seen EXCEPT !.silent =
                            conn.status # auto /\ (@ \/ SaysNothing(answer))]
       ELSE wire' = Unread /\ UNCHANGED <<autocommit, seen>>
  /\ Done
  /\ UNCHANGED <<result, holder, cursors, link>>

(* A broken connection may show when it is written to. *)
SendRaises ==
  /\ Sending \/ Doing("file")
  /\ conn.sock \in {"none", "dead"} \/ link = "cut"
  /\ Raise(IF conn.sock = "dead" THEN conn ELSE ForceClosed)
  /\ wire' = <<>>
  /\ UNCHANGED <<result, holder, link, autocommit, seen>>

(* send_data: the file in packets, an empty one at the end in any case; the  *)
(* answer to it is read before a missing file is reported.                   *)
SendFile ==
  /\ Doing("file") /\ conn.sock = "open" /\ link = "up"
  /\ \E found \in BOOLEAN, packets \in {1, 2}, final \in Finals :
       /\ found \/ packets = 1
       /\ wire' = wire \o Numbered(final, conn.seq + packets, autocommit)
       /\ conn' = [conn EXCEPT !.seq = (@ + packets) % SeqMod]
       /\ Go(IF found THEN <<"fileOk">> ELSE <<"skip">>)
  /\ UNCHANGED <<result, holder, cursors, link, autocommit, seen>>

-----------------------------------------------------------------------------
(* MySQLResult.                                                             *)
Stored(active, next) == result' = Result(active, next)

(* The number of columns; here with the columns and the EOF after them. *)
Describes(p) == p.kind = "cols"
Malformed(p) == ~IsOk(p) /\ ~IsLocal(p) /\ ~Describes(p)

(* read() and init_unbuffered_query(): the first packet of a result. *)
Open ==
  \E what \in {"open", "openSS"}, p \in Waiting :
    /\ Got(what, p)
    /\ CASE IsOk(p) ->
              /\ Stored(FALSE, p.more) /\ Done
              /\ conn' = [Connected EXCEPT !.status = p.auto]
              /\ UNCHANGED cursors
         [] IsLocal(p) ->
              Go(<<"file">>) /\ conn' = Connected /\ UNCHANGED <<result, cursors>>
         [] Describes(p) ->
              /\ IF what = "openSS" THEN Stored(TRUE, FALSE) /\ Done
                                    ELSE Go(<<"rows">>) /\ UNCHANGED result
              /\ conn' = Connected /\ UNCHANGED cursors
         [] Malformed(p) -> Raise(Connected) /\ UNCHANGED result
    /\ UNCHANGED <<holder, link, autocommit>>

FileAnswered ==
  \E p \in Waiting :
    /\ Got("fileOk", p)
    /\ IF IsOk(p)
         THEN /\ Stored(FALSE, p.more) /\ Done /\ UNCHANGED cursors
              /\ conn' = [Connected EXCEPT !.status = p.auto]
         ELSE Raise(Connected) /\ UNCHANGED result
    /\ UNCHANGED <<holder, link, autocommit>>

FileFailed ==
  \E p \in Waiting :
    Got("skip", p) /\ Raise(Connected) /\ UNCHANGED <<result, holder, link, autocommit>>

(* _read_rowdata_packet; what follows a row that cannot be read stays unread. *)
ReadRows ==
  \E p \in Waiting :
    /\ Got("rows", p)
    /\ CASE IsEof(p) -> Stored(FALSE, p.more) /\ Done /\ conn' = Connected /\ UNCHANGED cursors
         [] p.kind = "bad" -> Raise(Connected) /\ UNCHANGED result
         [] OTHER -> conn' = Connected /\ UNCHANGED <<result, todo, by, cursors>>
    /\ UNCHANGED <<holder, link, autocommit>>

(* _finish_unbuffered_query *)
Drain ==
  \E p \in Waiting :
    /\ Got("drain", p)
    /\ IF IsEof(p) THEN Stored(FALSE, p.more) /\ Done
                   ELSE UNCHANGED <<result, todo, by>>
    /\ conn' = Connected
    /\ UNCHANGED <<holder, cursors, link, autocommit>>

(* _read_rowdata_packet_unbuffered *)
ReadRow ==
  \E p \in Waiting :
    /\ Got("row", p)
    /\ IF IsEof(p)
         THEN /\ Stored(FALSE, p.more) /\ Done /\ conn' = Connected
              /\ cursors' = [cursors EXCEPT ![by].ended = TRUE]
         ELSE LET fewer == [cursors EXCEPT ![by].owed = IF @ = 0 THEN 0 ELSE @ - 1] IN
              /\ UNCHANGED result
              /\ IF p.kind = "bad"
                   THEN RaiseWith(Connected, fewer)
                   ELSE cursors' = fewer /\ conn' = Connected /\ Done
    /\ UNCHANGED <<holder, link, autocommit>>

-----------------------------------------------------------------------------
(* Connection.                                                              *)
quiet == <<wire, link, autocommit, seen>>

(* _execute_command, before it sends: results not yet read are read and lost. *)
Settle ==
  /\ Doing("settle")
  /\ CASE conn.sock = "none" -> Raise(conn) /\ UNCHANGED <<result, holder>>
       [] conn.sock # "none" /\ result.active ->
            /\ Go(<<"drain", "settle">>)
            /\ cursors' = IF holder \in Unbuffered
                            THEN [cursors EXCEPT ![holder].owed = 0] ELSE cursors
            /\ UNCHANGED <<conn, result, holder>>
       [] conn.sock # "none" /\ ~result.active ->
            /\ result' = NoResult /\ holder' = Nobody
            /\ Go(IF result.next THEN <<"open", "settle">> ELSE <<>>)
            /\ UNCHANGED <<conn, cursors>>
  /\ UNCHANGED quiet

(* Mutant: the status of the OK packet is not kept. *)
ReadOkOnly ==
  \E p \in Waiting :
    /\ Got("ok", p)
    /\ IF IsOk(p) THEN conn' = Connected /\ Done /\ UNCHANGED cursors ELSE Raise(Connected)
    /\ UNCHANGED <<result, holder, link, autocommit>>

(* _read_ok_packet; set_charset takes any packet. *)
ReadOk ==
  \E p \in Waiting :
    /\ Got("ok", p)
    /\ IF IsOk(p)
         THEN conn' = [Connected EXCEPT !.status = p.auto] /\ Done /\ UNCHANGED cursors
         ELSE Raise(Connected)
    /\ UNCHANGED <<result, holder, link, autocommit>>

(* connect(): no socket is made; an older one stays, without a reader. *)
Unreachable ==
  /\ Doing("login")
  /\ Raise(IF conn.sock = "open" THEN [conn EXCEPT !.sock = "deaf"] ELSE conn)
  /\ wire' = <<>>
  /\ UNCHANGED <<result, holder, link, autocommit, seen>>

(* connect(): the handshake (MysqlAuth) fails, or breaks off. *)
Refused ==
  /\ Doing("login")
  /\ \E s \in {"open", "none"} : Raise([conn EXCEPT !.sock = s])
  /\ wire' = <<>> /\ link' = "cut"
  /\ UNCHANGED <<result, holder, autocommit, seen>>

(* The greeting tells the session's autocommit.  _result is what it was. *)
Login ==
  /\ Doing("login")
  /\ \E auto \in BOOLEAN :
       /\ autocommit' = auto
       /\ conn' = [conn EXCEPT !.sock = "open", !.status = auto]
  /\ link' = "up" /\ wire' = <<>>
  /\ seen' = [NothingSeen EXCEPT !.over = result.active \/ result.next]
  /\ Done
  /\ UNCHANGED <<result, holder, cursors>>

(* Mutant: the answer is left for the next command. *)
SetModeUnread ==
  /\ Doing("mode")
  /\ Go(IF conn.status # conn.mode THEN <<"settle", "sendMode">> ELSE <<>>)
  /\ UNCHANGED <<conn, result, holder, cursors, quiet>>

(* autocommit(): nothing is sent when the last status seen says so already. *)
SetMode ==
  /\ Doing("mode")
  /\ Go(IF conn.status # conn.mode THEN <<"settle", "sendMode", "ok">> ELSE <<>>)
  /\ UNCHANGED <<conn, result, holder, cursors, quiet>>

(* The end of a try. *)
Leave ==
  /\ Doing("inConnect") \/ Doing("inPing") \/ Doing("inClose")
  /\ cursors' = IF Doing("inClose") THEN [cursors EXCEPT ![by] = Closed] ELSE cursors
  /\ Done
  /\ UNCHANGED <<conn, result, holder, quiet>>

-----------------------------------------------------------------------------
(* Cursors.                                                                 *)
OpenFrameOf(c) == IF c \in Buffered THEN "open" ELSE "openSS"
OpenFrame == OpenFrameOf(by)

(* Mutant: has_next is not looked at. *)
NextSetBlind ==
  /\ Doing("nextset") \/ Doing("advance")
  /\ IF holder = by
       THEN /\ result' = NoResult /\ holder' = Nobody
            /\ cursors' = [cursors EXCEPT ![by] = Fresh]
            /\ Go(<<OpenFrame, "take">> \o IF Doing("nextset") THEN <<"nextset">> ELSE <<>>)
       ELSE Done /\ UNCHANGED <<result, holder, cursors>>
  /\ UNCHANGED <<conn, quiet>>

(* Mutant: the cursor keeps the result it leaves. *)
AdvanceKeeping ==
  /\ Doing("nextset") \/ Doing("advance")
  /\ IF holder = by /\ result.next
       THEN /\ result' = NoResult /\ UNCHANGED <<holder, cursors>>
            /\ Go(<<OpenFrame, "take">> \o IF Doing("nextset") THEN <<"nextset">> ELSE <<>>)
       ELSE Done /\ UNCHANGED <<result, holder, cursors>>
  /\ UNCHANGED <<conn, quiet>>

(* nextset(), once or while it returns True. *)
Advance ==
  /\ Doing("nextset") \/ Doing("advance")
  /\ IF holder = by /\ result.next
       THEN /\ result' = NoResult /\ holder' = Nobody
            /\ cursors' = [cursors EXCEPT ![by] = Fresh]
            /\ Go(<<OpenFrame, "take">> \o IF Doing("nextset") THEN <<"nextset">> ELSE <<>>)
       ELSE Done /\ UNCHANGED <<result, holder, cursors>>
  /\ UNCHANGED <<conn, quiet>>

(* _clear_result *)
Clear ==
  /\ Doing("clear")
  /\ holder' = IF holder = by THEN Nobody ELSE holder
  /\ cursors' = [cursors EXCEPT ![by] = Fresh]
  /\ Done
  /\ UNCHANGED <<conn, result, quiet>>

(* _do_get_result *)
Take ==
  /\ Doing("take")
  /\ holder' = by
  /\ cursors' = [cursors EXCEPT ![by] =
                   [Fresh EXCEPT !.res = by \in Unbuffered, !.owed = IF result.active THEN RowsWaiting ELSE 0]]
  /\ Done
  /\ UNCHANGED <<conn, result, quiet>>

(* fetchone() of an SSCursor; an inactive result is at its end. *)
Fetch ==
  /\ Doing("fetch")
  /\ CASE ~cursors[by].res -> Raise(conn)
       [] cursors[by].res /\ holder = by /\ result.active ->
            Go(<<"row">>) /\ UNCHANGED <<conn, cursors>>
       [] OTHER ->
            /\ cursors' = [cursors EXCEPT ![by].ended = TRUE]
            /\ Done /\ UNCHANGED conn
  /\ UNCHANGED <<result, holder, quiet>>

(* SSCursor.close() reads its result to the end before its try. *)
Finish ==
  /\ Doing("finish")
  /\ Go(IF holder = by /\ result.active THEN <<"drain", "finish">> ELSE <<"nextset", "inClose">>)
  /\ UNCHANGED <<conn, result, holder, cursors, quiet>>

-----------------------------------------------------------------------------
(* What the program may call, one method at a time.                         *)
Call(c, frames) ==
  /\ Idle
  /\ by' = IF frames = <<>> THEN Nobody ELSE c
  /\ todo' = frames

kept == <<result, holder, cursors, wire, link, autocommit, seen>>

Connect ==
  Call(Nobody, ConnectFrames) /\ UNCHANGED <<conn, kept>>

Autocommit ==
  /\ conn.sock # "none" /\ Call(Nobody, <<"mode">>)
  /\ \E on \in BOOLEAN : conn' = [conn EXCEPT !.mode = on]
  /\ UNCHANGED kept

(* begin, commit, rollback, select_db, kill, set_charset *)
Command == Call(Nobody, CommandFrames) /\ UNCHANGED <<conn, kept>>

Ping ==
  \/ /\ conn.sock # "none"
     /\ \E caught \in {<<>>, <<"inPing">>} : Call(Nobody, CommandFrames \o caught)
     /\ UNCHANGED <<conn, kept>>
  \/ /\ conn.sock = "none"
     /\ Call(Nobody, ConnectFrames \o CommandFrames)
     /\ UNCHANGED <<conn, kept>>

(* QUIT is sent if it can be; a second close() raises and changes nothing. *)
Close ==
  /\ conn.sock # "none" /\ Call(Nobody, <<>>)
  /\ conn' = ForceClosed
  /\ wire' = <<>> /\ link' = "cut"
  /\ UNCHANGED <<result, holder, cursors, autocommit, seen>>

OnCursor(c, frames) ==
  cursors[c].open /\ Call(c, frames) /\ UNCHANGED <<conn, kept>>

Execute(c) ==
  OnCursor(c, <<"nextset", "clear", "settle", "sendQuery", OpenFrameOf(c), "take">>)
NextResult(c) == OnCursor(c, <<"advance">>)
FetchOne(c) == OnCursor(c, <<"fetch">>)
CloseCursor(c) ==
  OnCursor(c,
           IF c \in Unbuffered THEN <<"finish">> ELSE <<"nextset", "inClose">>)

NewCursor(c) ==
  /\ ~cursors[c].open /\ Call(c, <<>>)
  /\ cursors' = [cursors EXCEPT ![c] = Fresh]
  /\ holder' = IF holder = c THEN Nobody ELSE holder
  /\ UNCHANGED <<conn, result, quiet>>

(* The connection breaks; what had been sent arrives up to some packet. *)
Cut ==
  /\ link = "up" /\ link' = "cut"
  /\ \E i \in 0..Len(wire) : wire' = SubSeq(wire, 1, i)
  /\ UNCHANGED <<conn, result, holder, cursors, by, todo, autocommit, seen>>

Calls ==
  \/ Connect \/ Autocommit \/ Command \/ Ping \/ Close
  \/ \E c \in Cursors : Execute(c) \/ NextResult(c) \/ CloseCursor(c) \/ NewCursor(c)
  \/ \E c \in Unbuffered : FetchOne(c)

Steps ==
  \/ ReadRaises \/ Send \/ SendRaises \/ SendFile \/ Open \/ FileAnswered \/ FileFailed
  \/ ReadRows \/ Drain \/ ReadRow \/ Settle \/ ReadOk \/ Unreachable \/ Refused \/ Login
  \/ SetMode \/ Leave \/ Advance \/ Clear \/ Take \/ Fetch \/ Finish

Next == Calls \/ Steps \/ Cut
Spec == Init /\ [][Next]_vars /\ WF_vars(Steps)

-----------------------------------------------------------------------------
TypeOK ==
  /\ conn \in [sock : {"none", "open", "dead", "deaf"},
               seq : 0..(SeqMod - 1), mode : BOOLEAN, status : BOOLEAN]
  /\ result \in [set : BOOLEAN, active : BOOLEAN, next : BOOLEAN]
  /\ result.active \/ result.next => result.set
  /\ holder \in Cursors \cup {Nobody} /\ (holder # Nobody => result.set)
  /\ \A c \in Cursors : cursors[c].owed \in 0..MaxRows
  /\ link \in {"up", "cut"} /\ autocommit \in BOOLEAN

(* A call takes no packet of an earlier command's answer for its own, unless *)
(* a row that could not be read left one behind whose number has gone round. *)
OwnReplies == seen.foreign # "none" => seen.foreign = "wrapped" /\ seen.torn

(* The client waits for a packet that the server is not going to send. *)
WaitsInVain ==
  Reading /\ conn.sock = "open" /\ link = "up" /\ wire = <<>>

(* It never does, unless it connected again over an unread result. *)
NeverWaitsInVain == WaitsInVain => seen.over \/ seen.foreign # "none"

(* A cursor read row by row ends when it has given out every row, unless an  *)
(* exception, or a statement of another cursor, has taken rows from it.      *)
EveryRowIsTold ==
  \A c \in Unbuffered : cursors[c].ended => cursors[c].owed = 0

(* connect() leaves the session with the autocommit that was asked for. *)
ConnectSetsMode ==
  Doing("inConnect") => autocommit = conn.mode

(* get_autocommit() tells the session's mode once every answer is read, but  *)
(* for a procedure that changed it and then failed: errors carry no status.  *)
StatusIsCurrent ==
  todo = <<>> /\ conn.sock = "open" /\ link = "up" /\ wire = <<>> =>
    conn.status = autocommit \/ seen.silent \/ seen.foreign # "none"

(* Every call returns or raises, except one that waits in vain. *)
EveryCallEnds == todo # <<>> ~> (todo = <<>> \/ WaitsInVain)

=============================================================================
