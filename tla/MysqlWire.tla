------------------------------ MODULE MysqlWire ------------------------------
(***************************************************************************)
(* PyMySQL below one executemany(): the rows are packed into statements     *)
(* (cursors.py), a statement into packets numbered modulo 256 and the       *)
(* answer put together again (connections.py), against a MySQL server       *)
(* (external) that does the same at its end.  Text is its length: a packet  *)
(* carries the bytes from+1..to of a payload.  The connection may break at  *)
(* any moment; each end then still reads what had arrived.                  *)
(***************************************************************************)
EXTENDS Naturals, Sequences

CONSTANTS
  Batches,     \* the batches: the lengths of their formatted rows
  Prefix,      \* length of the statement before VALUES' rows
  Postfix,     \* length of what follows them
  MaxStmt,     \* Cursor.max_stmt_length
  MaxPacket,   \* MAX_PACKET_LEN
  SeqMod,      \* packet numbers are modulo this, 256
  AnswerSizes  \* lengths of the server's answers

ASSUME WireAssumption ==
  /\ Batches \subseteq Seq(Nat \ {0}) /\ AnswerSizes \subseteq Nat \ {0}
  /\ Prefix \in Nat \ {0} /\ Postfix \in Nat /\ MaxStmt \in Nat
  /\ MaxPacket \in Nat \ {0} /\ SeqMod \in Nat \ {0, 1}

VARIABLES
  (* the cursor *)
  sizes,   \* args: the lengths of the formatted rows
  bulk,    \* the query is an INSERT ... VALUES (RE_INSERT_VALUES)
  sql,     \* the statement under construction: its rows first..last, its length
  rows,    \* rows counted so far
  (* the connection *)
  pc,
  size,    \* payload being sent: the statement and the command byte
  off,     \* bytes of it that are sent
  seq,     \* _next_seq_id
  (* the network *)
  link, up, down,
  (* the server *)
  server,
  executed \* rows it has executed

cursorVars == <<sizes, bulk, sql, rows>>
netVars == <<link, up, down>>
wireVars == <<cursorVars, pc, size, off, seq, netVars, server, executed>>

Rows == Len(sizes)
Smaller(a, b) == IF a < b THEN a ELSE b
NextSeq(n) == (n + 1) % SeqMod
NoRows == [first |-> 1, last |-> 0, len |-> 0]
NoAnswer == [kind |-> "none", count |-> 0, size |-> 0]

WireInit ==
  /\ sizes = <<>> /\ bulk = FALSE /\ sql = NoRows /\ rows = 0
  /\ pc = "idle" /\ size = 0 /\ off = 0 /\ seq = 0
  /\ link = "up" /\ up = <<>> /\ down = <<>>
  /\ server = [at |-> "read", seq |-> 0, got |-> 0, first |-> 1, last |-> 0,
               size |-> 0, answer |-> NoAnswer]
  /\ executed = 0

-----------------------------------------------------------------------------
(* The cursor.                                                              *)
OneRow(batch, i) == [first |-> i, last |-> i, len |-> Prefix + batch[i]]

(* if not args: return *)
Executemany ==
  /\ pc = "idle"
  /\ \E batch \in Batches, b \in BOOLEAN :
       /\ sizes' = batch /\ bulk' = b
       /\ sql' = IF batch = <<>> THEN NoRows ELSE OneRow(batch, 1)
       /\ pc' = IF batch = <<>> THEN "done" ELSE "build"
  /\ UNCHANGED <<rows, size, off, seq, netVars, server, executed>>

HasMore == sql.last < Rows

(* Mutant: the comma is not counted. *)
FitsNoComma == bulk /\ sql.len + sizes[sql.last + 1] + Postfix <= MaxStmt

Fits == bulk /\ sql.len + sizes[sql.last + 1] + Postfix + 1 <= MaxStmt

AddRow ==
  /\ pc = "build" /\ HasMore /\ Fits
  /\ sql' = [sql EXCEPT !.last = @ + 1, !.len = @ + 1 + sizes[sql.last + 1]]
  /\ UNCHANGED <<sizes, bulk, rows, pc, size, off, seq, netVars, server, executed>>

(* _write_bytes: on a broken connection it may seem to succeed. *)
Write(packet) ==
  /\ up' = IF link = "up" THEN Append(up, packet) ELSE up
  /\ UNCHANGED <<link, down>>

UpPacket(n, from, to, total) ==
  [seq |-> n, from |-> from, to |-> to, size |-> total,
   first |-> sql.first, last |-> sql.last]

(* Mutant: a payload of exactly one packet is not followed by an empty one. *)
AfterWriteExact(from, to, total) == IF to = total THEN "read" ELSE "more"

AfterWrite(from, to, total) == IF to - from < MaxPacket THEN "read" ELSE "more"

(* Mutant: the command byte is taken for one of the statement's. *)
ExecuteSkips ==
  /\ pc = "build" /\ (HasMore => ~Fits)
  /\ LET total == sql.len + Postfix + 1
         to == Smaller(MaxPacket, total) IN
       /\ Write(UpPacket(0, 0, to, total))
       /\ size' = total /\ off' = Smaller(to + 1, total) /\ pc' = AfterWrite(0, to, total)
  /\ seq' = 1
  /\ UNCHANGED <<cursorVars, server, executed>>

(* Mutant: a command goes on counting where the last answer ended. *)
ExecuteGoesOn ==
  /\ pc = "build" /\ (HasMore => ~Fits)
  /\ LET total == sql.len + Postfix + 1
         to == Smaller(MaxPacket, total) IN
       /\ Write(UpPacket(seq, 0, to, total))
       /\ size' = total /\ off' = to /\ pc' = AfterWrite(0, to, total)
  /\ seq' = NextSeq(seq)
  /\ UNCHANGED <<cursorVars, server, executed>>

(* execute(): _execute_command builds the first packet by itself. *)
Execute ==
  /\ pc = "build" /\ (HasMore => ~Fits)
  /\ LET total == sql.len + Postfix + 1
         to == Smaller(MaxPacket, total) IN
       /\ Write(UpPacket(0, 0, to, total))
       /\ size' = total /\ off' = to /\ pc' = AfterWrite(0, to, total)
  /\ seq' = 1
  /\ UNCHANGED <<cursorVars, server, executed>>

(* The rest of the payload goes through write_packet. *)
SendMore ==
  /\ pc = "more"
  /\ LET to == off + Smaller(MaxPacket, size - off) IN
       /\ Write(UpPacket(seq, off, to, size))
       /\ off' = to /\ pc' = AfterWrite(off, to, size)
  /\ seq' = NextSeq(seq)
  /\ UNCHANGED <<cursorVars, size, server, executed>>

WriteRaises ==
  /\ pc \in {"build", "more"} /\ link = "lost"
  /\ pc' = "raised"
  /\ UNCHANGED <<cursorVars, size, off, seq, netVars, server, executed>>

(* Mutant: the count of the last statement replaces the sum. *)
ReturnsLast(answer) ==
  IF answer.kind = "err"
    THEN pc' = "raised" /\ UNCHANGED <<sql, rows>>
    ELSE /\ rows' = answer.count
         /\ pc' = IF HasMore THEN "build" ELSE "done"
         /\ sql' = IF HasMore THEN OneRow(sizes, sql.last + 1) ELSE sql

(* The last packet of the answer is in: execute() returns or raises. *)
Returns(answer) ==
  IF answer.kind = "err"
    THEN pc' = "raised" /\ UNCHANGED <<sql, rows>>
    ELSE /\ rows' = rows + answer.count
         /\ pc' = IF HasMore THEN "build" ELSE "done"
         /\ sql' = IF HasMore THEN OneRow(sizes, sql.last + 1) ELSE sql

(* _read_packet, one network packet. *)
ReadPacket ==
  /\ pc = "read" /\ down # <<>>
  /\ down' = Tail(down)
  /\ LET p == Head(down) IN
       IF p.seq # seq
         THEN pc' = "outOfSequence" /\ UNCHANGED <<sql, rows, seq>>
         ELSE /\ seq' = NextSeq(seq)
              /\ IF p.to - p.from = MaxPacket
                   THEN UNCHANGED <<pc, sql, rows>>
                   ELSE Returns(p.answer)
  /\ UNCHANGED <<sizes, bulk, size, off, link, up, server, executed>>

ReadRaises ==
  /\ pc = "read" /\ link = "lost" /\ down = <<>>
  /\ pc' = "raised"
  /\ UNCHANGED <<cursorVars, size, off, seq, netVars, server, executed>>

-----------------------------------------------------------------------------
(* The server (external).                                                   *)
ServerReads ==
  /\ server.at = "read" /\ up # <<>>
  /\ up' = Tail(up)
  /\ LET p == Head(up) IN
       server' =
         IF p.seq # server.seq
           THEN [server EXCEPT !.at = "gone"]
           ELSE [server EXCEPT
                  !.at = IF p.to - p.from < MaxPacket THEN "run" ELSE "read",
                  !.seq = NextSeq(@), !.got = @ + p.to - p.from,
                  !.first = p.first, !.last = p.last, !.size = p.size]
  /\ UNCHANGED <<cursorVars, pc, size, off, seq, link, down, executed>>

(* An INSERT is all or nothing; text that is not a whole one is an error. *)
ServerRuns ==
  /\ server.at = "run"
  /\ \E n \in AnswerSizes, kind \in {"ok", "err"} :
       LET count == IF kind = "ok" THEN server.last - server.first + 1 ELSE 0 IN
         /\ kind = "ok" => server.got = server.size
         /\ executed' = executed + count
         /\ server' = [server EXCEPT !.at = "answer", !.got = 0,
                         !.answer = [kind |-> kind, count |-> count, size |-> n]]
  /\ UNCHANGED <<cursorVars, pc, size, off, seq, netVars>>

(* got is now the number of bytes of the answer that are sent. *)
ServerAnswers ==
  /\ server.at = "answer"
  /\ LET to == server.got + Smaller(MaxPacket, server.answer.size - server.got)
         over == to - server.got < MaxPacket
         p == [seq |-> server.seq, from |-> server.got, to |-> to,
               answer |-> server.answer] IN
       /\ down' = IF link = "up" THEN Append(down, p) ELSE down
       /\ server' = [server EXCEPT !.at = IF over THEN "read" ELSE "answer",
                                   !.seq = IF over THEN 0 ELSE NextSeq(@),
                                   !.got = IF over THEN 0 ELSE to]
  /\ UNCHANGED <<cursorVars, pc, size, off, seq, link, up, executed>>

-----------------------------------------------------------------------------
(* What was on its way may arrive up to some packet. *)
Lose ==
  /\ link = "up" /\ link' = "lost"
  /\ \E i \in 0..Len(up), j \in 0..Len(down) :
       up' = SubSeq(up, 1, i) /\ down' = SubSeq(down, 1, j)
  /\ UNCHANGED <<cursorVars, pc, size, off, seq, server, executed>>

ClientStep == Executemany \/ AddRow \/ Execute \/ SendMore \/ WriteRaises \/ ReadPacket \/ ReadRaises
ServerStep == ServerReads \/ ServerRuns \/ ServerAnswers

-----------------------------------------------------------------------------
(* What the server runs is a whole statement of the batch, the one after     *)
(* those it has run: no packet of it is lost, doubled or joined to another.  *)
WholeStatements ==
  server.at = "run" =>
    /\ server.got = server.size
    /\ server.first = executed + 1 /\ server.last \in server.first..Rows

(* The answer executemany() gives is the truth: all rows, or, when it raises, *)
(* those it had counted and, at most, those of the one statement in doubt.   *)
RowcountIsTrue ==
  /\ pc = "done" => rows = Rows /\ executed = Rows
  /\ pc # "done" => rows = sql.first - 1 /\ executed \in {rows, sql.last}

(* A statement outgrows max_stmt_length only when a single row does. *)
StatementFits ==
  sql.last > sql.first => sql.len + Postfix <= MaxStmt

(* The two ends number the packets of a command and its answer alike, also   *)
(* when there are more than 256 of them.                                     *)
NumbersAgree == pc # "outOfSequence" /\ server.at # "gone"

=============================================================================
