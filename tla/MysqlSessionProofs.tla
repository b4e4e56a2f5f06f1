-------------------------- MODULE MysqlSessionProofs --------------------------
(***************************************************************************)
(* Theorems about MysqlSession, for any cursors, length of results and      *)
(* number of packets at which the numbering goes round.  Their invariant    *)
(* has five parts, each proved on those before it:                          *)
(*   TypeInv    the types, what a call may have still to do (PlanOK), whose *)
(*              result the connection's is (ResultOK)                       *)
(*   ConnectOK  what connect() has done of setting autocommit               *)
(*   WireOK     what is on the wire when a call stands at each of its steps *)
(*   OwedOK     which cursors are owed rows, and that the wire holds them   *)
(*   StatusOK   that what the client does not know is still to be read      *)
(***************************************************************************)
EXTENDS MysqlSession, SequenceTheorems, FiniteSetTheorems, TLAPS

(* The first thing the call still has to do. *)
Now == IF todo = <<>> THEN "idle" ELSE Head(todo)
Frames == {"login", "mode", "inConnect", "settle", "sendMode", "sendSimple", "sendQuery",
           "ok", "open", "openSS", "rows", "file", "fileOk", "skip", "take", "nextset",
           "clear", "drain", "finish", "inPing", "inClose", "fetch", "row", "advance"}

-----------------------------------------------------------------------------
(* Lists, first element and rest. *)
Cons(f, t) == <<f>> \o t
Then(f, S) == {Cons(f, t) : t \in S}
Two(f, g) == <<f, g>>
Three(f, g, h) == <<f, g, h>>
Cat(s, t) == s \o t

LEMMA JoinIs ==
  ASSUME NEW S, NEW r \in Seq(S), NEW t \in Seq(S), NEW w, w = r \o t
  PROVE  /\ w \in Seq(S) /\ Len(r) \in Nat /\ Len(t) \in Nat /\ Len(w) = Len(r) + Len(t)
         /\ \A i \in 1 .. Len(r) + Len(t) : w[i] = IF i <= Len(r) THEN r[i] ELSE t[i - Len(r)]
BY ConcatProperties

LEMMA ConsIs ==
  ASSUME NEW S, NEW f \in S, NEW t \in Seq(S)
  PROVE  /\ Cons(f, t) \in Seq(S) /\ Cons(f, t) # <<>>
         /\ Head(Cons(f, t)) = f /\ Tail(Cons(f, t)) = t
<1>1. <<f>> \in Seq(S) /\ Len(<<f>>) = 1 /\ <<f>>[1] = f
  OBVIOUS
<1>2. /\ Cons(f, t) \in Seq(S) /\ Len(Cons(f, t)) = 1 + Len(t)
      /\ \A i \in 1 .. 1 + Len(t) : Cons(f, t)[i] = IF i <= 1 THEN f ELSE t[i - 1]
  BY <1>1, ConcatProperties DEF Cons
<1>3. Len(t) \in Nat
  OBVIOUS
<1>4. Cons(f, t) # <<>> /\ Head(Cons(f, t)) = f
  BY <1>2, <1>3
<1>5. /\ Tail(Cons(f, t)) \in Seq(S) /\ Len(Tail(Cons(f, t))) = Len(t)
      /\ \A i \in 1 .. Len(t) : Tail(Cons(f, t))[i] = t[i]
  BY <1>2, <1>3, <1>4, HeadTailProperties
<1> QED BY <1>2, <1>4, <1>5, SeqEqual

LEMMA ConsOf ==
  ASSUME NEW S, NEW t \in Seq(S), t # <<>>
  PROVE  Head(t) \in S /\ Tail(t) \in Seq(S) /\ t = Cons(Head(t), Tail(t))
<1>1. /\ Head(t) \in S /\ Tail(t) \in Seq(S) /\ Len(Tail(t)) = Len(t) - 1
      /\ \A i \in 1 .. Len(Tail(t)) : Tail(t)[i] = t[i + 1]
  BY HeadTailProperties
<1>2. <<Head(t)>> \in Seq(S) /\ Len(<<Head(t)>>) = 1 /\ <<Head(t)>>[1] = Head(t)
  BY <1>1
<1>3. Len(t) \in Nat \ {0}
  BY EmptySeq
<1>4. /\ Cons(Head(t), Tail(t)) \in Seq(S)
      /\ Len(Cons(Head(t), Tail(t))) = Len(t)
      /\ \A i \in 1 .. Len(t) : Cons(Head(t), Tail(t))[i] = t[i]
  <2>1. /\ Cons(Head(t), Tail(t)) \in Seq(S)
        /\ Len(Cons(Head(t), Tail(t))) = 1 + Len(Tail(t))
        /\ \A i \in 1 .. 1 + Len(Tail(t)) :
             Cons(Head(t), Tail(t))[i] = IF i <= 1 THEN Head(t) ELSE Tail(t)[i - 1]
    BY <1>1, <1>2, ConcatProperties DEF Cons
  <2> QED BY <1>1, <1>3, <2>1
<1> QED BY <1>1, <1>4, SeqEqual

LEMMA One ==
  ASSUME NEW f \in Frames
  PROVE  <<f>> \in Seq(Frames) /\ <<f>> = Cons(f, <<>>)
<1>1. <<f>> \in Seq(Frames)
  OBVIOUS
<1> QED BY <1>1, ConcatEmptySeq DEF Cons

LEMMA TwoIs ==
  ASSUME NEW f \in Frames, NEW g \in Frames
  PROVE  Two(f, g) \in Seq(Frames) /\ Two(f, g) = <<f>> \o <<g>>
<1>1. /\ <<f>> \o <<g>> \in Seq(Frames) /\ Len(<<f>> \o <<g>>) = 2
      /\ (<<f>> \o <<g>>)[1] = f /\ (<<f>> \o <<g>>)[2] = g
  BY One, ConcatProperties
<1>2. Two(f, g) \in Seq(Frames) /\ Len(Two(f, g)) = 2
  BY DEF Two
<1>3. \A i \in 1 .. 2 : (<<f>> \o <<g>>)[i] = Two(f, g)[i]
  BY <1>1 DEF Two
<1> QED BY <1>1, <1>2, <1>3, SeqEqual

LEMMA ThreeIs ==
  ASSUME NEW f \in Frames, NEW g \in Frames, NEW h \in Frames
  PROVE  Three(f, g, h) \in Seq(Frames) /\ Three(f, g, h) = <<f>> \o Two(g, h)
<1>1. Two(g, h) \in Seq(Frames) /\ Len(Two(g, h)) = 2 /\ Two(g, h)[1] = g /\ Two(g, h)[2] = h
  BY DEF Two
<1>2. /\ <<f>> \o Two(g, h) \in Seq(Frames) /\ Len(<<f>> \o Two(g, h)) = 3
      /\ (<<f>> \o Two(g, h))[1] = f /\ (<<f>> \o Two(g, h))[2] = g
      /\ (<<f>> \o Two(g, h))[3] = h
  BY <1>1, One, ConcatProperties
<1>3. Three(f, g, h) \in Seq(Frames) /\ Len(Three(f, g, h)) = 3
  BY DEF Three
<1>4. \A i \in 1 .. 3 : (<<f>> \o Two(g, h))[i] = Three(f, g, h)[i]
  BY <1>2 DEF Three
<1> QED BY <1>2, <1>3, <1>4, SeqEqual

LEMMA JoinTwo ==
  ASSUME NEW t \in Seq(Frames), NEW f \in Frames, NEW g \in Frames
  PROVE  Cat(Two(f, g), t) = Cons(f, Cons(g, t))
<1>1. (<<f>> \o <<g>>) \o t = <<f>> \o (<<g>> \o t)
  BY One, ConcatAssociative
<1> QED BY <1>1, TwoIs DEF Cons, Cat

LEMMA JoinThree ==
  ASSUME NEW t \in Seq(Frames), NEW f \in Frames, NEW g \in Frames, NEW h \in Frames
  PROVE  Cat(Three(f, g, h), t) = Cons(f, Cons(g, Cons(h, t)))
<1>1. Two(g, h) \in Seq(Frames)
  BY TwoIs
<1>2. (<<f>> \o Two(g, h)) \o t = <<f>> \o (Two(g, h) \o t)
  BY <1>1, One, ConcatAssociative
<1>3. Cat(Three(f, g, h), t) = Cons(f, Cat(Two(g, h), t))
  BY <1>2, ThreeIs DEF Cons, Cat
<1> QED BY <1>3, JoinTwo

(* The same, written out. *)
LEMMA TupleTwo ==
  ASSUME NEW f \in Frames, NEW g \in Frames
  PROVE  Two(f, g) = Cons(f, Cons(g, <<>>))
<1>1. <<>> \in Seq(Frames) /\ Two(f, g) \in Seq(Frames)
  BY TwoIs, EmptySeq
<1>2. Cat(Two(f, g), <<>>) = Cons(f, Cons(g, <<>>))
  BY <1>1, JoinTwo
<1> QED BY <1>1, <1>2, ConcatEmptySeq DEF Cat

LEMMA TupleThree ==
  ASSUME NEW f \in Frames, NEW g \in Frames, NEW h \in Frames
  PROVE  Three(f, g, h) = Cons(f, Cons(g, Cons(h, <<>>)))
<1>1. <<>> \in Seq(Frames) /\ Three(f, g, h) \in Seq(Frames)
  BY ThreeIs, EmptySeq
<1>2. \A t \in Seq(Frames) : Cat(Three(f, g, h), t) = Cons(f, Cons(g, Cons(h, t)))
  BY JoinThree
<1> QED BY <1>1, <1>2, ConcatEmptySeq DEF Cat

-----------------------------------------------------------------------------
(* What may be left to do after each thing, in a call of cursor c (Nobody     *)
(* for a call of the connection).                                            *)
InConnect == Then("inConnect", {<<>>, CommandFrames})
AfterMode == {<<>>} \cup InConnect
AfterSimple == {<<>>, <<"inPing">>}
Queries(c) == IF c \in Cursors
                THEN Then("sendQuery", Then(OpenFrameOf(c), {<<"take">>})) ELSE {}
Commands(c) == Then("sendMode", Then("ok", AfterMode))
                 \cup Then("sendSimple", Then("ok", AfterSimple)) \cup Queries(c)
Settles(c) == Then("settle", Commands(c))
Clears(c) == Then("clear", Then("settle", Queries(c)))
AfterNextset(c) == IF c \in Cursors THEN {<<"inClose">>} \cup Clears(c) ELSE {}
AfterTake(c) == IF c \in Cursors THEN {<<>>} \cup Then("nextset", AfterNextset(c)) ELSE {}
AfterOpen(c) == Settles(c) \cup Then("take", AfterTake(c))
OfUnbuffered(c, S) == IF c \in Unbuffered THEN S ELSE {}

Rest(f, c) ==
  CASE f = "login" -> Then("mode", InConnect)
    [] f = "mode" -> AfterMode
    [] f = "inConnect" -> {<<>>, CommandFrames}
    [] f = "settle" -> Commands(c)
    [] f = "sendMode" -> Then("ok", AfterMode)
    [] f = "sendSimple" -> Then("ok", AfterSimple)
    [] f = "sendQuery" -> IF c \in Cursors THEN Then(OpenFrameOf(c), {<<"take">>}) ELSE {}
    [] f = "ok" -> AfterMode \cup AfterSimple
    [] f \in {"open", "rows", "file", "fileOk", "skip"} -> AfterOpen(c)
    [] f = "openSS" -> OfUnbuffered(c, Then("take", AfterTake(c)))
    [] f = "take" -> AfterTake(c)
    [] f = "nextset" -> AfterNextset(c)
    [] f = "clear" -> Then("settle", Queries(c))
    [] f = "drain" -> Settles(c) \cup OfUnbuffered(c, {<<"finish">>})
    [] f \in {"finish", "fetch", "row"} -> OfUnbuffered(c, {<<>>})
    [] f = "inPing" -> {<<>>}
    [] f \in {"inClose", "advance"} -> IF c \in Cursors THEN {<<>>} ELSE {}

(* A list of a call of c: it is over, or goes on as the first thing on it says. *)
Plans(c) == {t \in Seq(Frames) : t # <<>> => Tail(t) \in Rest(Head(t), c)}
PlanOK == by \in Cursors \cup {Nobody} /\ todo \in Plans(by)

LEMMA ThenLists ==
  ASSUME NEW f \in Frames, NEW S, S \subseteq Seq(Frames)
  PROVE  Then(f, S) \subseteq Seq(Frames)
BY ConsIs DEF Then

LEMMA ThenPlans ==
  ASSUME NEW c, NEW f \in Frames, NEW S, S \subseteq Seq(Frames), S \subseteq Rest(f, c)
  PROVE  Then(f, S) \subseteq Plans(c)
<1> SUFFICES ASSUME NEW t \in S PROVE Cons(f, t) \in Plans(c)
  BY DEF Then
<1>1. /\ Cons(f, t) \in Seq(Frames)
      /\ Head(Cons(f, t)) = f /\ Tail(Cons(f, t)) = t
  BY ConsIs
<1> QED BY <1>1 DEF Plans

LEMMA ThenMonotonic ==
  ASSUME NEW f, NEW S, NEW T, S \subseteq T
  PROVE  Then(f, S) \subseteq Then(f, T)
BY DEF Then

LEMMA FramesAre ==
  /\ CommandFrames = Cons("settle", Cons("sendSimple", Cons("ok", <<>>)))
  /\ <<>> \in Seq(Frames) /\ CommandFrames \in Seq(Frames)
  /\ \A f \in Frames : <<f>> \in Seq(Frames) /\ <<f>> = Cons(f, <<>>)
  /\ \A c \in Cursors : OpenFrameOf(c) \in Frames
<1>1. <<>> \in Seq(Frames)
  BY EmptySeq
<1>2. "settle" \in Frames /\ "sendSimple" \in Frames /\ "ok" \in Frames
  BY DEF Frames
<1>3. \A f \in Frames : <<f>> = Cons(f, <<>>)
  BY One
<1>4. CommandFrames = Cons("settle", Cons("sendSimple", Cons("ok", <<>>)))
  <2>1. \A f, g, h \in Frames : Three(f, g, h) = Cons(f, Cons(g, Cons(h, <<>>)))
    BY TupleThree
  <2>2. CommandFrames = Three("settle", "sendSimple", "ok")
    BY DEF CommandFrames, Three
  <2> QED BY <1>2, <2>1, <2>2
<1>5. CommandFrames \in Seq(Frames)
  BY <1>1, <1>2, <1>4, ConsIs
<1>6. \A c \in Cursors : OpenFrameOf(c) \in Frames
  BY DEF OpenFrameOf, Frames
<1> QED BY <1>1, <1>3, <1>4, <1>5, <1>6, ConsIs

LEMMA TakeList ==
  ASSUME NEW c \in Cursors
  PROVE  {<<"take">>} \subseteq Seq(Frames) /\ Then(OpenFrameOf(c), {<<"take">>}) \subseteq Seq(Frames)
<1>1. OpenFrameOf(c) \in Frames /\ "take" \in Frames
  BY FramesAre DEF Frames
<1>2. {<<"take">>} \subseteq Seq(Frames)
  BY <1>1, FramesAre
<1> QED BY <1>1, <1>2, ThenLists

LEMMA Lists ==
  ASSUME NEW c
  PROVE  /\ InConnect \subseteq Seq(Frames) /\ AfterMode \subseteq Seq(Frames)
         /\ AfterSimple \subseteq Seq(Frames) /\ Queries(c) \subseteq Seq(Frames)
         /\ Then("ok", AfterMode) \subseteq Seq(Frames)
         /\ Then("ok", AfterSimple) \subseteq Seq(Frames)
         /\ Commands(c) \subseteq Seq(Frames) /\ Settles(c) \subseteq Seq(Frames)
         /\ Then("settle", Queries(c)) \subseteq Seq(Frames)
         /\ AfterNextset(c) \subseteq Seq(Frames) /\ AfterTake(c) \subseteq Seq(Frames)
         /\ AfterOpen(c) \subseteq Seq(Frames)
         /\ Then("take", AfterTake(c)) \subseteq Seq(Frames)
<1> USE DEF Frames
<1>1. InConnect \subseteq Seq(Frames) /\ AfterSimple \subseteq Seq(Frames)
  <2>1. "inConnect" \in Frames /\ "inPing" \in Frames
    OBVIOUS
  <2>2. {<<>>, CommandFrames} \subseteq Seq(Frames)
    BY FramesAre
  <2>3. InConnect \subseteq Seq(Frames)
    BY <2>1, <2>2, ThenLists DEF InConnect
  <2>4. AfterSimple \subseteq Seq(Frames)
    BY <2>1, FramesAre DEF AfterSimple
  <2> QED BY <2>3, <2>4
<1>2. AfterMode \subseteq Seq(Frames)
  BY <1>1, FramesAre DEF AfterMode
<1>3. /\ Then("ok", AfterMode) \subseteq Seq(Frames)
      /\ Then("ok", AfterSimple) \subseteq Seq(Frames)
  BY <1>1, <1>2, ThenLists
<1>4. Queries(c) \subseteq Seq(Frames)
  <2>1. CASE c \in Cursors
    <3>2. Then(OpenFrameOf(c), {<<"take">>}) \subseteq Seq(Frames)
      BY <2>1, TakeList
    <3> QED BY <2>1, <3>2, ThenLists DEF Queries
  <2> QED BY <2>1 DEF Queries
<1>5. Commands(c) \subseteq Seq(Frames)
  BY <1>3, <1>4, ThenLists DEF Commands
<1>6. Settles(c) \subseteq Seq(Frames) /\ Then("settle", Queries(c)) \subseteq Seq(Frames)
  BY <1>4, <1>5, ThenLists DEF Settles
<1>7. AfterNextset(c) \subseteq Seq(Frames)
  BY <1>6, FramesAre, ThenLists DEF AfterNextset, Clears
<1>8. AfterTake(c) \subseteq Seq(Frames)
  BY <1>7, FramesAre, ThenLists DEF AfterTake
<1>9. AfterOpen(c) \subseteq Seq(Frames) /\ Then("take", AfterTake(c)) \subseteq Seq(Frames)
  BY <1>6, <1>8, ThenLists DEF AfterOpen
<1> QED BY <1>1, <1>2, <1>3, <1>4, <1>5, <1>6, <1>7, <1>8, <1>9

(* What is left to do is itself a list of the call. *)
LEMMA RestArePlans ==
  ASSUME NEW c, NEW f \in Frames
  PROVE  Rest(f, c) \subseteq Plans(c)
<1> USE DEF Frames
<1>1. {<<>>} \subseteq Plans(c)
  BY FramesAre DEF Plans
<1>2. \A g \in Frames : <<>> \in Rest(g, c) => <<g>> \in Plans(c)
  BY FramesAre, ConsIs DEF Plans
<1>3. CommandFrames \in Plans(c)
  <2>1. Cons("ok", <<>>) \in Then("ok", AfterSimple)
    BY DEF Then, AfterSimple
  <2>2. Cons("sendSimple", Cons("ok", <<>>)) \in Commands(c)
    BY <2>1 DEF Then, Commands
  <2>3. CommandFrames \in Settles(c)
    BY <2>2, FramesAre DEF Then, Settles
  <2>4. Commands(c) \subseteq Rest("settle", c)
    BY DEF Rest
  <2> QED BY <2>3, <2>4, Lists, ThenPlans DEF Settles
<1>4. InConnect \subseteq Plans(c)
  <2>1. {<<>>, CommandFrames} \subseteq Rest("inConnect", c)
    BY DEF Rest
  <2>2. {<<>>, CommandFrames} \subseteq Seq(Frames)
    BY FramesAre
  <2>3. "inConnect" \in Frames
    OBVIOUS
  <2> QED BY <2>1, <2>2, <2>3, ThenPlans DEF InConnect
<1>5. AfterMode \subseteq Plans(c)
  BY <1>1, <1>4 DEF AfterMode
<1>6. AfterSimple \subseteq Plans(c)
  BY <1>1, <1>2 DEF AfterSimple, Rest
<1>7. /\ Then("ok", AfterMode) \subseteq Plans(c)
      /\ Then("ok", AfterSimple) \subseteq Plans(c)
  BY Lists, ThenPlans DEF Rest
<1>8. Then("mode", InConnect) \subseteq Plans(c)
  BY Lists, ThenPlans DEF Rest, AfterMode
<1>9. c \in Cursors => Then(OpenFrameOf(c), {<<"take">>}) \subseteq Plans(c)
  <2> SUFFICES ASSUME c \in Cursors
               PROVE  Then(OpenFrameOf(c), {<<"take">>}) \subseteq Plans(c)
    OBVIOUS
  <2>1. <<"take">> \in Then("take", AfterTake(c))
    BY FramesAre DEF Then, AfterTake
  <2>2. {<<"take">>} \subseteq Rest(OpenFrameOf(c), c)
    BY <2>1 DEF Rest, OpenFrameOf, AfterOpen, OfUnbuffered, Cursors
  <2>3. OpenFrameOf(c) \in Frames /\ {<<"take">>} \subseteq Seq(Frames)
    BY FramesAre, TakeList
  <2> QED BY <2>2, <2>3, ThenPlans
<1>10. Queries(c) \subseteq Plans(c)
  <2> SUFFICES ASSUME c \in Cursors PROVE Queries(c) \subseteq Plans(c)
    BY DEF Queries
  <2>1. Then(OpenFrameOf(c), {<<"take">>}) \subseteq Seq(Frames)
    BY TakeList
  <2>2. Then(OpenFrameOf(c), {<<"take">>}) \subseteq Rest("sendQuery", c)
    BY DEF Rest
  <2> QED BY <2>1, <2>2, ThenPlans DEF Queries
<1>11. Commands(c) \subseteq Plans(c)
  <2>1. Then("sendMode", Then("ok", AfterMode)) \subseteq Plans(c)
    BY Lists, ThenPlans DEF Rest
  <2>2. Then("sendSimple", Then("ok", AfterSimple)) \subseteq Plans(c)
    BY Lists, ThenPlans DEF Rest
  <2> QED BY <1>10, <2>1, <2>2 DEF Commands
<1>12. Settles(c) \subseteq Plans(c) /\ Then("settle", Queries(c)) \subseteq Plans(c)
  <2>1. Queries(c) \subseteq Commands(c) /\ Commands(c) \subseteq Rest("settle", c)
    BY DEF Commands, Rest
  <2> QED BY <2>1, Lists, ThenPlans DEF Settles
<1>13. Clears(c) \subseteq Plans(c)
  BY Lists, ThenPlans DEF Rest, Clears
<1>14. AfterNextset(c) \subseteq Plans(c)
  BY <1>2, <1>13 DEF AfterNextset, Rest
<1>15. AfterTake(c) \subseteq Plans(c)
  <2>1. AfterNextset(c) \subseteq Rest("nextset", c)
    BY DEF Rest
  <2>2. Then("nextset", AfterNextset(c)) \subseteq Plans(c)
    BY <2>1, Lists, ThenPlans
  <2> QED BY <1>1, <2>2 DEF AfterTake
<1>16. Then("take", AfterTake(c)) \subseteq Plans(c) /\ AfterOpen(c) \subseteq Plans(c)
  BY <1>12, Lists, ThenPlans DEF AfterOpen, Rest
<1>17. OfUnbuffered(c, {<<"finish">>}) \subseteq Plans(c)
  BY <1>2 DEF OfUnbuffered, Rest
<1> QED
  BY <1>1, <1>3, <1>5, <1>6, <1>7, <1>8, <1>9, <1>11, <1>12, <1>14, <1>15, <1>16, <1>17
  DEF Rest, OfUnbuffered

-----------------------------------------------------------------------------
(* The ways a list goes on. *)
LEMMA GoesOn ==
  ASSUME PlanOK, todo # <<>>
  PROVE  /\ Head(todo) = Now /\ Now \in Frames /\ Tail(todo) \in Rest(Now, by)
         /\ Tail(todo) \in Seq(Frames)
BY ConsOf DEF PlanOK, Plans, Now

LEMMA DonePlan ==
  ASSUME PlanOK, todo # <<>>, Done
  PROVE  PlanOK' /\ todo' = Tail(todo) /\ (todo' # <<>> => by' = by)
<1>1. /\ Tail(todo) \in Rest(Now, by) /\ Now \in Frames /\ Tail(todo) \in Seq(Frames)
  BY GoesOn
<1>2. <<>> \o Tail(todo) = Tail(todo)
  BY <1>1, ConcatEmptySeq
<1>3. todo' = Tail(todo) /\ by' = IF Tail(todo) = <<>> THEN Nobody ELSE by
  BY <1>2 DEF Done, Go, ToDo
<1>4. Tail(todo) \in Plans(by)
  BY <1>1, RestArePlans
<1>5. CASE Tail(todo) = <<>>
  BY <1>1, <1>3, <1>5 DEF PlanOK, Plans
<1>6. CASE Tail(todo) # <<>>
  BY <1>3, <1>4, <1>6 DEF PlanOK
<1> QED BY <1>3, <1>5, <1>6

LEMMA GoPlan ==
  ASSUME PlanOK, todo # <<>>, NEW f \in Frames, NEW t \in Rest(f, by), t \in Seq(Frames),
         NEW g, Go(g), g \o Tail(todo) = Cons(f, t)
  PROVE  PlanOK' /\ Now' = f /\ Tail(todo') = t /\ todo' = Cons(f, t) /\ by' = by
<1>1. /\ Cons(f, t) \in Seq(Frames) /\ Cons(f, t) # <<>>
      /\ Head(Cons(f, t)) = f /\ Tail(Cons(f, t)) = t
  BY ConsIs
<1>2. todo' = Cons(f, t) /\ by' = by
  BY <1>1 DEF Go, ToDo
<1> QED BY <1>1, <1>2 DEF PlanOK, Plans, Now

LEMMA GoOne ==
  ASSUME PlanOK, todo # <<>>, NEW f \in Frames, Tail(todo) \in Rest(f, by), Go(<<f>>)
  PROVE  PlanOK' /\ Now' = f /\ Tail(todo') = Tail(todo) /\ by' = by
<1>1. Tail(todo) \in Seq(Frames)
  BY GoesOn
<1>2. <<f>> \o Tail(todo) = Cons(f, Tail(todo))
  BY DEF Cons
<1> QED BY <1>1, <1>2, GoPlan

LEMMA GoTwo ==
  ASSUME PlanOK, todo # <<>>, NEW f \in Frames, NEW g \in Frames,
         Cons(g, Tail(todo)) \in Rest(f, by), Go(Two(f, g))
  PROVE  PlanOK' /\ Now' = f /\ Tail(todo') = Cons(g, Tail(todo)) /\ by' = by
<1>1. Tail(todo) \in Seq(Frames)
  BY GoesOn
<1>2. Cons(g, Tail(todo)) \in Seq(Frames)
  BY <1>1, ConsIs
<1>3. Cat(Two(f, g), Tail(todo)) = Cons(f, Cons(g, Tail(todo)))
  BY <1>1, JoinTwo
<1> QED BY <1>2, <1>3, GoPlan DEF Cat

LEMMA GoThree ==
  ASSUME PlanOK, todo # <<>>, NEW f \in Frames, NEW g \in Frames, NEW h \in Frames,
         Cons(g, Cons(h, Tail(todo))) \in Rest(f, by), Go(Three(f, g, h))
  PROVE  /\ PlanOK' /\ Now' = f /\ by' = by
         /\ Tail(todo') = Cons(g, Cons(h, Tail(todo)))
<1>1. Tail(todo) \in Seq(Frames)
  BY GoesOn
<1>2. Cons(g, Cons(h, Tail(todo))) \in Seq(Frames)
  BY <1>1, ConsIs
<1>3. Cat(Three(f, g, h), Tail(todo)) = Cons(f, Cons(g, Cons(h, Tail(todo))))
  <2>1. \A t \in Seq(Frames) : Cat(Three(f, g, h), t) = Cons(f, Cons(g, Cons(h, t)))
    BY JoinThree
  <2> QED BY <1>1, <2>1
<1> QED BY <1>2, <1>3, GoPlan DEF Cat

LEMMA StartLists ==
  /\ ConnectFrames \o CommandFrames \in Seq(Frames)
  /\ ConnectFrames \o CommandFrames =
       Cons("login", Cons("mode", Cons("inConnect", CommandFrames)))
  /\ ConnectFrames = Cons("login", Cons("mode", Cons("inConnect", <<>>)))
  /\ CommandFrames \o <<>> = CommandFrames
  /\ CommandFrames \o <<"inPing">> =
       Cons("settle", Cons("sendSimple", Cons("ok", <<"inPing">>)))
<1>2. /\ "login" \in Frames /\ "mode" \in Frames /\ "inConnect" \in Frames
      /\ "settle" \in Frames /\ "sendSimple" \in Frames /\ "ok" \in Frames
      /\ "inPing" \in Frames
  BY DEF Frames
<1>3. CommandFrames \in Seq(Frames) /\ <<>> \in Seq(Frames) /\ <<"inPing">> \in Seq(Frames)
  BY <1>2, FramesAre
<1>0. /\ CommandFrames = Three("settle", "sendSimple", "ok")
      /\ ConnectFrames = Three("login", "mode", "inConnect")
  BY DEF CommandFrames, ConnectFrames, Three
<1>4. /\ ConnectFrames \o CommandFrames =
           Cons("login", Cons("mode", Cons("inConnect", CommandFrames)))
      /\ ConnectFrames = Cons("login", Cons("mode", Cons("inConnect", <<>>)))
  <2>1. Cat(Three("login", "mode", "inConnect"), CommandFrames) =
           Cons("login", Cons("mode", Cons("inConnect", CommandFrames)))
    BY <1>2, <1>3, JoinThree
  <2>2. Three("login", "mode", "inConnect") =
           Cons("login", Cons("mode", Cons("inConnect", <<>>)))
    BY <1>2, TupleThree
  <2> QED BY <1>0, <2>1, <2>2 DEF Cat
<1>5. CommandFrames \o <<"inPing">> =
       Cons("settle", Cons("sendSimple", Cons("ok", <<"inPing">>)))
  <2>1. \A t \in Seq(Frames) : Cat(Three("settle", "sendSimple", "ok"), t) =
          Cons("settle", Cons("sendSimple", Cons("ok", t)))
    BY <1>2, JoinThree
  <2> QED BY <1>0, <1>3, <2>1 DEF Cat
<1>6. CommandFrames \o <<>> = CommandFrames
  BY <1>3, ConcatEmptySeq
<1>7. ConnectFrames \o CommandFrames \in Seq(Frames)
  BY <1>2, <1>3, <1>4, ConsIs
<1> QED BY <1>4, <1>5, <1>6, <1>7

(* A call begins with a list of its own. *)
LEMMA ConnectPlans ==
  ASSUME NEW c
  PROVE  /\ ConnectFrames \in Plans(c) /\ ConnectFrames \o CommandFrames \in Plans(c)
         /\ CommandFrames \in Plans(c) /\ CommandFrames \o <<"inPing">> \in Plans(c)
         /\ <<"mode">> \in Plans(c) /\ <<>> \in Plans(c)
<1> USE DEF Frames
<1>1. \A t \in {<<>>, CommandFrames} : Cons("login", Cons("mode", Cons("inConnect", t))) \in Plans(c)
  <2> SUFFICES ASSUME NEW t \in {<<>>, CommandFrames}
               PROVE  Cons("login", Cons("mode", Cons("inConnect", t))) \in Plans(c)
    OBVIOUS
  <2>1. Cons("inConnect", t) \in InConnect
    BY DEF InConnect, Then
  <2>2. Cons("mode", Cons("inConnect", t)) \in Then("mode", InConnect)
    BY <2>1 DEF Then
  <2>3. Then("mode", InConnect) \subseteq Seq(Frames)
    BY Lists, ThenLists
  <2>4. Then("login", Then("mode", InConnect)) \subseteq Plans(c)
    BY <2>3, ThenPlans DEF Rest
  <2> QED BY <2>2, <2>4 DEF Then
<1>2. \A t \in {<<>>, <<"inPing">>} : Cons("settle", Cons("sendSimple", Cons("ok", t))) \in Plans(c)
  <2> SUFFICES ASSUME NEW t \in {<<>>, <<"inPing">>}
               PROVE  Cons("settle", Cons("sendSimple", Cons("ok", t))) \in Plans(c)
    OBVIOUS
  <2>1. Cons("ok", t) \in Then("ok", AfterSimple)
    BY DEF AfterSimple, Then
  <2>2. Cons("sendSimple", Cons("ok", t)) \in Commands(c)
    BY <2>1 DEF Then, Commands
  <2>3. Settles(c) \subseteq Plans(c)
    BY Lists, ThenPlans DEF Settles, Rest
  <2> QED BY <2>2, <2>3 DEF Then, Settles
<1>3. <<"mode">> \in Plans(c) /\ <<>> \in Plans(c)
  <2>1. <<"mode">> \in Then("mode", AfterMode)
    BY FramesAre DEF AfterMode, Then
  <2>2. Then("mode", AfterMode) \subseteq Plans(c)
    BY Lists, ThenPlans DEF Rest
  <2> QED BY <2>1, <2>2, FramesAre DEF Plans
<1> QED BY <1>1, <1>2, <1>3, StartLists, FramesAre

LEMMA CursorPlans ==
  ASSUME NEW c \in Cursors
  PROVE  /\ <<"nextset", "clear", "settle", "sendQuery", OpenFrameOf(c), "take">> \in Plans(c)
         /\ <<"nextset", "inClose">> \in Plans(c) /\ <<"advance">> \in Plans(c)
         /\ c \in Unbuffered => <<"finish">> \in Plans(c) /\ <<"fetch">> \in Plans(c)
<1>0. /\ "nextset" \in Frames /\ "clear" \in Frames /\ "settle" \in Frames
      /\ "sendQuery" \in Frames /\ "take" \in Frames /\ "inClose" \in Frames
      /\ "advance" \in Frames /\ "finish" \in Frames /\ "fetch" \in Frames
      /\ OpenFrameOf(c) \in Frames
  BY FramesAre DEF Frames
<1>1. <<"nextset", "clear", "settle", "sendQuery", OpenFrameOf(c), "take">> \in Plans(c)
  <2> DEFINE o == OpenFrameOf(c)
             q == Cons("sendQuery", Cons(o, <<"take">>))
             t == <<"nextset", "clear", "settle", "sendQuery", o, "take">>
             u == Cons("nextset", Cons("clear", Cons("settle", q)))
  <2>1. q \in Queries(c)
    BY DEF Queries, Then
  <2>2. Cons("clear", Cons("settle", q)) \in AfterNextset(c)
    BY <2>1 DEF AfterNextset, Clears, Then
  <2>3. Then("nextset", AfterNextset(c)) \subseteq Plans(c)
    BY <1>0, Lists, ThenPlans DEF Rest
  <2>4. u \in Plans(c)
    BY <2>2, <2>3 DEF Then
  <2>5. t = u
    <3>1. q = Three("sendQuery", o, "take") /\ q \in Seq(Frames)
      <4>1. \A x \in Frames :
              Three("sendQuery", x, "take") = Cons("sendQuery", Cons(x, Cons("take", <<>>)))
        BY <1>0, TupleThree
      <4>2. Three("sendQuery", o, "take") \in Seq(Frames)
        BY <1>0, ThreeIs, Zenon
      <4>3. Cons("take", <<>>) = <<"take">>
        BY <1>0, FramesAre
      <4> QED BY <1>0, <4>1, <4>2, <4>3
    <3>2. u = Cat(Three("nextset", "clear", "settle"), q)
      BY <1>0, <3>1, JoinThree
    <3>3. Three("nextset", "clear", "settle") \in Seq(Frames)
      BY <1>0, ThreeIs
    <3>5. t \in Seq(Frames) /\ Len(t) = 6
      BY <1>0
    <3> HIDE DEF u, q
    <3>6. /\ u \in Seq(Frames) /\ Len(u) = 6
          /\ \A i \in 1 .. 6 : u[i] = IF i <= 3 THEN Three("nextset", "clear", "settle")[i]
                                      ELSE q[i - 3]
      <4>1. Len(q) = 3 /\ Len(Three("nextset", "clear", "settle")) = 3
        BY <3>1 DEF Three
      <4> DEFINE r == Three("nextset", "clear", "settle")
      <4>2. r \in Seq(Frames) /\ q \in Seq(Frames) /\ u = r \o q
        BY <3>1, <3>2, <3>3 DEF Cat
      <4>3. Len(r) = 3 /\ Len(q) = 3
        BY <4>1
      <4> HIDE DEF r
      <4>4. /\ u \in Seq(Frames) /\ Len(u) = Len(r) + Len(q)
            /\ \A i \in 1 .. Len(r) + Len(q) :
                 u[i] = IF i <= Len(r) THEN r[i] ELSE q[i - Len(r)]
        BY <4>2, JoinIs
      <4>5. u \in Seq(Frames) /\ Len(u) = 6 /\ \A i \in 1 .. 6 : u[i] = IF i <= 3 THEN r[i] ELSE q[i - 3]
        BY <4>3, <4>4
      <4> QED BY <4>5 DEF r
    <3>7. /\ q[1] = "sendQuery" /\ q[2] = o /\ q[3] = "take"
      BY <3>1 DEF Three
    <3>8. \A i \in 1 .. 6 : u[i] = t[i]
      BY <3>6, <3>7 DEF Three
    <3> QED BY <3>5, <3>6, <3>8, SeqEqual
  <2> QED BY <2>4, <2>5
<1>2. <<"nextset", "inClose">> \in Plans(c)
  <2>1. <<"nextset", "inClose">> = Cons("nextset", <<"inClose">>)
    <3>1. Two("nextset", "inClose") = Cons("nextset", Cons("inClose", <<>>))
      BY <1>0, TupleTwo
    <3> QED BY <1>0, <3>1, FramesAre DEF Two
  <2>2. Then("nextset", AfterNextset(c)) \subseteq Plans(c)
    BY <1>0, Lists, ThenPlans DEF Rest
  <2> QED BY <2>1, <2>2 DEF Then, AfterNextset
<1>3. \A f \in Frames : <<>> \in Rest(f, c) => <<f>> \in Plans(c)
  BY FramesAre, ConsIs DEF Plans
<1>4. <<"advance">> \in Plans(c)
  BY <1>0, <1>3 DEF Rest
<1>5. c \in Unbuffered => <<"finish">> \in Plans(c) /\ <<"fetch">> \in Plans(c)
  BY <1>0, <1>3 DEF Rest, OfUnbuffered
<1> QED BY <1>1, <1>2, <1>4, <1>5

-----------------------------------------------------------------------------
(* What comes next when the first thing on the list is done. *)
Sends == {"sendMode", "sendSimple", "sendQuery"}
After(f) ==
  CASE f = "login" -> {"mode"}
    [] f = "mode" -> {"idle", "inConnect"}
    [] f = "inConnect" -> {"idle", "settle"}
    [] f = "settle" -> Sends
    [] f \in {"sendMode", "sendSimple"} -> {"ok"}
    [] f = "sendQuery" -> {"open", "openSS"}
    [] f = "ok" -> {"idle", "inConnect", "inPing"}
    [] f \in {"open", "rows", "file", "fileOk", "skip"} -> {"settle", "take"}
    [] f = "openSS" -> {"take"}
    [] f = "take" -> {"idle", "nextset"}
    [] f = "nextset" -> {"clear", "inClose"}
    [] f = "clear" -> {"settle"}
    [] f = "drain" -> {"settle", "finish"}
    [] f \in {"finish", "fetch", "row", "inPing", "inClose", "advance"} -> {"idle"}

First(t) == IF t = <<>> THEN "idle" ELSE Head(t)

LEMMA FirstOfThen ==
  ASSUME NEW f \in Frames, NEW S, S \subseteq Seq(Frames), NEW t \in Then(f, S)
  PROVE  t # <<>> /\ Head(t) = f /\ Tail(t) \in S /\ First(t) = f
<1>1. PICK u \in S : t = Cons(f, u)
  BY DEF Then
<1>2. Cons(f, u) # <<>> /\ Head(Cons(f, u)) = f /\ Tail(Cons(f, u)) = u
  BY ConsIs
<1> QED BY <1>1, <1>2 DEF First

LEMMA FirstOfRest ==
  ASSUME NEW c, NEW f \in Frames, NEW t \in Rest(f, c)
  PROVE  First(t) \in After(f)
<1> USE DEF Frames
<1>1. First(<<>>) = "idle"
  BY DEF First
<1>2. \A u \in InConnect : First(u) = "inConnect"
  <2> DEFINE lists == {<<>>, CommandFrames}
  <2>1. lists \subseteq Seq(Frames) /\ InConnect = Then("inConnect", lists)
    BY FramesAre DEF InConnect
  <2> HIDE DEF lists
  <2>2. "inConnect" \in Frames
    OBVIOUS
  <2> QED BY <2>1, <2>2, FirstOfThen
<1>3. \A u \in AfterMode : First(u) \in {"idle", "inConnect"}
  BY <1>1, <1>2 DEF AfterMode
<1>4. \A u \in {<<"inPing">>, <<"finish">>, <<"inClose">>} :
        First(u) \in {"inPing", "finish", "inClose"}
  BY DEF First
<1>5. First(<<"inPing">>) = "inPing" /\ First(<<"finish">>) = "finish" /\ First(<<"inClose">>) = "inClose"
  BY DEF First
<1>6. First(CommandFrames) = "settle"
  BY DEF First, CommandFrames
<1>7. \A u \in Then("ok", AfterMode) \cup Then("ok", AfterSimple) : First(u) = "ok"
  <2>1. AfterMode \subseteq Seq(Frames) /\ AfterSimple \subseteq Seq(Frames)
    BY Lists
  <2> QED BY <2>1, FirstOfThen
<1>8. \A u \in Queries(c) : First(u) = "sendQuery"
  <2>1. c \in Cursors => Then(OpenFrameOf(c), {<<"take">>}) \subseteq Seq(Frames)
    BY TakeList
  <2> QED BY <2>1, FirstOfThen DEF Queries
<1>9. \A u \in Commands(c) : First(u) \in Sends
  <2>1. \A u \in Then("sendMode", Then("ok", AfterMode)) : First(u) = "sendMode"
    BY Lists, FirstOfThen
  <2>2. \A u \in Then("sendSimple", Then("ok", AfterSimple)) : First(u) = "sendSimple"
    BY Lists, FirstOfThen
  <2> QED BY <1>8, <2>1, <2>2 DEF Commands, Sends
<1>10. /\ \A u \in Settles(c) : First(u) = "settle"
       /\ \A u \in Then("settle", Queries(c)) : First(u) = "settle"
  BY Lists, FirstOfThen DEF Settles
<1>11. \A u \in AfterNextset(c) : First(u) \in {"clear", "inClose"}
  <2>1. \A u \in Clears(c) : First(u) = "clear"
    BY Lists, FirstOfThen DEF Clears
  <2> QED BY <1>5, <2>1 DEF AfterNextset
<1>12. \A u \in AfterTake(c) : First(u) \in {"idle", "nextset"}
  <2>1. \A u \in Then("nextset", AfterNextset(c)) : First(u) = "nextset"
    BY Lists, FirstOfThen
  <2> QED BY <1>1, <2>1 DEF AfterTake
<1>13. \A u \in Then("take", AfterTake(c)) : First(u) = "take"
  BY Lists, FirstOfThen
<1>14. \A u \in AfterOpen(c) : First(u) \in {"settle", "take"}
  BY <1>10, <1>13 DEF AfterOpen
<1>15. \A u \in Then("mode", InConnect) : First(u) = "mode"
  BY Lists, FirstOfThen
<1>16. c \in Cursors => \A u \in Then(OpenFrameOf(c), {<<"take">>}) : First(u) \in {"open", "openSS"}
  <2> SUFFICES ASSUME c \in Cursors, NEW u \in Then(OpenFrameOf(c), {<<"take">>})
               PROVE  First(u) \in {"open", "openSS"}
    OBVIOUS
  <2>1. {<<"take">>} \subseteq Seq(Frames) /\ OpenFrameOf(c) \in Frames
    BY FramesAre
  <2> DEFINE lists == {<<"take">>}
             o == OpenFrameOf(c)
  <2>2. First(u) = o
    <3>1. lists \subseteq Seq(Frames) /\ o \in Frames /\ u \in Then(o, lists)
      BY <2>1
    <3> HIDE DEF lists, o
    <3> QED BY <3>1, FirstOfThen
  <2> QED BY <2>2 DEF OpenFrameOf
<1> QED
  BY <1>1, <1>2, <1>3, <1>5, <1>6, <1>7, <1>9, <1>10, <1>11, <1>12, <1>13, <1>14, <1>15, <1>16
  DEF Rest, After, OfUnbuffered, AfterSimple

LEMMA NowIs ==
  ASSUME NEW f \in Frames
  PROVE  Doing(f) <=> todo # <<>> /\ Now = f
BY DEF Doing, Now

LEMMA DoneMoves ==
  ASSUME PlanOK, todo # <<>>, Done
  PROVE  /\ PlanOK' /\ todo' = Tail(todo) /\ Now' \in After(Now)
         /\ todo' # <<>> => by' = by
<1>1. PlanOK' /\ todo' = Tail(todo) /\ (todo' # <<>> => by' = by)
  BY DonePlan
<1>2. First(Tail(todo)) \in After(Now)
  BY GoesOn, FirstOfRest
<1> QED BY <1>1, <1>2 DEF Now, First

LEMMA Raised ==
  ASSUME PlanOK, NEW c, NEW cs, RaiseWith(c, cs)
  PROVE  /\ PlanOK' /\ Now' \in {"idle", "login"}
         /\ todo' = <<>> \/ todo' = ConnectFrames \o CommandFrames
<1>1. CASE Within("inPing")
  <2>1. ConnectFrames \o CommandFrames \in Plans(by)
    BY ConnectPlans
  <2>2. /\ ConnectFrames \o CommandFrames # <<>>
        /\ Head(ConnectFrames \o CommandFrames) = "login"
    <3>1. "login" \in Frames /\ "mode" \in Frames /\ "inConnect" \in Frames
      BY DEF Frames
    <3>2. Cons("inConnect", CommandFrames) \in Seq(Frames)
      BY <3>1, FramesAre, ConsIs
    <3>3. Cons("mode", Cons("inConnect", CommandFrames)) \in Seq(Frames)
      BY <3>1, <3>2, ConsIs
    <3>4. \A f \in Frames, t \in Seq(Frames) : Cons(f, t) # <<>> /\ Head(Cons(f, t)) = f
      BY ConsIs
    <3> DEFINE rest == Cons("mode", Cons("inConnect", CommandFrames))
    <3>5. ConnectFrames \o CommandFrames = Cons("login", rest) /\ rest \in Seq(Frames)
      BY <3>3, StartLists
    <3> HIDE DEF rest
    <3> QED BY <3>1, <3>4, <3>5
  <2>3. todo' = ConnectFrames \o CommandFrames /\ by' = by
    BY <1>1, <2>2 DEF RaiseWith, ToDo
  <2> QED BY <2>1, <2>2, <2>3 DEF PlanOK, Now
<1>2. CASE ~Within("inPing")
  <2>1. todo' = <<>> /\ by' = Nobody
    BY <1>2 DEF RaiseWith, ToDo
  <2> QED BY <2>1, ConnectPlans DEF PlanOK, Now
<1> QED BY <1>1, <1>2

LEMMA Called ==
  ASSUME NEW c \in Cursors \cup {Nobody}, NEW frames \in Plans(c), Call(c, frames)
  PROVE  PlanOK' /\ Now' = First(frames) /\ Now = "idle" /\ seen.foreign = "none"
<1>1. <<>> \in Plans(Nobody)
  BY ConnectPlans
<1> QED BY <1>1 DEF Call, PlanOK, Now, First, Idle

(* The other ways a call goes on. *)
LEMMA SettleMoves ==
  ASSUME PlanOK, Doing("settle"), NEW f \in {"drain", "open"}, Go(<<f, "settle">>)
  PROVE  PlanOK' /\ Now' = f /\ Tail(todo') = Cons("settle", Tail(todo)) /\ by' = by
<1>1. f \in Frames /\ "settle" \in Frames
  BY DEF Frames
<1>2. Tail(todo) \in Commands(by) /\ todo # <<>>
  BY GoesOn DEF Doing, Rest
<1>3. Cons("settle", Tail(todo)) \in Rest(f, by)
  BY <1>2 DEF Rest, AfterOpen, Settles, Then
<1>4. Go(Two(f, "settle"))
  BY DEF Two
<1> QED BY <1>1, <1>2, <1>3, <1>4, GoTwo

LEMMA SetModeMoves ==
  ASSUME PlanOK, Doing("mode"), Go(<<"settle", "sendMode", "ok">>)
  PROVE  /\ PlanOK' /\ Now' = "settle" /\ by' = by
         /\ Tail(todo') = Cons("sendMode", Cons("ok", Tail(todo)))
<1>1. "settle" \in Frames /\ "sendMode" \in Frames /\ "ok" \in Frames
  BY DEF Frames
<1>2. Tail(todo) \in AfterMode /\ todo # <<>>
  BY GoesOn DEF Doing, Rest
<1>3. Cons("sendMode", Cons("ok", Tail(todo))) \in Rest("settle", by)
  BY <1>2 DEF Rest, Commands, Then
<1>4. Go(Three("settle", "sendMode", "ok"))
  BY DEF Three
<1> QED BY <1>1, <1>2, <1>3, <1>4, GoThree

(* Methods of cursors are called on cursors. *)
LEMMA Caller ==
  ASSUME PlanOK, todo # <<>>
  PROVE  /\ Now \in {"sendQuery", "take", "nextset", "clear", "inClose", "advance"} => by \in Cursors
         /\ Now \in {"openSS", "finish", "fetch", "row"} => by \in Unbuffered
<1>1. Tail(todo) \in Rest(Now, by)
  BY GoesOn
<1>2. by \notin Cursors => Queries(by) = {} /\ Then("settle", Queries(by)) = {}
  BY DEF Queries, Then
<1> QED BY <1>1, <1>2 DEF Rest, AfterTake, AfterNextset, OfUnbuffered

LEMMA AdvanceMoves ==
  ASSUME PlanOK, Doing("nextset") \/ Doing("advance"),
         Go(<<OpenFrame, "take">> \o IF Doing("nextset") THEN <<"nextset">> ELSE <<>>)
  PROVE  /\ PlanOK' /\ Now' = OpenFrame /\ by' = by
         /\ Tail(todo') \in Then("take", AfterTake(by))
<1>1. /\ "take" \in Frames /\ "nextset" \in Frames /\ todo # <<>> /\ by \in Cursors
      /\ OpenFrame \in Frames
  BY Caller, FramesAre DEF Frames, Doing, Now, OpenFrame
<1>2. Then("take", AfterTake(by)) \subseteq Rest(OpenFrame, by)
  BY <1>1 DEF Rest, OpenFrame, OpenFrameOf, AfterOpen, OfUnbuffered, Cursors
<1> DEFINE o == OpenFrame
<1>3. CASE Doing("nextset")
  <2>1. Tail(todo) \in AfterNextset(by)
    BY <1>3, GoesOn DEF Doing, Rest
  <2>0. Cons("take", Cons("nextset", Tail(todo))) \in Then("take", AfterTake(by))
    BY <1>1, <2>1 DEF AfterTake, Then
  <2>2. Cons("take", Cons("nextset", Tail(todo))) \in Rest(o, by)
    BY <1>2, <2>0
  <2>3. <<o, "take">> \o <<"nextset">> = Three(o, "take", "nextset")
    <3>1. ASSUME NEW f \in Frames, NEW g \in Frames, NEW h \in Frames
          PROVE  Two(f, g) \o <<h>> = Three(f, g, h)
      <4>1. <<f>> \in Seq(Frames) /\ <<g>> \in Seq(Frames) /\ <<h>> \in Seq(Frames)
        BY One
      <4>2. (<<f>> \o <<g>>) \o <<h>> = <<f>> \o (<<g>> \o <<h>>)
        BY <4>1, ConcatAssociative
      <4>3. Two(f, g) = <<f>> \o <<g>> /\ Two(g, h) = <<g>> \o <<h>>
        BY TwoIs
      <4>4. Three(f, g, h) = <<f>> \o Two(g, h)
        BY ThreeIs
      <4> QED BY <4>2, <4>3, <4>4, Zenon
    <3> QED BY <1>1, <3>1 DEF Two
  <2>4. Go(Three(o, "take", "nextset"))
    BY <1>3, <2>3
  <2> HIDE DEF o
  <2>5. /\ PlanOK' /\ Now' = o /\ by' = by
        /\ Tail(todo') = Cons("take", Cons("nextset", Tail(todo)))
    BY <1>1, <2>2, <2>4, GoThree DEF o
  <2> QED BY <2>0, <2>5 DEF o
<1>4. CASE ~Doing("nextset")
  <2>1. Tail(todo) \in {<<>>}
    BY <1>4, GoesOn DEF Doing, Rest
  <2>0. Cons("take", Tail(todo)) \in Then("take", AfterTake(by))
    BY <1>1, <2>1 DEF AfterTake, Then
  <2>2. Cons("take", Tail(todo)) \in Rest(o, by)
    BY <1>2, <2>0
  <2>3. <<o, "take">> \o <<>> = Two(o, "take")
    <3>1. Two(o, "take") \in Seq(Frames)
      BY <1>1, TwoIs
    <3> QED BY <3>1, ConcatEmptySeq DEF Two
  <2>4. Go(Two(o, "take"))
    BY <1>4, <2>3
  <2> HIDE DEF o
  <2>5. PlanOK' /\ Now' = o /\ by' = by /\ Tail(todo') = Cons("take", Tail(todo))
    BY <1>1, <2>2, <2>4, GoTwo DEF o
  <2> QED BY <2>0, <2>5 DEF o
<1> QED BY <1>3, <1>4

LEMMA FinishMoves ==
  ASSUME PlanOK, Doing("finish")
  PROVE  /\ by \in Unbuffered
         /\ Go(<<"drain", "finish">>) =>
              PlanOK' /\ Now' = "drain" /\ Tail(todo') = <<"finish">> /\ by' = by
         /\ Go(<<"nextset", "inClose">>) => PlanOK' /\ Now' = "nextset" /\ by' = by
<1>1. /\ "finish" \in Frames /\ "drain" \in Frames /\ "nextset" \in Frames
      /\ "inClose" \in Frames /\ todo # <<>>
  BY DEF Frames, Doing
<1>2. by \in Unbuffered /\ Tail(todo) = <<>>
  BY GoesOn DEF Doing, Rest, OfUnbuffered
<1>3. Cons("finish", <<>>) = <<"finish">> /\ Cons("inClose", <<>>) = <<"inClose">>
  BY <1>1, FramesAre
<1>4. /\ Cons("finish", Tail(todo)) \in Rest("drain", by)
      /\ Cons("inClose", Tail(todo)) \in Rest("nextset", by)
  BY <1>2, <1>3 DEF Rest, OfUnbuffered, AfterNextset, Cursors
<1>5. ASSUME Go(<<"drain", "finish">>)
      PROVE  PlanOK' /\ Now' = "drain" /\ Tail(todo') = <<"finish">> /\ by' = by
  <2>1. Go(Two("drain", "finish"))
    BY <1>5 DEF Two
  <2> QED BY <1>1, <1>2, <1>3, <1>4, <2>1, GoTwo
<1>6. ASSUME Go(<<"nextset", "inClose">>)
      PROVE  PlanOK' /\ Now' = "nextset" /\ by' = by
  <2>1. Go(Two("nextset", "inClose"))
    BY <1>6 DEF Two
  <2> QED BY <1>1, <1>4, <2>1, GoTwo
<1> QED BY <1>2, <1>5, <1>6

(* Reading an answer goes on inside it. *)
LEMMA AnswerMoves ==
  ASSUME PlanOK, NEW f \in {"file", "rows", "fileOk", "skip"},
         Doing("open") \/ (Doing("file") /\ f # "rows") \/ (Doing("openSS") /\ f # "rows"),
         Go(<<f>>)
  PROVE  PlanOK' /\ Now' = f /\ Tail(todo') = Tail(todo) /\ by' = by
<1>1. f \in Frames /\ todo # <<>>
  BY DEF Frames, Doing
<1>2. Tail(todo) \in AfterOpen(by)
  BY GoesOn DEF Doing, Rest, OfUnbuffered, AfterOpen
<1> QED BY <1>1, <1>2, GoOne DEF Rest

LEMMA FetchMoves ==
  ASSUME PlanOK, Doing("fetch"), Go(<<"row">>)
  PROVE  PlanOK' /\ Now' = "row" /\ by' = by
<1>1. "row" \in Frames /\ todo # <<>>
  BY DEF Frames, Doing
<1>2. Tail(todo) \in Rest("row", by)
  BY GoesOn DEF Doing, Rest
<1> QED BY <1>1, <1>2, GoOne

-----------------------------------------------------------------------------
(* What the variables hold.                                                 *)
Kinds == {"ok", "cols", "row", "bad", "huge", "eof", "local", "err"}
Packets == [kind : Kinds, more : BOOLEAN, n : Nat, auto : BOOLEAN, mine : BOOLEAN]
Sayings == [kind : Kinds, more : BOOLEAN]
Conns == [sock : {"none", "open", "dead", "deaf"},
          seq : 0..(SeqMod - 1), mode : BOOLEAN, status : BOOLEAN]
Results == [set : BOOLEAN, active : BOOLEAN, next : BOOLEAN]
Accounts == [open : BOOLEAN, res : BOOLEAN, owed : Nat, ended : BOOLEAN]
Histories == [foreign : {"none", "early", "wrapped"}, torn : BOOLEAN, over : BOOLEAN,
              silent : BOOLEAN]

DataOK ==
  /\ conn \in Conns /\ result \in Results /\ holder \in Cursors \cup {Nobody}
  /\ cursors \in [Cursors -> Accounts] /\ wire \in Seq(Packets)
  /\ link \in {"up", "cut"} /\ autocommit \in BOOLEAN /\ seen \in Histories

(* A cursor's result is the connection's, and there is one to be taken. *)
ResultOK ==
  /\ result.active \/ result.next => result.set
  /\ ~(result.active /\ result.next)
  /\ holder # Nobody => result.set
  /\ Now = "take" =>
       result.set /\ conn.sock = "open" /\ (result.active => by \in Unbuffered)

TypeInv == PlanOK /\ DataOK /\ ResultOK

LEMMA ModRange ==
  ASSUME NEW x \in Nat
  PROVE  x % SeqMod \in 0..(SeqMod - 1)
BY SessionAssumption

LEMMA Raises ==
  ASSUME PlanOK, NEW c \in Conns, NEW cs \in [Cursors -> Accounts], RaiseWith(c, cs)
  PROVE  conn' \in Conns /\ cursors' \in [Cursors -> Accounts]
<1>1. Closed \in Accounts
  BY DEF Closed, Fresh, Accounts
<1>2. cursors' \in [Cursors -> Accounts]
  BY <1>1 DEF RaiseWith
<1>3. [c EXCEPT !.sock = "dead"] \in Conns
  BY DEF Conns
<1> QED BY <1>2, <1>3 DEF RaiseWith

LEMMA ToldType ==
  ASSUME cursors \in [Cursors -> Accounts]
  PROVE  Told \in [Cursors -> Accounts]
BY DEF Told, Accounts

LEMMA WaitingIs ==
  ASSUME wire \in Seq(Packets), NEW p \in Waiting
  PROVE  /\ wire # <<>> /\ p = wire[1] /\ p = Head(wire) /\ p \in Packets
         /\ Tail(wire) \in Seq(Packets) /\ Len(Tail(wire)) = Len(wire) - 1
         /\ \A i \in 1 .. Len(Tail(wire)) : Tail(wire)[i] = wire[i + 1]
         /\ Len(wire) \in Nat \ {0}
<1>1. wire # <<>> /\ p = wire[1] /\ Len(wire) \in Nat \ {0}
  BY EmptySeq DEF Waiting
<1> QED BY <1>1, HeadTailProperties

LEMMA ListIs ==
  ASSUME NEW S, NEW n \in Nat, NEW f \in [1 .. n -> S]
  PROVE  f \in Seq(S) /\ Len(f) = n
OBVIOUS

LEMMA UnreadIs ==
  ASSUME wire \in Seq(Packets)
  PROVE  /\ Unread \in Seq(Packets) /\ Len(Unread) = Len(wire)
         /\ \A i \in 1 .. Len(wire) : Unread[i] = [wire[i] EXCEPT !.mine = FALSE]
         /\ wire = <<>> => Unread = <<>>
<1>1. \A i \in 1 .. Len(wire) : [wire[i] EXCEPT !.mine = FALSE] \in Packets
  <2>1. \A p \in Packets : [p EXCEPT !.mine = FALSE] \in Packets
    BY DEF Packets
  <2>2. \A i \in 1 .. Len(wire) : wire[i] \in Packets
    OBVIOUS
  <2> QED BY <2>1, <2>2
<1>2. Len(wire) \in Nat /\ DOMAIN wire = 1 .. Len(wire)
  OBVIOUS
<1>3. Unread \in [1 .. Len(wire) -> Packets]
  BY <1>1, <1>2 DEF Unread
<1>4. Unread \in Seq(Packets) /\ Len(Unread) = Len(wire)
  BY <1>2, <1>3, ListIs
<1> QED BY <1>2, <1>4, EmptySeq DEF Unread

LEMMA NumberedIs ==
  ASSUME NEW a \in Seq(Sayings), NEW n \in Nat \ {0}, NEW auto \in BOOLEAN
  PROVE  /\ Numbered(a, n, auto) \in Seq(Packets) /\ Len(Numbered(a, n, auto)) = Len(a)
         /\ \A i \in 1 .. Len(a) :
              /\ Numbered(a, n, auto)[i].kind = a[i].kind
              /\ Numbered(a, n, auto)[i].more = a[i].more
              /\ Numbered(a, n, auto)[i].n = n + i - 1
              /\ Numbered(a, n, auto)[i].auto = auto
              /\ Numbered(a, n, auto)[i].mine
<1>1. Len(a) \in Nat /\ DOMAIN a = 1 .. Len(a)
  OBVIOUS
<1>2. \A i \in 1 .. Len(a) : a[i] \in Sayings /\ n + i - 1 \in Nat
  BY <1>1
<1>3. \A i \in 1 .. Len(a) :
        [kind |-> a[i].kind, more |-> a[i].more, n |-> n + i - 1, auto |-> auto, mine |-> TRUE]
          \in Packets
  BY <1>2 DEF Packets, Sayings
<1>4. Numbered(a, n, auto) \in [1 .. Len(a) -> Packets]
  BY <1>1, <1>3 DEF Numbered
<1>5. Numbered(a, n, auto) \in Seq(Packets) /\ Len(Numbered(a, n, auto)) = Len(a)
  BY <1>1, <1>4, ListIs
<1> QED BY <1>1, <1>5 DEF Numbered

LEMMA NumberedTell ==
  ASSUME NEW a \in Seq(Sayings), NEW n \in Nat \ {0}, NEW auto \in BOOLEAN,
         NEW w, w = Numbered(a, n, auto)
  PROVE  w \in Seq(Packets) /\ Len(w) = Len(a) /\ \A i \in 1 .. Len(a) : w[i].auto = auto
<1>1. w \in Seq(Packets) /\ Len(w) = Len(a)
  BY NumberedIs
<1>2. DOMAIN a = 1 .. Len(a)
  OBVIOUS
<1>3. \A i \in 1 .. Len(a) : w[i].auto = auto
  BY <1>2 DEF Numbered
<1> QED BY <1>1, <1>3

LEMMA NumberedFromOne ==
  ASSUME NEW a \in Seq(Sayings), NEW auto \in BOOLEAN, NEW w, w = Numbered(a, 1, auto)
  PROVE  /\ Len(w) = Len(a)
         /\ \A i \in 1 .. Len(a) :
              w[i].kind = a[i].kind /\ w[i].more = a[i].more /\ w[i].n = 1 + i - 1 /\ w[i].mine
<1>1. DOMAIN a = 1 .. Len(a) /\ Len(a) \in Nat
  OBVIOUS
<1>2. w = [i \in 1 .. Len(a) |->
            [kind |-> a[i].kind, more |-> a[i].more, n |-> 1 + i - 1, auto |-> auto, mine |-> TRUE]]
  BY <1>1 DEF Numbered
<1>3. Len(w) = Len(a)
  BY <1>1, <1>2
<1>4. \A i \in 1 .. Len(a) :
        w[i] = [kind |-> a[i].kind, more |-> a[i].more, n |-> 1 + i - 1, auto |-> auto, mine |-> TRUE]
  BY <1>2
<1>5. ASSUME NEW i \in 1 .. Len(a)
      PROVE  w[i].kind = a[i].kind /\ w[i].more = a[i].more /\ w[i].n = 1 + i - 1 /\ w[i].mine
  <2> DEFINE k == a[i].kind
             m == a[i].more
             v == 1 + i - 1
  <2>1. w[i] = [kind |-> k, more |-> m, n |-> v, auto |-> auto, mine |-> TRUE]
    BY <1>4
  <2> HIDE DEF k, m, v
  <2>2. w[i].kind = k /\ w[i].more = m /\ w[i].n = v /\ w[i].mine
    BY <2>1
  <2> QED BY <2>2 DEF k, m, v
<1> QED BY <1>3, <1>5

LEMMA WaitingRows ==
  ASSUME wire \in Seq(Packets)
  PROVE  RowsWaiting \in Nat
<1> DEFINE ends == {i \in DOMAIN wire : wire[i].kind \in {"eof", "err"}}
           rows == {i \in DOMAIN wire : \A e \in ends : i < e}
<1>1. Len(wire) \in Nat /\ rows \subseteq 1 .. Len(wire)
  OBVIOUS
<1>2. IsFiniteSet(1 .. Len(wire))
  BY <1>1, FS_Interval
<1>3. IsFiniteSet(rows)
  BY <1>1, <1>2, FS_Subset
<1>4. Cardinality(rows) \in Nat
  BY <1>3, FS_CardinalityType
<1> QED BY <1>4 DEF RowsWaiting

-----------------------------------------------------------------------------
(* What may follow what in an answer: w is a list of packets, or of what they *)
(* say.                                                                      *)
Firsts == {"ok", "err", "cols", "local"}
InSet == {"row", "bad", "huge", "eof", "err"}
Ends == {"eof", "err"}
Final(p) == p.kind \in {"err", "local"} \/ (p.kind \in {"ok", "eof"} /\ ~p.more)
Follows(p, q) ==
  \/ p.kind \in {"cols", "row", "bad", "huge"} /\ q.kind \in InSet
  \/ p.kind \in {"ok", "eof"} /\ p.more /\ q.kind \in Firsts
Chained(w) == \A i \in 1..(Len(w) - 1) : Follows(w[i], w[i + 1])

(* A set of rows is no longer than MaxRows. *)
SetEnds(w, i) == \E e \in (i + 1)..(i + MaxRows + 1) : e <= Len(w) /\ w[e].kind \in Ends
Begun(w) ==
  /\ w \in Seq(Sayings) /\ Len(w) > 0 /\ Chained(w) /\ w[1].kind \in Firsts
  /\ \A i \in 1..Len(w) : w[i].kind = "cols" => SetEnds(w, i)
Complete(w) == Begun(w) /\ Final(w[Len(w)])
GoingOn(w) == Begun(w) /\ w[Len(w)].kind \in {"ok", "eof"} /\ w[Len(w)].more

LEMMA SingleBegun ==
  ASSUME NEW kind \in {"ok", "err", "local"}, NEW more \in BOOLEAN
  PROVE  /\ Begun(<<P(kind, more)>>) /\ Len(<<P(kind, more)>>) = 1
         /\ <<P(kind, more)>>[1] = P(kind, more)
<1> DEFINE p == P(kind, more)
<1>1. p \in Sayings /\ p.kind = kind
  BY DEF Sayings, Kinds, P
<1> HIDE DEF p
<1>2. <<p>> \in Seq(Sayings) /\ Len(<<p>>) = 1 /\ <<p>>[1] = p
  BY <1>1
<1>3. Begun(<<p>>)
  BY <1>1, <1>2 DEF Begun, Chained, Firsts
<1> QED BY <1>2, <1>3 DEF p

LEMMA Joined ==
  ASSUME NEW v, NEW w, GoingOn(v), Complete(w)
  PROVE  Complete(v \o w)
<1> DEFINE j == v \o w
<1>1. /\ v \in Seq(Sayings) /\ w \in Seq(Sayings) /\ Len(v) \in Nat \ {0} /\ Len(w) \in Nat \ {0}
  BY DEF GoingOn, Complete, Begun
<1>2. /\ j \in Seq(Sayings) /\ Len(j) = Len(v) + Len(w)
      /\ \A i \in 1 .. Len(v) : j[i] = v[i]
      /\ \A i \in 1 .. Len(w) : j[Len(v) + i] = w[i]
  BY <1>1, ConcatProperties
<1> HIDE DEF j
<1>3. Chained(j)
  <2> SUFFICES ASSUME NEW i \in 1 .. Len(j) - 1 PROVE Follows(j[i], j[i + 1])
    BY DEF Chained
  <2>1. CASE i < Len(v)
    <3>1. j[i] = v[i] /\ j[i + 1] = v[i + 1] /\ i \in 1 .. Len(v) - 1
      BY <1>1, <1>2, <2>1
    <3> QED BY <3>1 DEF GoingOn, Begun, Chained
  <2>2. CASE i = Len(v)
    <3>1. j[i] = v[Len(v)] /\ j[i + 1] = w[1]
      BY <1>1, <1>2, <2>2
    <3> QED BY <3>1 DEF GoingOn, Complete, Begun, Follows
  <2>3. CASE i > Len(v)
    <3> DEFINE k == i - Len(v)
    <3>1. k \in 1 .. Len(w) - 1 /\ i = Len(v) + k
      BY <1>1, <1>2, <2>3
    <3>2. j[i] = w[k] /\ j[i + 1] = w[k + 1]
      <4>1. k + 1 \in 1 .. Len(w) /\ k \in 1 .. Len(w) /\ i + 1 = Len(v) + (k + 1)
        BY <1>1, <3>1
      <4> HIDE DEF k
      <4> QED BY <1>2, <3>1, <4>1
    <3> QED BY <3>1, <3>2 DEF Complete, Begun, Chained
  <2> QED BY <1>1, <1>2, <2>1, <2>2, <2>3
<1>4. ASSUME NEW i \in 1 .. Len(j), j[i].kind = "cols"
      PROVE  SetEnds(j, i)
  <2>0. MaxRows \in Nat
    BY SessionAssumption
  <2>1. CASE i <= Len(v)
    <3>1. i \in 1 .. Len(v) /\ v[i].kind = "cols"
      BY <1>1, <1>2, <1>4, <2>1
    <3>2. PICK e \in (i + 1)..(i + MaxRows + 1) : e <= Len(v) /\ v[e].kind \in Ends
      BY <3>1 DEF GoingOn, Begun, SetEnds
    <3>3. e \in 1 .. Len(v) /\ e <= Len(j)
      BY <1>1, <1>2, <3>1, <3>2
    <3> QED BY <1>2, <3>2, <3>3 DEF SetEnds
  <2>2. CASE i > Len(v)
    <3>1. PICK k \in 1 .. Len(w) : i = Len(v) + k
      <4>1. i - Len(v) \in 1 .. Len(w) /\ i = Len(v) + (i - Len(v))
        BY <1>1, <1>2, <2>2
      <4> QED BY <4>1
    <3>2. w[k].kind = "cols"
      BY <1>2, <1>4, <3>1
    <3>3. PICK e \in (k + 1)..(k + MaxRows + 1) : e <= Len(w) /\ w[e].kind \in Ends
      BY <3>2 DEF Complete, Begun, SetEnds
    <3>4. /\ Len(v) + e \in (i + 1)..(i + MaxRows + 1) /\ Len(v) + e <= Len(j)
          /\ e \in 1 .. Len(w)
      BY <1>1, <1>2, <2>0, <3>1, <3>3
    <3>5. j[Len(v) + e].kind \in Ends
      BY <1>2, <3>3, <3>4
    <3> QED BY <3>4, <3>5 DEF SetEnds
  <2> QED BY <1>1, <1>2, <2>1, <2>2
<1>5. j[1].kind \in Firsts /\ Final(j[Len(j)])
  <2>1. j[1] = v[1] /\ j[Len(j)] = w[Len(w)]
    BY <1>1, <1>2
  <2> QED BY <2>1 DEF GoingOn, Complete, Begun
<1>6. Complete(j)
  BY <1>1, <1>2, <1>3, <1>4, <1>5 DEF Complete, Begun
<1> QED BY <1>6 DEF j

(* The number of columns, the rows, and how the set ends. *)
LEMMA SetBegun ==
  ASSUME NEW n \in 0 .. MaxRows, NEW rows \in [1 .. n -> {"row", "bad", "huge"}],
         NEW kind \in Ends, NEW more \in BOOLEAN
  PROVE  /\ Begun(Set(rows, P(kind, more))) /\ Len(Set(rows, P(kind, more))) = n + 2
         /\ Set(rows, P(kind, more))[n + 2] = P(kind, more)
<1> DEFINE last == P(kind, more)
           cols == P("cols", FALSE)
           body == [i \in 1 .. n |-> P(rows[i], FALSE)]
           w == Set(rows, last)
<1>0. MaxRows \in Nat /\ n \in Nat
  BY SessionAssumption
<1>1. cols \in Sayings /\ cols.kind = "cols" /\ last \in Sayings /\ last.kind = kind
  BY DEF Sayings, Kinds, P, Ends
<1>2. \A i \in 1 .. n : P(rows[i], FALSE) \in Sayings /\ P(rows[i], FALSE).kind \in {"row", "bad", "huge"}
  BY DEF Sayings, Kinds, P
<1>3. body \in Seq(Sayings) /\ Len(body) = n /\ \A i \in 1 .. n : body[i] = P(rows[i], FALSE)
  <2>1. body \in [1 .. n -> Sayings]
    BY <1>2
  <2> QED BY <1>0, <2>1, ListIs
<1>4. w = <<cols>> \o body \o <<last>>
  <2>1. DOMAIN rows = 1 .. n
    OBVIOUS
  <2> QED BY <2>1 DEF Set
<1> HIDE DEF cols, body, last, w
<1>5. <<cols>> \in Seq(Sayings) /\ Len(<<cols>>) = 1 /\ <<cols>>[1] = cols
  BY <1>1
<1>6. <<last>> \in Seq(Sayings) /\ Len(<<last>>) = 1 /\ <<last>>[1] = last
  BY <1>1
<1> DEFINE front == <<cols>> \o body
<1>7. /\ front \in Seq(Sayings) /\ Len(front) = n + 1 /\ front[1] = cols
      /\ \A i \in 2 .. n + 1 : front[i] = P(rows[i - 1], FALSE)
  <2>1. /\ front \in Seq(Sayings) /\ Len(front) = 1 + n
        /\ \A i \in 1 .. 1 + n : front[i] = IF i <= 1 THEN cols ELSE body[i - 1]
    BY <1>3, <1>5, ConcatProperties
  <2> HIDE DEF front
  <2>2. ASSUME NEW i \in 2 .. n + 1
        PROVE  front[i] = P(rows[i - 1], FALSE)
    <3>1. i \in 1 .. 1 + n /\ ~(i <= 1) /\ i - 1 \in 1 .. n
      BY <1>0
    <3>2. front[i] = body[i - 1]
      BY <2>1, <3>1
    <3> QED BY <1>3, <3>1, <3>2
  <2>3. Len(front) = n + 1 /\ front[1] = cols
    BY <1>0, <2>1
  <2> QED BY <2>1, <2>2, <2>3
<1>8. /\ w \in Seq(Sayings) /\ Len(w) = n + 2 /\ w[1] = cols /\ w[n + 2] = last
      /\ \A i \in 2 .. n + 1 : w[i] = P(rows[i - 1], FALSE)
  <2>1. front \in Seq(Sayings) /\ Len(front) = n + 1 /\ w = front \o <<last>>
    BY <1>4, <1>7
  <2> HIDE DEF front
  <2>2. /\ w \in Seq(Sayings) /\ Len(w) = (n + 1) + 1
        /\ \A i \in 1 .. (n + 1) + 1 : w[i] = IF i <= n + 1 THEN front[i] ELSE <<last>>[i - (n + 1)]
    BY <1>6, <2>1, ConcatProperties
  <2>3. w[1] = cols /\ w[n + 2] = last
    <3>1. 1 \in 1 .. (n + 1) + 1 /\ 1 <= n + 1 /\ n + 2 \in 1 .. (n + 1) + 1
          /\ ~(n + 2 <= n + 1) /\ (n + 2) - (n + 1) = 1
      BY <1>0
    <3> QED BY <1>6, <1>7, <2>2, <3>1
  <2>4. ASSUME NEW i \in 2 .. n + 1
        PROVE  w[i] = P(rows[i - 1], FALSE)
    <3>1. i \in 1 .. (n + 1) + 1 /\ i <= n + 1
      BY <1>0
    <3> QED BY <1>7, <2>2, <3>1
  <2>5. Len(w) = n + 2
    BY <1>0, <2>2
  <2> QED BY <2>2, <2>3, <2>4, <2>5
<1>9. ASSUME NEW i \in 2 .. n + 1
      PROVE  w[i].kind \in {"row", "bad", "huge"}
  <2>1. i - 1 \in 1 .. n
    BY <1>0
  <2> QED BY <1>2, <1>8, <2>1
<1>10. Chained(w)
  <2>1. ASSUME NEW i \in 1 .. n + 1
        PROVE  w[i].kind \in {"cols", "row", "bad", "huge"} /\ w[i + 1].kind \in InSet
    BY <1>0, <1>1, <1>8, <1>9 DEF InSet, Ends
  <2> QED BY <1>0, <1>8, <2>1 DEF Chained, Follows
<1>11. ASSUME NEW i \in 1 .. Len(w), w[i].kind = "cols"
       PROVE  SetEnds(w, i)
  <2>1. i = 1
    BY <1>0, <1>1, <1>8, <1>9, <1>11 DEF Ends
  <2>2. n + 2 \in 2 .. MaxRows + 2 /\ w[n + 2].kind \in Ends
    BY <1>0, <1>1, <1>8
  <2> QED BY <1>0, <1>8, <2>1, <2>2 DEF SetEnds
<1>12. Begun(w)
  BY <1>0, <1>1, <1>8, <1>10, <1>11 DEF Begun, Firsts
<1> QED BY <1>8, <1>12 DEF w, last

LEMMA AnswersAre ==
  /\ \A a \in Finals : Complete(a) /\ Len(a) = 1 /\ a[1].kind \in {"ok", "err"} /\ ~a[1].more
  /\ \A a \in QueryAnswers : Complete(a)
<1>0. MaxRows \in Nat /\ MaxRows >= 1
  BY SessionAssumption
<1>1. ASSUME NEW kind \in {"ok", "err", "local"}
      PROVE  /\ Complete(<<P(kind, FALSE)>>) /\ Len(<<P(kind, FALSE)>>) = 1
             /\ <<P(kind, FALSE)>>[1].kind = kind /\ ~<<P(kind, FALSE)>>[1].more
  <2> DEFINE a == <<P(kind, FALSE)>>
  <2>1. Begun(a) /\ Len(a) = 1 /\ a[1] = P(kind, FALSE)
    BY SingleBegun
  <2>2. P(kind, FALSE).kind = kind /\ ~P(kind, FALSE).more
    BY DEF P
  <2> HIDE DEF a
  <2>3. Complete(a)
    BY <2>1, <2>2 DEF Complete, Final
  <2>4. a[1].kind = kind /\ ~a[1].more
    BY <2>1, <2>2
  <2> QED BY <2>1, <2>3, <2>4 DEF a
<1>2. \A a \in Finals : Complete(a) /\ Len(a) = 1 /\ a[1].kind \in {"ok", "err"} /\ ~a[1].more
  BY <1>1 DEF Finals
<1>3. Complete(<<P("local", FALSE)>>)
  BY <1>1
<1>4. ASSUME NEW rows \in RowLists, NEW last \in Endings
      PROVE  Complete(Set(rows, last))
  <2>1. PICK n \in 0 .. MaxRows : rows \in [1 .. n -> {"row", "bad", "huge"}]
    <3>1. CASE rows = <<>>
      <4>1. rows \in [1 .. 0 -> {"row", "bad", "huge"}]
        BY <3>1
      <4> QED BY <1>0, <4>1
    <3>2. CASE rows # <<>>
      <4> DEFINE lists(n) ==
            {[[i \in 1 .. n |-> "row"] EXCEPT ![j] = kind] :
               j \in 1 .. n, kind \in {"row", "bad", "huge"}}
      <4>0. PICK n \in 1 .. MaxRows : rows \in lists(n)
        <5>1. RowLists = {<<>>} \cup UNION {lists(n) : n \in 1 .. MaxRows}
          BY DEF RowLists
        <5> HIDE DEF lists
        <5> QED BY <3>2, <5>1
      <4>1. PICK j \in 1 .. n, kind \in {"row", "bad", "huge"} :
              rows = [[i \in 1 .. n |-> "row"] EXCEPT ![j] = kind]
        BY <4>0
      <4> QED BY <1>0, <4>1
    <3> QED BY <3>1, <3>2
  <2>2. PICK kind \in Ends : last = P(kind, FALSE)
    BY DEF Endings, Ends
  <2>3. /\ Begun(Set(rows, last)) /\ Len(Set(rows, last)) = n + 2
        /\ Set(rows, last)[n + 2] = last
    BY <2>1, <2>2, SetBegun
  <2>4. Final(last)
    BY <2>2 DEF Final, P, Ends
  <2> QED BY <2>3, <2>4 DEF Complete
<1>5. /\ <<"row">> \in [1 .. 1 -> {"row", "bad", "huge"}] /\ 1 \in 0 .. MaxRows
      /\ <<>> \in [1 .. 0 -> {"row", "bad", "huge"}] /\ 0 \in 0 .. MaxRows
      /\ "eof" \in Ends
  BY <1>0 DEF Ends
<1>6. GoingOn(Set(<<"row">>, P("eof", TRUE))) /\ GoingOn(Set(<<>>, P("eof", TRUE)))
  <2>1. P("eof", TRUE).kind = "eof" /\ P("eof", TRUE).more
    BY DEF P
  <2>2. ASSUME NEW n \in 0 .. MaxRows, NEW rows \in [1 .. n -> {"row", "bad", "huge"}]
        PROVE  GoingOn(Set(rows, P("eof", TRUE)))
    <3> DEFINE s == Set(rows, P("eof", TRUE))
    <3>1. Begun(s) /\ Len(s) = n + 2 /\ s[n + 2] = P("eof", TRUE)
      BY <1>5, SetBegun
    <3> HIDE DEF s
    <3>2. GoingOn(s)
      BY <2>1, <3>1 DEF GoingOn
    <3> QED BY <3>2 DEF s
  <2> QED BY <1>5, <2>2
<1>7. Complete(Set(<<"row">>, P("eof", FALSE)))
  <2>1. P("eof", FALSE).kind = "eof" /\ ~P("eof", FALSE).more
    BY DEF P
  <2>2. ASSUME NEW n \in 0 .. MaxRows, NEW rows \in [1 .. n -> {"row", "bad", "huge"}]
        PROVE  Complete(Set(rows, P("eof", FALSE)))
    <3> DEFINE s == Set(rows, P("eof", FALSE))
    <3>1. Begun(s) /\ Len(s) = n + 2 /\ s[n + 2] = P("eof", FALSE)
      BY <1>5, SetBegun
    <3> HIDE DEF s
    <3>2. Complete(s)
      BY <2>1, <3>1 DEF Complete, Final
    <3> QED BY <3>2 DEF s
  <2> QED BY <1>5, <2>2
<1>8. GoingOn(<<P("ok", TRUE)>>)
  <2>1. P("ok", TRUE).kind = "ok" /\ P("ok", TRUE).more
    BY DEF P
  <2> QED BY <2>1, SingleBegun DEF GoingOn
<1>9. \A a \in Continued : Complete(a)
  <2>0. \A v, w : GoingOn(v) /\ Complete(w) => Complete(v \o w)
    BY Joined
  <2> DEFINE v == Set(<<>>, P("eof", TRUE))
             w == Set(<<"row">>, P("eof", FALSE))
             begun == {<<P("ok", TRUE)>>, Set(<<"row">>, P("eof", TRUE))}
  <2>1. \A f \in begun, a \in Finals : Complete(f \o a)
    BY <1>2, <1>6, <1>8, <2>0
  <2>2. Complete(v \o w)
    <3>1. GoingOn(v) /\ Complete(w)
      BY <1>6, <1>7
    <3> HIDE DEF v, w
    <3> QED BY <2>0, <3>1
  <2>3. Continued = {f \o a : f \in begun, a \in Finals} \cup {v \o w}
    BY DEF Continued
  <2> HIDE DEF begun, v, w
  <2> SUFFICES ASSUME NEW c \in Continued PROVE Complete(c)
    OBVIOUS
  <2>4. c = v \o w \/ \E f \in begun, a \in Finals : c = f \o a
    BY <2>3
  <2> QED BY <2>1, <2>2, <2>4
<1> DEFINE sets == {Set(rows, last) : rows \in RowLists, last \in Endings}
<1>10. \A a \in sets : Complete(a)
  BY <1>4
<1>11. QueryAnswers = Finals \cup sets \cup Continued \cup {<<P("local", FALSE)>>}
  BY DEF QueryAnswers
<1> HIDE DEF sets
<1> QED BY <1>2, <1>3, <1>9, <1>10, <1>11

-----------------------------------------------------------------------------
(* The types are kept. *)
LEMMA ConnTypes ==
  ASSUME conn \in Conns
  PROVE  /\ ForceClosed \in Conns /\ Connected \in Conns
         /\ \A on \in BOOLEAN : /\ [Connected EXCEPT !.status = on] \in Conns
                                /\ [conn EXCEPT !.mode = on] \in Conns
         /\ \A n \in 0 .. SeqMod - 1 : [conn EXCEPT !.seq = n] \in Conns
         /\ \A s \in {"none", "open", "dead", "deaf"} :
              /\ [conn EXCEPT !.sock = s] \in Conns
              /\ \A on \in BOOLEAN : [conn EXCEPT !.sock = s, !.status = on] \in Conns
<1>1. NextSeq \in 0 .. SeqMod - 1
  <2>1. conn.seq + 1 \in Nat
    BY SessionAssumption DEF Conns
  <2> QED BY <2>1, ModRange DEF NextSeq
<1> QED BY <1>1 DEF ForceClosed, Connected, Conns

LEMMA TakenType ==
  ASSUME wire \in Seq(Packets), seen \in Histories, NEW p \in Waiting, Taken(p)
  PROVE  wire' \in Seq(Packets) /\ seen' \in Histories
<1>1. wire' \in Seq(Packets) /\ p \in Packets
  BY WaitingIs DEF Taken
<1>2. seen' \in Histories
  BY <1>1 DEF Taken, Histories
<1> QED BY <1>1, <1>2

LEMMA RaiseType ==
  ASSUME TypeInv, NEW c \in Conns, Raise(c)
  PROVE  /\ PlanOK' /\ Now' \in {"idle", "login"}
         /\ conn' \in Conns /\ cursors' \in [Cursors -> Accounts]
<1>1. Told \in [Cursors -> Accounts]
  BY ToldType DEF TypeInv, DataOK
<1> QED BY <1>1, Raised, Raises DEF Raise, TypeInv

LEMMA ReadingTypes ==
  ASSUME TypeInv, ReadRaises
  PROVE  TypeInv' /\ Now' \in {"idle", "login"}
<1>1. ASSUME NEW c \in Conns, Raise(c), wire' \in Seq(Packets), seen' \in Histories,
             result' \in {result, [result EXCEPT !.active = FALSE]},
             UNCHANGED <<holder, link, autocommit>>
      PROVE  TypeInv' /\ Now' \in {"idle", "login"}
  <2>1. /\ PlanOK' /\ Now' \in {"idle", "login"}
        /\ conn' \in Conns /\ cursors' \in [Cursors -> Accounts]
    BY <1>1, RaiseType
  <2>2. DataOK'
    BY <1>1, <2>1 DEF TypeInv, DataOK, Results
  <2>3. ResultOK'
    BY <1>1, <2>1 DEF TypeInv, DataOK, ResultOK, Results
  <2> QED BY <2>1, <2>2, <2>3 DEF TypeInv
<1>2. ForceClosed \in Conns /\ Connected \in Conns /\ conn \in Conns
  BY ConnTypes DEF TypeInv, DataOK
<1>3. <<>> \in Seq(Packets) /\ wire \in Seq(Packets) /\ seen \in Histories
  BY EmptySeq DEF TypeInv, DataOK
<1>4. UNCHANGED <<holder, link, autocommit>>
  BY DEF ReadRaises
<1>5. CASE /\ Raise(IF conn.sock = "deaf" THEN ForceClosed ELSE conn)
           /\ UNCHANGED <<wire, result, seen>>
  BY <1>1, <1>2, <1>3, <1>4, <1>5
<1>6. CASE Raise(ForceClosed) /\ wire' = <<>> /\ UNCHANGED <<result, seen>>
  BY <1>1, <1>2, <1>3, <1>4, <1>6
<1>7. ASSUME NEW p \in Waiting, Taken(p), Raise(Connected),
             result' = [result EXCEPT !.active = FALSE]
      PROVE  TypeInv' /\ Now' \in {"idle", "login"}
  <2>1. wire' \in Seq(Packets) /\ seen' \in Histories
    BY <1>3, <1>7, TakenType
  <2> QED BY <1>1, <1>2, <1>4, <1>7, <2>1
<1> QED BY <1>5, <1>6, <1>7 DEF ReadRaises

LEMMA BreakingTypes ==
  ASSUME TypeInv, SendRaises \/ Unreachable \/ Refused
  PROVE  TypeInv' /\ Now' \in {"idle", "login"} /\ wire' = <<>>
<1>1. ASSUME NEW c \in Conns, Raise(c), wire' = <<>>, link' \in {"up", "cut"},
             UNCHANGED <<result, holder, autocommit, seen>>
      PROVE  TypeInv' /\ Now' \in {"idle", "login"}
  <2>1. /\ PlanOK' /\ Now' \in {"idle", "login"}
        /\ conn' \in Conns /\ cursors' \in [Cursors -> Accounts]
    BY <1>1, RaiseType
  <2>2. DataOK'
    BY <1>1, <2>1, EmptySeq DEF TypeInv, DataOK
  <2>3. ResultOK'
    BY <1>1, <2>1 DEF TypeInv, ResultOK
  <2> QED BY <2>1, <2>2, <2>3 DEF TypeInv
<1>2. /\ ForceClosed \in Conns /\ conn \in Conns /\ link \in {"up", "cut"}
      /\ \A s \in {"none", "open", "dead", "deaf"} : [conn EXCEPT !.sock = s] \in Conns
  BY ConnTypes DEF TypeInv, DataOK
<1>3. CASE SendRaises
  <2>1. (IF conn.sock = "dead" THEN conn ELSE ForceClosed) \in Conns
    BY <1>2
  <2> QED BY <1>1, <1>2, <1>3, <2>1 DEF SendRaises
<1>4. CASE Unreachable
  <2>1. (IF conn.sock = "open" THEN [conn EXCEPT !.sock = "deaf"] ELSE conn) \in Conns
    BY <1>2
  <2> QED BY <1>1, <1>2, <1>4, <2>1 DEF Unreachable
<1>5. CASE Refused
  <2>1. PICK s \in {"open", "none"} : Raise([conn EXCEPT !.sock = s])
    BY <1>5 DEF Refused
  <2>2. [conn EXCEPT !.sock = s] \in Conns
    BY <1>2
  <2> QED BY <1>1, <1>5, <2>1, <2>2 DEF Refused
<1> QED BY <1>3, <1>4, <1>5

LEMMA SendMoves ==
  ASSUME PlanOK, Send
  PROVE  /\ PlanOK' /\ todo # <<>> /\ todo' = Tail(todo)
         /\ Now \in Sends /\ Now' \in {"ok", "open", "openSS"}
         /\ Now' = "ok" <=> Now # "sendQuery"
<1>1. todo # <<>> /\ Now \in Sends
  BY DEF Send, Sending, Doing, Now, Sends
<1> QED BY <1>1, DoneMoves DEF Send, After, Sends

LEMMA SendWire ==
  ASSUME DataOK, Send, link = "up"
  PROVE  \E a \in Answers : \E auto \in Effect(a) :
           /\ Complete(a) /\ auto \in BOOLEAN /\ autocommit' = auto
           /\ Numbered(a, 1, auto) \in Seq(Packets)
           /\ wire' = Unread \o Numbered(a, 1, auto) /\ wire' \in Seq(Packets)
           /\ seen' = [seen EXCEPT !.silent = conn.status # auto /\ (@ \/ SaysNothing(a))]
<1>1. PICK a \in Answers : \E auto \in Effect(a) :
        /\ autocommit' = auto /\ wire' = Unread \o Numbered(a, 1, auto)
        /\ seen' = [seen EXCEPT !.silent = conn.status # auto /\ (@ \/ SaysNothing(a))]
  BY DEF Send
<1>2. PICK auto \in Effect(a) :
        /\ autocommit' = auto /\ wire' = Unread \o Numbered(a, 1, auto)
        /\ seen' = [seen EXCEPT !.silent = conn.status # auto /\ (@ \/ SaysNothing(a))]
  BY <1>1
<1>3. Complete(a)
  BY AnswersAre DEF Answers
<1>4. auto \in BOOLEAN
  BY DEF Effect, DataOK, Conns
<1>5. Numbered(a, 1, auto) \in Seq(Packets)
  BY <1>3, <1>4, NumberedIs DEF Complete, Begun
<1>6. Unread \in Seq(Packets)
  BY UnreadIs DEF DataOK
<1>7. wire' \in Seq(Packets)
  BY <1>2, <1>5, <1>6, ConcatProperties
<1> QED BY <1>2, <1>3, <1>4, <1>5, <1>7

LEMMA SendTypes ==
  ASSUME TypeInv, Send
  PROVE  TypeInv'
<1>1. PlanOK' /\ Now' # "take"
  BY SendMoves DEF TypeInv
<1>2. conn' \in Conns
  <2>1. 1 \in 0 .. SeqMod - 1
    BY SessionAssumption
  <2>2. conn' = [conn EXCEPT !.seq = 1] /\ conn \in Conns
    BY DEF TypeInv, DataOK, Send
  <2> QED BY <2>1, <2>2, ConnTypes
<1>3. wire' \in Seq(Packets) /\ autocommit' \in BOOLEAN /\ seen' \in Histories
  <2>1. CASE link = "up"
    <3>1. \E auto \in BOOLEAN : /\ autocommit' = auto /\ wire' \in Seq(Packets)
            /\ \E b \in BOOLEAN : seen' = [seen EXCEPT !.silent = b]
      BY <2>1, SendWire DEF TypeInv
    <3> QED BY <3>1 DEF TypeInv, DataOK, Histories
  <2>2. CASE link # "up"
    BY <2>2, UnreadIs DEF TypeInv, DataOK, Send
  <2> QED BY <2>1, <2>2
<1>4. DataOK' /\ ResultOK'
  BY <1>1, <1>2, <1>3 DEF TypeInv, DataOK, ResultOK, Send
<1> QED BY <1>1, <1>4 DEF TypeInv


(* What SendFile, the readers of results and the others do to the call. *)
LEMMA FileMoves ==
  ASSUME PlanOK, SendFile
  PROVE  /\ PlanOK' /\ todo # <<>> /\ Now = "file" /\ Now' \in {"fileOk", "skip"}
         /\ Tail(todo') = Tail(todo) /\ by' = by
<1>1. todo # <<>> /\ Now = "file" /\ Doing("file")
  BY DEF SendFile, Doing, Now
<1>2. Go(<<"fileOk">>) \/ Go(<<"skip">>)
  BY DEF SendFile
<1> QED BY <1>1, <1>2, AnswerMoves

LEMMA FileTypes ==
  ASSUME TypeInv, SendFile
  PROVE  TypeInv'
<1>1. PlanOK' /\ Now' # "take"
  BY FileMoves DEF TypeInv
<1>2. PICK packets \in {1, 2}, final \in Finals :
        /\ wire' = wire \o Numbered(final, conn.seq + packets, autocommit)
        /\ conn' = [conn EXCEPT !.seq = (@ + packets) % SeqMod]
  BY DEF SendFile
<1>3. conn.seq + packets \in Nat \ {0} /\ conn \in Conns /\ conn.seq \in Nat
  BY SessionAssumption DEF TypeInv, DataOK, Conns
<1>4. conn' \in Conns
  <2>1. (conn.seq + packets) % SeqMod \in 0 .. SeqMod - 1
    BY <1>3, ModRange
  <2> QED BY <1>2, <1>3, <2>1, ConnTypes
<1>5. wire' \in Seq(Packets)
  <2>1. final \in Seq(Sayings) /\ autocommit \in BOOLEAN /\ wire \in Seq(Packets)
    BY AnswersAre DEF TypeInv, DataOK, Complete, Begun
  <2>2. Numbered(final, conn.seq + packets, autocommit) \in Seq(Packets)
    BY <1>3, <2>1, NumberedIs
  <2> QED BY <1>2, <2>1, <2>2, ConcatProperties
<1>6. DataOK' /\ ResultOK'
  BY <1>1, <1>4, <1>5 DEF TypeInv, DataOK, ResultOK, SendFile
<1> QED BY <1>1, <1>6 DEF TypeInv

(* What a reader may do, having got a packet. *)
LEMMA GotTypes ==
  ASSUME TypeInv, NEW what, NEW p \in Waiting, Got(what, p),
         conn' \in {Connected, [Connected EXCEPT !.status = p.auto]},
         cursors' \in [Cursors -> Accounts], result' \in Results,
         UNCHANGED <<holder, link, autocommit>>
  PROVE  DataOK'
<1>1. wire' \in Seq(Packets) /\ seen' \in Histories
  BY TakenType DEF TypeInv, DataOK, Got
<1>2. p.auto \in BOOLEAN
  BY WaitingIs DEF TypeInv, DataOK, Packets
<1>3. conn' \in Conns
  BY <1>2, ConnTypes DEF TypeInv, DataOK
<1> QED BY <1>1, <1>3 DEF TypeInv, DataOK

LEMMA GotRaises ==
  ASSUME TypeInv, NEW what, NEW p \in Waiting, Got(what, p), Raise(Connected),
         UNCHANGED <<result, holder, link, autocommit>>
  PROVE  TypeInv' /\ Now' \in {"idle", "login"}
<1>1. /\ PlanOK' /\ Now' \in {"idle", "login"}
      /\ conn' \in Conns /\ cursors' \in [Cursors -> Accounts]
  BY RaiseType, ConnTypes DEF TypeInv, DataOK
<1>2. wire' \in Seq(Packets) /\ seen' \in Histories
  BY TakenType DEF TypeInv, DataOK, Got
<1>3. DataOK' /\ ResultOK'
  BY <1>1, <1>2 DEF TypeInv, DataOK, ResultOK
<1> QED BY <1>1, <1>3 DEF TypeInv

(* The last packet of a result is stored with it, and the call goes on. *)
LEMMA StoredTypes ==
  ASSUME TypeInv, NEW what, NEW p \in Waiting, Got(what, p),
         conn' \in {Connected, [Connected EXCEPT !.status = p.auto]},
         cursors' \in [Cursors -> Accounts],
         NEW active \in BOOLEAN, NEW next \in BOOLEAN, Stored(active, next), ~(active /\ next),
         active => by \in Unbuffered, PlanOK', Now' = "take" => by' = by,
         UNCHANGED <<holder, link, autocommit>>
  PROVE  TypeInv'
<1>1. result' = Result(active, next) /\ result' \in Results
  BY DEF Stored, Result, Results
<1>2. DataOK'
  BY <1>1, GotTypes
<1>3. conn'.sock = "open"
  BY DEF Got, Connected, TypeInv, DataOK, Conns
<1>4. ResultOK'
  BY <1>1, <1>3 DEF ResultOK, Result
<1> QED BY <1>2, <1>4 DEF TypeInv


LEMMA Bytes ==
  ASSUME NEW p \in Packets
  PROVE  /\ IsOk(p) <=> p.kind = "ok"
         /\ IsLocal(p) <=> p.kind = "local"
         /\ IsError(p) <=> p.kind = "err"
         /\ IsEof(p) <=> p.kind = "eof"
<1>1. p.kind \in Kinds
  BY DEF Packets
<1> QED BY <1>1 DEF Kinds, IsOk, IsLocal, IsError, IsEof, FirstByte

(* What the first packet of a result leads to. *)
OpenOk(p) ==
  /\ p.kind = "ok" /\ Stored(FALSE, p.more) /\ conn' = [Connected EXCEPT !.status = p.auto]
  /\ cursors' = cursors /\ todo' = Tail(todo) /\ Now' \in {"settle", "take"}
OpenLocal(p) ==
  /\ p.kind = "local" /\ Now' = "file" /\ Tail(todo') = Tail(todo) /\ by' = by
  /\ conn' = Connected /\ UNCHANGED <<result, cursors>>
OpenUnbuffered(p) ==
  /\ p.kind = "cols" /\ Now = "openSS" /\ by \in Unbuffered /\ by' = by
  /\ Stored(TRUE, FALSE) /\ conn' = Connected /\ cursors' = cursors
  /\ todo' = Tail(todo) /\ Now' = "take"
OpenBuffered(p) ==
  /\ p.kind = "cols" /\ Now = "open" /\ Now' = "rows" /\ Tail(todo') = Tail(todo) /\ by' = by
  /\ conn' = Connected /\ UNCHANGED <<result, cursors>>
OpenRaises(p) ==
  /\ p.kind \notin {"ok", "local", "cols", "err"} /\ Raise(Connected) /\ UNCHANGED result
  /\ Now' \in {"idle", "login"}

LEMMA OpenTypes ==
  ASSUME TypeInv, Open
  PROVE  /\ TypeInv' /\ todo # <<>>
         /\ \E what \in {"open", "openSS"}, p \in Waiting :
              /\ Got(what, p) /\ UNCHANGED <<holder, link, autocommit>>
              /\ Now = what /\ Doing(what)
              /\ \/ OpenOk(p) \/ OpenLocal(p) \/ OpenUnbuffered(p)
                 \/ OpenBuffered(p) \/ OpenRaises(p)
<1>1. PICK what \in {"open", "openSS"}, p \in Waiting :
    /\ Got(what, p)
    /\ CASE IsOk(p) ->
              /\ Stored(FALSE, p.more) /\ Done
              /\ conn' = [Connected EXCEPT !.status = p.auto]
              /\ UNCHANGED cursors
         [] IsLocal(p) ->
              Go(<<"file">>) /\ conn' = Connected /\ UNCHANGED <<result, cursors>>
         [] Describes(p) ->
              /\ IF what = "openSS" THEN Stored(TRUE, FALSE) /\ Done
                                    ELSE Go(<<"rows">>) /\ UNCHANGED result
              /\ conn' = Connected /\ UNCHANGED cursors
         [] Malformed(p) -> Raise(Connected) /\ UNCHANGED result
    /\ UNCHANGED <<holder, link, autocommit>>
  BY DEF Open
<1>2. /\ todo # <<>> /\ Doing(what) /\ Now = what /\ PlanOK /\ cursors \in [Cursors -> Accounts]
      /\ p \in Packets /\ p.more \in BOOLEAN /\ ~IsError(p) /\ result \in Results
  BY <1>1, WaitingIs DEF Got, Doing, Now, TypeInv, DataOK, Packets
<1>3. /\ IsOk(p) <=> p.kind = "ok"
      /\ IsLocal(p) <=> p.kind = "local"
      /\ IsError(p) <=> p.kind = "err"
      /\ Describes(p) <=> p.kind = "cols"
      /\ Malformed(p) <=> p.kind \notin {"ok", "local", "cols"}
  BY <1>2, Bytes DEF Describes, Malformed
<1>4. CASE p.kind = "ok"
  <2>1. /\ Stored(FALSE, p.more) /\ Done
        /\ conn' = [Connected EXCEPT !.status = p.auto] /\ cursors' = cursors
    BY <1>1, <1>3, <1>4
  <2>2. /\ PlanOK' /\ todo' = Tail(todo) /\ Now' \in {"settle", "take"}
        /\ (todo' # <<>> => by' = by)
    BY <1>2, <2>1, DoneMoves DEF After
  <2>3. Now' = "take" => by' = by
    BY <2>2 DEF Now
  <2>4. TypeInv'
    BY <1>1, <1>2, <2>1, <2>2, <2>3, StoredTypes
  <2>5. OpenOk(p)
    BY <1>4, <2>1, <2>2 DEF OpenOk
  <2> QED BY <1>1, <1>2, <2>4, <2>5
<1>5. CASE p.kind = "local"
  <2>1. Go(<<"file">>) /\ conn' = Connected /\ UNCHANGED <<result, cursors>>
    BY <1>1, <1>3, <1>5
  <2>2. PlanOK' /\ Now' = "file" /\ Tail(todo') = Tail(todo) /\ by' = by
    BY <1>2, <2>1, AnswerMoves
  <2>3. DataOK'
    BY <1>1, <1>2, <2>1, GotTypes
  <2>4. TypeInv'
    BY <1>1, <2>1, <2>2, <2>3 DEF TypeInv, ResultOK
  <2>5. OpenLocal(p)
    BY <1>5, <2>1, <2>2 DEF OpenLocal
  <2> QED BY <1>1, <1>2, <2>4, <2>5
<1>6. CASE p.kind = "cols" /\ what = "openSS"
  <2>1. Stored(TRUE, FALSE) /\ Done /\ conn' = Connected /\ cursors' = cursors
    BY <1>1, <1>3, <1>6
  <2>2. /\ PlanOK' /\ todo' = Tail(todo) /\ Now' = "take" /\ (todo' # <<>> => by' = by)
        /\ by \in Unbuffered
    BY <1>2, <1>6, <2>1, DoneMoves, Caller DEF After
  <2>3. by' = by
    BY <2>2 DEF Now
  <2>4. TypeInv'
    BY <1>1, <1>2, <2>1, <2>2, <2>3, StoredTypes
  <2>5. OpenUnbuffered(p)
    BY <1>2, <1>6, <2>1, <2>2, <2>3 DEF OpenUnbuffered
  <2> QED BY <1>1, <1>2, <2>4, <2>5
<1>7. CASE p.kind = "cols" /\ what = "open"
  <2>1. Go(<<"rows">>) /\ conn' = Connected /\ UNCHANGED <<result, cursors>>
    BY <1>1, <1>3, <1>7
  <2>2. PlanOK' /\ Now' = "rows" /\ Tail(todo') = Tail(todo) /\ by' = by
    BY <1>2, <1>7, <2>1, AnswerMoves
  <2>3. DataOK'
    BY <1>1, <1>2, <2>1, GotTypes
  <2>4. TypeInv'
    BY <1>1, <2>1, <2>2, <2>3 DEF TypeInv, ResultOK
  <2>5. OpenBuffered(p)
    BY <1>2, <1>7, <2>1, <2>2 DEF OpenBuffered
  <2> QED BY <1>1, <1>2, <2>4, <2>5
<1>8. CASE p.kind \notin {"ok", "local", "cols"}
  <2>1. Raise(Connected) /\ UNCHANGED result
    BY <1>1, <1>3, <1>8
  <2>2. TypeInv' /\ Now' \in {"idle", "login"}
    BY <1>1, <2>1, GotRaises
  <2>3. OpenRaises(p)
    BY <1>2, <1>3, <1>8, <2>1, <2>2 DEF OpenRaises
  <2> QED BY <1>1, <1>2, <2>2, <2>3
<1> QED BY <1>4, <1>5, <1>6, <1>7, <1>8

(* The answer to a file that was sent. *)
LEMMA FileAnsweredTypes ==
  ASSUME TypeInv, FileAnswered
  PROVE  /\ TypeInv' /\ todo # <<>> /\ Now = "fileOk"
         /\ \E p \in Waiting :
              /\ Got("fileOk", p) /\ UNCHANGED <<holder, link, autocommit>>
              /\ \/ OpenOk(p)
                 \/ Raise(Connected) /\ UNCHANGED result /\ Now' \in {"idle", "login"}
<1>1. PICK p \in Waiting :
    /\ Got("fileOk", p)
    /\ IF IsOk(p)
         THEN /\ Stored(FALSE, p.more) /\ Done /\ UNCHANGED cursors
              /\ conn' = [Connected EXCEPT !.status = p.auto]
         ELSE Raise(Connected) /\ UNCHANGED result
    /\ UNCHANGED <<holder, link, autocommit>>
  BY DEF FileAnswered
<1>2. /\ todo # <<>> /\ Now = "fileOk" /\ PlanOK /\ cursors \in [Cursors -> Accounts]
      /\ p \in Packets /\ p.more \in BOOLEAN
  BY <1>1, WaitingIs DEF Got, Doing, Now, TypeInv, DataOK, Packets
<1>3. IsOk(p) <=> p.kind = "ok"
  BY <1>2, Bytes
<1>4. CASE p.kind = "ok"
  <2>1. /\ Stored(FALSE, p.more) /\ Done
        /\ conn' = [Connected EXCEPT !.status = p.auto] /\ cursors' = cursors
    BY <1>1, <1>3, <1>4
  <2>2. /\ PlanOK' /\ todo' = Tail(todo) /\ Now' \in {"settle", "take"}
        /\ (todo' # <<>> => by' = by)
    BY <1>2, <2>1, DoneMoves DEF After
  <2>3. Now' = "take" => by' = by
    BY <2>2 DEF Now
  <2>4. TypeInv'
    BY <1>1, <1>2, <2>1, <2>2, <2>3, StoredTypes
  <2>5. OpenOk(p)
    BY <1>4, <2>1, <2>2 DEF OpenOk
  <2> QED BY <1>1, <1>2, <2>4, <2>5
<1>5. CASE p.kind # "ok"
  <2>1. Raise(Connected) /\ UNCHANGED result
    BY <1>1, <1>3, <1>5
  <2>2. TypeInv' /\ Now' \in {"idle", "login"}
    BY <1>1, <2>1, GotRaises
  <2> QED BY <1>1, <1>2, <2>1, <2>2
<1> QED BY <1>4, <1>5

LEMMA FileFailedTypes ==
  ASSUME TypeInv, FileFailed
  PROVE  /\ TypeInv' /\ todo # <<>> /\ Now = "skip" /\ Now' \in {"idle", "login"}
         /\ \E p \in Waiting :
              /\ Got("skip", p) /\ Raise(Connected)
              /\ UNCHANGED <<result, holder, link, autocommit>>
<1>1. PICK p \in Waiting :
        Got("skip", p) /\ Raise(Connected) /\ UNCHANGED <<result, holder, link, autocommit>>
  BY DEF FileFailed
<1>2. TypeInv' /\ Now' \in {"idle", "login"}
  BY <1>1, GotRaises
<1> QED BY <1>1, <1>2 DEF Got, Doing, Now


(* One packet of a set of rows. *)
RowsEnd(p) ==
  /\ p.kind = "eof" /\ Stored(FALSE, p.more) /\ conn' = Connected
  /\ todo' = Tail(todo) /\ Now' \in After(Now)
RowsGoOn(p) ==
  /\ p.kind \notin {"eof", "err"} /\ conn' = Connected /\ UNCHANGED result
  /\ todo' = todo /\ by' = by /\ Now' = Now

LEMMA StaysIs ==
  ASSUME PlanOK, UNCHANGED <<todo, by>>
  PROVE  PlanOK' /\ Now' = Now
BY DEF PlanOK, Now

LEMMA RowsTypes ==
  ASSUME TypeInv, ReadRows
  PROVE  /\ TypeInv' /\ todo # <<>> /\ Now = "rows"
         /\ \E p \in Waiting :
              /\ Got("rows", p) /\ UNCHANGED <<holder, link, autocommit>>
              /\ \/ (RowsEnd(p) \/ (RowsGoOn(p) /\ p.kind # "bad")) /\ UNCHANGED cursors
                 \/ /\ p.kind = "bad" /\ Raise(Connected) /\ UNCHANGED result
                    /\ Now' \in {"idle", "login"}
<1>1. PICK p \in Waiting :
    /\ Got("rows", p)
    /\ CASE IsEof(p) -> Stored(FALSE, p.more) /\ Done /\ conn' = Connected /\ UNCHANGED cursors
         [] p.kind = "bad" -> Raise(Connected) /\ UNCHANGED result
         [] OTHER -> conn' = Connected /\ UNCHANGED <<result, todo, by, cursors>>
    /\ UNCHANGED <<holder, link, autocommit>>
  BY DEF ReadRows
<1>2. /\ todo # <<>> /\ Now = "rows" /\ PlanOK /\ cursors \in [Cursors -> Accounts]
      /\ p \in Packets /\ p.more \in BOOLEAN /\ result \in Results /\ ~IsError(p)
  BY <1>1, WaitingIs DEF Got, Doing, Now, TypeInv, DataOK, Packets
<1>3. (IsEof(p) <=> p.kind = "eof") /\ p.kind # "err"
  BY <1>2, Bytes
<1>4. CASE p.kind = "eof"
  <2>1. Stored(FALSE, p.more) /\ Done /\ conn' = Connected /\ cursors' = cursors
    BY <1>1, <1>3, <1>4
  <2>2. PlanOK' /\ todo' = Tail(todo) /\ Now' \in After(Now) /\ (todo' # <<>> => by' = by)
    BY <1>2, <2>1, DoneMoves
  <2>3. Now' = "take" => by' = by
    BY <2>2 DEF Now
  <2>4. TypeInv'
    BY <1>1, <1>2, <2>1, <2>2, <2>3, StoredTypes
  <2>5. RowsEnd(p)
    BY <1>4, <2>1, <2>2 DEF RowsEnd
  <2> QED BY <1>1, <1>2, <2>1, <2>4, <2>5
<1>5. CASE p.kind = "bad"
  <2>1. Raise(Connected) /\ UNCHANGED result
    BY <1>1, <1>3, <1>5
  <2>2. TypeInv' /\ Now' \in {"idle", "login"}
    BY <1>1, <2>1, GotRaises
  <2> QED BY <1>1, <1>2, <1>5, <2>1, <2>2
<1>6. CASE p.kind \notin {"eof", "bad"}
  <2>1. conn' = Connected /\ UNCHANGED <<result, todo, by, cursors>>
    BY <1>1, <1>3, <1>6
  <2>2. PlanOK' /\ Now' = Now
    BY <1>2, <2>1, StaysIs
  <2>3. DataOK'
    BY <1>1, <1>2, <2>1, GotTypes
  <2>4. TypeInv'
    BY <1>1, <1>2, <2>1, <2>2, <2>3 DEF TypeInv, ResultOK
  <2>5. RowsGoOn(p)
    BY <1>3, <1>6, <2>1, <2>2 DEF RowsGoOn
  <2> QED BY <1>1, <1>2, <1>6, <2>1, <2>4, <2>5
<1> QED BY <1>4, <1>5, <1>6

LEMMA DrainTypes ==
  ASSUME TypeInv, Drain
  PROVE  /\ TypeInv' /\ todo # <<>> /\ Now = "drain"
         /\ \E p \in Waiting :
              /\ Got("drain", p) /\ UNCHANGED <<holder, cursors, link, autocommit>>
              /\ RowsEnd(p) \/ RowsGoOn(p)
<1>1. PICK p \in Waiting :
    /\ Got("drain", p)
    /\ IF IsEof(p) THEN Stored(FALSE, p.more) /\ Done
                   ELSE UNCHANGED <<result, todo, by>>
    /\ conn' = Connected
    /\ UNCHANGED <<holder, cursors, link, autocommit>>
  BY DEF Drain
<1>2. /\ todo # <<>> /\ Now = "drain" /\ PlanOK /\ cursors \in [Cursors -> Accounts]
      /\ p \in Packets /\ p.more \in BOOLEAN /\ result \in Results /\ ~IsError(p)
  BY <1>1, WaitingIs DEF Got, Doing, Now, TypeInv, DataOK, Packets
<1>3. (IsEof(p) <=> p.kind = "eof") /\ p.kind # "err"
  BY <1>2, Bytes
<1>4. CASE p.kind = "eof"
  <2>1. Stored(FALSE, p.more) /\ Done
    BY <1>1, <1>3, <1>4
  <2>2. PlanOK' /\ todo' = Tail(todo) /\ Now' \in After(Now) /\ (todo' # <<>> => by' = by)
    BY <1>2, <2>1, DoneMoves
  <2>3. Now' = "take" => by' = by
    BY <2>2 DEF Now
  <2>4. TypeInv'
    BY <1>1, <1>2, <2>1, <2>2, <2>3, StoredTypes
  <2>5. RowsEnd(p)
    BY <1>1, <1>4, <2>1, <2>2 DEF RowsEnd
  <2> QED BY <1>1, <1>2, <2>4, <2>5
<1>5. CASE p.kind # "eof"
  <2>1. UNCHANGED <<result, todo, by>>
    BY <1>1, <1>3, <1>5
  <2>2. PlanOK' /\ Now' = Now
    BY <1>2, <2>1, StaysIs
  <2>3. DataOK'
    BY <1>1, <1>2, <2>1, GotTypes
  <2>4. TypeInv'
    BY <1>1, <1>2, <2>1, <2>2, <2>3 DEF TypeInv, ResultOK
  <2>5. RowsGoOn(p)
    BY <1>1, <1>3, <1>5, <2>1, <2>2 DEF RowsGoOn
  <2> QED BY <1>1, <1>2, <2>4, <2>5
<1> QED BY <1>4, <1>5

Fewer == [cursors EXCEPT ![by].owed = IF @ = 0 THEN 0 ELSE @ - 1]

LEMMA RowTypes ==
  ASSUME TypeInv, ReadRow
  PROVE  /\ TypeInv' /\ todo # <<>> /\ Now = "row" /\ by \in Unbuffered
         /\ \E p \in Waiting :
              /\ Got("row", p) /\ UNCHANGED <<holder, link, autocommit>>
              /\ \/ RowsEnd(p) /\ cursors' = [cursors EXCEPT ![by].ended = TRUE]
                 \/ /\ p.kind \notin {"eof", "err"} /\ UNCHANGED result
                    /\ \/ /\ p.kind = "bad" /\ RaiseWith(Connected, Fewer)
                          /\ Now' \in {"idle", "login"}
                       \/ cursors' = Fewer /\ conn' = Connected /\ Now' = "idle"
<1>1. PICK p \in Waiting :
    /\ Got("row", p)
    /\ IF IsEof(p)
         THEN /\ Stored(FALSE, p.more) /\ Done /\ conn' = Connected
              /\ cursors' = [cursors EXCEPT ![by].ended = TRUE]
         ELSE /\ UNCHANGED result
              /\ IF p.kind = "bad"
                   THEN RaiseWith(Connected, Fewer)
                   ELSE cursors' = Fewer /\ conn' = Connected /\ Done
    /\ UNCHANGED <<holder, link, autocommit>>
  BY DEF ReadRow, Fewer
<1>2. /\ todo # <<>> /\ Now = "row" /\ PlanOK /\ cursors \in [Cursors -> Accounts]
      /\ p \in Packets /\ p.more \in BOOLEAN /\ result \in Results /\ ~IsError(p)
  BY <1>1, WaitingIs DEF Got, Doing, Now, TypeInv, DataOK, Packets
<1>3. (IsEof(p) <=> p.kind = "eof") /\ p.kind # "err"
  BY <1>2, Bytes
<1>4. by \in Unbuffered /\ by \in Cursors
  BY <1>2, Caller DEF Cursors
<1>5. [cursors EXCEPT ![by].ended = TRUE] \in [Cursors -> Accounts]
  BY <1>2, <1>4 DEF Accounts
<1>6. Fewer \in [Cursors -> Accounts]
  BY <1>2, <1>4 DEF Accounts, Fewer
<1>7. CASE p.kind = "eof"
  <2>1. /\ Stored(FALSE, p.more) /\ Done /\ conn' = Connected
        /\ cursors' = [cursors EXCEPT ![by].ended = TRUE]
    BY <1>1, <1>3, <1>7
  <2>2. PlanOK' /\ todo' = Tail(todo) /\ Now' \in After(Now) /\ (todo' # <<>> => by' = by)
    BY <1>2, <2>1, DoneMoves
  <2>3. Now' = "take" => by' = by
    BY <2>2 DEF Now
  <2>4. TypeInv'
    BY <1>1, <1>2, <1>5, <2>1, <2>2, <2>3, StoredTypes
  <2>5. RowsEnd(p)
    BY <1>7, <2>1, <2>2 DEF RowsEnd
  <2> QED BY <1>1, <1>2, <1>4, <2>1, <2>4, <2>5
<1>8. CASE p.kind # "eof" /\ p.kind # "bad"
  <2>1. UNCHANGED result /\ cursors' = Fewer /\ conn' = Connected /\ Done
    BY <1>1, <1>3, <1>8
  <2>2. PlanOK' /\ Now' = "idle"
    BY <1>2, <2>1, DoneMoves DEF After
  <2>3. DataOK'
    BY <1>1, <1>2, <1>6, <2>1, GotTypes
  <2>4. TypeInv'
    BY <1>1, <1>2, <2>1, <2>2, <2>3 DEF TypeInv, ResultOK
  <2> QED BY <1>1, <1>2, <1>3, <1>4, <1>8, <2>1, <2>2, <2>4
<1>9. CASE p.kind = "bad"
  <2>1. UNCHANGED result /\ RaiseWith(Connected, Fewer)
    BY <1>1, <1>3, <1>9
  <2>2. PlanOK' /\ Now' \in {"idle", "login"}
    BY <1>2, <2>1, Raised
  <2>3. conn' \in Conns /\ cursors' \in [Cursors -> Accounts]
    BY <1>2, <1>6, <2>1, ConnTypes, Raises DEF TypeInv, DataOK
  <2>4. wire' \in Seq(Packets) /\ seen' \in Histories
    BY <1>1, TakenType DEF TypeInv, DataOK, Got
  <2>5. DataOK' /\ ResultOK'
    BY <1>1, <2>1, <2>2, <2>3, <2>4 DEF TypeInv, DataOK, ResultOK
  <2> QED BY <1>1, <1>2, <1>4, <1>9, <2>1, <2>2, <2>5 DEF TypeInv
<1> QED BY <1>7, <1>8, <1>9

LEMMA OkTypes ==
  ASSUME TypeInv, ReadOk
  PROVE  /\ TypeInv' /\ todo # <<>> /\ Now = "ok"
         /\ \E p \in Waiting :
              /\ Got("ok", p) /\ UNCHANGED <<result, holder, link, autocommit>>
              /\ \/ /\ p.kind = "ok" /\ conn' = [Connected EXCEPT !.status = p.auto]
                    /\ cursors' = cursors /\ todo' = Tail(todo)
                    /\ Now' \in {"idle", "inConnect", "inPing"}
                 \/ /\ p.kind \notin {"ok", "err"} /\ Raise(Connected)
                    /\ Now' \in {"idle", "login"}
<1>1. PICK p \in Waiting :
    /\ Got("ok", p)
    /\ IF IsOk(p)
         THEN conn' = [Connected EXCEPT !.status = p.auto] /\ Done /\ UNCHANGED cursors
         ELSE Raise(Connected)
    /\ UNCHANGED <<result, holder, link, autocommit>>
  BY DEF ReadOk
<1>2. /\ todo # <<>> /\ Now = "ok" /\ PlanOK /\ cursors \in [Cursors -> Accounts]
      /\ p \in Packets /\ result \in Results /\ ~IsError(p)
  BY <1>1, WaitingIs DEF Got, Doing, Now, TypeInv, DataOK
<1>3. (IsOk(p) <=> p.kind = "ok") /\ p.kind # "err"
  BY <1>2, Bytes
<1>4. CASE p.kind = "ok"
  <2>1. Done /\ conn' = [Connected EXCEPT !.status = p.auto] /\ cursors' = cursors
    BY <1>1, <1>3, <1>4
  <2>2. PlanOK' /\ todo' = Tail(todo) /\ Now' \in {"idle", "inConnect", "inPing"}
    BY <1>2, <2>1, DoneMoves DEF After
  <2>3. DataOK'
    BY <1>1, <1>2, <2>1, GotTypes
  <2>4. TypeInv'
    BY <1>1, <2>1, <2>2, <2>3 DEF TypeInv, ResultOK
  <2> QED BY <1>1, <1>2, <1>4, <2>1, <2>2, <2>4
<1>5. CASE p.kind # "ok"
  <2>1. Raise(Connected)
    BY <1>1, <1>3, <1>5
  <2>2. TypeInv' /\ Now' \in {"idle", "login"}
    BY <1>1, <2>1, GotRaises
  <2> QED BY <1>1, <1>2, <1>3, <1>5, <2>1, <2>2
<1> QED BY <1>4, <1>5


(* Before a command is sent. *)
Dropped == IF holder \in Unbuffered THEN [cursors EXCEPT ![holder].owed = 0] ELSE cursors

LEMMA SettleTypes ==
  ASSUME TypeInv, Settle
  PROVE  /\ TypeInv' /\ todo # <<>> /\ Now = "settle" /\ UNCHANGED <<wire, link, autocommit, seen>>
         /\ \/ /\ conn.sock = "none" /\ Raise(conn) /\ UNCHANGED <<result, holder>>
               /\ Now' \in {"idle", "login"}
            \/ /\ conn.sock # "none" /\ result.active /\ Now' = "drain" /\ by' = by
               /\ Tail(todo') = Cons("settle", Tail(todo)) /\ cursors' = Dropped
               /\ UNCHANGED <<conn, result, holder>>
            \/ /\ conn.sock # "none" /\ ~result.active
               /\ result' = NoResult /\ holder' = Nobody /\ UNCHANGED <<conn, cursors>>
               /\ \/ /\ result.next /\ Now' = "open" /\ by' = by
                     /\ Tail(todo') = Cons("settle", Tail(todo))
                  \/ ~result.next /\ Now' \in Sends /\ todo' = Tail(todo) /\ by' = by
<1>1. /\ todo # <<>> /\ Now = "settle" /\ Doing("settle") /\ PlanOK
      /\ UNCHANGED <<wire, link, autocommit, seen>> /\ result \in Results
      /\ cursors \in [Cursors -> Accounts] /\ conn \in Conns
  BY DEF Settle, quiet, Doing, Now, TypeInv, DataOK
<1>2. CASE conn.sock = "none"
  <2>1. Raise(conn) /\ UNCHANGED <<result, holder>>
    BY <1>2 DEF Settle
  <2>2. /\ PlanOK' /\ Now' \in {"idle", "login"}
        /\ conn' \in Conns /\ cursors' \in [Cursors -> Accounts]
    BY <1>1, <2>1, RaiseType
  <2>3. DataOK' /\ ResultOK'
    BY <1>1, <2>1, <2>2 DEF TypeInv, DataOK, ResultOK
  <2> QED BY <1>1, <1>2, <2>1, <2>2, <2>3 DEF TypeInv
<1>3. CASE conn.sock # "none" /\ result.active
  <2>1. Go(<<"drain", "settle">>) /\ cursors' = Dropped /\ UNCHANGED <<conn, result, holder>>
    BY <1>1, <1>3 DEF Settle, Dropped, Results
  <2>2. PlanOK' /\ Now' = "drain" /\ Tail(todo') = Cons("settle", Tail(todo)) /\ by' = by
    BY <1>1, <2>1, SettleMoves
  <2>3. Dropped \in [Cursors -> Accounts]
    BY <1>1 DEF Dropped, Accounts
  <2>4. DataOK' /\ ResultOK'
    BY <1>1, <2>1, <2>2, <2>3 DEF TypeInv, DataOK, ResultOK
  <2> QED BY <1>1, <1>3, <2>1, <2>2, <2>4 DEF TypeInv
<1>4. CASE conn.sock # "none" /\ ~result.active
  <2>1. /\ result' = NoResult /\ holder' = Nobody /\ UNCHANGED <<conn, cursors>>
        /\ Go(IF result.next THEN <<"open", "settle">> ELSE <<>>)
    BY <1>1, <1>4 DEF Settle
  <2>2. CASE result.next
    <3>1. PlanOK' /\ Now' = "open" /\ Tail(todo') = Cons("settle", Tail(todo)) /\ by' = by
      BY <1>1, <2>1, <2>2, SettleMoves
    <3>2. DataOK' /\ ResultOK'
      BY <1>1, <2>1, <3>1 DEF TypeInv, DataOK, ResultOK, NoResult, Results
    <3> QED BY <1>1, <1>4, <2>1, <2>2, <3>1, <3>2 DEF TypeInv
  <2>3. CASE ~result.next
    <3>1. Done
      BY <2>1, <2>3 DEF Done
    <3>2. PlanOK' /\ todo' = Tail(todo) /\ Now' \in Sends /\ (todo' # <<>> => by' = by)
      BY <1>1, <3>1, DoneMoves DEF After
    <3>3. by' = by
      BY <3>2 DEF Now, Sends
    <3>4. DataOK' /\ ResultOK'
      BY <1>1, <2>1, <3>2 DEF TypeInv, DataOK, ResultOK, NoResult, Results, Sends
    <3> QED BY <1>1, <1>4, <2>1, <2>3, <3>2, <3>3, <3>4 DEF TypeInv
  <2> QED BY <2>2, <2>3
<1> QED BY <1>2, <1>3, <1>4

LEMMA LoginTypes ==
  ASSUME TypeInv, Login
  PROVE  /\ TypeInv' /\ todo # <<>> /\ Now = "login" /\ Now' = "mode" /\ todo' = Tail(todo)
         /\ conn'.sock = "open" /\ conn'.status = autocommit' /\ wire' = <<>>
         /\ seen' = [NothingSeen EXCEPT !.over = result.active \/ result.next]
         /\ UNCHANGED <<result, holder, cursors>>
<1>1. todo # <<>> /\ Now = "login" /\ Done
  BY DEF Login, Doing, Now
<1>2. PlanOK' /\ todo' = Tail(todo) /\ Now' = "mode"
  BY <1>1, DoneMoves DEF After, TypeInv
<1>3. /\ conn' \in Conns /\ autocommit' \in BOOLEAN
      /\ conn'.sock = "open" /\ conn'.status = autocommit'
  <2>1. PICK auto \in BOOLEAN :
          autocommit' = auto /\ conn' = [conn EXCEPT !.sock = "open", !.status = auto]
    BY DEF Login
  <2>2. conn \in Conns
    BY DEF TypeInv, DataOK
  <2> QED BY <2>1, <2>2 DEF Conns
<1>4. seen' \in Histories
  <2>1. seen' = [NothingSeen EXCEPT !.over = result.active \/ result.next]
    BY DEF Login
  <2>2. result.active \in BOOLEAN /\ result.next \in BOOLEAN
    BY DEF TypeInv, DataOK, Results
  <2> QED BY <2>1, <2>2 DEF Histories, NothingSeen
<1>5. DataOK' /\ ResultOK'
  BY <1>2, <1>3, <1>4, EmptySeq DEF TypeInv, DataOK, ResultOK, Login
<1> QED BY <1>1, <1>2, <1>3, <1>5 DEF TypeInv, Login

LEMMA SetModeTypes ==
  ASSUME TypeInv, SetMode
  PROVE  /\ TypeInv' /\ todo # <<>> /\ Now = "mode"
         /\ UNCHANGED <<conn, result, holder, cursors, wire, link, autocommit, seen>>
         /\ \/ /\ conn.status # conn.mode /\ Now' = "settle" /\ by' = by
               /\ Tail(todo') = Cons("sendMode", Cons("ok", Tail(todo)))
            \/ /\ conn.status = conn.mode /\ Now' \in {"idle", "inConnect"}
               /\ todo' = Tail(todo)
<1>1. /\ todo # <<>> /\ Now = "mode" /\ Doing("mode") /\ PlanOK
      /\ UNCHANGED <<conn, result, holder, cursors, wire, link, autocommit, seen>>
      /\ Go(IF conn.status # conn.mode THEN <<"settle", "sendMode", "ok">> ELSE <<>>)
  BY DEF SetMode, quiet, Doing, Now, TypeInv
<1>2. ASSUME PlanOK', Now' # "take"
      PROVE  TypeInv'
  BY <1>1, <1>2 DEF TypeInv, DataOK, ResultOK
<1>3. CASE conn.status # conn.mode
  <2>1. /\ PlanOK' /\ Now' = "settle" /\ by' = by
        /\ Tail(todo') = Cons("sendMode", Cons("ok", Tail(todo)))
    BY <1>1, <1>3, SetModeMoves
  <2> QED BY <1>1, <1>2, <1>3, <2>1
<1>4. CASE conn.status = conn.mode
  <2>1. Done
    BY <1>1, <1>4 DEF Done
  <2>2. PlanOK' /\ todo' = Tail(todo) /\ Now' \in {"idle", "inConnect"}
    BY <1>1, <2>1, DoneMoves DEF After
  <2> QED BY <1>1, <1>2, <1>4, <2>2
<1> QED BY <1>3, <1>4

LEMMA LeaveTypes ==
  ASSUME TypeInv, Leave
  PROVE  /\ TypeInv' /\ todo # <<>> /\ todo' = Tail(todo)
         /\ UNCHANGED <<conn, result, holder, wire, link, autocommit, seen>>
         /\ \/ /\ Now = "inConnect" /\ Now' \in {"idle", "settle"} /\ UNCHANGED cursors
            \/ Now = "inPing" /\ Now' = "idle" /\ UNCHANGED cursors
            \/ /\ Now = "inClose" /\ Now' = "idle" /\ by \in Cursors
               /\ cursors' = [cursors EXCEPT ![by] = Closed]
<1>1. /\ todo # <<>> /\ PlanOK /\ Done /\ Now \in {"inConnect", "inPing", "inClose"}
      /\ UNCHANGED <<conn, result, holder, wire, link, autocommit, seen>>
      /\ cursors' = IF Now = "inClose" THEN [cursors EXCEPT ![by] = Closed] ELSE cursors
  BY DEF Leave, quiet, Doing, Now, TypeInv
<1>2. PlanOK' /\ todo' = Tail(todo) /\ Now' \in After(Now)
  BY <1>1, DoneMoves
<1>3. Now = "inClose" => by \in Cursors
  BY <1>1, Caller
<1>4. Closed \in Accounts
  BY DEF Closed, Fresh, Accounts
<1>5. cursors' \in [Cursors -> Accounts]
  BY <1>1, <1>4 DEF TypeInv, DataOK
<1>6. Now' # "take"
  BY <1>1, <1>2 DEF After
<1>7. DataOK' /\ ResultOK'
  BY <1>1, <1>5, <1>6 DEF TypeInv, DataOK, ResultOK
<1> QED BY <1>1, <1>2, <1>3, <1>7 DEF TypeInv, After

LEMMA AdvanceTypes ==
  ASSUME TypeInv, Advance
  PROVE  /\ TypeInv' /\ todo # <<>> /\ Now \in {"nextset", "advance"} /\ by \in Cursors
         /\ UNCHANGED <<conn, wire, link, autocommit, seen>>
         /\ \/ /\ holder = by /\ result.next /\ result' = NoResult /\ holder' = Nobody
               /\ cursors' = [cursors EXCEPT ![by] = Fresh]
               /\ Now' = OpenFrame /\ by' = by
               /\ Tail(todo') \in Then("take", AfterTake(by))
            \/ /\ ~(holder = by /\ result.next) /\ UNCHANGED <<result, holder, cursors>>
               /\ todo' = Tail(todo) /\ Now' \in After(Now) /\ (todo' # <<>> => by' = by)
<1>1. /\ todo # <<>> /\ PlanOK /\ Now \in {"nextset", "advance"}
      /\ Doing("nextset") \/ Doing("advance")
      /\ UNCHANGED <<conn, wire, link, autocommit, seen>>
  BY DEF Advance, quiet, Doing, Now, TypeInv
<1>2. by \in Cursors
  BY <1>1, Caller
<1>3. Fresh \in Accounts
  BY DEF Fresh, Accounts
<1>4. CASE holder = by /\ result.next
  <2>1. /\ result' = NoResult /\ holder' = Nobody
        /\ cursors' = [cursors EXCEPT ![by] = Fresh]
        /\ Go(<<OpenFrame, "take">> \o IF Doing("nextset") THEN <<"nextset">> ELSE <<>>)
    BY <1>4 DEF Advance
  <2>2. /\ PlanOK' /\ Now' = OpenFrame /\ by' = by
        /\ Tail(todo') \in Then("take", AfterTake(by))
    BY <1>1, <2>1, AdvanceMoves
  <2>3. Now' # "take"
    BY <2>2 DEF OpenFrame, OpenFrameOf
  <2>4. DataOK' /\ ResultOK'
    BY <1>1, <1>3, <2>1, <2>3 DEF TypeInv, DataOK, ResultOK, NoResult, Results
  <2> QED BY <1>1, <1>2, <1>4, <2>1, <2>2, <2>4 DEF TypeInv
<1>5. CASE ~(holder = by /\ result.next)
  <2>1. Done /\ UNCHANGED <<result, holder, cursors>>
    BY <1>5 DEF Advance
  <2>2. PlanOK' /\ todo' = Tail(todo) /\ Now' \in After(Now) /\ (todo' # <<>> => by' = by)
    BY <1>1, <2>1, DoneMoves
  <2>3. Now' # "take"
    BY <1>1, <2>2 DEF After
  <2>4. DataOK' /\ ResultOK'
    BY <1>1, <2>1, <2>3 DEF TypeInv, DataOK, ResultOK
  <2> QED BY <1>1, <1>2, <1>5, <2>1, <2>2, <2>4 DEF TypeInv
<1> QED BY <1>4, <1>5

LEMMA ClearTypes ==
  ASSUME TypeInv, Clear
  PROVE  /\ TypeInv' /\ todo # <<>> /\ Now = "clear" /\ by \in Cursors
         /\ UNCHANGED <<conn, result, wire, link, autocommit, seen>>
         /\ holder' = (IF holder = by THEN Nobody ELSE holder)
         /\ cursors' = [cursors EXCEPT ![by] = Fresh]
         /\ todo' = Tail(todo) /\ Now' = "settle" /\ by' = by
<1>1. /\ todo # <<>> /\ PlanOK /\ Now = "clear" /\ Done
      /\ UNCHANGED <<conn, result, wire, link, autocommit, seen>>
      /\ holder' = (IF holder = by THEN Nobody ELSE holder)
      /\ cursors' = [cursors EXCEPT ![by] = Fresh]
  BY DEF Clear, quiet, Doing, Now, TypeInv
<1>2. PlanOK' /\ todo' = Tail(todo) /\ Now' = "settle" /\ (todo' # <<>> => by' = by)
  BY <1>1, DoneMoves DEF After
<1>3. by \in Cursors
  BY <1>1, Caller
<1>4. by' = by
  BY <1>2 DEF Now
<1>5. Fresh \in Accounts
  BY DEF Fresh, Accounts
<1>6. DataOK' /\ ResultOK'
  BY <1>1, <1>2, <1>5 DEF TypeInv, DataOK, ResultOK
<1> QED BY <1>1, <1>2, <1>3, <1>4, <1>6 DEF TypeInv

LEMMA TakeTypes ==
  ASSUME TypeInv, Take
  PROVE  /\ TypeInv' /\ todo # <<>> /\ Now = "take" /\ by \in Cursors
         /\ UNCHANGED <<conn, result, wire, link, autocommit, seen>>
         /\ holder' = by /\ todo' = Tail(todo) /\ Now' \in {"idle", "nextset"}
         /\ todo' # <<>> => by' = by
         /\ cursors' = [cursors EXCEPT ![by] =
                          [Fresh EXCEPT !.res = by \in Unbuffered,
                                        !.owed = IF result.active THEN RowsWaiting ELSE 0]]
<1>1. /\ todo # <<>> /\ PlanOK /\ Now = "take" /\ Done
      /\ UNCHANGED <<conn, result, wire, link, autocommit, seen>>
      /\ holder' = by
      /\ cursors' = [cursors EXCEPT ![by] =
                          [Fresh EXCEPT !.res = by \in Unbuffered,
                                        !.owed = IF result.active THEN RowsWaiting ELSE 0]]
  BY DEF Take, quiet, Doing, Now, TypeInv
<1>2. /\ PlanOK' /\ todo' = Tail(todo) /\ Now' \in {"idle", "nextset"}
      /\ (todo' # <<>> => by' = by)
  BY <1>1, DoneMoves DEF After
<1>3. by \in Cursors
  BY <1>1, Caller
<1>4. [Fresh EXCEPT !.res = by \in Unbuffered,
                    !.owed = IF result.active THEN RowsWaiting ELSE 0] \in Accounts
  <2>1. RowsWaiting \in Nat
    BY WaitingRows DEF TypeInv, DataOK
  <2> DEFINE r == by \in Unbuffered
             o == IF result.active THEN RowsWaiting ELSE 0
  <2>2. r \in BOOLEAN /\ o \in Nat
    BY <2>1
  <2> HIDE DEF r, o
  <2>3. [Fresh EXCEPT !.res = r, !.owed = o] \in Accounts
    BY <2>2 DEF Fresh, Accounts
  <2> QED BY <2>3 DEF r, o
<1>5. DataOK'
  BY <1>1, <1>3, <1>4 DEF TypeInv, DataOK
<1>6. ResultOK'
  BY <1>1, <1>2, <1>3 DEF TypeInv, ResultOK
<1> QED BY <1>1, <1>2, <1>3, <1>5, <1>6 DEF TypeInv


LEMMA FetchTypes ==
  ASSUME TypeInv, Fetch
  PROVE  /\ TypeInv' /\ todo # <<>> /\ Now = "fetch" /\ by \in Unbuffered
         /\ UNCHANGED <<result, holder, wire, link, autocommit, seen>>
         /\ \/ Raise(conn) /\ Now' \in {"idle", "login"}
            \/ /\ holder = by /\ result.active /\ UNCHANGED <<conn, cursors>>
               /\ Now' = "row" /\ by' = by
            \/ /\ cursors[by].res /\ ~(holder = by /\ result.active) /\ UNCHANGED conn
               /\ Now' = "idle"
               /\ cursors' = [cursors EXCEPT ![by].ended = TRUE]
<1>1. /\ todo # <<>> /\ PlanOK /\ Now = "fetch" /\ Doing("fetch")
      /\ UNCHANGED <<result, holder, wire, link, autocommit, seen>>
      /\ cursors \in [Cursors -> Accounts] /\ conn \in Conns
  BY DEF Fetch, quiet, Doing, Now, TypeInv, DataOK
<1>2. by \in Unbuffered /\ by \in Cursors
  BY <1>1, Caller DEF Cursors
<1>3. CASE ~cursors[by].res
  <2>1. Raise(conn)
    BY <1>3 DEF Fetch
  <2>2. /\ PlanOK' /\ Now' \in {"idle", "login"}
        /\ conn' \in Conns /\ cursors' \in [Cursors -> Accounts]
    BY <1>1, <2>1, RaiseType
  <2>3. DataOK' /\ ResultOK'
    BY <1>1, <2>1, <2>2 DEF TypeInv, DataOK, ResultOK
  <2> QED BY <1>1, <1>2, <1>3, <2>1, <2>2, <2>3 DEF TypeInv
<1>4. CASE cursors[by].res /\ holder = by /\ result.active
  <2>1. Go(<<"row">>) /\ UNCHANGED <<conn, cursors>>
    BY <1>1, <1>2, <1>4 DEF Fetch
  <2>2. PlanOK' /\ Now' = "row" /\ by' = by
    BY <1>1, <2>1, FetchMoves
  <2>3. DataOK' /\ ResultOK'
    BY <1>1, <2>1, <2>2 DEF TypeInv, DataOK, ResultOK
  <2> QED BY <1>1, <1>2, <1>4, <2>1, <2>2, <2>3 DEF TypeInv
<1>5. CASE cursors[by].res /\ ~(holder = by /\ result.active)
  <2>1. Done /\ UNCHANGED conn /\ cursors' = [cursors EXCEPT ![by].ended = TRUE]
    BY <1>1, <1>2, <1>5 DEF Fetch
  <2>2. PlanOK' /\ Now' = "idle"
    BY <1>1, <2>1, DoneMoves DEF After
  <2>3. cursors' \in [Cursors -> Accounts]
    BY <1>1, <1>2, <2>1 DEF Accounts
  <2>4. DataOK' /\ ResultOK'
    BY <1>1, <2>1, <2>2, <2>3 DEF TypeInv, DataOK, ResultOK
  <2> QED BY <1>1, <1>2, <1>5, <2>1, <2>2, <2>4 DEF TypeInv
<1> QED BY <1>3, <1>4, <1>5

LEMMA FinishTypes ==
  ASSUME TypeInv, Finish
  PROVE  /\ TypeInv' /\ todo # <<>> /\ Now = "finish" /\ by \in Unbuffered /\ by' = by
         /\ UNCHANGED <<conn, result, holder, cursors, wire, link, autocommit, seen>>
         /\ \/ holder = by /\ result.active /\ Now' = "drain" /\ Tail(todo') = <<"finish">>
            \/ ~(holder = by /\ result.active) /\ Now' = "nextset"
<1>1. /\ todo # <<>> /\ PlanOK /\ Now = "finish" /\ Doing("finish")
      /\ UNCHANGED <<conn, result, holder, cursors, wire, link, autocommit, seen>>
  BY DEF Finish, quiet, Doing, Now, TypeInv
<1>2. by \in Unbuffered
  BY <1>1, FinishMoves
<1>3. /\ PlanOK' /\ by' = by
      /\ \/ holder = by /\ result.active /\ Now' = "drain" /\ Tail(todo') = <<"finish">>
         \/ ~(holder = by /\ result.active) /\ Now' = "nextset"
  BY <1>1, FinishMoves DEF Finish
<1>4. DataOK' /\ ResultOK'
  BY <1>1, <1>3 DEF TypeInv, DataOK, ResultOK
<1> QED BY <1>1, <1>2, <1>3, <1>4 DEF TypeInv

(* The link breaks: the packets that had arrived are still there. *)
LEMMA CutTypes ==
  ASSUME TypeInv, Cut
  PROVE  /\ TypeInv' /\ link' = "cut" /\ Now' = Now
         /\ UNCHANGED <<conn, result, holder, cursors, by, todo, autocommit, seen>>
         /\ \E n \in 0 .. Len(wire) :
              /\ wire' = SubSeq(wire, 1, n) /\ Len(wire') = n
              /\ \A i \in 1 .. n : wire'[i] = wire[i]
<1>1. /\ link' = "cut"
      /\ UNCHANGED <<conn, result, holder, cursors, by, todo, autocommit, seen>>
  BY DEF Cut
<1>2. PICK n \in 0 .. Len(wire) : wire' = SubSeq(wire, 1, n)
  BY DEF Cut
<1>3. wire \in Seq(Packets) /\ Len(wire) \in Nat /\ n \in Nat /\ n <= Len(wire)
  BY DEF TypeInv, DataOK
<1>4. /\ wire' \in Seq(Packets) /\ Len(wire') = n
      /\ \A i \in 1 .. n : wire'[i] = wire[i]
  BY <1>2, <1>3
<1>5. PlanOK' /\ Now' = Now
  BY <1>1, StaysIs DEF TypeInv
<1>6. DataOK' /\ ResultOK'
  BY <1>1, <1>4, <1>5 DEF TypeInv, DataOK, ResultOK
<1> QED BY <1>1, <1>2, <1>4, <1>5, <1>6 DEF TypeInv

(* A call begins. *)
Starts ==
  /\ todo = <<>> /\ Now = "idle" /\ seen.foreign = "none"
  /\ UNCHANGED <<result, autocommit, seen>>
StartsQuietly == UNCHANGED <<cursors, holder, wire, link>>
SockKept == \E on \in BOOLEAN : conn' = [conn EXCEPT !.mode = on]

LEMMA CallTypes ==
  ASSUME TypeInv, Calls
  PROVE  /\ TypeInv' /\ Starts
         /\ \/ /\ StartsQuietly /\ UNCHANGED conn
               /\ Now' \in {"login", "settle", "nextset", "advance", "fetch", "finish"}
               /\ Now' = "settle" => Tail(todo') \in Then("sendSimple", Then("ok", AfterSimple))
            \/ /\ StartsQuietly /\ SockKept /\ Now' = "mode"
               /\ todo' = <<"mode">>
            \/ /\ conn' = ForceClosed /\ wire' = <<>> /\ link' = "cut" /\ Now' = "idle"
               /\ UNCHANGED <<holder, cursors>>
            \/ \E c \in Cursors :
                 /\ cursors' = [cursors EXCEPT ![c] = Fresh] /\ Now' = "idle"
                 /\ ~cursors[c].open
                 /\ holder' = IF holder = c THEN Nobody ELSE holder
                 /\ UNCHANGED <<conn, wire, link>>
<1>1. /\ PlanOK /\ conn \in Conns /\ cursors \in [Cursors -> Accounts] /\ result \in Results
      /\ holder \in Cursors \cup {Nobody}
  BY DEF TypeInv, DataOK
<1>2. ASSUME NEW c \in Cursors \cup {Nobody}, NEW frames \in Plans(c), Call(c, frames),
             UNCHANGED <<result, autocommit, seen>>
      PROVE  /\ PlanOK' /\ Now' = First(frames) /\ Starts /\ todo' = frames
  BY <1>2, Called DEF Call, Idle, Starts
<1>3. ASSUME UNCHANGED <<conn, kept>>, PlanOK', Now' # "take"
      PROVE  TypeInv' /\ StartsQuietly
  BY <1>1, <1>3 DEF TypeInv, DataOK, ResultOK, kept, StartsQuietly
<1>4. /\ First(ConnectFrames) = "login" /\ First(ConnectFrames \o CommandFrames) = "login"
      /\ First(CommandFrames) = "settle" /\ First(CommandFrames \o <<"inPing">>) = "settle"
  <2>0. /\ "login" \in Frames /\ "mode" \in Frames /\ "inConnect" \in Frames /\ "ok" \in Frames
        /\ "settle" \in Frames /\ "sendSimple" \in Frames /\ "inPing" \in Frames
    BY DEF Frames
  <2>1. \A f \in Frames, t \in Seq(Frames) : Cons(f, t) \in Seq(Frames) /\ First(Cons(f, t)) = f
    BY ConsIs DEF First
  <2>2. /\ <<>> \in Seq(Frames) /\ CommandFrames \in Seq(Frames) /\ <<"inPing">> \in Seq(Frames)
    BY <2>0, FramesAre
  <2>3. \A t \in Seq(Frames) : First(Cons("login", Cons("mode", Cons("inConnect", t)))) = "login"
    BY <2>0, <2>1
  <2>4. \A t \in Seq(Frames) : First(Cons("settle", Cons("sendSimple", Cons("ok", t)))) = "settle"
    BY <2>0, <2>1
  <2> QED BY <2>2, <2>3, <2>4, StartLists, FramesAre
<1>5. CASE Connect
  <2>1. Call(Nobody, ConnectFrames) /\ UNCHANGED <<conn, kept>>
    BY <1>5 DEF Connect
  <2>2. /\ PlanOK' /\ Now' = "login" /\ Starts /\ todo' = ConnectFrames
    BY <1>2, <1>4, <2>1, ConnectPlans DEF kept
  <2> QED BY <1>3, <2>1, <2>2
<1>0. /\ Tail(CommandFrames) \in Then("sendSimple", Then("ok", AfterSimple))
      /\ Tail(CommandFrames \o <<"inPing">>) \in Then("sendSimple", Then("ok", AfterSimple))
  <2>0. "ok" \in Frames /\ "settle" \in Frames /\ "sendSimple" \in Frames /\ "inPing" \in Frames
    BY DEF Frames
  <2>1. <<>> \in Seq(Frames) /\ <<"inPing">> \in Seq(Frames)
    BY <2>0, FramesAre
  <2>2. \A f \in Frames, t \in Seq(Frames) : Cons(f, t) \in Seq(Frames) /\ Tail(Cons(f, t)) = t
    BY ConsIs
  <2>3. ASSUME NEW t \in AfterSimple, t \in Seq(Frames)
        PROVE  Tail(Cons("settle", Cons("sendSimple", Cons("ok", t))))
                 \in Then("sendSimple", Then("ok", AfterSimple))
    <3>1. Cons("sendSimple", Cons("ok", t)) \in Then("sendSimple", Then("ok", AfterSimple))
      BY <2>3 DEF Then
    <3>2. Cons("sendSimple", Cons("ok", t)) \in Seq(Frames)
      BY <2>0, <2>2, <2>3
    <3> QED BY <2>0, <2>2, <3>1, <3>2
  <2> QED BY <2>1, <2>3, StartLists, FramesAre DEF AfterSimple
<1>6. CASE Autocommit
  <2>1. Call(Nobody, <<"mode">>) /\ UNCHANGED kept
    BY <1>6 DEF Autocommit
  <2>2. PICK on \in BOOLEAN : conn' = [conn EXCEPT !.mode = on]
    BY <1>6 DEF Autocommit
  <2> DEFINE frames == <<"mode">>
  <2>3. PlanOK' /\ Now' = "mode" /\ Starts /\ todo' = frames
    <3>1. First(frames) = "mode" /\ frames \in Plans(Nobody) /\ Call(Nobody, frames)
      BY <2>1, ConnectPlans DEF First
    <3> HIDE DEF frames
    <3> QED BY <1>2, <2>1, <3>1 DEF kept
  <2>4. conn' \in Conns
    BY <1>1, <2>2, ConnTypes
  <2>5. TypeInv' /\ StartsQuietly
    BY <2>1, <2>3, <2>4 DEF TypeInv, DataOK, ResultOK, kept, StartsQuietly
  <2> QED BY <2>2, <2>3, <2>5 DEF SockKept
<1>7. CASE Command \/ Ping
  <2>1. /\ UNCHANGED <<conn, kept>>
        /\ \/ Call(Nobody, CommandFrames)
           \/ \E caught \in {<<>>, <<"inPing">>} : Call(Nobody, CommandFrames \o caught)
           \/ Call(Nobody, ConnectFrames \o CommandFrames)
    BY <1>7 DEF Command, Ping
  <2>2. \/ Call(Nobody, CommandFrames) \/ Call(Nobody, CommandFrames \o <<"inPing">>)
        \/ Call(Nobody, ConnectFrames \o CommandFrames)
    BY <2>1, StartLists
  <2>3. /\ PlanOK' /\ Starts
        /\ \/ Now' = "settle" /\ Tail(todo') \in Then("sendSimple", Then("ok", AfterSimple))
           \/ Now' = "login"
    <3>1. Nobody \in Cursors \cup {Nobody} /\ UNCHANGED <<result, autocommit, seen>>
      BY <2>1 DEF kept
    <3>2. CASE Call(Nobody, CommandFrames)
      BY <1>0, <1>2, <1>4, <3>1, <3>2, ConnectPlans
    <3>3. CASE Call(Nobody, CommandFrames \o <<"inPing">>)
      BY <1>0, <1>2, <1>4, <3>1, <3>3, ConnectPlans
    <3>4. CASE Call(Nobody, ConnectFrames \o CommandFrames)
      BY <1>2, <1>4, <3>1, <3>4, ConnectPlans
    <3> QED BY <2>2, <3>2, <3>3, <3>4
  <2> QED BY <1>3, <2>1, <2>3
<1>8. CASE Close
  <2>1. /\ Call(Nobody, <<>>) /\ conn' = ForceClosed /\ wire' = <<>> /\ link' = "cut"
        /\ UNCHANGED <<result, holder, cursors, autocommit, seen>>
    BY <1>8 DEF Close
  <2>2. PlanOK' /\ Now' = "idle" /\ Starts
    BY <1>2, <2>1, ConnectPlans DEF First
  <2>3. conn' \in Conns
    BY <1>1, <2>1, ConnTypes
  <2>4. TypeInv'
    BY <2>1, <2>2, <2>3, EmptySeq DEF TypeInv, DataOK, ResultOK
  <2> QED BY <2>1, <2>2, <2>4
<1>9. ASSUME NEW c \in Cursors, Execute(c) \/ NextResult(c) \/ CloseCursor(c)
                                 \/ (c \in Unbuffered /\ FetchOne(c))
      PROVE  /\ TypeInv' /\ Starts /\ StartsQuietly /\ UNCHANGED conn
             /\ Now' \in {"nextset", "advance", "fetch", "finish"}
  <2>1. PICK frames : OnCursor(c, frames) /\ frames \in Plans(c)
                        /\ First(frames) \in {"nextset", "advance", "fetch", "finish"}
    <3> DEFINE advance == <<"advance">>
               close == <<"nextset", "inClose">>
               finish == <<"finish">>
               fetch == <<"fetch">>
    <3>0. /\ First(advance) = "advance" /\ First(close) = "nextset"
          /\ First(finish) = "finish" /\ First(fetch) = "fetch"
      BY DEF First
    <3>1. CASE Execute(c)
      BY <3>1, CursorPlans DEF Execute, First
    <3>2. CASE NextResult(c)
      <4>1. OnCursor(c, advance) /\ advance \in Plans(c)
        BY <3>2, CursorPlans DEF NextResult
      <4> HIDE DEF advance
      <4> QED BY <3>0, <4>1
    <3>3. CASE CloseCursor(c)
      <4>1. /\ OnCursor(c, IF c \in Unbuffered THEN finish ELSE close)
            /\ close \in Plans(c) /\ (c \in Unbuffered => finish \in Plans(c))
        BY <3>3, CursorPlans DEF CloseCursor
      <4> HIDE DEF finish, close
      <4>2. CASE c \in Unbuffered
        BY <3>0, <4>1, <4>2
      <4>3. CASE c \notin Unbuffered
        BY <3>0, <4>1, <4>3
      <4> QED BY <4>2, <4>3
    <3>4. CASE c \in Unbuffered /\ FetchOne(c)
      <4>1. OnCursor(c, fetch) /\ fetch \in Plans(c)
        BY <3>4, CursorPlans DEF FetchOne
      <4> HIDE DEF fetch
      <4> QED BY <3>0, <4>1
    <3> QED BY <1>9, <3>1, <3>2, <3>3, <3>4
  <2>2. Call(c, frames) /\ UNCHANGED <<conn, kept>>
    BY <2>1 DEF OnCursor
  <2>3. PlanOK' /\ Now' = First(frames) /\ Starts
    BY <1>2, <2>1, <2>2 DEF kept
  <2> QED BY <1>3, <2>1, <2>2, <2>3
<1>10. ASSUME NEW c \in Cursors, NewCursor(c)
       PROVE  /\ TypeInv' /\ Starts /\ Now' = "idle" /\ ~cursors[c].open
              /\ cursors' = [cursors EXCEPT ![c] = Fresh]
              /\ holder' = (IF holder = c THEN Nobody ELSE holder)
              /\ UNCHANGED <<conn, wire, link>>
  <2>1. /\ Call(c, <<>>) /\ cursors' = [cursors EXCEPT ![c] = Fresh] /\ ~cursors[c].open
        /\ holder' = (IF holder = c THEN Nobody ELSE holder)
        /\ UNCHANGED <<conn, result, wire, link, autocommit, seen>>
    BY <1>10 DEF NewCursor, quiet
  <2>2. PlanOK' /\ Now' = "idle" /\ Starts
    BY <1>2, <2>1, ConnectPlans DEF First
  <2>3. Fresh \in Accounts
    BY DEF Fresh, Accounts
  <2>4. TypeInv'
    BY <1>1, <2>1, <2>2, <2>3 DEF TypeInv, DataOK, ResultOK
  <2> QED BY <2>1, <2>2, <2>4
<1>11. Unbuffered \subseteq Cursors
  BY DEF Cursors
<1> QED BY <1>5, <1>6, <1>7, <1>8, <1>9, <1>10, <1>11 DEF Calls


-----------------------------------------------------------------------------
LEMMA TypeInit ==
  ASSUME Init
  PROVE  TypeInv /\ Now = "idle"
<1>1. PlanOK /\ Now = "idle"
  BY ConnectPlans DEF Init, PlanOK, Now
<1>2. DataOK /\ ResultOK
  <2>1. Fresh \in Accounts
    BY DEF Fresh, Accounts
  <2>2. conn \in Conns
    <3>1. 0 \in 0 .. SeqMod - 1
      BY SessionAssumption
    <3>2. conn \in [sock : {"none"}, seq : {0}, mode : BOOLEAN, status : {FALSE}]
      BY DEF Init
    <3> QED BY <3>1, <3>2 DEF Conns
  <2>3. seen \in Histories
    BY DEF Init, NothingSeen, Histories
  <2> QED
    BY <1>1, <2>1, <2>2, <2>3, EmptySeq DEF Init, DataOK, ResultOK, NoResult, Results
<1> QED BY <1>1, <1>2 DEF TypeInv

LEMMA TypeStep ==
  ASSUME TypeInv, [Next]_vars
  PROVE  TypeInv'
<1>1. CASE Next
  BY <1>1, CallTypes, CutTypes, ReadingTypes, SendTypes, BreakingTypes, FileTypes, OpenTypes,
     FileAnsweredTypes, FileFailedTypes, RowsTypes, DrainTypes, RowTypes, SettleTypes, OkTypes,
     LoginTypes, SetModeTypes, LeaveTypes, AdvanceTypes, ClearTypes, TakeTypes, FetchTypes,
     FinishTypes
  DEF Next, Steps
<1>2. CASE UNCHANGED vars
  <2>1. PlanOK' /\ Now' = Now
    BY <1>2, StaysIs DEF vars, TypeInv
  <2> QED BY <1>2, <2>1 DEF vars, TypeInv, DataOK, ResultOK
<1> QED BY <1>1, <1>2


-----------------------------------------------------------------------------
(* connect() sets the mode: a call that is connecting has nothing unread but  *)
(* the answer to its own SET AUTOCOMMIT.                                      *)
Mode == Then("sendMode", Then("ok", InConnect))
ConnRest(f) ==
  CASE f = "mode" -> InConnect
    [] f \in {"drain", "open", "rows", "file", "fileOk", "skip"} -> Then("settle", Mode)
    [] f = "settle" -> Mode
    [] f = "sendMode" -> Then("ok", InConnect)
    [] f = "ok" -> InConnect
    [] f = "inConnect" -> {<<>>, CommandFrames}
    [] OTHER -> {}
Connects(t) == t # <<>> /\ Tail(t) \in ConnRest(Head(t))
Connecting == Connects(todo)

ConnectOK ==
  Connecting =>
    /\ conn.sock = "open"
    /\ Now \in {"mode", "settle", "drain", "open", "sendMode", "ok", "inConnect"}
    /\ Now \notin {"ok", "inConnect"} => wire = <<>>
    /\ Now = "ok" /\ wire # <<>> /\ wire[1].kind = "ok" => autocommit = conn.mode
    /\ Now = "mode" => conn.status = autocommit
    /\ Now = "inConnect" => autocommit = conn.mode

LEMMA ConnLists ==
  /\ InConnect \subseteq Seq(Frames) /\ Then("ok", InConnect) \subseteq Seq(Frames)
  /\ Mode \subseteq Seq(Frames) /\ Then("settle", Mode) \subseteq Seq(Frames)
<1>1. "ok" \in Frames /\ "sendMode" \in Frames /\ "settle" \in Frames
  BY DEF Frames
<1>2. InConnect \subseteq Seq(Frames)
  BY Lists
<1> QED BY <1>1, <1>2, ThenLists DEF Mode

(* Whatever leads to a step of connect() by leaving off what is done is one.  *)
LEMMA Back ==
  ASSUME NEW c, NEW f \in Frames, f \notin {"login", "inConnect"}, NEW t \in Rest(f, c), Connects(t)
  PROVE  t \in ConnRest(f)
<1>1. /\ "settle" \in Frames /\ "sendMode" \in Frames /\ "ok" \in Frames /\ "mode" \in Frames
      /\ "sendSimple" \in Frames /\ "sendQuery" \in Frames /\ "inConnect" \in Frames
      /\ "take" \in Frames
  BY DEF Frames
<1>2. t \in Seq(Frames) /\ t # <<>> /\ Head(t) \in After(f) /\ Tail(t) \in ConnRest(Head(t))
  <2>1. t \in Plans(c)
    BY RestArePlans
  <2>2. First(t) \in After(f)
    BY FirstOfRest
  <2> QED BY <2>1, <2>2 DEF Plans, Connects, First
<1>3. ConnRest(Head(t)) # {}
  BY <1>2
<1>4. Head(t) \notin {"idle", "inPing", "sendSimple", "sendQuery", "openSS", "take", "nextset",
                      "clear", "inClose", "finish"}
  BY <1>3 DEF ConnRest
<1>5. t = Cons(Head(t), Tail(t))
  BY <1>2, ConsOf
<1>6. \A u \in InConnect : u # <<>> /\ Head(u) = "inConnect"
  <2> DEFINE lists == {<<>>, CommandFrames}
  <2>1. lists \subseteq Seq(Frames) /\ InConnect = Then("inConnect", lists)
    BY FramesAre DEF InConnect
  <2> HIDE DEF lists
  <2> QED BY <1>1, <2>1, FirstOfThen
<1>7. \A u \in Mode : u # <<>> /\ Head(u) = "sendMode"
  BY <1>1, ConnLists, FirstOfThen DEF Mode
<1>8. CASE f = "mode"
  BY <1>2, <1>8 DEF Rest, ConnRest, AfterMode
<1>9. CASE f = "settle"
  <2>1. Head(t) = "sendMode"
    BY <1>2, <1>4, <1>9 DEF After, Sends
  <2>2. Tail(t) \in Then("ok", InConnect)
    BY <1>2, <2>1 DEF ConnRest
  <2>3. t \in Mode
    BY <1>5, <2>1, <2>2 DEF Mode, Then
  <2> QED BY <1>9, <2>3 DEF ConnRest
<1>10. CASE f = "sendMode"
  <2>1. Head(t) = "ok"
    BY <1>2, <1>10 DEF After
  <2>2. Tail(t) \in InConnect
    BY <1>2, <2>1 DEF ConnRest
  <2>3. t \in Then("ok", InConnect)
    BY <1>5, <2>1, <2>2 DEF Then
  <2> QED BY <1>10, <2>3 DEF ConnRest
<1>11. CASE f = "sendSimple"
  <2>1. t \in Then("ok", AfterSimple)
    BY <1>11 DEF Rest
  <2>2. Head(t) = "ok" /\ Tail(t) \in AfterSimple
    <3>1. AfterSimple \subseteq Seq(Frames)
      BY Lists
    <3> QED BY <1>1, <2>1, <3>1, FirstOfThen
  <2>3. Tail(t) \in InConnect
    BY <1>2, <2>2 DEF ConnRest
  <2>4. Tail(t) # <<>> /\ Head(Tail(t)) = "inConnect"
    BY <1>6, <2>3
  <2>5. Head(<<"inPing">>) # "inConnect"
    OBVIOUS
  <2> QED BY <2>2, <2>4, <2>5 DEF AfterSimple
<1>12. CASE f = "sendQuery"
  <2>1. c \in Cursors /\ t \in Then(OpenFrameOf(c), {<<"take">>})
    BY <1>12 DEF Rest
  <2> DEFINE lists == {<<"take">>}
             o == OpenFrameOf(c)
  <2>2. Tail(t) \in lists
    <3>1. lists \subseteq Seq(Frames) /\ o \in Frames /\ t \in Then(o, lists)
      BY <1>1, <2>1, FramesAre
    <3> HIDE DEF lists, o
    <3> QED BY <3>1, FirstOfThen
  <2>3. Head(t) = "open"
    BY <1>2, <1>4, <1>12 DEF After
  <2>4. Tail(t) \in Then("settle", Mode)
    BY <1>2, <2>3 DEF ConnRest
  <2>5. Head(Tail(t)) = "settle"
    BY <1>1, <2>4, ConnLists, FirstOfThen
  <2>6. Head(<<"take">>) = "take"
    OBVIOUS
  <2> QED BY <2>2, <2>5, <2>6
<1>13. CASE f = "ok"
  <2>1. t # <<"inPing">>
    <3>1. Head(<<"inPing">>) = "inPing"
      OBVIOUS
    <3> QED BY <1>4, <3>1
  <2> QED BY <1>2, <1>13, <2>1 DEF Rest, ConnRest, AfterMode, AfterSimple
<1>14. CASE f \in {"open", "rows", "file", "fileOk", "skip", "drain"}
  <2>1. Head(t) = "settle"
    BY <1>2, <1>4, <1>14 DEF After
  <2>2. Tail(t) \in Mode
    BY <1>2, <2>1 DEF ConnRest
  <2>3. t \in Then("settle", Mode)
    BY <1>5, <2>1, <2>2 DEF Then
  <2> QED BY <1>14, <2>3 DEF ConnRest
<1>15. CASE f = "clear"
  <2>1. t \in Then("settle", Queries(c))
    BY <1>15 DEF Rest
  <2>2. Head(t) = "settle" /\ Tail(t) \in Queries(c) /\ Queries(c) \subseteq Seq(Frames)
    BY <1>1, <2>1, Lists, FirstOfThen
  <2>3. Tail(t) \in Mode
    BY <1>2, <2>2 DEF ConnRest
  <2>4. Head(Tail(t)) = "sendQuery"
    <3>1. c \in Cursors /\ Tail(t) \in Then("sendQuery", Then(OpenFrameOf(c), {<<"take">>}))
      BY <2>2 DEF Queries
    <3>2. Then(OpenFrameOf(c), {<<"take">>}) \subseteq Seq(Frames)
      BY <1>1, <3>1, FramesAre, ThenLists
    <3> QED BY <1>1, <3>1, <3>2, FirstOfThen
  <2> QED BY <1>7, <2>3, <2>4
<1>16. CASE f \in {"openSS", "take", "nextset", "finish", "fetch", "row", "inPing", "inClose", "advance"}
  BY <1>2, <1>4, <1>16 DEF After
<1> QED
  BY <1>8, <1>9, <1>10, <1>11, <1>12, <1>13, <1>14, <1>15, <1>16 DEF Frames

(* begin() and the like are not connecting, nor is what connect() is done for. *)
LEMMA NotConnecting ==
  ASSUME NEW t
  PROVE  /\ t # <<>> /\ Tail(t) \in Then("sendSimple", Then("ok", AfterSimple)) => ~Connects(t)
         /\ t = CommandFrames => ~Connects(t)
         /\ \A c : t # <<>> /\ Tail(t) \in Then("take", AfterTake(c)) => ~Connects(t)
         /\ Tail(t) = <<"finish">> => ~Connects(t)
         /\ t = <<>> \/ Head(t) \in {"login", "nextset", "fetch", "row", "finish", "advance", "take", "openSS"} => ~Connects(t)
         /\ t = <<"mode">> => ~Connects(t)
<1>1. /\ "settle" \in Frames /\ "sendMode" \in Frames /\ "ok" \in Frames /\ "inConnect" \in Frames
      /\ "sendSimple" \in Frames /\ "take" \in Frames
  BY DEF Frames
<1>2. \A u \in InConnect : u # <<>> /\ Head(u) = "inConnect"
  <2> DEFINE lists == {<<>>, CommandFrames}
  <2>1. lists \subseteq Seq(Frames) /\ InConnect = Then("inConnect", lists)
    BY FramesAre DEF InConnect
  <2> HIDE DEF lists
  <2> QED BY <1>1, <2>1, FirstOfThen
<1>3. /\ \A u \in Mode : u # <<>> /\ Head(u) = "sendMode"
      /\ \A u \in Then("settle", Mode) : u # <<>> /\ Head(u) = "settle"
      /\ \A u \in Then("ok", InConnect) : u # <<>> /\ Head(u) = "ok"
  BY <1>1, ConnLists, FirstOfThen DEF Mode
<1>4. \A u \in {<<>>, CommandFrames} : u = <<>> \/ Head(u) = "settle"
  BY DEF CommandFrames
<1>5. \A u \in ConnRest(Head(t)) :
        u = <<>> \/ Head(u) \in {"inConnect", "sendMode", "settle", "ok"}
  BY <1>2, <1>3, <1>4 DEF ConnRest
<1>6. \A u \in Then("sendSimple", Then("ok", AfterSimple)) : u # <<>> /\ Head(u) = "sendSimple"
  BY <1>1, Lists, FirstOfThen
<1>7. \A c : \A u \in Then("take", AfterTake(c)) : u # <<>> /\ Head(u) = "take"
  BY <1>1, Lists, FirstOfThen
<1>8. /\ Head(<<"finish">>) = "finish" /\ <<"finish">> # <<>>
      /\ Head(<<"mode">>) = "mode" /\ Tail(<<"mode">>) = <<>>
  OBVIOUS
<1>9. Tail(CommandFrames) # <<>> /\ Head(Tail(CommandFrames)) = "sendSimple"
  BY DEF CommandFrames
<1>10. t = <<"mode">> => ~Connects(t)
  BY <1>2, <1>8 DEF Connects, ConnRest
<1>11. Tail(t) = <<"finish">> => ~Connects(t)
  BY <1>5, <1>8 DEF Connects
<1>12. t = <<>> \/ Head(t) \in {"login", "nextset", "fetch", "row", "finish", "advance", "take", "openSS"} => ~Connects(t)
  BY DEF Connects, ConnRest
<1> QED BY <1>5, <1>6, <1>7, <1>9, <1>10, <1>11, <1>12 DEF Connects


LEMMA DoneConnects ==
  ASSUME TypeInv, todo # <<>>, todo' = Tail(todo), Now \notin {"login", "inConnect"}, Connecting'
  PROVE  Connecting
<1>1. Now \in Frames /\ Tail(todo) \in Rest(Now, by) /\ Head(todo) = Now
  BY GoesOn DEF TypeInv
<1>2. Connects(Tail(todo))
  BY DEF Connecting
<1>3. Tail(todo) \in ConnRest(Now)
  BY <1>1, <1>2, Back
<1> QED BY <1>1, <1>3 DEF Connecting, Connects

LEMMA ConnectingIs ==
  ASSUME Connecting
  PROVE  todo # <<>> /\ Now = Head(todo) /\ Tail(todo) \in ConnRest(Now)
BY DEF Connecting, Connects, Now

LEMMA ConnectingNext ==
  ASSUME Connecting'
  PROVE  todo' # <<>> /\ Now' = Head(todo') /\ Tail(todo') \in ConnRest(Now')
BY DEF Connecting, Connects, Now

(* The other steps of connect(). *)
LEMMA GoConnects ==
  ASSUME TypeInv, todo # <<>>, Now \in {"settle", "mode"}, Connecting',
         \/ /\ Now = "settle" /\ Now' \in {"drain", "open"}
            /\ Tail(todo') = Cons("settle", Tail(todo))
         \/ /\ Now = "mode" /\ Now' = "settle"
            /\ Tail(todo') = Cons("sendMode", Cons("ok", Tail(todo)))
  PROVE  Connecting
<1>1. /\ "settle" \in Frames /\ "sendMode" \in Frames /\ "ok" \in Frames
  BY DEF Frames
<1>2. Tail(todo) \in Seq(Frames) /\ Head(todo) = Now
  BY GoesOn DEF TypeInv
<1>3. \A f \in Frames, t \in Seq(Frames) : Cons(f, t) \in Seq(Frames) /\ Tail(Cons(f, t)) = t
  BY ConsIs
<1>4. /\ \A u \in Then("settle", Mode) : Tail(u) \in Mode
      /\ \A u \in Mode : Tail(u) \in Then("ok", InConnect)
      /\ \A u \in Then("ok", InConnect) : Tail(u) \in InConnect
  BY <1>1, ConnLists, FirstOfThen DEF Mode
<1>5. Tail(todo') \in ConnRest(Now')
  BY ConnectingNext
<1>6. CASE Now = "settle"
  <2>1. Cons("settle", Tail(todo)) \in Then("settle", Mode)
    BY <1>5, <1>6 DEF ConnRest
  <2>2. Tail(todo) \in Mode
    BY <1>1, <1>2, <1>3, <1>4, <2>1
  <2> QED BY <1>2, <1>6, <2>2 DEF Connecting, Connects, ConnRest
<1>7. CASE Now = "mode"
  <2>1. Cons("sendMode", Cons("ok", Tail(todo))) \in Mode
    BY <1>5, <1>7 DEF ConnRest
  <2>2. Cons("ok", Tail(todo)) \in Then("ok", InConnect)
    BY <1>1, <1>2, <1>3, <1>4, <2>1
  <2>3. Tail(todo) \in InConnect
    BY <1>1, <1>2, <1>3, <1>4, <2>2
  <2> QED BY <1>2, <1>7, <2>3 DEF Connecting, Connects, ConnRest
<1> QED BY <1>6, <1>7

LEMMA ConnectStep ==
  ASSUME TypeInv, ConnectOK, [Next]_vars
  PROVE  ConnectOK'
<1> SUFFICES ASSUME Connecting' PROVE ConnectOK'
  BY DEF ConnectOK
<1>1. Now' \notin {"idle", "login", "nextset", "fetch", "row", "finish", "advance", "take", "openSS"}
  <2>1. /\ todo' # <<>> /\ Now' = Head(todo')
        /\ Head(todo') \notin {"login", "nextset", "fetch", "row", "finish", "advance", "take", "openSS"}
    BY NotConnecting, ConnectingNext DEF Connecting
  <2>2. Now' # "idle"
    BY ConnectingNext DEF ConnRest
  <2> QED BY <2>1, <2>2
<1>2. conn \in Conns /\ wire \in Seq(Packets)
  BY DEF TypeInv, DataOK
<1>3. CASE UNCHANGED vars
  BY <1>3 DEF vars, ConnectOK, Connecting, Now
<1>4. CASE Calls
  <2>1. Now' # "settle"
    <3>1. ASSUME Now' = "settle" PROVE FALSE
      <4>1. todo' # <<>> /\ Tail(todo') \in Then("sendSimple", Then("ok", AfterSimple))
        BY <1>4, <3>1, CallTypes DEF Now
      <4> QED BY <4>1, NotConnecting DEF Connecting
    <3> QED BY <3>1
  <2>2. todo' # <<"mode">>
    BY NotConnecting DEF Connecting
  <2> QED BY <1>1, <1>4, <2>1, <2>2, CallTypes
<1>5. CASE ReadRaises \/ SendRaises \/ Unreachable \/ Refused \/ FileFailed
  BY <1>1, <1>5, ReadingTypes, BreakingTypes, FileFailedTypes
<1>6. CASE Send
  <2>1. todo # <<>> /\ todo' = Tail(todo) /\ Now \in Sends /\ Now' \in {"ok", "open", "openSS"}
    BY <1>6, SendMoves DEF TypeInv
  <2>2. Connecting
    BY <2>1, DoneConnects DEF Sends
  <2>3. /\ conn.sock = "open" /\ Now = "sendMode" /\ wire = <<>> /\ Unread = <<>>
        /\ Now' = "ok" /\ Doing("sendMode") /\ ~Doing("sendQuery")
    BY <1>2, <1>6, <2>1, <2>2, SendMoves, UnreadIs DEF ConnectOK, Sends, TypeInv, Now, Doing
  <2>4. conn'.sock = "open" /\ conn'.mode = conn.mode
    BY <1>2, <1>6, <2>3 DEF Send, Conns
  <2>5. wire' # <<>> /\ wire'[1].kind = "ok" => autocommit' = conn'.mode
    <3>1. CASE link = "up"
      <4>1. PICK a \in Answers : \E auto \in Effect(a) :
              /\ Complete(a) /\ auto \in BOOLEAN /\ autocommit' = auto
              /\ Numbered(a, 1, auto) \in Seq(Packets)
              /\ wire' = Unread \o Numbered(a, 1, auto) /\ wire' \in Seq(Packets)
        BY <1>6, <3>1, SendWire DEF TypeInv
      <4>2. PICK auto \in Effect(a) :
              /\ Complete(a) /\ auto \in BOOLEAN /\ autocommit' = auto
              /\ Numbered(a, 1, auto) \in Seq(Packets)
              /\ wire' = Unread \o Numbered(a, 1, auto) /\ wire' \in Seq(Packets)
        BY <4>1
      <4>3. wire' = Numbered(a, 1, auto)
        BY <2>3, <4>2, ConcatEmptySeq
      <4>4. a[1].kind = wire'[1].kind
        <5>1. a \in Seq(Sayings) /\ Len(a) = 1
          BY <2>3, <4>2, AnswersAre DEF Answers, Complete, Begun
        <5>2. \A w : w = Numbered(a, 1, auto) => \A i \in 1 .. Len(a) : w[i].kind = a[i].kind
          BY <4>2, <5>1, NumberedFromOne
        <5>3. 1 \in 1 .. Len(a)
          BY <5>1
        <5> QED BY <4>3, <5>2, <5>3
      <4>5. a[1].kind = "ok" => auto = conn.mode
        BY <2>3, <4>2 DEF Effect
      <4> QED BY <2>4, <4>2, <4>4, <4>5
    <3>2. CASE link # "up"
      BY <1>6, <2>3, <3>2 DEF Send
    <3> QED BY <3>1, <3>2
  <2> QED BY <2>3, <2>4, <2>5 DEF ConnectOK
<1>7. CASE Open
  <2>1. PICK what \in {"open", "openSS"}, p \in Waiting :
          /\ Now = what /\ todo # <<>>
          /\ \/ OpenOk(p) \/ OpenLocal(p) \/ OpenUnbuffered(p)
             \/ OpenBuffered(p) \/ OpenRaises(p)
    BY <1>7, OpenTypes
  <2>2. wire # <<>>
    BY <1>2, <2>1, WaitingIs
  <2>3. Connecting
    <3>1. CASE OpenOk(p) \/ OpenUnbuffered(p)
      BY <2>1, <3>1, DoneConnects DEF OpenOk, OpenUnbuffered
    <3>2. CASE OpenLocal(p) \/ OpenBuffered(p)
      <4>1. Tail(todo') = Tail(todo) /\ Now' \in {"file", "rows"}
        BY <3>2 DEF OpenLocal, OpenBuffered
      <4>2. Tail(todo) \in Then("settle", Mode)
        BY <4>1, ConnectingNext DEF ConnRest
      <4>3. Now = "open"
        <5>1. ASSUME Now = "openSS" PROVE FALSE
          <6>1. Tail(todo) \in Then("take", AfterTake(by))
            BY <2>1, <5>1, GoesOn DEF TypeInv, Rest, OfUnbuffered
          <6>2. "take" \in Frames /\ "settle" \in Frames
            BY DEF Frames
          <6>3. Head(Tail(todo)) = "take" /\ Head(Tail(todo)) = "settle"
            BY <4>2, <6>1, <6>2, Lists, ConnLists, FirstOfThen
          <6> QED BY <6>3
        <5> QED BY <2>1, <5>1
      <4>4. Head(todo) = Now
        BY <2>1 DEF Now
      <4> QED BY <2>1, <4>2, <4>3, <4>4 DEF Connecting, Connects, ConnRest
    <3>3. CASE OpenRaises(p)
      BY <1>1, <3>3 DEF OpenRaises
    <3> QED BY <2>1, <3>1, <3>2, <3>3
  <2> QED BY <2>1, <2>2, <2>3 DEF ConnectOK
<1>8. CASE SendFile \/ FileAnswered \/ ReadRows
  <2>1. Connecting
    <3>1. CASE SendFile
      <4>1. /\ todo # <<>> /\ Now = "file" /\ Now' \in {"fileOk", "skip"}
            /\ Tail(todo') = Tail(todo)
        BY <3>1, FileMoves DEF TypeInv
      <4>2. Tail(todo) \in Then("settle", Mode)
        BY <4>1, ConnectingNext DEF ConnRest
      <4> QED BY <4>1, <4>2 DEF Connecting, Connects, ConnRest, Now
    <3>2. CASE FileAnswered
      BY <1>1, <3>2, FileAnsweredTypes, DoneConnects DEF OpenOk
    <3>3. CASE ReadRows
      <4>1. CASE todo' = todo
        BY <4>1 DEF Connecting
      <4>2. CASE todo' = Tail(todo)
        BY <3>3, <4>2, RowsTypes, DoneConnects
      <4> QED BY <1>1, <3>3, <4>1, <4>2, RowsTypes DEF RowsEnd, RowsGoOn
    <3> QED BY <1>8, <3>1, <3>2, <3>3
  <2>2. Now \in {"file", "fileOk", "rows"}
    BY <1>8, FileMoves, FileAnsweredTypes, RowsTypes DEF TypeInv
  <2> QED BY <2>1, <2>2 DEF ConnectOK
<1>9. CASE Drain
  <2>1. PICK p \in Waiting : todo # <<>> /\ Now = "drain" /\ (RowsEnd(p) \/ RowsGoOn(p))
    BY <1>9, DrainTypes
  <2>2. wire # <<>>
    BY <1>2, <2>1, WaitingIs
  <2>3. Connecting
    <3>1. CASE todo' = todo
      BY <3>1 DEF Connecting
    <3>2. CASE todo' = Tail(todo)
      BY <2>1, <3>2, DoneConnects
    <3> QED BY <2>1, <3>1, <3>2 DEF RowsEnd, RowsGoOn
  <2> QED BY <2>1, <2>2, <2>3 DEF ConnectOK
<1>10. CASE ReadRow
  BY <1>1, <1>10, RowTypes DEF RowsEnd, After
<1>11. CASE Settle
  <2>1. todo # <<>> /\ Now = "settle" /\ UNCHANGED wire
    BY <1>11, SettleTypes
  <2>2. conn' = conn
    BY <1>1, <1>11, SettleTypes
  <2>3. Connecting /\ Now' \in {"drain", "open"} \cup Sends
    BY <1>1, <1>11, <2>1, SettleTypes, DoneConnects, GoConnects
  <2>4. Now' \notin {"sendSimple", "sendQuery"}
    BY ConnectingNext DEF ConnRest
  <2> QED BY <2>1, <2>2, <2>3, <2>4 DEF ConnectOK, Sends
<1>12. CASE ReadOk
  <2>1. PICK p \in Waiting :
          /\ todo # <<>> /\ Now = "ok" /\ Got("ok", p) /\ autocommit' = autocommit
          /\ p.kind = "ok" /\ conn' = [Connected EXCEPT !.status = p.auto]
          /\ todo' = Tail(todo) /\ Now' \in {"idle", "inConnect", "inPing"}
    BY <1>1, <1>12, OkTypes
  <2>2. Connecting
    BY <2>1, DoneConnects
  <2>3. wire # <<>> /\ p = wire[1]
    BY <1>2, <2>1, WaitingIs
  <2>4. conn'.mode = conn.mode /\ conn'.sock = "open"
    BY <1>2, <2>1 DEF Connected, Conns, Got
  <2>5. Now' # "inPing"
    BY ConnectingNext DEF ConnRest
  <2> QED BY <1>1, <2>1, <2>2, <2>3, <2>4, <2>5 DEF ConnectOK
<1>13. CASE Login
  BY <1>13, LoginTypes DEF ConnectOK
<1>14. CASE SetMode
  <2>1. /\ todo # <<>> /\ Now = "mode" /\ UNCHANGED <<conn, wire, autocommit>>
        /\ \/ Now' = "settle"
           \/ conn.status = conn.mode /\ Now' \in {"idle", "inConnect"}
    BY <1>14, SetModeTypes
  <2>2. Connecting
    BY <1>14, <2>1, SetModeTypes, GoConnects, DoneConnects
  <2> QED BY <1>1, <2>1, <2>2 DEF ConnectOK
<1>15. CASE Leave
  <2>1. Now' = "settle" /\ Now = "inConnect" /\ todo # <<>> /\ todo' = Tail(todo)
    BY <1>1, <1>15, LeaveTypes
  <2>2. Tail(todo) \in {<<>>, CommandFrames}
    BY <2>1, GoesOn DEF TypeInv, Rest
  <2> QED BY <2>1, <2>2, NotConnecting DEF Connecting
<1>16. CASE Advance
  <2>1. CASE Tail(todo') \in Then("take", AfterTake(by))
    <3>1. todo' # <<>>
      BY DEF Connecting, Connects
    <3> QED BY <2>1, <3>1, NotConnecting DEF Connecting
  <2>2. CASE todo # <<>> /\ todo' = Tail(todo) /\ Now \in {"nextset", "advance"}
    BY <2>2, DoneConnects, ConnectingIs DEF ConnRest
  <2> QED BY <1>16, <2>1, <2>2, AdvanceTypes
<1>17. CASE Clear \/ Take
  <2>1. todo # <<>> /\ todo' = Tail(todo) /\ Now \in {"clear", "take"}
    BY <1>17, ClearTypes, TakeTypes
  <2> QED BY <2>1, DoneConnects, ConnectingIs DEF ConnRest
<1>18. CASE Fetch
  BY <1>1, <1>18, FetchTypes
<1>19. CASE Finish
  <2>1. Tail(todo') # <<"finish">>
    BY NotConnecting DEF Connecting
  <2> QED BY <1>1, <1>19, <2>1, FinishTypes
<1>20. CASE Cut
  <2>1. PICK n \in 0 .. Len(wire) :
          /\ Len(wire') = n /\ \A i \in 1 .. n : wire'[i] = wire[i]
    BY <1>20, CutTypes
  <2>2. UNCHANGED <<conn, autocommit, todo>> /\ Now' = Now /\ wire' \in Seq(Packets)
    BY <1>20, CutTypes DEF TypeInv, DataOK
  <2>3. wire = <<>> => wire' = <<>>
    BY <2>1, <2>2
  <2>4. wire' # <<>> => wire # <<>> /\ wire'[1] = wire[1]
    <3>1. wire' # <<>> => Len(wire') \in Nat \ {0}
      BY <2>2, EmptySeq
    <3>2. Len(wire) \in Nat
      BY <1>2
    <3> QED BY <2>1, <2>3, <3>1, <3>2
  <2> QED BY <2>2, <2>3, <2>4 DEF ConnectOK, Connecting
<1> QED
  BY <1>3, <1>4, <1>5, <1>6, <1>7, <1>8, <1>9, <1>10, <1>11, <1>12, <1>13, <1>14, <1>15, <1>16,
     <1>17, <1>18, <1>19, <1>20
  DEF Next, Steps

LEMMA Settled ==
  ASSUME TypeInv, ConnectOK
  PROVE  ConnectSetsMode
<1> SUFFICES ASSUME Doing("inConnect") PROVE autocommit = conn.mode
  BY DEF ConnectSetsMode
<1>1. todo # <<>> /\ Now = "inConnect" /\ Head(todo) = "inConnect"
  BY DEF Doing, Now
<1>2. Tail(todo) \in {<<>>, CommandFrames}
  BY <1>1, GoesOn DEF TypeInv, Rest
<1> QED BY <1>1, <1>2 DEF ConnectOK, Connecting, Connects, ConnRest

(* When connect() gets to the end of its try, the session's autocommit is what *)
(* was asked for: the greeting said so, or SET AUTOCOMMIT was answered with OK. *)
THEOREM ConnectLeavesTheMode == Spec => []ConnectSetsMode
<1>1. Init => TypeInv /\ ConnectOK
  BY TypeInit, ConnectingIs DEF ConnectOK, ConnRest
<1>2. TypeInv /\ ConnectOK /\ [Next]_vars => (TypeInv /\ ConnectOK)'
  BY TypeStep, ConnectStep
<1>3. TypeInv /\ ConnectOK => ConnectSetsMode
  BY Settled
<1> QED BY <1>1, <1>2, <1>3, PTL DEF Spec


-----------------------------------------------------------------------------
(* What is on the wire.  The rest of an answer to the call itself: nothing    *)
(* else, in order, up to its last packet unless the link has broken.          *)
Short(w, i) == Len(w) <= i + MaxRows \/ SetEnds(w, i)
Bounded(w) == \A i \in 1..Len(w) : w[i].kind = "cols" => Short(w, i)
OwnList(w) ==
  /\ Chained(w) /\ Bounded(w)
  /\ \A i \in 1..Len(w) : w[i].mine /\ (i > 1 => w[i].n > 1)
Own(heads) ==
  /\ OwnList(wire)
  /\ wire # <<>> => wire[1].kind \in heads
  /\ link = "up" => wire # <<>> /\ Final(wire[Len(wire)])
OwnSimple == Own({"ok", "err"}) /\ (wire # <<>> => ~wire[1].more)

(* Rows that a row that could not be read has left behind. *)
Torn == wire # <<>> /\ wire[1].kind \in InSet /\ wire[1].n > 1 /\ seen.torn

(* The same, in front of the answer to a later command. *)
Foreign == Torn /\ ~wire[1].mine /\ conn.seq = 1

NoSet == ~result.active /\ ~result.next
Between == {"idle"} \cup (Frames \ (Sends \cup Readers \cup {"file", "login"}))

Phase ==
  /\ Now \in {"open", "openSS"} => NoSet /\ (Own(Firsts) \/ Foreign)
  /\ Now = "ok" => NoSet /\ (OwnSimple \/ Foreign)
  /\ Now \in {"fileOk", "skip"} => NoSet /\ OwnSimple
  /\ Now = "file" => NoSet /\ wire = <<>>
  /\ Now \in Sends => NoSet /\ (wire = <<>> \/ Torn)
  /\ Now = "rows" => NoSet /\ Own(InSet) /\ (wire # <<>> => wire[1].n > 1)
  /\ Now \in {"drain", "row"} => result.active /\ Own(InSet)
  /\ Now \in Between => /\ result.active => Own(InSet)
                        /\ result.next => Own(Firsts)
                        /\ NoSet => wire = <<>> \/ Torn

Live == conn.sock = "open" /\ seen.foreign = "none" /\ Now # "login"

WireOK ==
  /\ Live /\ ~seen.over => Phase
  /\ Live /\ seen.over => wire = <<>> /\ Now \notin Sends \cup {"file"} /\ (~NoSet \/ Reading)
  /\ seen.foreign # "none" =>
       Now \in {"idle", "login"} /\ seen.foreign = "wrapped" /\ seen.torn
  /\ Live /\ Now = "take" /\ result.active => Short(wire, 0)

LEMMA NextPacket ==
  ASSUME wire \in Seq(Packets), NEW heads, Own(heads), NEW p \in Waiting,
         wire' = Tail(wire), link' = link
  PROVE  /\ p.mine /\ p.kind \in heads
         /\ p.kind \in {"cols", "row", "bad", "huge"} =>
              Own(InSet)' /\ (wire' # <<>> => wire'[1].n > 1 /\ wire'[1].kind \in InSet)
         /\ p.kind \in {"ok", "eof"} /\ p.more => Own(Firsts)'
         /\ p.kind \in {"ok", "eof"} /\ ~p.more => wire' = <<>>
         /\ p.kind \in {"err", "local"} => wire' = <<>>
         /\ p.kind = "cols" => Short(wire', 0)
<1>0. MaxRows \in Nat
  BY SessionAssumption
<1>1. /\ wire # <<>> /\ p = wire[1] /\ p \in Packets
      /\ wire' \in Seq(Packets) /\ Len(wire') = Len(wire) - 1
      /\ \A i \in 1 .. Len(wire') : wire'[i] = wire[i + 1]
      /\ Len(wire) \in Nat \ {0}
  BY WaitingIs
<1>2. /\ Chained(wire) /\ Bounded(wire)
      /\ \A i \in 1..Len(wire) : wire[i].mine /\ (i > 1 => wire[i].n > 1)
      /\ wire[1].kind \in heads /\ (link = "up" => Final(wire[Len(wire)]))
  BY <1>1 DEF Own, OwnList
<1>3. p.mine /\ p.kind \in heads
  BY <1>1, <1>2
<1>4. Chained(wire')
  <2> SUFFICES ASSUME NEW i \in 1 .. Len(wire') - 1 PROVE Follows(wire'[i], wire'[i + 1])
    BY DEF Chained
  <2>1. i + 1 \in 1 .. Len(wire) - 1 /\ i \in 1 .. Len(wire') /\ i + 1 \in 1 .. Len(wire')
    BY <1>1
  <2>2. Follows(wire[i + 1], wire[(i + 1) + 1])
    BY <1>2, <2>1 DEF Chained
  <2> QED BY <1>1, <2>1, <2>2
<1>5. ASSUME NEW i \in 0 .. Len(wire'), Short(wire, i + 1)
      PROVE  Short(wire', i)
  <2>1. CASE Len(wire) <= i + 1 + MaxRows
    BY <1>0, <1>1, <2>1 DEF Short
  <2>2. CASE SetEnds(wire, i + 1)
    <3>1. PICK e \in (i + 1 + 1)..(i + 1 + MaxRows + 1) : e <= Len(wire) /\ wire[e].kind \in Ends
      BY <2>2 DEF SetEnds
    <3>2. /\ e - 1 \in (i + 1)..(i + MaxRows + 1) /\ e - 1 <= Len(wire')
          /\ e - 1 \in 1 .. Len(wire') /\ (e - 1) + 1 = e
      BY <1>0, <1>1, <3>1
    <3>3. wire'[e - 1].kind \in Ends
      BY <1>1, <3>1, <3>2
    <3> QED BY <3>2, <3>3 DEF Short, SetEnds
  <2> QED BY <1>5, <2>1, <2>2 DEF Short
<1>6. Bounded(wire')
  <2> SUFFICES ASSUME NEW i \in 1 .. Len(wire'), wire'[i].kind = "cols" PROVE Short(wire', i)
    BY DEF Bounded
  <2>1. i + 1 \in 1 .. Len(wire) /\ i \in 0 .. Len(wire') /\ wire[i + 1].kind = "cols"
    BY <1>1
  <2> QED BY <1>2, <1>5, <2>1 DEF Bounded
<1>7. \A i \in 1 .. Len(wire') : wire'[i].mine /\ wire'[i].n > 1
  <2>1. \A i \in 1 .. Len(wire') : i + 1 \in 1 .. Len(wire) /\ i + 1 > 1
    BY <1>1
  <2> QED BY <1>1, <1>2, <2>1
<1>8. OwnList(wire')
  BY <1>4, <1>6, <1>7 DEF OwnList
<1>9. wire' # <<>> =>
        /\ Follows(p, wire'[1]) /\ wire'[1].n > 1
        /\ link = "up" => Final(wire'[Len(wire')])
  <2> SUFFICES ASSUME wire' # <<>>
               PROVE  /\ Follows(p, wire'[1]) /\ wire'[1].n > 1
                      /\ link = "up" => Final(wire'[Len(wire')])
    OBVIOUS
  <2>1. Len(wire') \in Nat \ {0}
    BY <1>1, EmptySeq
  <2>2. /\ 1 \in 1 .. Len(wire) - 1 /\ 1 \in 1 .. Len(wire')
        /\ Len(wire') \in 1 .. Len(wire') /\ Len(wire') + 1 = Len(wire)
    BY <1>1, <2>1
  <2>3. Follows(wire[1], wire[1 + 1])
    BY <1>2, <2>2 DEF Chained
  <2>4. wire'[1] = wire[1 + 1] /\ wire'[Len(wire')] = wire[Len(wire)]
    BY <1>1, <2>2
  <2> QED BY <1>1, <1>2, <1>7, <2>2, <2>3, <2>4
<1>10. wire' = <<>> => (link = "up" => Final(p))
  <2>1. ASSUME wire' = <<>> PROVE Len(wire) = 1
    <3>1. Len(wire') = 0
      BY <2>1, EmptySeq
    <3> QED BY <1>1, <3>1
  <2> QED BY <1>1, <1>2, <2>1
<1>11. ASSUME p.kind \in {"cols", "row", "bad", "huge"}
       PROVE  Own(InSet)' /\ (wire' # <<>> => wire'[1].n > 1 /\ wire'[1].kind \in InSet)
  <2>1. ~Final(p)
    BY <1>11 DEF Final
  <2>2. wire' # <<>> => wire'[1].kind \in InSet
    BY <1>9, <1>11 DEF Follows
  <2> QED BY <1>8, <1>9, <1>10, <2>1, <2>2 DEF Own
<1>12. ASSUME p.kind \in {"ok", "eof"}, p.more
       PROVE  Own(Firsts)'
  <2>1. ~Final(p)
    BY <1>12 DEF Final
  <2>2. wire' # <<>> => wire'[1].kind \in Firsts
    BY <1>9, <1>12 DEF Follows
  <2> QED BY <1>8, <1>9, <1>10, <2>1, <2>2 DEF Own
<1>13. ASSUME (p.kind \in {"ok", "eof"} /\ ~p.more) \/ p.kind \in {"err", "local"}
       PROVE  wire' = <<>>
  BY <1>9, <1>13 DEF Follows
<1>14. ASSUME p.kind = "cols"
       PROVE  Short(wire', 0)
  <2>1. 1 \in 1 .. Len(wire) /\ 0 \in 0 .. Len(wire') /\ 0 + 1 = 1
    BY <1>1
  <2>2. Short(wire, 0 + 1)
    BY <1>1, <1>2, <1>14, <2>1 DEF Bounded
  <2> QED BY <1>5, <2>1, <2>2
<1> QED BY <1>3, <1>11, <1>12, <1>13, <1>14

(* A packet left behind is taken for one's own only if its number has gone round. *)
LEMMA ForeignPacket ==
  ASSUME DataOK, Foreign, NEW p \in Waiting, InOrder, Taken(p)
  PROVE  seen'.foreign = "wrapped" /\ seen'.torn /\ p.kind \in InSet
<1>1. p = wire[1] /\ p = Head(wire) /\ p \in Packets
  BY WaitingIs DEF DataOK
<1>2. p.n \in Nat /\ p.n > 1 /\ p.n % SeqMod = 1 /\ ~p.mine /\ seen.torn /\ p.kind \in InSet
  BY <1>1 DEF Foreign, Torn, InOrder, Packets
<1>3. p.n > SeqMod
  <2>1. SeqMod \in Nat /\ SeqMod > 1
    BY SessionAssumption
  <2>2. p.n < SeqMod => p.n % SeqMod = p.n
    BY <1>2, <2>1
  <2>3. p.n = SeqMod => p.n % SeqMod = 0
    BY <1>2, <2>1
  <2> QED BY <1>2, <2>1, <2>2, <2>3
<1>4. seen \in Histories
  BY DEF DataOK
<1> QED BY <1>2, <1>3, <1>4 DEF Taken, Histories


(* A command is sent when nothing is unread, or rows left behind are. *)
LEMMA SentOwn ==
  ASSUME TypeInv, Send, wire = <<>>
  PROVE  /\ Now' = "ok" => OwnSimple'
         /\ Now' \in {"open", "openSS"} => Own(Firsts)'
<1>0. wire \in Seq(Packets) /\ Unread = <<>> /\ link' = link
  BY UnreadIs DEF TypeInv, DataOK, Send
<1>1. CASE link = "up"
  <2>1. PICK a \in Answers : \E auto \in Effect(a) :
          /\ Complete(a) /\ auto \in BOOLEAN /\ Numbered(a, 1, auto) \in Seq(Packets)
          /\ wire' = Unread \o Numbered(a, 1, auto)
    BY <1>1, SendWire DEF TypeInv
  <2>2. PICK auto \in Effect(a) :
          /\ Complete(a) /\ auto \in BOOLEAN /\ Numbered(a, 1, auto) \in Seq(Packets)
          /\ wire' = Unread \o Numbered(a, 1, auto)
    BY <2>1
  <2>3. wire' = Numbered(a, 1, auto) /\ wire' \in Seq(Packets)
    BY <1>0, <2>2, ConcatEmptySeq
  <2>4. /\ a \in Seq(Sayings) /\ Len(a) \in Nat /\ Len(a) > 0 /\ Chained(a) /\ a[1].kind \in Firsts
        /\ \A i \in 1..Len(a) : a[i].kind = "cols" => SetEnds(a, i)
        /\ Final(a[Len(a)])
    BY <2>2 DEF Complete, Begun
  <2>5. /\ Len(wire') = Len(a)
        /\ \A i \in 1 .. Len(a) :
             /\ wire'[i].kind = a[i].kind /\ wire'[i].more = a[i].more
             /\ wire'[i].n = 1 + i - 1 /\ wire'[i].mine
    <3>1. a \in Seq(Sayings) /\ auto \in BOOLEAN /\ wire' = Numbered(a, 1, auto)
      BY <2>2, <2>3, <2>4
    <3> QED BY <3>1, NumberedFromOne
  <2>6. OwnList(wire')
    <3>1. Chained(wire')
      <4> SUFFICES ASSUME NEW i \in 1 .. Len(a) - 1 PROVE Follows(wire'[i], wire'[i + 1])
        BY <2>5 DEF Chained
      <4>1. i \in 1 .. Len(a) /\ i + 1 \in 1 .. Len(a)
        BY <2>4
      <4>2. Follows(a[i], a[i + 1])
        BY <2>4 DEF Chained
      <4> QED BY <2>5, <4>1, <4>2 DEF Follows
    <3>2. Bounded(wire')
      <4> SUFFICES ASSUME NEW i \in 1 .. Len(a), a[i].kind = "cols" PROVE SetEnds(wire', i)
        BY <2>5 DEF Bounded, Short
      <4>0. MaxRows \in Nat
        BY SessionAssumption
      <4>1. PICK e \in (i + 1)..(i + MaxRows + 1) : e <= Len(a) /\ a[e].kind \in Ends
        BY <2>4 DEF SetEnds
      <4>2. e \in 1 .. Len(a)
        BY <2>4, <4>0, <4>1
      <4> QED BY <2>5, <4>1, <4>2 DEF SetEnds
    <3>3. \A i \in 1 .. Len(wire') : wire'[i].mine /\ (i > 1 => wire'[i].n > 1)
      BY <2>4, <2>5
    <3> QED BY <3>1, <3>2, <3>3 DEF OwnList
  <2>7. wire' # <<>> /\ 1 \in 1 .. Len(a) /\ Len(a) \in 1 .. Len(a)
    <3>1. Len(<<>>) = 0
      BY EmptySeq
    <3> QED BY <2>4, <2>5, <3>1
  <2>8. Final(wire'[Len(wire')])
    <3>1. wire'[Len(a)].kind = a[Len(a)].kind /\ wire'[Len(a)].more = a[Len(a)].more
      BY <2>5, <2>7
    <3> QED BY <2>4, <2>5, <3>1 DEF Final
  <2>9. Own(Firsts)'
    BY <2>4, <2>5, <2>6, <2>7, <2>8 DEF Own
  <2>10. ASSUME Now' = "ok" PROVE OwnSimple'
    <3>1. Now # "sendQuery"
      BY <2>10, SendMoves DEF TypeInv
    <3>2. a \in Finals
      BY <3>1 DEF Answers, Doing, Now
    <3>3. a[1].kind \in {"ok", "err"} /\ ~a[1].more
      BY <3>2, AnswersAre
    <3> QED BY <2>5, <2>6, <2>7, <2>8, <3>3 DEF OwnSimple, Own
  <2> QED BY <2>9, <2>10
<1>2. CASE link # "up"
  <2>1. wire' = <<>> /\ link' # "up"
    BY <1>0, <1>2 DEF Send
  <2>2. Len(wire') = 0
    BY <2>1, EmptySeq
  <2>3. OwnList(wire')
    BY <2>2 DEF OwnList, Chained, Bounded
  <2> QED BY <2>1, <2>3 DEF OwnSimple, Own
<1> QED BY <1>1, <1>2

LEMMA SentForeign ==
  ASSUME TypeInv, Send, Torn
  PROVE  Foreign'
<1>1. /\ wire \in Seq(Packets) /\ Unread \in Seq(Packets) /\ Len(Unread) = Len(wire)
      /\ \A i \in 1 .. Len(wire) : Unread[i] = [wire[i] EXCEPT !.mine = FALSE]
      /\ Len(wire) \in Nat \ {0} /\ conn \in Conns /\ seen \in Histories
  BY UnreadIs, EmptySeq DEF TypeInv, DataOK, Torn
<1>2. 1 \in 1 .. Len(wire) /\ wire[1] \in Packets
  BY <1>1
<1>3. Unread[1].kind = wire[1].kind /\ Unread[1].n = wire[1].n /\ ~Unread[1].mine
  <2>1. Unread[1] = [wire[1] EXCEPT !.mine = FALSE]
    BY <1>1, <1>2
  <2> QED BY <1>2, <2>1 DEF Packets
<1>4. conn'.seq = 1
  BY <1>1 DEF Send, Conns
<1>5. wire' # <<>> /\ wire'[1] = Unread[1] /\ seen'.torn = seen.torn
  <2>1. CASE link = "up"
    <3>1. PICK a \in Answers : \E auto \in Effect(a) :
          /\ auto \in BOOLEAN /\ Numbered(a, 1, auto) \in Seq(Packets)
          /\ wire' = Unread \o Numbered(a, 1, auto)
          /\ seen' = [seen EXCEPT !.silent = conn.status # auto /\ (@ \/ SaysNothing(a))]
      BY <2>1, SendWire DEF TypeInv
    <3>2. PICK auto \in Effect(a) :
          /\ auto \in BOOLEAN /\ Numbered(a, 1, auto) \in Seq(Packets)
          /\ wire' = Unread \o Numbered(a, 1, auto)
          /\ seen' = [seen EXCEPT !.silent = conn.status # auto /\ (@ \/ SaysNothing(a))]
      BY <3>1
    <3>3. seen'.torn = seen.torn
      BY <1>1, <3>2 DEF Histories
    <3> DEFINE w == Numbered(a, 1, auto)
               u == Unread
    <3>4. u \in Seq(Packets) /\ w \in Seq(Packets) /\ wire' = u \o w /\ Len(u) \in Nat \ {0}
      BY <1>1, <3>2
    <3>5. Len(w) \in Nat
      BY <3>4
    <3> HIDE DEF u, w
    <3>6. Len(wire') = Len(u) + Len(w) /\ wire'[1] = u[1]
      BY <3>4, <3>5, ConcatProperties
    <3>7. wire' # <<>> /\ wire'[1] = Unread[1]
      <4>1. Len(<<>>) = 0 /\ Len(wire') # 0
        BY <3>4, <3>5, <3>6, EmptySeq
      <4> QED BY <3>6, <4>1 DEF u
    <3> QED BY <3>3, <3>7
  <2>2. CASE link # "up"
    <3>1. wire' = Unread /\ seen' = seen
      BY <2>2 DEF Send
    <3>2. Len(<<>>) = 0
      BY EmptySeq
    <3> QED BY <1>1, <3>1, <3>2
  <2> QED BY <2>1, <2>2
<1> QED BY <1>3, <1>4, <1>5 DEF Foreign, Torn

(* The answer to a file. *)
LEMMA FileOwn ==
  ASSUME TypeInv, SendFile, wire = <<>>
  PROVE  OwnSimple'
<1>1. PICK packets \in {1, 2}, final \in Finals :
        wire' = wire \o Numbered(final, conn.seq + packets, autocommit)
  BY DEF SendFile
<1>2. /\ final \in Seq(Sayings) /\ Len(final) = 1 /\ final[1].kind \in {"ok", "err"} /\ ~final[1].more
      /\ conn.seq + packets \in Nat \ {0} /\ autocommit \in BOOLEAN
  <2>1. conn.seq \in Nat
    BY SessionAssumption DEF TypeInv, DataOK, Conns
  <2> QED BY <2>1, AnswersAre DEF Complete, Begun, TypeInv, DataOK
<1> DEFINE n == conn.seq + packets
           w == Numbered(final, n, autocommit)
<1>3. n \in Nat \ {0}
  BY <1>2
<1>4. wire' = wire \o w
  BY <1>1
<1> HIDE DEF n
<1>5. /\ w \in Seq(Packets) /\ Len(w) = Len(final)
      /\ \A i \in 1 .. Len(final) :
           w[i].kind = final[i].kind /\ w[i].more = final[i].more /\ w[i].mine
  BY <1>2, <1>3, NumberedIs
<1> HIDE DEF w
<1>6. wire' = w
  BY <1>4, <1>5, ConcatEmptySeq
<1>7. /\ Len(wire') = 1 /\ wire'[1].kind \in {"ok", "err"} /\ ~wire'[1].more /\ wire'[1].mine
  <2>1. 1 \in 1 .. Len(final)
    BY <1>2
  <2> QED BY <1>2, <1>5, <1>6, <2>1
<1>8. wire' # <<>>
  <2>1. Len(<<>>) = 0
    BY EmptySeq
  <2> QED BY <1>7, <2>1
<1>9. OwnList(wire')
  <2>1. Chained(wire')
    BY <1>7 DEF Chained
  <2>2. \A i \in 1 .. Len(wire') : i = 1
    BY <1>7
  <2>3. Bounded(wire')
    BY <1>7, <2>2 DEF Bounded
  <2>4. \A i \in 1 .. Len(wire') : wire'[i].mine /\ ~(i > 1)
    BY <1>7, <2>2
  <2> QED BY <2>1, <2>3, <2>4 DEF OwnList
<1>10. Final(wire'[Len(wire')])
  BY <1>7 DEF Final
<1> QED BY <1>7, <1>8, <1>9, <1>10 DEF OwnSimple, Own

(* What the link's break leaves. *)
LEMMA CutOwn ==
  ASSUME TypeInv, Cut
  PROVE  /\ \A heads : Own(heads) => Own(heads)'
         /\ OwnSimple => OwnSimple'
         /\ wire' # <<>> => wire # <<>> /\ wire'[1] = wire[1]
         /\ wire' = <<>> => Own(Firsts)' /\ OwnSimple'
         /\ Short(wire, 0) => Short(wire', 0)
<1>1. PICK n \in 0 .. Len(wire) : Len(wire') = n /\ \A i \in 1 .. n : wire'[i] = wire[i]
  BY CutTypes
<1>2. /\ wire \in Seq(Packets) /\ wire' \in Seq(Packets) /\ Len(wire) \in Nat /\ n \in Nat
      /\ n <= Len(wire) /\ link' # "up" /\ MaxRows \in Nat
  BY SessionAssumption, CutTypes DEF TypeInv, DataOK
<1>3. /\ (wire' # <<>> => n > 0) /\ (wire' = <<>> => n = 0)
  <2>1. /\ (wire' # <<>> => Len(wire') \in Nat \ {0}) /\ Len(<<>>) = 0
    BY <1>2, EmptySeq
  <2> QED BY <1>1, <1>2, <2>1
<1>4. wire' # <<>> => wire # <<>> /\ wire'[1] = wire[1]
  <2>1. Len(<<>>) = 0
    BY EmptySeq
  <2> QED BY <1>1, <1>2, <1>3, <2>1
<1>5. ASSUME NEW i \in 0 .. n, Short(wire, i)
      PROVE  Short(wire', i)
  <2>1. CASE Len(wire) <= i + MaxRows
    BY <1>1, <1>2, <2>1 DEF Short
  <2>2. CASE SetEnds(wire, i)
    <3>1. PICK e \in (i + 1)..(i + MaxRows + 1) : e <= Len(wire) /\ wire[e].kind \in Ends
      BY <2>2 DEF SetEnds
    <3>2. CASE e <= n
      <4>1. e \in 1 .. n
        BY <1>2, <3>1, <3>2
      <4> QED BY <1>1, <3>1, <3>2, <4>1 DEF Short, SetEnds
    <3>3. CASE e > n
      BY <1>1, <1>2, <3>1, <3>3 DEF Short
    <3> QED BY <1>2, <3>1, <3>2, <3>3
  <2> QED BY <1>5, <2>1, <2>2 DEF Short
<1>6. OwnList(wire) => OwnList(wire')
  <2> SUFFICES ASSUME OwnList(wire) PROVE OwnList(wire')
    OBVIOUS
  <2>1. Chained(wire')
    <3> SUFFICES ASSUME NEW i \in 1 .. n - 1 PROVE Follows(wire'[i], wire'[i + 1])
      BY <1>1 DEF Chained
    <3>1. i \in 1 .. Len(wire) - 1 /\ i \in 1 .. n /\ i + 1 \in 1 .. n
      BY <1>2
    <3>2. Follows(wire[i], wire[i + 1])
      BY <3>1 DEF OwnList, Chained
    <3> QED BY <1>1, <3>1, <3>2
  <2>2. Bounded(wire')
    <3> SUFFICES ASSUME NEW i \in 1 .. n, wire'[i].kind = "cols" PROVE Short(wire', i)
      BY <1>1 DEF Bounded
    <3>1. i \in 1 .. Len(wire) /\ wire[i].kind = "cols" /\ i \in 0 .. n
      BY <1>1, <1>2
    <3>2. Short(wire, i)
      BY <3>1 DEF OwnList, Bounded
    <3> QED BY <1>5, <3>1, <3>2
  <2>3. \A i \in 1 .. n : wire'[i].mine /\ (i > 1 => wire'[i].n > 1)
    <3>1. \A i \in 1 .. n : i \in 1 .. Len(wire)
      BY <1>2
    <3> QED BY <1>1, <3>1 DEF OwnList
  <2> QED BY <1>1, <2>1, <2>2, <2>3 DEF OwnList
<1>7. ASSUME NEW heads, Own(heads) PROVE Own(heads)'
  BY <1>2, <1>4, <1>6, <1>7 DEF Own
<1>8. OwnSimple => OwnSimple'
  BY <1>4, <1>7 DEF OwnSimple
<1>9. wire' = <<>> => Own(Firsts)' /\ OwnSimple'
  <2>1. wire' = <<>> => OwnList(wire')
    BY <1>1, <1>3 DEF OwnList, Chained, Bounded
  <2> QED BY <1>2, <2>1 DEF OwnSimple, Own
<1>10. Short(wire, 0) => Short(wire', 0)
  BY <1>2, <1>5
<1> QED BY <1>4, <1>7, <1>8, <1>9, <1>10

-----------------------------------------------------------------------------
(* The ways a step keeps WireOK.                                            *)
LEMMA WireDead ==
  ASSUME conn'.sock # "open" \/ Now' = "login", seen'.foreign = "none"
  PROVE  WireOK'
BY DEF WireOK, Live

LEMMA WireForeign ==
  ASSUME Now' \in {"idle", "login"}, seen'.foreign = "wrapped", seen'.torn
  PROVE  WireOK'
BY DEF WireOK, Live

LEMMA WireBetween ==
  ASSUME Now' \in Between \cup {"login"}, ~seen'.over, seen'.foreign = "none",
         result'.active => Own(InSet)',
         result'.next => Own(Firsts)',
         NoSet' => wire' = <<>> \/ Torn',
         Now' = "take" /\ result'.active => Short(wire', 0)
  PROVE  WireOK'
<1>1. CASE Now' = "login"
  BY <1>1, WireDead
<1>2. CASE Now' \in Between
  <2>1. /\ Now' \notin {"open", "openSS", "ok", "fileOk", "skip", "file", "rows", "drain", "row"}
        /\ Now' \notin Sends
    BY <1>2 DEF Between, Readers, Sends
  <2>2. Phase'
    BY <2>1 DEF Phase
  <2> QED BY <2>2 DEF WireOK
<1> QED BY <1>1, <1>2

LEMMA RaiseLive ==
  ASSUME PlanOK, NEW c \in Conns, NEW cs, RaiseWith(c, cs)
  PROVE  /\ conn'.sock = "open" => conn' = c
         /\ conn'.sock = "open" /\ Now' # "login" => ~Within("inConnect")
<1>1. CASE Within("inPing")
  <2>1. conn' = c /\ todo' = ConnectFrames \o CommandFrames
    BY <1>1 DEF RaiseWith, ToDo
  <2>2. First(ConnectFrames \o CommandFrames) = "login"
    <3>1. "login" \in Frames /\ "mode" \in Frames /\ "inConnect" \in Frames
      BY DEF Frames
    <3>2. Cons("inConnect", CommandFrames) \in Seq(Frames)
      BY <3>1, FramesAre, ConsIs
    <3>3. Cons("mode", Cons("inConnect", CommandFrames)) \in Seq(Frames)
      BY <3>1, <3>2, ConsIs
    <3>4. \A f \in Frames, t \in Seq(Frames) : First(Cons(f, t)) = f
      BY ConsIs DEF First
    <3> DEFINE rest == Cons("mode", Cons("inConnect", CommandFrames))
    <3>5. ConnectFrames \o CommandFrames = Cons("login", rest) /\ rest \in Seq(Frames)
      BY <3>3, StartLists
    <3> HIDE DEF rest
    <3> QED BY <3>1, <3>4, <3>5
  <2>3. Now' = "login"
    BY <2>1, <2>2 DEF Now, First
  <2> QED BY <2>1, <2>3
<1>2. CASE ~Within("inPing")
  <2>1. conn' = IF Within("inConnect") /\ c.sock = "open" THEN [c EXCEPT !.sock = "dead"] ELSE c
    BY <1>2 DEF RaiseWith
  <2> QED BY <2>1 DEF Conns
<1> QED BY <1>1, <1>2

(* An exception in the handshake is connect()'s. *)
LEMMA LoginIsWithin ==
  ASSUME PlanOK, Doing("login")
  PROVE  Within("inConnect")
<1>1. todo \in Seq(Frames) /\ todo # <<>> /\ Tail(todo) \in Then("mode", InConnect)
  BY GoesOn DEF Doing, Rest, PlanOK, Plans
<1>2. Tail(todo) # <<>> /\ Tail(Tail(todo)) \in InConnect
  <2>1. "mode" \in Frames /\ InConnect \subseteq Seq(Frames)
    BY Lists DEF Frames
  <2> QED BY <1>1, <2>1, FirstOfThen
<1>3. Tail(Tail(todo)) # <<>> /\ Head(Tail(Tail(todo))) = "inConnect"
  <2> DEFINE lists == {<<>>, CommandFrames}
  <2>1. lists \subseteq Seq(Frames) /\ InConnect = Then("inConnect", lists)
    BY FramesAre DEF InConnect
  <2> HIDE DEF lists
  <2>2. "inConnect" \in Frames
    BY DEF Frames
  <2> QED BY <1>2, <2>1, <2>2, FirstOfThen
<1>4. /\ Tail(todo) \in Seq(Frames) /\ Tail(Tail(todo)) \in Seq(Frames)
      /\ Len(todo) \in Nat /\ Len(todo) >= 3
      /\ todo[3] = "inConnect"
  BY <1>1, <1>2, <1>3, HeadTailProperties
<1>5. 3 \in DOMAIN todo
  BY <1>1, <1>4
<1> QED BY <1>4, <1>5 DEF Within

(* What the packet read next is: of the answer to the call itself, or left *)
(* behind by an earlier one.                                               *)
Heads(f) ==
  IF f \in {"open", "openSS"} THEN Firsts
  ELSE IF f \in {"rows", "drain", "row"} THEN InSet ELSE {"ok", "err"}

OwnTaken(p) ==
  /\ seen'.foreign = "none" /\ p.kind \in Heads(Now)
  /\ Now \in {"ok", "fileOk", "skip"} => ~p.more
  /\ p.kind \in {"cols", "row", "bad", "huge"} =>
       Own(InSet)' /\ (wire' # <<>> => wire'[1].n > 1 /\ wire'[1].kind \in InSet)
  /\ p.kind \in {"ok", "eof"} /\ p.more => Own(Firsts)'
  /\ p.kind \in {"ok", "eof"} /\ ~p.more => wire' = <<>>
  /\ p.kind \in {"err", "local"} => wire' = <<>>
  /\ p.kind = "cols" => Short(wire', 0)

LEMMA TakenOwn ==
  ASSUME TypeInv, WireOK, Reading, conn.sock = "open", NEW p \in Waiting, InOrder, Taken(p),
         link' = link
  PROVE  /\ ~seen'.over /\ ~result.next /\ p \in Packets
         /\ Now \in {"drain", "row"} => result.active
         /\ Now \notin {"drain", "row"} => NoSet
         /\ seen'.torn = (seen.torn \/ (Now = "rows" /\ p.kind = "bad"))
         /\ \/ /\ seen'.foreign = "wrapped" /\ seen'.torn /\ p.kind \in InSet
               /\ Now \in {"open", "openSS", "ok"}
            \/ OwnTaken(p)
<1>1. /\ wire \in Seq(Packets) /\ seen \in Histories /\ result \in Results
      /\ wire # <<>> /\ p \in Packets /\ p = wire[1] /\ wire' = Tail(wire)
  BY WaitingIs DEF TypeInv, DataOK, Taken
<1>2. todo # <<>> /\ Now \in Readers /\ (Doing("rows") <=> Now = "rows")
  BY DEF Reading, Now, Doing
<1>3. Live /\ seen.foreign = "none"
  BY <1>2 DEF WireOK, Live, Readers
<1>4. ~seen.over /\ Phase
  BY <1>1, <1>3 DEF WireOK
<1>5. /\ seen'.over = seen.over /\ seen'.torn = (seen.torn \/ (Now = "rows" /\ p.kind = "bad"))
      /\ p.mine => seen'.foreign = "none"
  BY <1>1, <1>2, <1>3 DEF Taken, Histories, Packets
<1>6. /\ Now \in {"drain", "row"} => result.active
      /\ Now \notin {"drain", "row"} => NoSet
      /\ ~result.next
  BY <1>2, <1>4 DEF Phase, Readers, NoSet, TypeInv, ResultOK
<1>7. \/ Foreign /\ Now \in {"open", "openSS", "ok"}
      \/ Own(Heads(Now)) /\ (Now \in {"ok", "fileOk", "skip"} => ~wire[1].more)
  BY <1>1, <1>2, <1>4 DEF Phase, Heads, Readers, OwnSimple
<1>8. CASE Foreign /\ Now \in {"open", "openSS", "ok"}
  BY <1>1, <1>4, <1>5, <1>6, <1>8, ForeignPacket DEF TypeInv
<1>9. CASE Own(Heads(Now)) /\ (Now \in {"ok", "fileOk", "skip"} => ~wire[1].more)
  <2> DEFINE heads == Heads(Now)
  <2>1. Own(heads)
    BY <1>9
  <2> HIDE DEF heads
  <2>2. /\ p.mine /\ p.kind \in heads
        /\ p.kind \in {"cols", "row", "bad", "huge"} =>
             Own(InSet)' /\ (wire' # <<>> => wire'[1].n > 1 /\ wire'[1].kind \in InSet)
        /\ p.kind \in {"ok", "eof"} /\ p.more => Own(Firsts)'
        /\ p.kind \in {"ok", "eof"} /\ ~p.more => wire' = <<>>
        /\ p.kind \in {"err", "local"} => wire' = <<>>
        /\ p.kind = "cols" => Short(wire', 0)
    BY <1>1, <2>1, NextPacket
  <2>3. OwnTaken(p)
    BY <1>1, <1>5, <1>9, <2>2 DEF OwnTaken, heads
  <2> QED BY <1>1, <1>4, <1>5, <1>6, <2>3
<1> QED BY <1>7, <1>8, <1>9

LEMMA GotOwn ==
  ASSUME TypeInv, WireOK, NEW what \in Readers, NEW p \in Waiting, Got(what, p), link' = link
  PROVE  /\ ~seen'.over /\ ~result.next /\ p \in Packets /\ p.kind \in Kinds \ {"err"} /\ Now = what
         /\ Now \in {"drain", "row"} => result.active
         /\ Now \notin {"drain", "row"} => NoSet
         /\ seen'.torn = (seen.torn \/ (Now = "rows" /\ p.kind = "bad"))
         /\ \/ /\ seen'.foreign = "wrapped" /\ seen'.torn /\ p.kind \in InSet
               /\ Now \in {"open", "openSS", "ok"}
            \/ OwnTaken(p)
<1>1. Reading /\ Now = what /\ conn.sock = "open" /\ InOrder /\ Taken(p) /\ ~IsError(p)
  BY DEF Got, Reading, Doing, Now
<1>2. p \in Packets => p.kind \in Kinds \ {"err"}
  BY <1>1, Bytes DEF Packets
<1> QED BY <1>1, <1>2, TakenOwn

(* Reading, action by action. *)
LEMMA ReadRaisesWire ==
  ASSUME TypeInv, WireOK, ReadRaises
  PROVE  WireOK'
<1>1. /\ TypeInv' /\ Now' \in {"idle", "login"} /\ link' = link
      /\ ForceClosed \in Conns /\ Connected \in Conns /\ conn \in Conns /\ PlanOK
      /\ todo # <<>> /\ Now \in Readers /\ Reading /\ result \in Results
  BY ReadingTypes, ConnTypes DEF TypeInv, DataOK, ReadRaises, Reading, Now
<1>2. seen.foreign = "none"
  BY <1>1 DEF WireOK, Readers
<1>3. \A c \in Conns : Raise(c) => (conn'.sock = "open" => conn' = c)
  BY <1>1, RaiseLive DEF Raise
<1>4. CASE /\ conn.sock # "open" /\ seen' = seen
           /\ Raise(IF conn.sock = "deaf" THEN ForceClosed ELSE conn)
  <2>1. conn'.sock # "open"
    BY <1>1, <1>3, <1>4 DEF ForceClosed, Conns
  <2> QED BY <1>2, <1>4, <2>1, WireDead
<1>5. CASE Raise(ForceClosed) /\ seen' = seen
  <2>1. conn'.sock # "open"
    BY <1>1, <1>3, <1>5 DEF ForceClosed, Conns
  <2> QED BY <1>2, <1>5, <2>1, WireDead
<1>6. ASSUME NEW p \in Waiting, conn.sock = "open", InOrder, IsError(p), Taken(p),
             result' = [result EXCEPT !.active = FALSE]
      PROVE  WireOK'
  <2>1. /\ ~seen'.over /\ ~result.next /\ p \in Packets
        /\ \/ seen'.foreign = "wrapped" /\ seen'.torn
           \/ OwnTaken(p)
    BY <1>1, <1>6, TakenOwn
  <2>2. p.kind = "err"
    BY <1>6, <2>1, Bytes
  <2>3. CASE OwnTaken(p)
    <3>1. wire' = <<>> /\ seen'.foreign = "none"
      BY <2>2, <2>3 DEF OwnTaken
    <3>2. ~result'.active /\ ~result'.next
      BY <1>1, <1>6, <2>1 DEF Results
    <3> QED BY <1>1, <2>1, <3>1, <3>2, WireBetween DEF Between
  <2> QED BY <1>1, <2>1, <2>3, WireForeign
<1> QED BY <1>4, <1>5, <1>6 DEF ReadRaises

LEMMA OpenWire ==
  ASSUME TypeInv, WireOK, Open
  PROVE  WireOK'
<1>1. PICK what \in {"open", "openSS"}, p \in Waiting :
        /\ Got(what, p) /\ UNCHANGED <<holder, link, autocommit>> /\ Now = what
        /\ \/ OpenOk(p) \/ OpenLocal(p) \/ OpenUnbuffered(p)
           \/ OpenBuffered(p) \/ OpenRaises(p)
  BY OpenTypes
<1>2. /\ ~seen'.over /\ p.kind \in Kinds \ {"err"} /\ NoSet
      /\ \/ seen'.foreign = "wrapped" /\ seen'.torn /\ p.kind \in InSet
         \/ OwnTaken(p) /\ p.kind \in Firsts
  <2>1. what \in Readers
    BY DEF Readers
  <2> QED BY <1>1, <2>1, GotOwn DEF OwnTaken, Heads
<1>3. CASE OpenOk(p)
  <2>1. /\ p.kind = "ok" /\ Now' \in {"settle", "take"}
        /\ ~result'.active /\ result'.next = p.more
    BY <1>3 DEF OpenOk, Stored, Result
  <2>2. OwnTaken(p)
    BY <1>2, <2>1 DEF InSet
  <2>3. /\ seen'.foreign = "none" /\ (p.more => Own(Firsts)') /\ (~p.more => wire' = <<>>)
    BY <2>1, <2>2 DEF OwnTaken
  <2>4. Now' \in Between
    BY <2>1 DEF Between, Frames, Sends, Readers
  <2> QED BY <1>2, <2>1, <2>3, <2>4, WireBetween DEF NoSet
<1>4. CASE OpenLocal(p)
  <2>1. p.kind = "local" /\ Now' = "file" /\ result' = result
    BY <1>4 DEF OpenLocal
  <2>2. seen'.foreign = "none" /\ wire' = <<>>
    BY <1>2, <2>1 DEF InSet, OwnTaken
  <2> QED BY <1>2, <2>1, <2>2 DEF WireOK, Phase, NoSet, Sends, Between
<1>5. CASE OpenUnbuffered(p)
  <2>1. p.kind = "cols" /\ Now' = "take" /\ result'.active /\ ~result'.next
    BY <1>5 DEF OpenUnbuffered, Stored, Result
  <2>2. seen'.foreign = "none" /\ Own(InSet)' /\ Short(wire', 0)
    BY <1>2, <2>1 DEF InSet, OwnTaken
  <2>3. Now' \in Between
    BY <2>1 DEF Between, Frames, Sends, Readers
  <2> QED BY <1>2, <2>1, <2>2, <2>3, WireBetween DEF NoSet
<1>6. CASE OpenBuffered(p)
  <2>1. p.kind = "cols" /\ Now' = "rows" /\ result' = result
    BY <1>6 DEF OpenBuffered
  <2>2. seen'.foreign = "none" /\ Own(InSet)' /\ (wire' # <<>> => wire'[1].n > 1)
    BY <1>2, <2>1 DEF InSet, OwnTaken
  <2> QED BY <1>2, <2>1, <2>2 DEF WireOK, Phase, NoSet, Sends, Between, Readers
<1>7. CASE OpenRaises(p)
  <2>1. Now' \in {"idle", "login"} /\ p.kind \notin Firsts
    BY <1>7 DEF OpenRaises, Firsts
  <2> QED BY <1>2, <2>1, WireForeign
<1> QED BY <1>1, <1>3, <1>4, <1>5, <1>6, <1>7

(* The call raises or goes on with nothing of its own unread. *)
LEMMA SimpleWire ==
  ASSUME TypeInv, WireOK, NEW what \in {"fileOk", "skip", "ok"}, NEW p \in Waiting, Got(what, p),
         link' = link,
         Now' \in (Between \cup {"login"}),
         p.kind = "ok" \/ Now' \in {"idle", "login"},
         result' = result \/ (Stored(FALSE, p.more) /\ p.kind = "ok")
  PROVE  WireOK'
<1>1. /\ ~seen'.over /\ p.kind \in Kinds \ {"err"} /\ NoSet
      /\ \/ seen'.foreign = "wrapped" /\ seen'.torn /\ p.kind \in InSet
         \/ OwnTaken(p) /\ p.kind \in {"ok", "err"} /\ ~p.more
  <2>1. what \in Readers
    BY DEF Readers
  <2> QED BY <2>1, GotOwn DEF OwnTaken, Heads
<1>2. CASE OwnTaken(p) /\ p.kind \in {"ok", "err"} /\ ~p.more
  <2>1. wire' = <<>> /\ seen'.foreign = "none"
    BY <1>2 DEF OwnTaken
  <2>2. ~result'.active /\ ~result'.next
    BY <1>1, <1>2 DEF NoSet, Stored, Result
  <2> QED BY <1>1, <2>1, <2>2, WireBetween
<1>3. CASE seen'.foreign = "wrapped" /\ seen'.torn /\ p.kind \in InSet
  <2>1. p.kind # "ok"
    BY <1>3 DEF InSet
  <2> QED BY <1>3, <2>1, WireForeign
<1> QED BY <1>1, <1>2, <1>3

LEMMA OkWire ==
  ASSUME TypeInv, WireOK, ReadOk \/ FileAnswered \/ FileFailed
  PROVE  WireOK'
<1>1. {"idle", "settle", "take", "inConnect", "inPing"} \subseteq Between
  BY DEF Between, Frames, Sends, Readers
<1>2. CASE ReadOk
  <2>1. PICK p \in Waiting :
          /\ Got("ok", p) /\ UNCHANGED <<result, holder, link, autocommit>>
          /\ \/ p.kind = "ok" /\ Now' \in {"idle", "inConnect", "inPing"}
             \/ Now' \in {"idle", "login"}
    BY <1>2, OkTypes
  <2> QED BY <1>1, <2>1, SimpleWire
<1>3. CASE FileAnswered
  <2>1. PICK p \in Waiting :
          /\ Got("fileOk", p) /\ UNCHANGED <<holder, link, autocommit>>
          /\ \/ OpenOk(p)
             \/ Raise(Connected) /\ UNCHANGED result /\ Now' \in {"idle", "login"}
    BY <1>3, FileAnsweredTypes
  <2> QED BY <1>1, <2>1, SimpleWire DEF OpenOk
<1>4. CASE FileFailed
  <2>1. PICK p \in Waiting :
          Got("skip", p) /\ Raise(Connected) /\ UNCHANGED <<result, holder, link, autocommit>>
    BY <1>4, FileFailedTypes
  <2> QED BY <1>1, <1>4, <2>1, SimpleWire, FileFailedTypes
<1> QED BY <1>2, <1>3, <1>4

LEMMA RowsWire ==
  ASSUME TypeInv, WireOK, NEW what \in {"rows", "drain", "row"}, NEW p \in Waiting, Got(what, p),
         link' = link,
         \/ RowsEnd(p)
         \/ RowsGoOn(p) /\ (what = "rows" => p.kind # "bad") /\ what # "row"
         \/ what = "rows" /\ p.kind = "bad" /\ Now' \in {"idle", "login"} /\ result' = result
         \/ what = "row" /\ p.kind # "eof" /\ Now' \in {"idle", "login"} /\ result' = result
  PROVE  WireOK'
<1>1. what \in Readers
  BY DEF Readers
<1>2. /\ ~seen'.over /\ ~result.next /\ p.kind \in Kinds \ {"err"} /\ Now = what
      /\ Now \in {"drain", "row"} => result.active
      /\ Now \notin {"drain", "row"} => NoSet
      /\ seen'.torn = (seen.torn \/ (Now = "rows" /\ p.kind = "bad"))
      /\ OwnTaken(p) /\ p.kind \in InSet
  BY <1>1, GotOwn DEF OwnTaken, Heads
<1>3. CASE RowsEnd(p)
  <2>1. p.kind = "eof" /\ ~result'.active /\ result'.next = p.more /\ Now' \in After(Now)
    BY <1>3 DEF RowsEnd, Stored, Result
  <2>2. /\ seen'.foreign = "none" /\ (p.more => Own(Firsts)') /\ (~p.more => wire' = <<>>)
    BY <1>2, <2>1 DEF OwnTaken
  <2>3. Now' \in Between
    BY <1>2, <2>1 DEF Between, Frames, Sends, Readers, After
  <2> QED BY <1>2, <2>1, <2>2, <2>3, WireBetween DEF NoSet
<1>4. CASE p.kind # "eof"
  <2>1. /\ seen'.foreign = "none" /\ Own(InSet)'
        /\ (wire' # <<>> => wire'[1].n > 1 /\ wire'[1].kind \in InSet)
    BY <1>2, <1>4 DEF OwnTaken, InSet
  <2>2. CASE RowsGoOn(p) /\ what # "row"
    <3>1. result' = result /\ Now' = Now
      BY <2>2 DEF RowsGoOn
    <3> QED BY <1>2, <2>1, <2>2, <3>1 DEF WireOK, Phase, NoSet, Sends, Between, Readers
  <2>3. CASE what = "rows" /\ p.kind = "bad" /\ Now' \in {"idle", "login"} /\ result' = result
    <3>1. wire' = <<>> \/ Torn'
      BY <1>2, <2>1, <2>3 DEF Torn
    <3> QED BY <1>2, <2>1, <2>3, <3>1, WireBetween DEF Between, NoSet
  <2>4. CASE what = "row" /\ Now' \in {"idle", "login"} /\ result' = result
    BY <1>2, <2>1, <2>4, WireBetween DEF Between, NoSet
  <2> QED BY <1>4, <2>2, <2>3, <2>4 DEF RowsEnd
<1> QED BY <1>3, <1>4 DEF RowsGoOn

(* Writing. *)
LEMMA SendsWire ==
  ASSUME TypeInv, WireOK, Send
  PROVE  WireOK'
<1>1. /\ todo # <<>> /\ Now \in Sends /\ Now' \in {"ok", "open", "openSS"}
      /\ result' = result /\ conn'.sock = conn.sock /\ conn \in Conns /\ seen \in Histories
      /\ conn.sock \in {"open", "deaf"} /\ wire \in Seq(Packets)
  BY SendMoves DEF TypeInv, DataOK, Send, Conns
<1>2. seen'.foreign = seen.foreign /\ seen'.over = seen.over
  BY <1>1 DEF Send, Histories
<1>3. seen.foreign = "none"
  BY <1>1 DEF WireOK, Sends
<1>4. CASE conn.sock = "deaf"
  BY <1>1, <1>2, <1>3, <1>4, WireDead
<1>5. CASE conn.sock = "open"
  <2>1. ~seen.over /\ NoSet /\ (wire = <<>> \/ Torn)
    BY <1>1, <1>3, <1>5 DEF WireOK, Live, Phase, Sends
  <2>2. CASE wire = <<>>
    BY <1>1, <1>2, <1>3, <2>1, <2>2, SentOwn DEF WireOK, Phase, NoSet, Sends, Between, Readers
  <2>3. CASE Torn
    BY <1>1, <1>2, <1>3, <2>1, <2>3, SentForeign DEF WireOK, Phase, NoSet, Sends, Between, Readers
  <2> QED BY <2>1, <2>2, <2>3
<1> QED BY <1>1, <1>4, <1>5

LEMMA FileWire ==
  ASSUME TypeInv, WireOK, SendFile
  PROVE  WireOK'
<1>1. /\ Now = "file" /\ Now' \in {"fileOk", "skip"} /\ result' = result /\ seen' = seen
      /\ conn.sock = "open"
  BY FileMoves DEF TypeInv, SendFile
<1>2. seen.foreign = "none"
  BY <1>1 DEF WireOK
<1>3. ~seen.over /\ NoSet /\ wire = <<>>
  BY <1>1, <1>2 DEF WireOK, Live, Phase
<1>4. OwnSimple'
  BY <1>3, FileOwn
<1> QED BY <1>1, <1>2, <1>3, <1>4 DEF WireOK, Phase, NoSet, Sends, Between, Readers

LEMMA BreakingWire ==
  ASSUME TypeInv, WireOK, SendRaises \/ Unreachable \/ Refused
  PROVE  WireOK'
<1>1. /\ TypeInv' /\ Now' \in {"idle", "login"} /\ conn \in Conns /\ PlanOK /\ seen' = seen
      /\ ForceClosed \in Conns /\ seen \in Histories
      /\ \A s \in {"none", "open", "dead", "deaf"} : [conn EXCEPT !.sock = s] \in Conns
  BY BreakingTypes, ConnTypes DEF TypeInv, DataOK, SendRaises, Unreachable, Refused
<1>2. \A c \in Conns : Raise(c) => /\ conn'.sock = "open" => conn' = c
                                   /\ conn'.sock = "open" /\ Now' # "login" => ~Within("inConnect")
  BY <1>1, RaiseLive DEF Raise
<1>3. CASE SendRaises
  <2>1. PICK c \in {conn, ForceClosed} : Raise(c) /\ c.sock # "open"
    BY <1>1, <1>3 DEF SendRaises, ForceClosed, Conns
  <2>2. Now \in Sends \cup {"file"}
    BY <1>3 DEF SendRaises, Sending, Doing, Now, Sends
  <2>3. seen.foreign = "none"
    BY <2>2 DEF WireOK, Sends
  <2> QED BY <1>1, <1>2, <2>1, <2>3, WireDead
<1>4. ASSUME Doing("login"), conn'.sock # "open" \/ Now' = "login"
      PROVE  WireOK'
  BY <1>1, <1>4 DEF WireOK, Live
<1>5. CASE Unreachable
  <2>1. PICK c \in {conn, [conn EXCEPT !.sock = "deaf"]} : Raise(c) /\ c.sock # "open"
    BY <1>1, <1>5 DEF Unreachable, Conns
  <2> QED BY <1>1, <1>2, <1>4, <1>5, <2>1 DEF Unreachable
<1>6. CASE Refused
  <2>1. PICK s \in {"open", "none"} : Raise([conn EXCEPT !.sock = s])
    BY <1>6 DEF Refused
  <2>2. Within("inConnect") /\ Doing("login")
    BY <1>1, <1>6, LoginIsWithin DEF Refused
  <2> QED BY <1>1, <1>2, <1>4, <2>1, <2>2
<1> QED BY <1>3, <1>5, <1>6

LEMMA LoginWire ==
  ASSUME TypeInv, WireOK, Login
  PROVE  WireOK'
<1>1. /\ Now' = "mode" /\ wire' = <<>> /\ result' = result
      /\ seen' = [NothingSeen EXCEPT !.over = result.active \/ result.next]
  BY LoginTypes
<1>2. seen'.foreign = "none" /\ (seen'.over <=> ~NoSet)
  <2> DEFINE o == result.active \/ result.next
  <2>1. o \in BOOLEAN /\ seen' = [NothingSeen EXCEPT !.over = o]
    BY <1>1
  <2> HIDE DEF o
  <2>2. seen'.foreign = "none" /\ seen'.over = o
    BY <2>1 DEF NothingSeen
  <2> QED BY <2>2 DEF NoSet, o
<1>3. Now' \in Between
  BY <1>1 DEF Between, Frames, Sends, Readers
<1>4. CASE NoSet
  BY <1>1, <1>2, <1>3, <1>4, WireBetween DEF NoSet
<1>5. CASE ~NoSet
  BY <1>1, <1>2, <1>5 DEF WireOK, NoSet, Sends
<1> QED BY <1>4, <1>5

(* Between answers. *)
LEMMA StillBetween ==
  ASSUME TypeInv, WireOK, Now \in Between, Now' \in (Between \cup {"login"}) \ {"take"},
         UNCHANGED <<wire, link, result, seen>>, seen.foreign = "none",
         conn'.sock = "open" => conn.sock = "open"
  PROVE  WireOK'
<1>1. CASE conn'.sock # "open" \/ Now' = "login"
  BY <1>1, WireDead
<1>2. CASE conn'.sock = "open" /\ Now' # "login"
  <2>1. Live /\ Now \notin Readers /\ Now' \in Between
    BY <1>2 DEF Live, Between, Readers
  <2>2. CASE seen.over
    <3>1. wire = <<>> /\ ~NoSet
      BY <2>1, <2>2 DEF WireOK, Reading, Now
    <3>2. wire' = <<>> /\ ~NoSet' /\ seen'.over /\ seen'.foreign = "none"
      BY <2>2, <3>1 DEF NoSet
    <3>3. Now' \notin Sends \cup {"file"} /\ Now' # "take"
      BY <1>2, <2>1 DEF Between, Sends
    <3> QED BY <3>2, <3>3 DEF WireOK
  <2>3. CASE ~seen.over
    <3>1. /\ result.active => Own(InSet)
          /\ result.next => Own(Firsts)
          /\ NoSet => wire = <<>> \/ Torn
      BY <2>1, <2>3 DEF WireOK, Phase
    <3> QED BY <2>1, <2>3, <3>1, WireBetween DEF Own, NoSet, Torn
  <2> QED BY <2>2, <2>3
<1> QED BY <1>1, <1>2

LEMMA BeginsToDrain ==
  ASSUME TypeInv, WireOK, Now \in Between, Now' \in {"drain", "row"}, result.active,
         UNCHANGED <<wire, link, result, seen>>, seen.foreign = "none", conn'.sock = conn.sock
  PROVE  WireOK'
<1>1. CASE conn.sock # "open"
  BY <1>1, WireDead
<1>2. CASE conn.sock = "open"
  <2>1. Live /\ Now \notin Readers
    BY <1>2 DEF Live, Between, Readers
  <2>2. CASE seen.over
    BY <2>1, <2>2 DEF WireOK, NoSet, Reading, Now, Sends
  <2>3. CASE ~seen.over
    <3>1. Own(InSet)
      BY <2>1, <2>3 DEF WireOK, Phase
    <3> QED BY <2>3, <3>1 DEF WireOK, Phase, Own, Between, Readers, Sends
  <2> QED BY <2>2, <2>3
<1> QED BY <1>1, <1>2

LEMMA BeginsToOpen ==
  ASSUME TypeInv, WireOK, Now \in Between, Now' \in {"open", "openSS"}, result.next,
         result' = NoResult,
         UNCHANGED <<wire, link, seen>>, seen.foreign = "none", conn'.sock = conn.sock
  PROVE  WireOK'
<1>1. CASE conn.sock # "open"
  BY <1>1, WireDead
<1>2. CASE conn.sock = "open"
  <2>1. Live /\ Now \notin Readers
    BY <1>2 DEF Live, Between, Readers
  <2>2. Reading'
    BY DEF Reading, Now, Readers
  <2>3. NoSet'
    BY DEF NoSet, NoResult
  <2>4. CASE seen.over
    BY <2>1, <2>2, <2>4 DEF WireOK, Sends
  <2>5. CASE ~seen.over
    <3>1. Own(Firsts)
      BY <2>1, <2>5 DEF WireOK, Phase
    <3>2. Own(Firsts)'
      BY <3>1 DEF Own
    <3>3. Phase'
      BY <2>3, <3>2 DEF Phase, Between, Readers, Sends
    <3> QED BY <2>5, <3>3 DEF WireOK
  <2> QED BY <2>4, <2>5
<1> QED BY <1>1, <1>2

LEMMA SettleWire ==
  ASSUME TypeInv, WireOK, Settle
  PROVE  WireOK'
<1>1. /\ todo # <<>> /\ Now = "settle" /\ Now \in Between /\ Now \notin Readers
      /\ UNCHANGED <<wire, link, seen>> /\ conn \in Conns /\ PlanOK
  BY SettleTypes DEF Between, Frames, Sends, Readers, TypeInv, DataOK
<1>2. seen.foreign = "none"
  BY <1>1 DEF WireOK
<1>3. CASE conn.sock = "none" /\ Raise(conn)
  <2>1. conn'.sock # "open"
    BY <1>1, <1>3, RaiseLive DEF Raise
  <2> QED BY <1>1, <1>2, <2>1, WireDead
<1>4. CASE result.active /\ Now' = "drain" /\ UNCHANGED <<conn, result>>
  BY <1>1, <1>2, <1>4, BeginsToDrain
<1>5. CASE result.next /\ Now' = "open" /\ result' = NoResult /\ UNCHANGED conn
  BY <1>1, <1>2, <1>5, BeginsToOpen
<1>6. CASE NoSet /\ Now' \in Sends /\ result' = NoResult /\ UNCHANGED conn
  <2>1. CASE conn.sock # "open"
    BY <1>1, <1>2, <1>6, <2>1, WireDead
  <2>2. CASE conn.sock = "open"
    <3>1. Live
      BY <1>1, <1>2, <2>2 DEF Live
    <3>2. ~seen.over
      BY <1>1, <1>6, <3>1 DEF WireOK, Reading, Now
    <3>3. wire = <<>> \/ Torn
      BY <1>1, <1>6, <3>1, <3>2 DEF WireOK, Phase
    <3>4. NoSet' /\ (wire' = <<>> \/ Torn')
      BY <1>1, <1>6, <3>3 DEF NoSet, NoResult, Torn
    <3>5. Phase'
      BY <1>6, <3>4 DEF Phase, Sends, Between, Readers
    <3> QED BY <1>1, <1>2, <1>6, <3>2, <3>5 DEF WireOK, Sends
  <2> QED BY <2>1, <2>2
<1> QED BY <1>1, <1>3, <1>4, <1>5, <1>6, SettleTypes DEF NoSet

LEMMA CutWire ==
  ASSUME TypeInv, WireOK, Cut
  PROVE  WireOK'
<1>1. /\ Now' = Now /\ UNCHANGED <<conn, result, seen, todo>>
  BY CutTypes
<1>2. /\ \A heads : Own(heads) => Own(heads)'
      /\ OwnSimple => OwnSimple'
      /\ wire' # <<>> => wire # <<>> /\ wire'[1] = wire[1]
      /\ wire' = <<>> => Own(Firsts)' /\ OwnSimple'
      /\ Short(wire, 0) => Short(wire', 0)
  BY CutOwn
<1>3. /\ Own(Firsts) => Own(Firsts)'
      /\ Own(InSet) => Own(InSet)'
  BY <1>2
<1>4. /\ Torn => wire' = <<>> \/ Torn'
      /\ Foreign => wire' = <<>> \/ Foreign'
      /\ wire = <<>> => wire' = <<>>
  BY <1>1, <1>2 DEF Torn, Foreign
<1>5. Phase => Phase'
  BY <1>1, <1>2, <1>3, <1>4 DEF Phase, NoSet
<1>6. (Live' <=> Live) /\ (Reading' <=> Reading) /\ (NoSet' <=> NoSet)
  BY <1>1 DEF Live, Reading, NoSet
<1> QED BY <1>1, <1>2, <1>4, <1>5, <1>6 DEF WireOK

LEMMA CallWire ==
  ASSUME TypeInv, WireOK, Calls
  PROVE  WireOK'
<1>1. /\ Now = "idle" /\ seen.foreign = "none" /\ UNCHANGED <<result, seen>>
      /\ conn \in Conns /\ Now \in Between
  BY CallTypes DEF Starts, Between, TypeInv, DataOK
<1>2. {"idle", "settle", "nextset", "advance", "fetch", "finish", "mode"} \subseteq Between \ {"take"}
  BY DEF Between, Frames, Sends, Readers
<1>3. CASE /\ UNCHANGED <<wire, link, conn>>
           /\ Now' \in {"login", "settle", "nextset", "advance", "fetch", "finish", "idle"}
  BY <1>1, <1>2, <1>3, StillBetween
<1>4. CASE UNCHANGED <<wire, link>> /\ SockKept /\ Now' = "mode"
  <2>1. conn'.sock = conn.sock
    BY <1>1, <1>4 DEF SockKept, Conns
  <2> QED BY <1>1, <1>2, <1>4, <2>1, StillBetween
<1>5. CASE conn' = ForceClosed
  <2>1. conn'.sock # "open"
    BY <1>1, <1>5 DEF ForceClosed, Conns
  <2> QED BY <1>1, <2>1, WireDead
<1> QED BY <1>3, <1>4, <1>5, CallTypes DEF StartsQuietly

LEMMA MovingWire ==
  ASSUME TypeInv, WireOK,
         SetMode \/ Leave \/ Advance \/ Clear \/ Take \/ Fetch \/ Finish
  PROVE  WireOK'
<1>1. {"idle", "settle", "nextset", "advance", "fetch", "finish", "mode", "inConnect", "inPing",
       "inClose", "clear"} \subseteq Between \ {"take"}
  BY DEF Between, Frames, Sends, Readers
<1>2. "take" \in Between
  BY DEF Between, Frames, Sends, Readers
<1>3. Now # "idle" /\ Now # "login" => seen.foreign = "none"
  BY DEF WireOK
<1>4. PlanOK /\ conn \in Conns
  BY DEF TypeInv, DataOK
<1>5. CASE SetMode
  BY <1>1, <1>3, <1>5, SetModeTypes, StillBetween
<1>6. CASE Leave
  BY <1>1, <1>3, <1>6, LeaveTypes, StillBetween
<1>7. CASE Advance
  <2>1. /\ Now \in {"nextset", "advance"} /\ UNCHANGED <<conn, wire, link, autocommit, seen>>
        /\ \/ result.next /\ result' = NoResult /\ Now' = OpenFrame
           \/ result' = result /\ Now' \in After(Now)
    BY <1>7, AdvanceTypes
  <2>2. CASE result.next /\ result' = NoResult /\ Now' = OpenFrame
    <3>1. Now' \in {"open", "openSS"}
      BY <2>2 DEF OpenFrame, OpenFrameOf
    <3> QED BY <1>1, <1>3, <2>1, <2>2, <3>1, BeginsToOpen
  <2>3. CASE result' = result /\ Now' \in After(Now)
    <3>1. Now' \in {"idle", "clear", "inClose"}
      BY <2>1, <2>3 DEF After
    <3> QED BY <1>1, <1>3, <2>1, <2>3, <3>1, StillBetween
  <2> QED BY <2>1, <2>2, <2>3
<1>8. CASE Clear
  BY <1>1, <1>3, <1>8, ClearTypes, StillBetween
<1>9. CASE Take
  BY <1>1, <1>2, <1>3, <1>9, TakeTypes, StillBetween
<1>10. CASE Fetch
  <2>1. /\ Now = "fetch" /\ UNCHANGED <<result, holder, wire, link, autocommit, seen>>
        /\ \/ Raise(conn) /\ Now' \in {"idle", "login"}
           \/ result.active /\ UNCHANGED conn /\ Now' = "row"
           \/ UNCHANGED conn /\ Now' = "idle"
    BY <1>10, FetchTypes
  <2>2. CASE Raise(conn) /\ Now' \in {"idle", "login"}
    <3>1. conn'.sock = "open" => conn.sock = "open"
      BY <1>4, <2>2, RaiseLive DEF Raise
    <3> QED BY <1>1, <1>3, <2>1, <2>2, <3>1, StillBetween
  <2>3. CASE result.active /\ UNCHANGED conn /\ Now' = "row"
    BY <1>1, <1>3, <2>1, <2>3, BeginsToDrain
  <2>4. CASE UNCHANGED conn /\ Now' = "idle"
    BY <1>1, <1>3, <2>1, <2>4, StillBetween
  <2> QED BY <2>1, <2>2, <2>3, <2>4
<1>11. CASE Finish
  <2>1. /\ Now = "finish" /\ UNCHANGED <<conn, result, wire, link, seen>>
        /\ (result.active /\ Now' = "drain") \/ Now' = "nextset"
    BY <1>11, FinishTypes
  <2> QED BY <1>1, <1>3, <2>1, BeginsToDrain, StillBetween
<1> QED BY <1>5, <1>6, <1>7, <1>8, <1>9, <1>10, <1>11

LEMMA ReadersWire ==
  ASSUME TypeInv, WireOK, ReadRows \/ Drain \/ ReadRow
  PROVE  WireOK'
<1>1. CASE ReadRows
  <2>1. PICK p \in Waiting :
          /\ Got("rows", p) /\ link' = link
          /\ \/ RowsEnd(p) \/ (RowsGoOn(p) /\ p.kind # "bad")
             \/ p.kind = "bad" /\ result' = result /\ Now' \in {"idle", "login"}
    BY <1>1, RowsTypes
  <2> QED BY <2>1, RowsWire
<1>2. CASE Drain
  <2>1. PICK p \in Waiting : Got("drain", p) /\ link' = link /\ (RowsEnd(p) \/ RowsGoOn(p))
    BY <1>2, DrainTypes
  <2> QED BY <2>1, RowsWire
<1>3. CASE ReadRow
  <2>1. PICK p \in Waiting :
          /\ Got("row", p) /\ link' = link
          /\ \/ RowsEnd(p)
             \/ p.kind \notin {"eof", "err"} /\ result' = result /\ Now' \in {"idle", "login"}
    BY <1>3, RowTypes
  <2> QED BY <2>1, RowsWire
<1> QED BY <1>1, <1>2, <1>3

LEMMA WireStep ==
  ASSUME TypeInv, WireOK, [Next]_vars
  PROVE  WireOK'
<1>1. CASE Next
  BY <1>1, CallWire, ReadRaisesWire, SendsWire, BreakingWire, FileWire, OpenWire, OkWire, ReadersWire,
     SettleWire, LoginWire, MovingWire, CutWire
  DEF Next, Steps
<1>2. CASE UNCHANGED vars
  BY <1>2
  DEF vars, WireOK, Live, Phase, NoSet, Own, OwnSimple, Foreign, Torn, Now, Reading
<1> QED BY <1>1, <1>2

LEMMA WireInit ==
  ASSUME Init
  PROVE  WireOK
BY TypeInit DEF Init, WireOK, Live, NothingSeen

(* The two things a client must not do: take another command's packet for an *)
(* answer, and wait for one that will not come.                              *)
LEMMA WireMeans ==
  ASSUME TypeInv, WireOK
  PROVE  OwnReplies /\ NeverWaitsInVain
<1>1. OwnReplies
  BY DEF OwnReplies, WireOK
<1>2. NeverWaitsInVain
  <2> SUFFICES ASSUME WaitsInVain, ~seen.over, seen.foreign = "none" PROVE FALSE
    BY DEF NeverWaitsInVain
  <2>1. Now \in Readers /\ conn.sock = "open" /\ link = "up" /\ wire = <<>>
    BY DEF WaitsInVain, Reading, Now
  <2>2. Live /\ Phase
    BY <2>1 DEF WireOK, Live, Readers
  <2>3. ~Own(Firsts) /\ ~Own(InSet) /\ ~OwnSimple /\ ~Foreign
    BY <2>1 DEF Own, OwnSimple, Foreign, Torn
  <2> QED BY <2>1, <2>2, <2>3 DEF Phase, Readers
<1> QED BY <1>1, <1>2

(* A call takes no packet of an earlier command's answer for its own, unless a *)
(* row that could not be read left packets behind and a number has gone round: *)
(* _read_packet's check of the packet number, _force_close and the reading of  *)
(* what is left in _execute_command together see to it.                        *)
THEOREM RepliesAreOwn == Spec => []OwnReplies
<1>1. Init => TypeInv /\ WireOK
  BY TypeInit, WireInit
<1>2. TypeInv /\ WireOK /\ [Next]_vars => (TypeInv /\ WireOK)'
  BY TypeStep, WireStep
<1>3. TypeInv /\ WireOK => OwnReplies
  BY WireMeans
<1> QED BY <1>1, <1>2, <1>3, PTL DEF Spec

(* While the link is up no call waits for a packet that the server is not going *)
(* to send, unless the client has connected again over an unread result.        *)
THEOREM WaitsAreAnswered == Spec => []NeverWaitsInVain
<1>1. Init => TypeInv /\ WireOK
  BY TypeInit, WireInit
<1>2. TypeInv /\ WireOK /\ [Next]_vars => (TypeInv /\ WireOK)'
  BY TypeStep, WireStep
<1>3. TypeInv /\ WireOK => NeverWaitsInVain
  BY WireMeans
<1> QED BY <1>1, <1>2, <1>3, PTL DEF Spec

-----------------------------------------------------------------------------
(* The rows that a cursor owes its caller are those on the wire.            *)
FirstEnd(w, e) == w[e].kind \in Ends /\ \A i \in 1..(e - 1) : w[i].kind \notin Ends
Fetching == Sends \cup {"open", "openSS", "rows", "file", "fileOk", "skip", "ok", "take"}
Leaving == {"finish", "nextset", "inClose", "clear"}

Owing(c) ==
  /\ c \in Unbuffered /\ cursors[c].owed <= MaxRows /\ ~cursors[c].ended
  /\ (holder = c /\ result.active) \/ (by = c /\ Now \in Leaving \cup {"drain"})
  /\ Now = "drain" => by = c /\ Tail(todo) = <<"finish">>
  /\ Now # "drain" /\ holder = c /\ result.active =>
       \A e \in 1..Len(wire) : FirstEnd(wire, e) => cursors[c].owed = e - 1

OwedOK ==
  /\ Now = "row" => holder = by /\ result.active
  /\ Now \in Fetching => holder = Nobody
  /\ \A c \in Cursors : cursors[c].owed # 0 => Owing(c)

NothingOwed == \A c \in Cursors : cursors[c].owed = 0

LEMMA OwedNothing ==
  ASSUME NothingOwed', Now' # "row", Now' \in Fetching => holder' = Nobody
  PROVE  OwedOK'
BY DEF NothingOwed, OwedOK

LEMMA OwesNothing ==
  ASSUME OwedOK, Now \in Fetching
  PROVE  NothingOwed /\ holder = Nobody
<1>1. holder = Nobody /\ Now \notin Leaving \cup {"drain"}
  BY DEF OwedOK, Fetching, Leaving, Sends
<1>2. \A c \in Cursors : c # Nobody
  BY SessionAssumption DEF Cursors, Nobody
<1> QED BY <1>1, <1>2 DEF OwedOK, Owing, NothingOwed

(* An exception takes from the cursor that is being used what it owes. *)
LEMMA RaiseOwes ==
  ASSUME TypeInv, OwedOK, NEW k, Raise(k), NEW c \in Cursors, cursors'[c].owed # 0
  PROVE  cursors'[c] = cursors[c] /\ c # by
<1>1. cursors \in [Cursors -> Accounts] /\ Closed.owed = 0
  BY DEF TypeInv, DataOK, Closed, Fresh
<1>2. Told \in [Cursors -> Accounts]
  BY <1>1, ToldType
<1>3. Told[c].owed # 0 => Told[c] = cursors[c] /\ c # by
  <2>1. CASE by \in Unbuffered
    BY <1>1, <2>1 DEF Told, Accounts
  <2>2. CASE by \notin Unbuffered
    BY <1>1, <2>2 DEF Told, OwedOK, Owing
  <2> QED BY <2>1, <2>2
<1>4. cursors' = IF Within("inClose") THEN [Told EXCEPT ![by] = Closed] ELSE Told
  BY DEF Raise, RaiseWith
<1>5. cursors'[c] = Told[c] \/ cursors'[c] = Closed
  BY <1>2, <1>4
<1> QED BY <1>1, <1>3, <1>5

(* A step that leaves the result of those who are owed rows alone. *)
LEMMA OwedKept ==
  ASSUME TypeInv, OwedOK, Now # "drain", Now' \notin Fetching \cup {"row", "drain"},
         wire' = wire \/ wire' = <<>>, result'.active = result.active,
         \A c \in Cursors : cursors'[c].owed # 0 =>
           /\ cursors'[c] = cursors[c]
           /\ holder' = c <=> holder = c
           /\ by = c /\ Now \in Leaving => by' = c /\ Now' \in Leaving
  PROVE  OwedOK'
<1>1. ASSUME NEW c \in Cursors, cursors'[c].owed # 0
      PROVE  Owing(c)'
  <2>1. /\ cursors'[c] = cursors[c] /\ (holder' = c <=> holder = c)
        /\ by = c /\ Now \in Leaving => by' = c /\ Now' \in Leaving
    BY <1>1
  <2>2. Owing(c)
    BY <1>1, <2>1 DEF OwedOK
  <2>3. \A e \in 1 .. Len(wire') : FirstEnd(wire', e) => e \in 1 .. Len(wire) /\ FirstEnd(wire, e)
    <3>1. Len(<<>>) = 0
      BY EmptySeq
    <3> QED BY <3>1
  <2> QED BY <2>1, <2>2, <2>3 DEF Owing
<1> QED BY <1>1 DEF OwedOK

(* How many rows there are on the wire. *)
LEMMA RowsAre ==
  ASSUME wire \in Seq(Packets)
  PROVE  /\ \A e \in 1 .. Len(wire) : FirstEnd(wire, e) => RowsWaiting = e - 1
         /\ Short(wire, 0) => RowsWaiting <= MaxRows
<1> DEFINE ends == {i \in DOMAIN wire : wire[i].kind \in {"eof", "err"}}
           rows == {i \in DOMAIN wire : \A e \in ends : i < e}
<1>0. MaxRows \in Nat
  BY SessionAssumption
<1>1. Len(wire) \in Nat /\ DOMAIN wire = 1 .. Len(wire) /\ RowsWaiting = Cardinality(rows)
  BY DEF RowsWaiting
<1>2. ASSUME NEW e \in 1 .. Len(wire), FirstEnd(wire, e)
      PROVE  RowsWaiting = e - 1
  <2>1. rows = 1 .. (e - 1)
    <3>1. e \in ends
      BY <1>1, <1>2 DEF FirstEnd, Ends
    <3>2. \A i \in 1 .. (e - 1) : i \notin ends
      BY <1>1, <1>2 DEF FirstEnd, Ends
    <3>3. \A i \in rows : i \in 1 .. (e - 1)
      BY <1>1, <3>1
    <3>4. \A i \in 1 .. (e - 1) : i \in rows
      <4> SUFFICES ASSUME NEW i \in 1 .. (e - 1), NEW j \in ends PROVE i < j
        BY <1>1
      <4>1. j \in 1 .. Len(wire) /\ j \notin 1 .. (e - 1)
        BY <1>1, <3>2
      <4> QED BY <4>1
    <3> QED BY <3>3, <3>4
  <2>2. Cardinality(1 .. (e - 1)) = e - 1
    BY <1>1, FS_Interval
  <2> QED BY <1>1, <2>1, <2>2
<1>3. ASSUME NEW n \in Nat, rows \subseteq 1 .. n
      PROVE  RowsWaiting <= n
  <2>1. IsFiniteSet(1 .. n) /\ Cardinality(1 .. n) = n
    BY FS_Interval
  <2>2. Cardinality(rows) <= Cardinality(1 .. n)
    BY <1>3, <2>1, FS_Subset
  <2> QED BY <1>1, <2>1, <2>2
<1>4. ASSUME Short(wire, 0)
      PROVE  RowsWaiting <= MaxRows
  <2>1. CASE Len(wire) <= 0 + MaxRows
    <3>1. rows \subseteq 1 .. MaxRows
      BY <1>0, <1>1, <2>1
    <3> QED BY <1>0, <1>3, <3>1
  <2>2. CASE SetEnds(wire, 0)
    <3>1. PICK e \in (0 + 1)..(0 + MaxRows + 1) : e <= Len(wire) /\ wire[e].kind \in Ends
      BY <2>2 DEF SetEnds
    <3>2. e \in ends
      BY <1>0, <1>1, <3>1 DEF Ends
    <3>3. \A i \in rows : i \in 1 .. Len(wire) /\ i < e
      BY <1>1, <3>2
    <3>4. rows \subseteq 1 .. MaxRows
      BY <1>0, <1>1, <3>1, <3>3
    <3> QED BY <1>0, <1>3, <3>4
  <2> QED BY <1>4, <2>1, <2>2 DEF Short
<1> QED BY <1>2, <1>4

LEMMA FetchingOwed ==
  ASSUME TypeInv, OwedOK,
         Send \/ SendFile \/ Open \/ FileAnswered \/ FileFailed \/ ReadRows \/ ReadOk
  PROVE  OwedOK'
<1>1. ASSUME Now \in Fetching, holder' = holder, Now' # "row",
             cursors' = cursors \/ (\E k : Raise(k))
      PROVE  OwedOK'
  <2>1. NothingOwed /\ holder = Nobody
    BY <1>1, OwesNothing
  <2>2. NothingOwed'
    BY <1>1, <2>1, RaiseOwes DEF NothingOwed
  <2> QED BY <1>1, <2>1, <2>2, OwedNothing
<1>2. CASE Send
  BY <1>1, <1>2, SendMoves DEF TypeInv, Send, Fetching
<1>3. CASE SendFile
  BY <1>1, <1>3, FileMoves DEF TypeInv, SendFile, Fetching
<1>4. CASE Open
  <2>1. PICK what \in {"open", "openSS"}, p \in Waiting :
          /\ holder' = holder /\ Now = what
          /\ \/ OpenOk(p) \/ OpenLocal(p) \/ OpenUnbuffered(p)
             \/ OpenBuffered(p) \/ OpenRaises(p)
    BY <1>4, OpenTypes
  <2>2. cursors' = cursors \/ Raise(Connected)
    BY <2>1 DEF OpenOk, OpenLocal, OpenUnbuffered, OpenBuffered, OpenRaises
  <2>3. Now' # "row"
    BY <2>1 DEF OpenOk, OpenLocal, OpenUnbuffered, OpenBuffered, OpenRaises
  <2> QED BY <1>1, <2>1, <2>2, <2>3 DEF Fetching
<1>5. CASE FileAnswered
  <2>1. /\ Now = "fileOk" /\ holder' = holder
        /\ cursors' = cursors \/ Raise(Connected)
        /\ Now' # "row"
    BY <1>5, FileAnsweredTypes DEF OpenOk
  <2> QED BY <1>1, <2>1 DEF Fetching
<1>6. CASE FileFailed
  <2>1. Now = "skip" /\ holder' = holder /\ Raise(Connected) /\ Now' # "row"
    BY <1>6, FileFailedTypes
  <2> QED BY <1>1, <2>1 DEF Fetching
<1>7. CASE ReadRows
  <2>1. /\ Now = "rows" /\ holder' = holder /\ (cursors' = cursors \/ Raise(Connected))
        /\ Now' # "row"
    BY <1>7, RowsTypes DEF RowsEnd, RowsGoOn, After
  <2> QED BY <1>1, <2>1 DEF Fetching
<1>8. CASE ReadOk
  <2>1. /\ Now = "ok" /\ holder' = holder /\ (cursors' = cursors \/ Raise(Connected))
        /\ Now' # "row"
    BY <1>8, OkTypes
  <2> QED BY <1>1, <2>1 DEF Fetching
<1> QED BY <1>2, <1>3, <1>4, <1>5, <1>6, <1>7, <1>8

(* An exception while reading leaves nothing owed. *)
LEMMA ReadRaisesOwed ==
  ASSUME TypeInv, OwedOK, ReadRaises
  PROVE  OwedOK'
<1>1. /\ Now' \in {"idle", "login"} /\ Now \in Readers /\ holder' = holder
      /\ \E k : Raise(k)
  BY ReadingTypes DEF ReadRaises, Reading, Now
<1>2. NothingOwed'
  <2> SUFFICES ASSUME NEW c \in Cursors, cursors'[c].owed # 0 PROVE FALSE
    BY DEF NothingOwed
  <2>1. cursors[c].owed # 0 /\ c # by
    BY <1>1, RaiseOwes
  <2>2. Owing(c) /\ Now \notin Fetching
    BY <2>1, OwesNothing DEF OwedOK, NothingOwed
  <2>3. Now \in {"drain", "row"}
    BY <1>1, <2>2 DEF Readers, Fetching
  <2> QED BY <2>1, <2>2, <2>3 DEF Owing, OwedOK, Leaving
<1> QED BY <1>1, <1>2, OwedNothing DEF Fetching, Sends

LEMMA BreakingOwed ==
  ASSUME TypeInv, OwedOK, SendRaises \/ Unreachable \/ Refused
  PROVE  OwedOK'
<1>1. /\ Now' \in {"idle", "login"} /\ Now \in Sends \cup {"file", "login"} /\ wire' = <<>>
      /\ UNCHANGED <<holder, result>> /\ \E k : Raise(k)
  BY BreakingTypes DEF SendRaises, Sending, Unreachable, Refused, Doing, Now, Sends
<1>2. \A c \in Cursors : cursors'[c].owed # 0 => cursors'[c] = cursors[c]
  BY <1>1, RaiseOwes
<1>3. /\ Now' \notin Fetching \cup {"row", "drain"} /\ Now # "drain" /\ Now \notin Leaving
  BY <1>1 DEF Fetching, Sends, Leaving
<1> QED BY <1>1, <1>2, <1>3, OwedKept

LEMMA DrainOwed ==
  ASSUME TypeInv, OwedOK, Drain
  PROVE  OwedOK'
<1>1. PICK p \in Waiting :
        /\ Now = "drain" /\ UNCHANGED <<holder, cursors>> /\ todo # <<>>
        /\ RowsEnd(p) \/ RowsGoOn(p)
  BY DrainTypes
<1>2. CASE RowsGoOn(p)
  <2>1. UNCHANGED <<todo, by, result>> /\ Now' = Now
    BY <1>2 DEF RowsGoOn
  <2> QED BY <1>1, <2>1 DEF OwedOK, Owing, Fetching, Sends
<1>3. CASE RowsEnd(p)
  <2>1. ~result'.active /\ todo' = Tail(todo) /\ Now' \in {"settle", "finish"}
    BY <1>1, <1>3 DEF RowsEnd, Stored, Result, After
  <2>2. ASSUME NEW c \in Cursors, cursors'[c].owed # 0
        PROVE  Owing(c)'
    <3>1. Owing(c) /\ c \in Unbuffered /\ by = c /\ todo' = <<"finish">>
      BY <1>1, <2>1, <2>2 DEF OwedOK, Owing
    <3>2. Now' = "finish" /\ by' = by
      <4>1. PlanOK /\ Done
        <5>1. \E q \in Waiting : Got("drain", q) /\ (IF IsEof(q) THEN Done ELSE UNCHANGED <<todo, by>>)
          BY DEF Drain
        <5> QED BY <1>1, <2>1, <5>1 DEF TypeInv, Now
      <4> QED BY <1>1, <3>1, <4>1, DoneMoves DEF Now
    <3> QED BY <1>1, <2>1, <3>1, <3>2 DEF Owing, Leaving
  <2> QED BY <2>1, <2>2 DEF OwedOK, Fetching, Sends
<1> QED BY <1>1, <1>2, <1>3

(* A row is told, or the cursor is at the end of its rows. *)
LEMMA RowOwed ==
  ASSUME TypeInv, WireOK, OwedOK, ReadRow
  PROVE  OwedOK'
<1>1. PICK p \in Waiting :
              /\ Got("row", p) /\ UNCHANGED <<holder, link, autocommit>>
              /\ \/ RowsEnd(p) /\ cursors' = [cursors EXCEPT ![by].ended = TRUE]
                 \/ /\ p.kind \notin {"eof", "err"} /\ UNCHANGED result
                    /\ \/ /\ p.kind = "bad" /\ RaiseWith(Connected, Fewer)
                          /\ Now' \in {"idle", "login"}
                       \/ cursors' = Fewer /\ conn' = Connected /\ Now' = "idle"
  BY RowTypes
<1>2. /\ Now = "row" /\ by \in Unbuffered /\ by \in Cursors /\ holder = by /\ result.active
      /\ cursors \in [Cursors -> Accounts] /\ wire \in Seq(Packets)
  BY RowTypes DEF OwedOK, Cursors, TypeInv, DataOK
<1>3. /\ p = wire[1] /\ wire' = Tail(wire) /\ Len(wire) \in Nat \ {0} /\ Len(wire') = Len(wire) - 1
      /\ \A i \in 1 .. Len(wire') : wire'[i] = wire[i + 1]
  BY <1>1, <1>2, WaitingIs DEF Got, Taken
<1>4. \A c \in Cursors : cursors[c].owed # 0 => c = by
  BY <1>2 DEF OwedOK, Owing, Leaving
<1>5. Now' \notin Fetching \cup {"row", "drain"}
  BY <1>1, <1>2 DEF Fetching, Sends, RowsEnd, After
<1>6. CASE RowsEnd(p) /\ cursors' = [cursors EXCEPT ![by].ended = TRUE]
  <2>1. cursors[by].owed = 0
    <3>1. 1 \in 1 .. Len(wire) /\ 1 - 1 = 0 /\ FirstEnd(wire, 1)
      BY <1>3, <1>6 DEF FirstEnd, Ends, RowsEnd
    <3>2. cursors[by].owed # 0 => cursors[by].owed = 1 - 1
      BY <1>2, <3>1 DEF OwedOK, Owing
    <3> QED BY <3>1, <3>2
  <2>2. NothingOwed'
    BY <1>2, <1>4, <1>6, <2>1 DEF NothingOwed, Accounts
  <2> QED BY <1>5, <2>2, OwedNothing
<1>7. CASE p.kind \notin {"eof", "err"} /\ UNCHANGED result
  <2>1. \A c \in Cursors : cursors'[c] = Fewer[c] \/ cursors'[c].owed = 0
    <3>1. cursors' = Fewer \/ cursors' = [Fewer EXCEPT ![by] = Closed]
      BY <1>1, <1>7 DEF RaiseWith, RowsEnd
    <3>2. Closed.owed = 0
      BY DEF Closed, Fresh
    <3> QED BY <1>2, <3>1, <3>2 DEF Fewer
  <2>2. ASSUME NEW c \in Cursors, cursors'[c].owed # 0
        PROVE  Owing(c)'
    <3>1. cursors'[c] = Fewer[c] /\ Fewer[c].owed # 0
      BY <2>1, <2>2
    <3>2. /\ c = by /\ cursors[c].owed # 0 /\ cursors[c].owed \in Nat
          /\ cursors'[c].owed = cursors[c].owed - 1 /\ cursors'[c].ended = cursors[c].ended
      BY <1>2, <1>4, <3>1 DEF Fewer, Accounts
    <3>3. Owing(c) /\ MaxRows \in Nat
      BY <3>2, SessionAssumption DEF OwedOK
    <3>4. ASSUME NEW e \in 1 .. Len(wire'), FirstEnd(wire', e)
          PROVE  cursors'[c].owed = e - 1
      <4>1. e + 1 \in 1 .. Len(wire) /\ wire'[e] = wire[e + 1] /\ (e + 1) - 1 = e
        BY <1>3
      <4>2. ASSUME NEW i \in 1 .. ((e + 1) - 1)
            PROVE  wire[i].kind \notin Ends
        <5>1. CASE i = 1
          BY <1>3, <1>7, <5>1 DEF Ends
        <5>2. CASE i # 1
          <6>1. i - 1 \in 1 .. Len(wire') /\ i - 1 \in 1 .. (e - 1) /\ (i - 1) + 1 = i
            BY <1>3, <5>2
          <6> QED BY <1>3, <3>4, <6>1 DEF FirstEnd
        <5> QED BY <5>1, <5>2
      <4>3. FirstEnd(wire, e + 1)
        BY <3>4, <4>1, <4>2 DEF FirstEnd
      <4>4. cursors[c].owed = (e + 1) - 1
        BY <1>2, <3>2, <3>3, <4>1, <4>3 DEF Owing
      <4> QED BY <3>2, <4>1, <4>4
    <3> QED BY <1>1, <1>2, <1>5, <1>7, <3>2, <3>3, <3>4 DEF Owing
  <2> QED BY <1>5, <2>2 DEF OwedOK
<1> QED BY <1>1, <1>6, <1>7

LEMMA SettleOwed ==
  ASSUME TypeInv, OwedOK, Settle
  PROVE  OwedOK'
<1>1. /\ Now = "settle" /\ UNCHANGED wire /\ cursors \in [Cursors -> Accounts]
      /\ Now \notin Leaving \cup Fetching \cup {"drain"}
  BY SettleTypes DEF TypeInv, DataOK, Leaving, Fetching, Sends
<1>2. CASE Raise(conn) /\ UNCHANGED <<result, holder>> /\ Now' \in {"idle", "login"}
  <2>1. \A c \in Cursors : cursors'[c].owed # 0 => cursors'[c] = cursors[c]
    BY <1>2, RaiseOwes
  <2>2. Now' \notin Fetching \cup {"row", "drain"}
    BY <1>2 DEF Fetching, Sends
  <2> QED BY <1>1, <1>2, <2>1, <2>2, OwedKept
<1>3. CASE Now' = "drain" /\ cursors' = Dropped /\ UNCHANGED <<conn, result, holder>>
  <2>1. NothingOwed'
    <3> SUFFICES ASSUME NEW c \in Cursors, cursors'[c].owed # 0 PROVE FALSE
      BY DEF NothingOwed
    <3>1. holder = c /\ c \in Unbuffered => cursors'[c].owed = 0
      BY <1>1, <1>3 DEF Dropped, Accounts
    <3>2. cursors[c].owed # 0
      BY <1>1, <1>3 DEF Dropped, Accounts
    <3> QED BY <1>1, <3>1, <3>2 DEF OwedOK, Owing
  <2> QED BY <1>3, <2>1, OwedNothing DEF Fetching, Sends
<1>4. CASE /\ ~result.active /\ holder' = Nobody /\ UNCHANGED cursors
           /\ Now' \in Sends \cup {"open"}
  <2>1. NothingOwed'
    BY <1>1, <1>4 DEF OwedOK, Owing, NothingOwed
  <2> QED BY <1>4, <2>1, OwedNothing DEF Sends
<1> QED BY <1>2, <1>3, <1>4, SettleTypes

LEMMA TakeOwed ==
  ASSUME TypeInv, WireOK, OwedOK, Take
  PROVE  OwedOK'
<1>1. /\ Now = "take" /\ by \in Cursors /\ UNCHANGED <<conn, result, wire>> /\ holder' = by
      /\ Now' \in {"idle", "nextset"}
      /\ cursors' = [cursors EXCEPT ![by] =
                          [Fresh EXCEPT !.res = by \in Unbuffered,
                                        !.owed = IF result.active THEN RowsWaiting ELSE 0]]
      /\ cursors \in [Cursors -> Accounts] /\ wire \in Seq(Packets) /\ MaxRows \in Nat
  BY TakeTypes, SessionAssumption DEF TypeInv, DataOK
<1>2. NothingOwed
  BY <1>1, OwesNothing DEF Fetching
<1>3. /\ cursors'[by].owed = IF result.active THEN RowsWaiting ELSE 0
      /\ ~cursors'[by].ended
  <2> DEFINE r == by \in Unbuffered
             o == IF result.active THEN RowsWaiting ELSE 0
  <2>1. cursors'[by] = [Fresh EXCEPT !.res = r, !.owed = o]
    BY <1>1
  <2> HIDE DEF r, o
  <2>2. cursors'[by].owed = o /\ ~cursors'[by].ended
    BY <2>1 DEF Fresh
  <2> QED BY <2>2 DEF o
<1>4. \A c \in Cursors : c # by => cursors'[c] = cursors[c]
  BY <1>1
<1>5. Now' \notin Fetching \cup {"row", "drain"}
  BY <1>1 DEF Fetching, Sends
<1>6. ASSUME result.active
      PROVE  RowsWaiting <= MaxRows
  <2>1. Live
    BY <1>1 DEF TypeInv, ResultOK, WireOK, Live
  <2>2. Short(wire, 0)
    BY <1>1, <1>6, <2>1 DEF WireOK
  <2> QED BY <1>1, <2>2, RowsAre
<1>7. ASSUME NEW c \in Cursors, cursors'[c].owed # 0
      PROVE  Owing(c)'
  <2>1. c = by /\ result.active /\ cursors'[c].owed = RowsWaiting
    BY <1>2, <1>3, <1>4, <1>7 DEF NothingOwed
  <2>2. c \in Unbuffered
    BY <1>1, <2>1 DEF TypeInv, ResultOK
  <2> QED BY <1>1, <1>3, <1>5, <1>6, <2>1, <2>2, RowsAre DEF Owing
<1> QED BY <1>5, <1>7 DEF OwedOK

LEMMA MovingOwed ==
  ASSUME TypeInv, OwedOK,
         Login \/ SetMode \/ Leave \/ Advance \/ Clear \/ Fetch \/ Finish
  PROVE  OwedOK'
<1>0. /\ cursors \in [Cursors -> Accounts] /\ Fresh.owed = 0 /\ Closed.owed = 0
      /\ \A c \in Cursors : c # Nobody
  BY SessionAssumption DEF TypeInv, DataOK, Fresh, Closed, Cursors, Nobody
<1>1. {"idle", "settle", "nextset", "mode", "login", "inConnect", "inPing", "inClose", "clear"}
        \cap (Fetching \cup {"row", "drain"}) = {}
  BY DEF Fetching, Sends
<1>2. CASE Login \/ SetMode
  <2>1. /\ Now \in {"login", "mode"} /\ UNCHANGED <<holder, cursors, result>>
        /\ wire' \in {wire, <<>>} /\ Now' \in {"mode", "settle", "idle", "inConnect"}
    BY <1>2, LoginTypes, SetModeTypes
  <2> QED BY <1>1, <2>1, OwedKept DEF Leaving
<1>3. CASE Leave
  <2>1. /\ Now \in {"inConnect", "inPing", "inClose"} /\ UNCHANGED <<holder, result, wire>>
        /\ Now' \in {"settle", "idle"}
        /\ Now # "inClose" => cursors' = cursors
        /\ Now = "inClose" => by \in Cursors /\ cursors' = [cursors EXCEPT ![by] = Closed]
    BY <1>3, LeaveTypes
  <2>2. \A c \in Cursors : cursors'[c].owed # 0 =>
          cursors'[c] = cursors[c] /\ (Now = "inClose" => by # c)
    BY <1>0, <2>1
  <2> QED BY <1>1, <2>1, <2>2, OwedKept DEF Leaving
<1>4. CASE Advance
  <2>1. /\ Now \in {"nextset", "advance"} /\ by \in Cursors /\ UNCHANGED wire
        /\ \/ /\ result.next /\ holder' = Nobody
              /\ cursors' = [cursors EXCEPT ![by] = Fresh]
              /\ Now' = OpenFrame
           \/ /\ UNCHANGED <<result, holder, cursors>>
              /\ todo' = Tail(todo) /\ Now' \in After(Now) /\ (todo' # <<>> => by' = by)
    BY <1>4, AdvanceTypes
  <2>2. CASE result.next /\ holder' = Nobody /\ cursors' = [cursors EXCEPT ![by] = Fresh]
             /\ Now' = OpenFrame
    <3>1. ~result.active
      BY <2>2 DEF TypeInv, ResultOK
    <3>2. NothingOwed'
      BY <1>0, <2>1, <2>2, <3>1 DEF OwedOK, Owing, NothingOwed
    <3>3. Now' # "row"
      BY <2>2 DEF OpenFrame, OpenFrameOf
    <3> QED BY <2>2, <3>2, <3>3, OwedNothing
  <2>3. CASE UNCHANGED <<result, holder, cursors>>
             /\ Now' \in After(Now) /\ (todo' # <<>> => by' = by)
    <3>1. /\ Now = "nextset" => Now' \in {"clear", "inClose"} /\ by' = by
          /\ Now = "advance" => Now' = "idle"
      BY <2>1, <2>3 DEF After, Now
    <3>2. Now' \in {"clear", "inClose", "idle"}
      BY <2>1, <3>1
    <3> QED BY <1>1, <2>1, <2>3, <3>1, <3>2, OwedKept DEF Leaving
  <2> QED BY <2>1, <2>2, <2>3
<1>5. CASE Clear
  <2>1. /\ Now = "clear" /\ by \in Cursors /\ UNCHANGED <<result, wire>>
        /\ holder' = (IF holder = by THEN Nobody ELSE holder)
        /\ cursors' = [cursors EXCEPT ![by] = Fresh] /\ Now' = "settle"
    BY <1>5, ClearTypes
  <2>2. \A c \in Cursors : cursors'[c].owed # 0 =>
          cursors'[c] = cursors[c] /\ by # c /\ (holder' = c <=> holder = c)
    BY <1>0, <2>1
  <2> QED BY <1>1, <2>1, <2>2, OwedKept
<1>6. CASE Fetch
  <2>1. /\ Now = "fetch" /\ UNCHANGED <<result, holder, wire>> /\ by \in Unbuffered
        /\ \/ Raise(conn) /\ Now' \in {"idle", "login"}
           \/ holder = by /\ result.active /\ UNCHANGED cursors /\ Now' = "row" /\ by' = by
           \/ /\ ~(holder = by /\ result.active) /\ Now' = "idle"
              /\ cursors' = [cursors EXCEPT ![by].ended = TRUE]
    BY <1>6, FetchTypes
  <2>2. CASE Raise(conn) /\ Now' \in {"idle", "login"}
    <3>1. \A c \in Cursors : cursors'[c].owed # 0 => cursors'[c] = cursors[c]
      BY <2>2, RaiseOwes
    <3> QED BY <1>1, <2>1, <2>2, <3>1, OwedKept DEF Leaving
  <2>3. CASE holder = by /\ result.active /\ UNCHANGED cursors /\ Now' = "row" /\ by' = by
    BY <2>1, <2>3 DEF OwedOK, Owing, Fetching, Sends, Leaving
  <2>4. CASE /\ ~(holder = by /\ result.active) /\ Now' = "idle"
             /\ cursors' = [cursors EXCEPT ![by].ended = TRUE]
    <3>1. cursors[by].owed = 0
      BY <2>1, <2>4 DEF OwedOK, Owing, Leaving, Cursors
    <3>2. \A c \in Cursors : cursors'[c].owed # 0 => cursors'[c] = cursors[c]
      BY <1>0, <2>4, <3>1 DEF Accounts
    <3> QED BY <1>1, <2>1, <2>4, <3>2, OwedKept DEF Leaving
  <2> QED BY <2>1, <2>2, <2>3, <2>4
<1>7. CASE Finish
  <2>1. /\ Now = "finish" /\ UNCHANGED <<result, holder, cursors, wire>> /\ by' = by
        /\ \/ holder = by /\ result.active /\ Now' = "drain" /\ Tail(todo') = <<"finish">>
           \/ Now' = "nextset"
    BY <1>7, FinishTypes
  <2>2. CASE holder = by /\ result.active /\ Now' = "drain" /\ Tail(todo') = <<"finish">>
    <3>1. \A c \in Cursors : cursors[c].owed # 0 => by = c
      BY <2>1, <2>2 DEF OwedOK, Owing
    <3> QED BY <2>1, <2>2, <3>1 DEF OwedOK, Owing, Fetching, Sends, Leaving
  <2>3. CASE Now' = "nextset"
    BY <1>1, <2>1, <2>3, OwedKept DEF Leaving
  <2> QED BY <2>1, <2>2, <2>3
<1> QED BY <1>2, <1>3, <1>4, <1>5, <1>6, <1>7

LEMMA CallOwed ==
  ASSUME TypeInv, OwedOK, Calls
  PROVE  OwedOK'
<1>1. Now = "idle" /\ UNCHANGED result /\ cursors \in [Cursors -> Accounts]
  BY CallTypes DEF Starts, TypeInv, DataOK
<1>2. {"idle", "settle", "nextset", "mode", "login", "advance", "fetch", "finish"}
        \cap (Fetching \cup {"row", "drain"}) = {}
  BY DEF Fetching, Sends
<1>3. /\ Now' \in {"idle", "settle", "nextset", "mode", "login", "advance", "fetch", "finish"}
      /\ wire' \in {wire, <<>>}
      /\ \/ UNCHANGED <<cursors, holder>>
         \/ \E c \in Cursors : /\ cursors' = [cursors EXCEPT ![c] = Fresh]
                               /\ holder' = IF holder = c THEN Nobody ELSE holder
  BY CallTypes DEF StartsQuietly
<1>4. Fresh.owed = 0 /\ \A c \in Cursors : c # Nobody
  BY SessionAssumption DEF Fresh, Cursors, Nobody
<1>5. \A c \in Cursors : cursors'[c].owed # 0 =>
        cursors'[c] = cursors[c] /\ (holder' = c <=> holder = c)
  BY <1>1, <1>3, <1>4
<1> QED BY <1>1, <1>2, <1>3, <1>5, OwedKept DEF Leaving

LEMMA CutOwed ==
  ASSUME TypeInv, OwedOK, Cut
  PROVE  OwedOK'
<1>1. PICK n \in 0 .. Len(wire) :
         /\ Len(wire') = n /\ \A i \in 1 .. n : wire'[i] = wire[i]
  BY CutTypes
<1>2. /\ Now' = Now /\ UNCHANGED <<conn, result, holder, cursors, by, todo>>
      /\ Len(wire) \in Nat
  BY CutTypes DEF TypeInv, DataOK
<1>3. \A e \in 1 .. Len(wire') : FirstEnd(wire', e) => e \in 1 .. Len(wire) /\ FirstEnd(wire, e)
  <2> SUFFICES ASSUME NEW e \in 1 .. n, FirstEnd(wire', e)
               PROVE  e \in 1 .. Len(wire) /\ FirstEnd(wire, e)
    BY <1>1
  <2>1. e \in 1 .. Len(wire) /\ \A i \in 1 .. e - 1 : i \in 1 .. n
    BY <1>1, <1>2
  <2> QED BY <1>1, <2>1 DEF FirstEnd
<1> QED BY <1>2, <1>3 DEF OwedOK, Owing

LEMMA OwedStep ==
  ASSUME TypeInv, WireOK, OwedOK, [Next]_vars
  PROVE  OwedOK'
<1>1. CASE Next
  BY <1>1, CallOwed, ReadRaisesOwed, FetchingOwed, BreakingOwed, DrainOwed, RowOwed, SettleOwed,
     TakeOwed, MovingOwed, CutOwed
  DEF Next, Steps
<1>2. CASE UNCHANGED vars
  BY <1>2 DEF vars, OwedOK, Owing, Now
<1> QED BY <1>1, <1>2

LEMMA OwedInit ==
  ASSUME Init
  PROVE  OwedOK
<1>1. NothingOwed
  BY DEF Init, NothingOwed, Fresh
<1> QED BY <1>1, TypeInit DEF OwedOK, NothingOwed, Fetching, Sends

LEMMA OwedMeans ==
  ASSUME TypeInv, OwedOK
  PROVE  TypeOK /\ EveryRowIsTold
<1>1. EveryRowIsTold
  BY DEF EveryRowIsTold, OwedOK, Owing, Cursors
<1>2. \A c \in Cursors : cursors[c].owed \in 0 .. MaxRows
  <2> SUFFICES ASSUME NEW c \in Cursors PROVE cursors[c].owed \in 0 .. MaxRows
    OBVIOUS
  <2>1. MaxRows \in Nat /\ cursors[c].owed \in Nat
    BY SessionAssumption DEF TypeInv, DataOK, Accounts
  <2> QED BY <2>1 DEF OwedOK, Owing
<1> QED BY <1>1, <1>2 DEF TypeOK, TypeInv, DataOK, ResultOK, Conns, Results

(* The variables keep their types; in particular no cursor is owed more rows *)
(* than a result set has, whatever is left on the wire.                      *)
THEOREM SessionTypes == Spec => []TypeOK
<1>1. Init => TypeInv /\ WireOK /\ OwedOK
  BY TypeInit, WireInit, OwedInit
<1>2. TypeInv /\ WireOK /\ OwedOK /\ [Next]_vars => (TypeInv /\ WireOK /\ OwedOK)'
  BY TypeStep, WireStep, OwedStep
<1>3. TypeInv /\ OwedOK => TypeOK
  BY OwedMeans
<1> QED BY <1>1, <1>2, <1>3, PTL DEF Spec

(* A cursor read row by row says that it is at its end only when it has given  *)
(* out every row of its result, unless an exception or another cursor's        *)
(* statement has taken the rest: _finish_unbuffered_query, _clear_result and   *)
(* nextset() never drop rows of a cursor that is still being read.             *)
THEOREM RowsAreTold == Spec => []EveryRowIsTold
<1>1. Init => TypeInv /\ WireOK /\ OwedOK
  BY TypeInit, WireInit, OwedInit
<1>2. TypeInv /\ WireOK /\ OwedOK /\ [Next]_vars => (TypeInv /\ WireOK /\ OwedOK)'
  BY TypeStep, WireStep, OwedStep
<1>3. TypeInv /\ OwedOK => EveryRowIsTold
  BY OwedMeans
<1> QED BY <1>1, <1>2, <1>3, PTL DEF Spec

-----------------------------------------------------------------------------
(* What the client knows of the session's autocommit: it is right, or the    *)
(* packet that tells it is still to be read.                                 *)
Filing == {"file", "fileOk", "skip"}
Tells(w, auto) == \A i \in 1..Len(w) : w[i].mine => w[i].auto = auto
WillTell(w) == \E i \in 1..Len(w) : w[i].mine /\ w[i].kind = "ok"

StatusOK ==
  /\ Tells(wire, autocommit)
  /\ Live /\ link = "up" =>
       \/ conn.status = autocommit \/ seen.silent
       \/ Now \notin Filing /\ WillTell(wire)

LEMMA NothingToTell ==
  ASSUME NEW auto
  PROVE  Tells(<<>>, auto) /\ ~WillTell(<<>>)
<1>1. Len(<<>>) = 0
  BY EmptySeq
<1> QED BY <1>1 DEF Tells, WillTell

LEMMA StatusKept ==
  ASSUME StatusOK, UNCHANGED <<wire, link, autocommit, seen>>, Now # "login", Now' \notin Filing,
         conn'.sock = "open" => conn.sock = "open" /\ conn'.status = conn.status
  PROVE  StatusOK'
BY DEF StatusOK, Live

LEMMA StatusDead ==
  ASSUME StatusOK, autocommit' = autocommit, wire' \in {wire, <<>>},
         ~Live' \/ link' # "up"
  PROVE  StatusOK'
BY NothingToTell DEF StatusOK

LEMMA StatusTaken ==
  ASSUME TypeInv, WireOK, StatusOK, Reading, conn.sock = "open", NEW p \in Waiting, InOrder,
         Taken(p), UNCHANGED <<link, autocommit>>,
         Live' =>
           \/ p.kind = "ok" /\ conn'.status = p.auto
           \/ /\ conn'.status = conn.status
              /\ p.kind # "ok" \/ Now \in Filing \cup {"rows", "drain", "row"}
              /\ Now' \in Filing => p.kind = "local"
  PROVE  StatusOK'
<1>1. /\ wire # <<>> /\ p = wire[1] /\ p \in Packets /\ wire' = Tail(wire)
      /\ Len(wire) \in Nat \ {0} /\ Len(wire') = Len(wire) - 1
      /\ \A i \in 1 .. Len(wire') : wire'[i] = wire[i + 1]
      /\ seen \in Histories
  BY WaitingIs DEF Taken, TypeInv, DataOK
<1>2. Tells(wire', autocommit')
  <2>1. \A i \in 1 .. Len(wire') : i + 1 \in 1 .. Len(wire)
    BY <1>1
  <2> QED BY <1>1, <2>1 DEF StatusOK, Tells
<1>3. p.mine => p.auto = autocommit
  <2>1. 1 \in 1 .. Len(wire)
    BY <1>1
  <2> QED BY <1>1, <2>1 DEF StatusOK, Tells
<1>4. SUFFICES ASSUME Live', link = "up"
               PROVE  \/ conn'.status = autocommit \/ seen'.silent
                      \/ Now' \notin Filing /\ WillTell(wire')
  BY <1>2 DEF StatusOK
<1>5. OwnTaken(p)
  BY <1>4, TakenOwn DEF Live
<1>6. p.mine /\ seen'.silent = seen.silent
  BY <1>1, <1>4 DEF Taken, Histories, Live
<1>7. Live
  <2>1. Now \in Readers
    BY DEF Reading, Now
  <2> QED BY <2>1 DEF WireOK, Live, Readers
<1>8. CASE p.kind = "ok" /\ conn'.status = p.auto
  BY <1>3, <1>6, <1>8
<1>9. CASE /\ conn'.status = conn.status
           /\ p.kind # "ok" \/ Now \in Filing \cup {"rows", "drain", "row"}
           /\ Now' \in Filing => p.kind = "local"
  <2>1. CASE conn.status = autocommit \/ seen.silent
    BY <1>6, <1>9, <2>1
  <2>2. CASE Now \notin Filing /\ WillTell(wire)
    <3>1. PICK i \in 1 .. Len(wire) : wire[i].mine /\ wire[i].kind = "ok"
      BY <2>2 DEF WillTell
    <3>2. p.kind # "ok"
      BY <1>5, <1>9, <2>2 DEF OwnTaken, Heads, InSet
    <3>3. i - 1 \in 1 .. Len(wire') /\ (i - 1) + 1 = i
      BY <1>1, <3>1, <3>2
    <3>4. WillTell(wire')
      BY <1>1, <3>1, <3>3 DEF WillTell
    <3>5. p.kind # "local"
      BY <1>5, <3>4, NothingToTell DEF OwnTaken
    <3> QED BY <1>9, <3>4, <3>5
  <2> QED BY <1>4, <1>7, <2>1, <2>2 DEF StatusOK
<1> QED BY <1>4, <1>8, <1>9

LEMMA ReadingStatus ==
  ASSUME TypeInv, WireOK, StatusOK,
         \/ Open \/ FileAnswered \/ FileFailed \/ ReadRows \/ Drain \/ ReadRow \/ ReadOk
  PROVE  StatusOK'
<1>1. /\ PlanOK /\ conn \in Conns /\ Connected \in Conns
      /\ Connected.status = conn.status
      /\ \A p \in Waiting : [Connected EXCEPT !.status = p.auto].status = p.auto
  <2>1. PlanOK /\ conn \in Conns /\ Connected \in Conns
    BY ConnTypes DEF TypeInv, DataOK
  <2>2. Connected.status = conn.status
    BY <2>1 DEF Connected, Conns
  <2>3. \A p \in Waiting : [Connected EXCEPT !.status = p.auto].status = p.auto
    BY <2>1 DEF Conns
  <2> QED BY <2>1, <2>2, <2>3
<1>2. \A cs : RaiseWith(Connected, cs) => (Live' => conn'.status = conn.status)
  BY <1>1, RaiseLive DEF Live
<1>3. Raise(Connected) => (Live' => conn'.status = conn.status)
  BY <1>2 DEF Raise
<1>4. ASSUME NEW what \in Readers, NEW p \in Waiting, Got(what, p), UNCHANGED <<link, autocommit>>,
         Live' =>
           \/ p.kind = "ok" /\ conn'.status = p.auto
           \/ /\ conn'.status = conn.status
              /\ p.kind # "ok" \/ Now \in Filing \cup {"rows", "drain", "row"}
              /\ Now' \in Filing => p.kind = "local"
      PROVE StatusOK'
  <2>1. Reading /\ conn.sock = "open" /\ InOrder /\ Taken(p)
    BY <1>4 DEF Got, Reading, Doing
  <2> QED BY <1>4, <2>1, StatusTaken
<1>5. Readers = {"open", "openSS", "rows", "drain", "row", "ok", "fileOk", "skip"}
  BY DEF Readers
<1>6. CASE Open
  <2>1. PICK what \in {"open", "openSS"}, p \in Waiting :
          /\ Got(what, p) /\ UNCHANGED <<link, autocommit>> /\ Now = what
          /\ \/ OpenOk(p) \/ OpenLocal(p) \/ OpenUnbuffered(p)
             \/ OpenBuffered(p) \/ OpenRaises(p)
    BY <1>6, OpenTypes
  <2> DEFINE Tell ==
           \/ p.kind = "ok" /\ conn'.status = p.auto
           \/ /\ conn'.status = conn.status
              /\ p.kind # "ok"
              /\ Now' \in Filing => p.kind = "local"
  <2>2. Live' => Tell
    <3>1. CASE OpenOk(p)
      BY <1>1, <3>1 DEF OpenOk
    <3>2. CASE OpenLocal(p)
      BY <1>1, <3>2 DEF OpenLocal
    <3>3. CASE OpenUnbuffered(p)
      <4>1. Now' \notin Filing
        BY <3>3 DEF OpenUnbuffered, Filing
      <4> QED BY <1>1, <3>3, <4>1 DEF OpenUnbuffered
    <3>4. CASE OpenBuffered(p)
      <4>1. Now' \notin Filing
        BY <3>4 DEF OpenBuffered, Filing
      <4> QED BY <1>1, <3>4, <4>1 DEF OpenBuffered
    <3>5. CASE OpenRaises(p)
      <4>1. Now' \notin Filing /\ p.kind # "ok"
        BY <3>5 DEF OpenRaises, Filing
      <4> QED BY <1>3, <3>5, <4>1 DEF OpenRaises
    <3> QED BY <2>1, <3>1, <3>2, <3>3, <3>4, <3>5
  <2> QED BY <1>4, <1>5, <2>1, <2>2
<1>7. CASE FileAnswered
  <2>1. PICK p \in Waiting :
          /\ Got("fileOk", p) /\ UNCHANGED <<link, autocommit>> /\ Now = "fileOk"
          /\ OpenOk(p) \/ (Raise(Connected) /\ Now' \in {"idle", "login"})
    BY <1>7, FileAnsweredTypes
  <2>2. Live' =>
           \/ p.kind = "ok" /\ conn'.status = p.auto
           \/ conn'.status = conn.status /\ Now \in Filing /\ Now' \notin Filing
    BY <1>1, <1>3, <2>1 DEF OpenOk, Filing
  <2> QED BY <1>4, <1>5, <2>1, <2>2
<1>8. CASE FileFailed
  <2>1. PICK p \in Waiting :
          /\ Got("skip", p) /\ UNCHANGED <<link, autocommit>> /\ Now = "skip"
          /\ Raise(Connected) /\ Now' \in {"idle", "login"}
    BY <1>8, FileFailedTypes
  <2>2. Now \in Filing /\ Now' \notin Filing
    BY <2>1 DEF Filing
  <2> QED BY <1>3, <1>4, <1>5, <2>1, <2>2
<1>9. CASE ReadRows
  <2>1. PICK p \in Waiting :
          /\ Got("rows", p) /\ UNCHANGED <<link, autocommit>> /\ Now = "rows"
          /\ RowsEnd(p) \/ RowsGoOn(p) \/ (Raise(Connected) /\ Now' \in {"idle", "login"})
    BY <1>9, RowsTypes
  <2>2. Live' => conn'.status = conn.status
    BY <1>1, <1>3, <2>1 DEF RowsEnd, RowsGoOn
  <2>3. Now' \notin Filing
    BY <2>1 DEF RowsEnd, RowsGoOn, After, Filing
  <2> QED BY <1>4, <1>5, <2>1, <2>2, <2>3
<1>10. CASE Drain
  <2>1. PICK p \in Waiting :
          /\ Got("drain", p) /\ UNCHANGED <<link, autocommit>> /\ Now = "drain"
          /\ RowsEnd(p) \/ RowsGoOn(p)
    BY <1>10, DrainTypes
  <2>2. conn'.status = conn.status /\ Now' \notin Filing
    BY <1>1, <2>1 DEF RowsEnd, RowsGoOn, After, Filing
  <2> QED BY <1>4, <1>5, <2>1, <2>2
<1>11. CASE ReadRow
  <2>1. PICK p \in Waiting :
          /\ Got("row", p) /\ UNCHANGED <<link, autocommit>> /\ Now = "row"
          /\ \/ RowsEnd(p)
             \/ RaiseWith(Connected, Fewer) /\ Now' \in {"idle", "login"}
             \/ conn' = Connected /\ Now' = "idle"
    BY <1>11, RowTypes
  <2>2. (Live' => conn'.status = conn.status) /\ Now' \notin Filing
    BY <1>1, <1>2, <2>1 DEF RowsEnd, After, Filing
  <2> QED BY <1>4, <1>5, <2>1, <2>2
<1>12. CASE ReadOk
  <2>1. PICK p \in Waiting :
          /\ Got("ok", p) /\ UNCHANGED <<link, autocommit>> /\ Now = "ok"
          /\ \/ p.kind = "ok" /\ conn' = [Connected EXCEPT !.status = p.auto]
             \/ p.kind # "ok" /\ Raise(Connected) /\ Now' \in {"idle", "login"}
    BY <1>12, OkTypes
  <2>2. Live' =>
           \/ p.kind = "ok" /\ conn'.status = p.auto
           \/ conn'.status = conn.status /\ p.kind # "ok" /\ Now' \notin Filing
    BY <1>1, <1>3, <2>1 DEF Filing
  <2> QED BY <1>4, <1>5, <2>1, <2>2
<1> QED BY <1>6, <1>7, <1>8, <1>9, <1>10, <1>11, <1>12

LEMMA ReadRaisesStatus ==
  ASSUME TypeInv, WireOK, StatusOK, ReadRaises
  PROVE  StatusOK'
<1>1. /\ PlanOK /\ conn \in Conns /\ Connected \in Conns /\ ForceClosed \in Conns
      /\ Connected.status = conn.status /\ ForceClosed.sock # "open"
      /\ UNCHANGED <<link, autocommit>> /\ Reading /\ Now' \in {"idle", "login"}
  <2>1. PlanOK /\ conn \in Conns
    BY DEF TypeInv, DataOK
  <2>2. Connected \in Conns /\ ForceClosed \in Conns
    BY <2>1, ConnTypes
  <2>3. Connected.status = conn.status /\ ForceClosed.sock # "open"
    BY <2>1 DEF Connected, ForceClosed, Conns
  <2>4. UNCHANGED <<link, autocommit>> /\ Reading
    BY DEF ReadRaises
  <2> QED BY <2>1, <2>2, <2>3, <2>4, ReadingTypes
<1>2. \A c \in Conns : Raise(c) => (conn'.sock = "open" => conn' = c)
  BY <1>1, RaiseLive DEF Raise
<1>3. CASE /\ conn.sock # "open" /\ UNCHANGED wire
           /\ Raise(IF conn.sock = "deaf" THEN ForceClosed ELSE conn)
  <2>1. conn'.sock # "open"
    BY <1>1, <1>2, <1>3
  <2> QED BY <1>1, <1>3, <2>1, StatusDead DEF Live
<1>4. CASE Raise(ForceClosed) /\ wire' = <<>>
  <2>1. conn'.sock # "open"
    BY <1>1, <1>2, <1>4
  <2> QED BY <1>1, <1>4, <2>1, StatusDead DEF Live
<1>5. ASSUME NEW p \in Waiting, conn.sock = "open", InOrder, IsError(p), Taken(p), Raise(Connected)
      PROVE  StatusOK'
  <2>1. p.kind # "ok"
    BY <1>5, WaitingIs, Bytes DEF TypeInv, DataOK
  <2>2. Live' => conn'.status = conn.status
    BY <1>1, <1>2, <1>5 DEF Live
  <2>3. Now' \notin Filing
    BY <1>1 DEF Filing
  <2> QED BY <1>1, <1>5, <2>1, <2>2, <2>3, StatusTaken
<1> QED BY <1>3, <1>4, <1>5 DEF ReadRaises

(* The packets of an answer tell what it has done, unless there is no OK *)
(* among them.                                                           *)
LEMMA SendStatus ==
  ASSUME TypeInv, WireOK, StatusOK, Send
  PROVE  StatusOK'
<1>1. /\ wire \in Seq(Packets) /\ Unread \in Seq(Packets) /\ Len(Unread) = Len(wire)
      /\ \A i \in 1 .. Len(wire) : ~Unread[i].mine
      /\ conn'.status = conn.status /\ seen \in Histories /\ Now' \notin Filing
      /\ link' = link
  <2>1. /\ wire \in Seq(Packets) /\ Unread \in Seq(Packets) /\ Len(Unread) = Len(wire)
        /\ \A i \in 1 .. Len(wire) : Unread[i] = [wire[i] EXCEPT !.mine = FALSE]
    BY UnreadIs DEF TypeInv, DataOK
  <2>2. \A i \in 1 .. Len(wire) : wire[i] \in Packets
    BY <2>1
  <2>3. \A q \in Packets : ~[q EXCEPT !.mine = FALSE].mine
    BY DEF Packets
  <2>4. Now' \notin Filing
    BY SendMoves DEF TypeInv, Filing
  <2>5. conn'.status = conn.status /\ seen \in Histories /\ link' = link
    BY DEF TypeInv, DataOK, Send, Conns
  <2> QED BY <2>1, <2>2, <2>3, <2>4, <2>5
<1>2. CASE link # "up"
  <2>1. wire' = Unread
    BY <1>2 DEF Send
  <2>2. Tells(wire', autocommit')
    BY <1>1, <2>1 DEF Tells
  <2> QED BY <1>1, <1>2, <2>2 DEF StatusOK
<1>3. CASE link = "up"
  <2>1. PICK a \in Answers : \E auto \in Effect(a) :
           /\ Complete(a) /\ auto \in BOOLEAN /\ autocommit' = auto
           /\ Numbered(a, 1, auto) \in Seq(Packets)
           /\ wire' = Unread \o Numbered(a, 1, auto)
           /\ seen' = [seen EXCEPT !.silent = conn.status # auto /\ (@ \/ SaysNothing(a))]
    BY <1>3, SendWire DEF TypeInv
  <2>2. PICK auto \in Effect(a) :
           /\ Complete(a) /\ auto \in BOOLEAN /\ autocommit' = auto
           /\ Numbered(a, 1, auto) \in Seq(Packets)
           /\ wire' = Unread \o Numbered(a, 1, auto)
           /\ seen' = [seen EXCEPT !.silent = conn.status # auto /\ (@ \/ SaysNothing(a))]
    BY <2>1
  <2> DEFINE w == Numbered(a, 1, auto)
             u == Unread
  <2>3. /\ a \in Seq(Sayings) /\ w \in Seq(Packets) /\ u \in Seq(Packets) /\ wire' = u \o w
        /\ Len(w) = Len(a)
        /\ \A i \in 1 .. Len(a) : w[i].kind = a[i].kind /\ w[i].mine
        /\ \A i \in 1 .. Len(u) : ~u[i].mine
    <3>1. a \in Seq(Sayings)
      BY <2>2 DEF Complete, Begun
    <3>2. /\ Len(w) = Len(a)
          /\ \A i \in 1 .. Len(a) : w[i].kind = a[i].kind /\ w[i].mine
      BY <2>2, <3>1, NumberedFromOne
    <3> QED BY <1>1, <2>2, <3>1, <3>2
  <2>4. \A i \in 1 .. Len(a) : w[i].auto = auto
    <3>1. DOMAIN a = 1 .. Len(a)
      BY <2>3
    <3> QED BY <3>1 DEF Numbered
  <2> HIDE DEF w, u
  <2>5. /\ Len(u) \in Nat /\ Len(w) \in Nat /\ Len(wire') = Len(u) + Len(w)
        /\ \A i \in 1 .. Len(u) : wire'[i] = u[i]
        /\ \A i \in 1 .. Len(w) : wire'[Len(u) + i] = w[i]
    <3>0. u \in Seq(Packets) /\ w \in Seq(Packets) /\ wire' = u \o w
      BY <2>3
    <3>1. /\ Len(u) \in Nat /\ Len(w) \in Nat /\ Len(wire') = Len(u) + Len(w)
          /\ \A i \in 1 .. Len(u) + Len(w) :
               wire'[i] = IF i <= Len(u) THEN u[i] ELSE w[i - Len(u)]
      BY <3>0, JoinIs
    <3>2. /\ Len(wire') = Len(u) + Len(w)
          /\ \A i \in 1 .. Len(u) + Len(w) :
               wire'[i] = IF i <= Len(u) THEN u[i] ELSE w[i - Len(u)]
      BY <3>1
    <3>3. \A i \in 1 .. Len(u) : i \in 1 .. Len(u) + Len(w) /\ i <= Len(u)
      BY <3>1
    <3>4. \A i \in 1 .. Len(w) :
            /\ Len(u) + i \in 1 .. Len(u) + Len(w) /\ ~(Len(u) + i <= Len(u))
            /\ (Len(u) + i) - Len(u) = i
      BY <3>1
    <3>5. \A i \in 1 .. Len(u) : wire'[i] = u[i]
      BY <3>2, <3>3
    <3>6. \A i \in 1 .. Len(w) : wire'[Len(u) + i] = w[i]
      BY <3>2, <3>4
    <3> QED BY <3>1, <3>2, <3>5, <3>6
  <2>6. Tells(wire', autocommit')
    <3> SUFFICES ASSUME NEW i \in 1 .. Len(wire'), wire'[i].mine PROVE wire'[i].auto = auto
      BY <2>2 DEF Tells
    <3>1. i \notin 1 .. Len(u)
      BY <2>3, <2>5
    <3>2. i - Len(u) \in 1 .. Len(w) /\ Len(u) + (i - Len(u)) = i
      BY <2>5, <3>1
    <3> QED BY <2>3, <2>4, <2>5, <3>2
  <2>7. CASE SaysNothing(a)
    <3>1. conn'.status = autocommit' \/ seen'.silent
      <4> DEFINE s == conn.status # auto /\ (seen.silent \/ SaysNothing(a))
      <4>1. seen' = [seen EXCEPT !.silent = s] /\ (s <=> conn.status # auto)
        BY <2>2, <2>7
      <4> HIDE DEF s
      <4>2. seen'.silent = s
        BY <1>1, <4>1 DEF Histories
      <4> QED BY <1>1, <2>2, <4>1, <4>2
    <3> QED BY <2>6, <3>1 DEF StatusOK
  <2>8. CASE ~SaysNothing(a)
    <3>1. PICK i \in DOMAIN a : a[i].kind = "ok"
      BY <2>8 DEF SaysNothing
    <3>2. i \in 1 .. Len(w)
      BY <2>3, <3>1
    <3>3. Len(u) + i \in 1 .. Len(wire') /\ wire'[Len(u) + i] = w[i]
      BY <2>5, <3>2
    <3>4. WillTell(wire')
      BY <2>3, <3>1, <3>2, <3>3 DEF WillTell
    <3> QED BY <1>1, <2>6, <3>4 DEF StatusOK
  <2> QED BY <2>7, <2>8
<1> QED BY <1>2, <1>3

LEMMA FileStatus ==
  ASSUME TypeInv, WireOK, StatusOK, SendFile
  PROVE  StatusOK'
<1>1. /\ Now = "file" /\ Now \in Filing /\ conn'.status = conn.status /\ conn'.sock = conn.sock
      /\ UNCHANGED <<seen, link, autocommit>> /\ conn.sock = "open" /\ autocommit \in BOOLEAN
      /\ conn \in Conns
  BY FileMoves DEF TypeInv, DataOK, SendFile, Filing, Conns
<1>2. Live
  BY <1>1 DEF WireOK, Live
<1>3. wire = <<>>
  BY <1>1, <1>2 DEF WireOK, Phase
<1>4. PICK packets \in {1, 2}, final \in Finals :
        wire' = wire \o Numbered(final, conn.seq + packets, autocommit)
  BY DEF SendFile
<1> DEFINE n == conn.seq + packets
           w == Numbered(final, n, autocommit)
<1>5. n \in Nat \ {0} /\ final \in Seq(Sayings)
  <2>1. conn.seq \in Nat
    BY <1>1, SessionAssumption DEF Conns
  <2> QED BY <2>1, AnswersAre DEF Complete, Begun
<1>6. wire' = wire \o w
  BY <1>4
<1> HIDE DEF n
<1>7. w \in Seq(Packets) /\ Len(w) = Len(final) /\ \A i \in 1 .. Len(final) : w[i].auto = autocommit
  <2>1. \A x : x = Numbered(final, n, autocommit) =>
          /\ x \in Seq(Packets) /\ Len(x) = Len(final)
          /\ \A i \in 1 .. Len(final) : x[i].auto = autocommit
    BY <1>1, <1>5, NumberedTell
  <2> QED BY <2>1
<1> HIDE DEF w
<1>8. wire' = w
  BY <1>3, <1>6, <1>7, ConcatEmptySeq
<1>9. Tells(wire', autocommit')
  BY <1>1, <1>7, <1>8 DEF Tells
<1> QED BY <1>1, <1>2, <1>9 DEF StatusOK, Live

LEMMA OtherStatus ==
  ASSUME TypeInv, WireOK, StatusOK,
         \/ SendRaises \/ Unreachable \/ Refused \/ Login \/ Settle \/ SetMode \/ Leave \/ Advance
         \/ Clear \/ Take \/ Fetch \/ Finish
  PROVE  StatusOK'
<1>1. /\ PlanOK /\ conn \in Conns /\ ForceClosed \in Conns /\ ForceClosed.sock # "open"
      /\ [conn EXCEPT !.sock = "deaf"] \in Conns /\ [conn EXCEPT !.sock = "deaf"].sock # "open"
  <2>1. PlanOK /\ conn \in Conns
    BY DEF TypeInv, DataOK
  <2>2. ForceClosed \in Conns /\ [conn EXCEPT !.sock = "deaf"] \in Conns
    BY <2>1, ConnTypes
  <2>3. ForceClosed.sock # "open" /\ [conn EXCEPT !.sock = "deaf"].sock # "open"
    BY <2>1 DEF ForceClosed, Conns
  <2> QED BY <2>1, <2>2, <2>3
<1>2. \A c \in Conns : Raise(c) => (conn'.sock = "open" => conn' = c)
  BY <1>1, RaiseLive DEF Raise
<1>3. CASE SendRaises
  <2>1. conn'.sock # "open"
    BY <1>1, <1>2, <1>3 DEF SendRaises
  <2> QED BY <1>3, <2>1, StatusDead DEF SendRaises, Live
<1>4. CASE Unreachable
  <2>1. conn'.sock # "open"
    BY <1>1, <1>2, <1>4 DEF Unreachable
  <2> QED BY <1>4, <2>1, StatusDead DEF Unreachable, Live
<1>5. CASE Refused
  BY <1>5, StatusDead DEF Refused
<1>6. CASE Login
  BY <1>6, LoginTypes, NothingToTell DEF StatusOK
<1>7. CASE Settle
  <2>1. /\ Now = "settle" /\ UNCHANGED <<wire, link, autocommit, seen>>
        /\ Raise(conn) \/ UNCHANGED conn
        /\ Now' \in {"idle", "login", "drain", "open"} \cup Sends
    BY <1>7, SettleTypes
  <2> QED BY <1>1, <1>2, <2>1, StatusKept DEF Filing, Sends
<1>8. CASE SetMode
  BY <1>8, SetModeTypes, StatusKept DEF Filing
<1>9. CASE Leave
  BY <1>9, LeaveTypes, StatusKept DEF Filing
<1>10. CASE Advance
  <2>1. /\ Now \in {"nextset", "advance"} /\ UNCHANGED <<conn, wire, link, autocommit, seen>>
        /\ Now' = OpenFrame \/ Now' \in After(Now)
    BY <1>10, AdvanceTypes
  <2>2. Now' \notin Filing
    BY <2>1 DEF OpenFrame, OpenFrameOf, After, Filing
  <2> QED BY <2>1, <2>2, StatusKept
<1>11. CASE Clear \/ Take
  BY <1>11, ClearTypes, TakeTypes, StatusKept DEF Filing
<1>12. CASE Fetch
  <2>1. /\ Now = "fetch" /\ UNCHANGED <<wire, link, autocommit, seen>>
        /\ Raise(conn) \/ UNCHANGED conn
        /\ Now' \in {"idle", "login", "row"}
    BY <1>12, FetchTypes
  <2> QED BY <1>1, <1>2, <2>1, StatusKept DEF Filing
<1>13. CASE Finish
  BY <1>13, FinishTypes, StatusKept DEF Filing
<1> QED BY <1>3, <1>4, <1>5, <1>6, <1>7, <1>8, <1>9, <1>10, <1>11, <1>12, <1>13

LEMMA CallStatus ==
  ASSUME TypeInv, WireOK, StatusOK, Calls
  PROVE  StatusOK'
<1>1. Now = "idle" /\ UNCHANGED <<autocommit, seen>> /\ conn \in Conns
  BY CallTypes DEF Starts, TypeInv, DataOK
<1>2. ASSUME UNCHANGED <<wire, link>>, conn' = conn \/ SockKept,
             Now' \in {"idle", "settle", "nextset", "mode", "login", "advance", "fetch", "finish"}
      PROVE  StatusOK'
  <2>1. conn'.sock = conn.sock /\ conn'.status = conn.status
    BY <1>1, <1>2 DEF SockKept, Conns
  <2>2. Now' \notin Filing /\ Now # "login"
    BY <1>1, <1>2 DEF Filing
  <2> QED BY <1>1, <1>2, <2>1, <2>2, StatusKept
<1>3. CASE wire' = <<>> /\ link' = "cut"
  BY <1>1, <1>3, StatusDead
<1>4. \/ /\ wire' = wire /\ link' = link /\ (conn' = conn \/ SockKept)
         /\ Now' \in {"idle", "settle", "nextset", "mode", "login", "advance", "fetch", "finish"}
      \/ wire' = <<>> /\ link' = "cut"
  BY CallTypes DEF StartsQuietly
<1> QED BY <1>2, <1>3, <1>4

LEMMA CutStatus ==
  ASSUME TypeInv, WireOK, StatusOK, Cut
  PROVE  StatusOK'
<1>1. PICK n \in 0 .. Len(wire) :
         /\ Len(wire') = n /\ \A i \in 1 .. n : wire'[i] = wire[i]
  BY CutTypes
<1>2. link' = "cut" /\ autocommit' = autocommit /\ Len(wire) \in Nat
  BY CutTypes DEF TypeInv, DataOK
<1>3. \A i \in 1 .. n : i \in 1 .. Len(wire)
  BY <1>2
<1>4. Tells(wire', autocommit')
  BY <1>1, <1>2, <1>3 DEF StatusOK, Tells
<1> QED BY <1>2, <1>4 DEF StatusOK

LEMMA StatusStep ==
  ASSUME TypeInv, WireOK, StatusOK, [Next]_vars
  PROVE  StatusOK'
<1>1. CASE Next
  BY <1>1, CallStatus, ReadRaisesStatus, ReadingStatus, SendStatus, FileStatus, OtherStatus, CutStatus
  DEF Next, Steps
<1>2. CASE UNCHANGED vars
  BY <1>2 DEF vars, StatusOK, Live, Now
<1> QED BY <1>1, <1>2

(* get_autocommit() tells the session's mode once every answer is read, but for *)
(* a procedure that changed it and then failed: whatever the program ran, the   *)
(* OK packet that tells the mode has been read by then.                         *)
THEOREM StatusIsTold == Spec => []StatusIsCurrent
<1>1. Init => TypeInv /\ WireOK /\ StatusOK
  BY TypeInit, WireInit, NothingToTell DEF Init, StatusOK, Live
<1>2. TypeInv /\ WireOK /\ StatusOK /\ [Next]_vars => (TypeInv /\ WireOK /\ StatusOK)'
  BY TypeStep, WireStep, StatusStep
<1>3. TypeInv /\ StatusOK => StatusIsCurrent
  BY NothingToTell DEF StatusIsCurrent, StatusOK, Live, Now
<1> QED BY <1>1, <1>2, <1>3, PTL DEF Spec

===============================================================================
