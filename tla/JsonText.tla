------------------------------- MODULE JsonText -------------------------------
(***************************************************************************)
(* What a JSON text means to the readers philemon did not write: the       *)
(* window's JSON.parse, a browser, a script. A text is cut into tokens and *)
(* the tokens are gathered into values, apart from the hand-written        *)
(* readers, which are held against it.                                     *)
(*                                                                         *)
(* A value is a word (a number or a literal, as it is spelled), a string   *)
(* of units, an array or a function of its names.                          *)
(***************************************************************************)
EXTENDS Json

Word(s) == [word |-> s]

\* Half a surrogate pair is a unit of its own.
UnitOf(code) == IF code \in DOMAIN CharOf THEN <<CharOf[code]>> ELSE <<"half", code>>
IsHalf(unit) == Len(unit) = 2
Units(s) == [i \in DOMAIN s |-> <<s[i]>>]

AddUnit(units, unit) ==
  IF units # <<>> /\ IsHalf(unit) /\ IsHalf(Last(units)) /\ unit[2] \in Low /\ Last(units)[2] \in High
    THEN Append(Front(units), UnitOf(65536 + (Last(units)[2] - 55296) * 1024 + (unit[2] - 56320)))
    ELSE Append(units, unit)

-----------------------------------------------------------------------------
(* Tokens: marks, words and strings.                                       *)

Marks == {"{", "}", "[", "]", ":", ","}
Escaped == [c \in {Quote, Back, "/"} |-> c] @@ ShortEscape

Token(kind, is) == [kind |-> kind, is |-> is]
NoTokens == [mode |-> "out", part |-> <<>>, hex |-> <<>>, tokens |-> <<>>, raw |-> FALSE]

Cut(lex, kind) == [lex EXCEPT !.tokens = Append(@, Token(kind, lex.part)), !.part = <<>>]
EndWord(lex) == IF lex.part = <<>> THEN lex ELSE Cut(lex, "word")

Lexed(lex, c) ==
  CASE lex.mode = "out" /\ c \in Spaces -> EndWord(lex)
    [] lex.mode = "out" /\ c \in Marks -> Cut([EndWord(lex) EXCEPT !.part = <<c>>], "mark")
    [] lex.mode = "out" /\ c = Quote -> [EndWord(lex) EXCEPT !.mode = "in"]
    [] lex.mode = "in" /\ c = Quote -> [Cut(lex, "str") EXCEPT !.mode = "out"]
    [] lex.mode = "in" /\ c = Back -> [lex EXCEPT !.mode = "escape"]
    [] lex.mode = "in" -> [lex EXCEPT !.part = AddUnit(@, <<c>>), !.raw = @ \/ IsControl(c)]
    [] lex.mode = "escape" /\ c = "u" -> [lex EXCEPT !.mode = "hex", !.hex = <<>>]
    [] lex.mode = "escape" /\ c \in DOMAIN Escaped -> [lex EXCEPT !.mode = "in", !.part = AddUnit(@, <<Escaped[c]>>)]
    [] lex.mode = "hex" /\ Len(lex.hex) < 3 -> [lex EXCEPT !.hex = Append(@, c)]
    [] lex.mode = "hex" /\ Read(HexRun(Append(lex.hex, c), 1, 4)) ->
         [lex EXCEPT !.mode = "in", !.part = AddUnit(@, UnitOf(HexRun(Append(lex.hex, c), 1, 4).value))]
    [] lex.mode = "out" -> [lex EXCEPT !.part = Append(@, c)]
    [] OTHER -> [lex EXCEPT !.mode = "wrong"]

\* Read by halves, which keeps the evaluation shallow.
RECURSIVE LexedFrom(_, _, _, _)
LexedFrom(lex, text, i, j) ==
  CASE lex.mode = "wrong" \/ i > j -> lex
    [] lex.mode # "wrong" /\ i = j -> Lexed(lex, text[i])
    [] OTHER -> LexedFrom(LexedFrom(lex, text, i, (i + j) \div 2), text, (i + j) \div 2 + 1, j)

Tokens(text) == EndWord(LexedFrom(NoTokens, text, 1, Len(text)))

-----------------------------------------------------------------------------
(* Values.                                                                 *)

Digs(s) == s # <<>> /\ \A i \in DOMAIN s : IsDigit(s[i])

\* RFC 8259's number: [ minus ] int [ frac ] [ exp ].
StandardNumber(s) ==
  \E sign \in 0..1, a, b \in 0..Len(s) :
    LET int  == SubSeq(s, sign + 1, a)
        frac == SubSeq(s, a + 1, b)
        exp  == SubSeq(s, b + 1, Len(s))
    IN  /\ sign <= a /\ a <= b /\ (sign = 1 => s[1] = "-")
        /\ Digs(int) /\ (Len(int) > 1 => int[1] # "0")
        /\ frac = <<>> \/ (Head(frac) = "." /\ Digs(Tail(frac)))
        /\ exp = <<>> \/ (Head(exp) \in {"e", "E"} /\ Tail(exp) # <<>>
                          /\ (Digs(Tail(exp)) \/ (exp[2] \in {"+", "-"} /\ Digs(SubSeq(exp, 3, Len(exp))))))

IsWord(s) == s \in {<<"null">>, <<"true">>, <<"false">>} \/ StandardNumber(s)

\* The containers still open, the whole text the outermost, and what may stand
\* next; twice tells that an object named a member again.
Frame(kind) == [kind |-> kind, held |-> <<>>, name |-> <<>>]
Nothing == [open |-> <<Frame("text")>>, next |-> {"value"}, twice |-> FALSE]

Value(frame) == IF frame.kind = "obj" THEN [obj |-> frame.held] ELSE [arr |-> frame.held]

After(frame) == CASE frame.kind = "text" -> {} [] frame.kind = "arr" -> {",", "]"} [] frame.kind = "obj" -> {",", "}"}

Put(at, open, value) ==
  LET frame == Last(open)
      named == frame.kind = "obj"
  IN  [open  |-> Append(Front(open), [frame EXCEPT !.held = IF named THEN (frame.name :> value) @@ @ ELSE Append(@, value)]),
       next  |-> After(frame),
       twice |-> at.twice \/ (named /\ frame.name \in DOMAIN frame.held)]

\* One mark: into a container, out of one, or on to the next element.
Marked(at, mark) ==
  CASE mark \in {"{", "["} /\ "value" \in at.next ->
         [at EXCEPT !.open = Append(@, Frame(IF mark = "{" THEN "obj" ELSE "arr")),
                    !.next = IF mark = "{" THEN {"name", "}"} ELSE {"value", "]"}]
    [] mark \in {"}", "]"} \cap at.next -> Put(at, Front(at.open), Value(Last(at.open)))
    [] mark = ":" /\ ":" \in at.next -> [at EXCEPT !.next = {"value"}]
    [] mark = "," /\ "," \in at.next -> [at EXCEPT !.next = IF Last(at.open).kind = "obj" THEN {"name"} ELSE {"value"}]
    [] OTHER -> [at EXCEPT !.next = {"wrong"}]

Gathered(at, token) ==
  CASE token.kind = "mark" -> Marked(at, token.is[1])
    [] token.kind = "str" /\ "name" \in at.next ->
         [at EXCEPT !.open = Append(Front(@), [Last(@) EXCEPT !.name = token.is]), !.next = {":"}]
    [] token.kind = "str" /\ "value" \in at.next -> Put(at, at.open, [str |-> token.is])
    [] token.kind = "word" /\ "value" \in at.next /\ IsWord(token.is) -> Put(at, at.open, Word(token.is))
    [] OTHER -> [at EXCEPT !.next = {"wrong"}]

RECURSIVE GatheredFrom(_, _, _, _)
GatheredFrom(at, tokens, i, j) ==
  CASE at.next = {"wrong"} \/ i > j -> at
    [] at.next # {"wrong"} /\ i = j -> Gathered(at, tokens[i])
    [] OTHER -> GatheredFrom(GatheredFrom(at, tokens, i, (i + j) \div 2), tokens, (i + j) \div 2 + 1, j)

Gather(tokens) == GatheredFrom(Nothing, tokens, 1, Len(tokens))

-----------------------------------------------------------------------------
(* The readings.                                                           *)

Whole(token) ==
  IF token.kind # "str" THEN token
  ELSE [token EXCEPT !.is = [i \in DOMAIN @ |-> IF IsHalf(@[i]) THEN <<Replacement>> ELSE @[i]]]

HasHalf(token) == token.kind = "str" /\ \E i \in DOMAIN token.is : IsHalf(token.is[i])

NotJson == Word(<<>>)

\* The most forgiving reading: a control character may stand in a string as it
\* is, half a pair is the replacement character, a repeated name is the later
\* one's.
Lenient(text) ==
  LET lex == Tokens(text)
      at  == Gather([i \in DOMAIN lex.tokens |-> Whole(lex.tokens[i])])
  IN  IF lex.mode = "out" /\ at.next = {} THEN at.open[1].held[1] ELSE NotJson

\* The reading every reader of JSON agrees on: of a text with none of those.
Agreed(text) ==
  LET lex == Tokens(text)
  IN  IF \/ lex.raw \/ Gather(lex.tokens).twice
         \/ \E i \in DOMAIN lex.tokens : HasHalf(lex.tokens[i])
        THEN NotJson ELSE Lenient(text)
=============================================================================
