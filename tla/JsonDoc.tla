-------------------------------- MODULE JsonDoc --------------------------------
(***************************************************************************)
(* The settings file's JSON: a whole document read (jsondoc.rs parse,      *)
(* jsonstring.rs) and written (render). A value keeps what a rewrite must  *)
(* not change: a number its literal, an object the order of its names.     *)
(***************************************************************************)
EXTENDS Json

Null == [t |-> "null"]
Bool(b) == [t |-> "bool", bool |-> b]
Num(text) == [t |-> "num", num |-> text]
Str(s) == [t |-> "str", str |-> s]
Arr(items) == [t |-> "arr", arr |-> items]
Obj(pairs) == [t |-> "obj", obj |-> pairs]

-----------------------------------------------------------------------------
(* Strings.                                                                *)

CharFrom(code) == IF code \in DOMAIN CharOf THEN CharOf[code] ELSE Replacement

\* The escape that completes a pair, if the next one does.
LowHalf(s, at, high) ==
  LET low == HexRun(s, at + 2, 4)
  IN  IF high \in High /\ Is(s, at, Back) /\ Is(s, at + 1, "u") /\ Read(low) /\ low.value \in Low
        THEN low ELSE Refused

Joined(point, low) ==
  IF Read(low) THEN Got(CharFrom(65536 + (point.value - 55296) * 1024 + (low.value - 56320)), low.at)
               ELSE Got(CharFrom(point.value), point.at)

PointAt(s, point) ==
  IF Read(point) THEN Joined(point, LowHalf(s, point.at, point.value)) ELSE Refused

UnescapeHex(s, at) == PointAt(s, HexRun(s, at, 4))

\* Unlike a line's, an unknown escape is an error.
Unescape(s, at) ==
  CASE at > Len(s) -> Refused
    [] at <= Len(s) /\ s[at] \in {Quote, Back, "/"} -> Got(s[at], at + 1)
    [] at <= Len(s) /\ s[at] \in DOMAIN ShortEscape -> Got(ShortEscape[s[at]], at + 1)
    [] Is(s, at, "u") -> UnescapeHex(s, at + 1)
    [] OTHER -> Refused

RECURSIVE Chars(_, _, _)

AfterChar(s, c, out) == IF Read(c) THEN Chars(s, c.at, Append(out, c.value)) ELSE Refused

Chars(s, at, out) ==
  IF at > Len(s) THEN Refused
  ELSE IF s[at] = Quote THEN Got(out, at + 1)
  ELSE AfterChar(s, IF s[at] = Back THEN Unescape(s, at + 1) ELSE Got(s[at], at + 1), out)

ParseString(s, at) == IF Is(s, at, Quote) THEN Chars(s, at + 1, <<>>) ELSE Refused

-----------------------------------------------------------------------------
(* Numbers.                                                                *)

\* -? (0 | [1-9][0-9]*) (. [0-9]+)? ([eE] [+-]? [0-9]+)? and nothing else.
IsJsonNumber(text) ==
  LET int  == IF Is(text, 1, "-") THEN 2 ELSE 1
      dot  == DigitRun(text, int)
      frac == IF Is(text, dot, ".") THEN DigitRun(text, dot + 1) ELSE dot
      exp  == IF Is(text, frac + 1, "+") \/ Is(text, frac + 1, "-") THEN frac + 2 ELSE frac + 1
      ends == IF Is(text, frac, "e") \/ Is(text, frac, "E") THEN DigitRun(text, exp) ELSE frac
  IN  /\ int <= Len(text)
      /\ dot > int /\ (dot > int + 1 => text[int] # "0")
      /\ frac # dot + 1
      /\ ends > Len(text) /\ (ends # frac => ends > exp)

\* The magnitude of an f64, told by the exponent; every instance's mantissa is
\* within its first few digits.
Finite(text) ==
  LET at == {i \in DOMAIN text : text[i] \in {"e", "E"}}
  IN  \A i \in at : LET exp == From(text, i + 1)
                    IN  exp = <<>> \/ Head(exp) = "-"
                        \/ Decimal(IF Head(exp) = "+" THEN Tail(exp) ELSE exp) <= 308

ParseNumber(s, at) ==
  LET end == CHOOSE to \in at..(Len(s) + 1) :
               /\ \A i \in at..(to - 1) : IsDigit(s[i]) \/ s[i] \in {"-", "+", ".", "e", "E"}
               /\ to = Len(s) + 1 \/ ~(IsDigit(s[to]) \/ s[to] \in {"-", "+", ".", "e", "E"})
      text == SubSeq(s, at, end - 1)
  IN  IF IsJsonNumber(text) /\ Finite(text) THEN Got(Num(text), end) ELSE Refused

-----------------------------------------------------------------------------
(* Values.                                                                 *)

\* Slip: a repeated name is kept as often as it stands.
AddedTwice(pairs, key, value) == Append(pairs, <<key, value>>)

\* A repeated name is the later one's.
Added(pairs, key, value) ==
  Append(SelectSeq(pairs, LAMBDA p : p[1] # key), <<key, value>>)

\* How a container goes on after one element: another, or its end.
Goes(s, at, close) == IF Is(s, at, ",") THEN "on" ELSE IF Is(s, at, close) THEN "ends" ELSE "wrong"

RECURSIVE ParseValue(_, _, _), Members(_, _, _, _), Items(_, _, _, _)

MemberValue(s, key, value, depth, pairs) ==
  LET next == Skip(s, value.at)
      all  == Added(pairs, key, value.value)
  IN  CASE ~Read(value) -> Refused
        [] Read(value) /\ Goes(s, next, "}") = "on"   -> Members(s, next + 1, depth, all)
        [] Read(value) /\ Goes(s, next, "}") = "ends" -> Got(Obj(all), next + 1)
        [] OTHER -> Refused

MemberKey(s, key, depth, pairs) ==
  IF Read(key) /\ Is(s, Skip(s, key.at), ":")
    THEN MemberValue(s, key.value, ParseValue(s, Skip(s, Skip(s, key.at) + 1), depth + 1), depth, pairs)
    ELSE Refused

Members(s, at, depth, pairs) == MemberKey(s, ParseString(s, Skip(s, at)), depth, pairs)

ItemValue(s, value, depth, items) ==
  LET next == Skip(s, value.at)
      all  == Append(items, value.value)
  IN  CASE ~Read(value) -> Refused
        [] Read(value) /\ Goes(s, next, "]") = "on"   -> Items(s, next + 1, depth, all)
        [] Read(value) /\ Goes(s, next, "]") = "ends" -> Got(Arr(all), next + 1)
        [] OTHER -> Refused

Items(s, at, depth, items) == ItemValue(s, ParseValue(s, Skip(s, at), depth + 1), depth, items)

ParseObject(s, at, depth) ==
  IF Is(s, Skip(s, at + 1), "}") THEN Got(Obj(<<>>), Skip(s, at + 1) + 1)
                                 ELSE Members(s, at + 1, depth, <<>>)

ParseArray(s, at, depth) ==
  IF Is(s, Skip(s, at + 1), "]") THEN Got(Arr(<<>>), Skip(s, at + 1) + 1)
                                 ELSE Items(s, at + 1, depth, <<>>)

Literal(word) == CASE word = "true" -> Bool(TRUE) [] word = "false" -> Bool(FALSE) [] word = "null" -> Null

AsStr(read) == IF Read(read) THEN Got(Str(read.value), read.at) ELSE Refused

ParseValue(s, at, depth) ==
  CASE depth >= MaxDepth \/ at > Len(s) -> Refused
    [] depth < MaxDepth /\ Is(s, at, "{") -> ParseObject(s, at, depth)
    [] depth < MaxDepth /\ Is(s, at, "[") -> ParseArray(s, at, depth)
    [] depth < MaxDepth /\ Is(s, at, Quote) ->
         AsStr(ParseString(s, at))
    [] depth < MaxDepth /\ at <= Len(s) /\ s[at] \in {"true", "false", "null"} -> Got(Literal(s[at]), at + 1)
    [] OTHER -> ParseNumber(s, at)

\* The whole text is one value, or it is none.
AllOf(text, read) ==
  IF Read(read) /\ Skip(text, read.at) = Len(text) + 1 THEN read ELSE Refused

Parse(text) == AllOf(text, ParseValue(text, Skip(text, 1), 0))

-----------------------------------------------------------------------------
(* Render.                                                                 *)

Indent(depth) == [i \in 1..(2 * depth) |-> " "]

RECURSIVE Written(_, _)
\* One element a line, an empty container on one.
WrittenItems(items, depth, open, close) ==
  IF items = <<>> THEN <<open, close>>
  ELSE <<open>>
       \o FlattenSeq([i \in DOMAIN items |->
            (IF i > 1 THEN <<",">> ELSE <<>>) \o <<"\n">> \o Indent(depth + 1) \o items[i]])
       \o <<"\n">> \o Indent(depth) \o <<close>>

Written(value, depth) ==
  CASE value.t = "null" -> <<"null">>
    [] value.t = "bool" -> IF value.bool THEN <<"true">> ELSE <<"false">>
    [] value.t = "num"  -> value.num
    [] value.t = "str"  -> Quoted(value.str)
    [] value.t = "arr"  ->
         WrittenItems([i \in DOMAIN value.arr |-> Written(value.arr[i], depth + 1)], depth, "[", "]")
    [] value.t = "obj"  ->
         WrittenItems([i \in DOMAIN value.obj |->
                         Quoted(value.obj[i][1]) \o <<":", " ">> \o Written(value.obj[i][2], depth + 1)],
                      depth, "{", "}")

Render(value) == Append(Written(value, 0), "\n")
=============================================================================
