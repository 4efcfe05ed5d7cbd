--------------------------------- MODULE Json ---------------------------------
(***************************************************************************)
(* The three hand-written JSON readers and the two writers of philemon, as *)
(* pure operators: one field read out of one wire line (json.rs), a whole  *)
(* document read and rendered (jsondoc.rs, jsonstring.rs) and a string     *)
(* escaped into either.                                                    *)
(*                                                                         *)
(* A text is a sequence of characters. A run of characters none of the     *)
(* readers looks into (a key, a word of a name, true) is one element of    *)
(* it, and so is a character outside ASCII. A reader answers with what it  *)
(* read and where it stopped, or Refused.                                  *)
(***************************************************************************)
EXTENDS Integers, SequencesExt

CONSTANTS
  MaxDepth,  (* MAX_DEPTH, how deep a document may nest                     *)
  CharOf     (* the characters escapes stand for in an instance, by code    *)

High == 55296..56319   \* HIGH_FIRST..HIGH_LAST
Low  == 56320..57343   \* LOW_FIRST..LOW_LAST

ASSUME JsonAssumption ==
  /\ MaxDepth \in Nat \ {0}
  /\ DOMAIN CharOf \subseteq Nat \ (High \cup Low)
  /\ IsInjective(CharOf)

Quote == "\""
Back == "\\"
Replacement == "U+FFFD"
Spaces == {" ", "\t", "\n", "\r"}
Digits == <<"0", "1", "2", "3", "4", "5", "6", "7", "8", "9">>
IsDigit(c) == c \in ToSet(Digits)

\* char::to_digit(16).
HexDigits == [n \in 1..10 |-> {Digits[n]}] \o
             <<{"a", "A"}, {"b", "B"}, {"c", "C"}, {"d", "D"}, {"e", "E"}, {"f", "F"}>>
HexValue(c) == (CHOOSE n \in 1..16 : c \in HexDigits[n]) - 1
HexDigit(n) == IF n < 10 THEN Digits[n + 1] ELSE <<"a", "b", "c", "d", "e", "f">>[n - 9]

Got(value, at) == [value |-> value, at |-> at]
Refused == [at |-> 0]
Read(result) == result.at > 0

From(s, at) == SubSeq(s, at, Len(s))
Is(s, at, c) == at <= Len(s) /\ s[at] = c

\* skip_space, and trim_start.
Skip(s, at) ==
  CHOOSE to \in at..(Len(s) + 1) :
    /\ \A i \in at..(to - 1) : s[i] \in Spaces
    /\ to = Len(s) + 1 \/ s[to] \notin Spaces

DigitRun(s, at) ==
  CHOOSE to \in at..(Len(s) + 1) :
    /\ \A i \in at..(to - 1) : IsDigit(s[i])
    /\ to = Len(s) + 1 \/ ~IsDigit(s[to])

Decimal(digits) ==
  FoldLeft(LAMBDA n, d : 10 * n + (CHOOSE k \in 0..9 : Digits[k + 1] = d), 0, digits)

-----------------------------------------------------------------------------
(* Strings written: escape.                                                *)

CodeOf(c) == CHOOSE n \in DOMAIN CharOf : CharOf[n] = c
IsControl(c) == \E n \in DOMAIN CharOf : n < 32 /\ CharOf[n] = c

EscapeChar(c) ==
  CASE c \in {Quote, Back} -> <<Back, c>>
    [] c = "\n" -> <<Back, "n">>
    [] c = "\r" -> <<Back, "r">>
    [] c = "\t" -> <<Back, "t">>
    [] IsControl(c) -> <<Back, "u", "0", "0", HexDigit(CodeOf(c) \div 16), HexDigit(CodeOf(c) % 16)>>
    [] OTHER -> <<c>>

Escape(s) == FlattenSeq([i \in DOMAIN s |-> EscapeChar(s[i])])
Quoted(s) == <<Quote>> \o Escape(s) \o <<Quote>>

-----------------------------------------------------------------------------
(* One field of one line: json.rs.                                         *)

\* Where a scan of the line stands after one more character.
ScanStep(state, c) ==
  CASE state = "escaped" -> "in"
    [] state = "in" /\ c = Back -> "escaped"
    [] state = "in" /\ c = Quote -> "out"
    [] state = "out" /\ c = Quote -> "in"
    [] OTHER -> state

Outside(line, at) == FoldLeft(ScanStep, "out", SubSeq(line, 1, at - 1)) = "out"

\* Where the value of a key begins, spaces skipped; 0 when no such key stands
\* outside a string.
ValueStart(line, key) ==
  LET needle == <<Quote, key, Quote, ":">>
      at     == {i \in 1..(Len(line) - 3) : SubSeq(line, i, i + 3) = needle /\ Outside(line, i)}
  IN  IF at = {} THEN 0 ELSE Skip(line, 4 + CHOOSE i \in at : \A j \in at : i <= j)

ShortEscape == [c \in {"n", "r", "t", "b", "f"} |->
  CASE c = "n" -> "\n" [] c = "r" -> "\r" [] c = "t" -> "\t" [] c = "b" -> CharOf[8] [] c = "f" -> CharOf[12]]

\* A run of hex digits, as a code.
HexRun(s, at, n) ==
  IF at + n - 1 <= Len(s) /\ \A i \in at..(at + n - 1) : \E k \in 1..16 : s[i] \in HexDigits[k]
    THEN Got(FoldLeft(LAMBDA m, d : 16 * m + HexValue(d), 0, SubSeq(s, at, at + n - 1)), at + n)
    ELSE Refused

\* Four characters, as from_str_radix takes them: a plus may lead them.
LineHex(s, at) == IF Is(s, at, "+") THEN HexRun(s, at + 1, 3) ELSE HexRun(s, at, 4)

\* What follows a backslash in a line: half a pair is refused, any unknown
\* escape is the character itself.
LineUnescape(s, at) ==
  CASE at > Len(s) -> Refused
    [] at <= Len(s) /\ s[at] \in DOMAIN ShortEscape -> Got(ShortEscape[s[at]], at + 1)
    [] Is(s, at, "u") -> LET hex == LineHex(s, at + 1)
                         IN  IF Read(hex) /\ hex.value \in DOMAIN CharOf
                               THEN Got(CharOf[hex.value], hex.at) ELSE Refused
    [] OTHER -> Got(s[at], at + 1)

RECURSIVE LineString(_, _, _)

AfterLineChar(s, c, out) == IF Read(c) THEN LineString(s, c.at, Append(out, c.value)) ELSE Refused

LineString(s, at, out) ==
  IF at > Len(s) THEN Refused
  ELSE IF s[at] = Quote THEN Got(out, at + 1)
  ELSE AfterLineChar(s, IF s[at] = Back THEN LineUnescape(s, at + 1) ELSE Got(s[at], at + 1), out)

\* A quoted value that opens at a place, or the empty string.
StringAt(line, at) ==
  IF Is(line, at, Quote) THEN LineString(line, at + 1, <<>>) ELSE Refused

\* field_str: a string, or none.
StrOf(line, key) ==
  LET at == ValueStart(line, key) IN IF at = 0 THEN Refused ELSE StringAt(line, at)

\* A string that is missing or unreadable is the empty one.
FieldStr(line, key) == LET read == StrOf(line, key) IN IF Read(read) THEN read.value ELSE <<>>

FieldNum(line, key) ==
  LET at == ValueStart(line, key)
      end == DigitRun(line, at)
  IN  IF at = 0 \/ end = at THEN 0 ELSE Decimal(SubSeq(line, at, end - 1))

FieldBool(line, key) == ValueStart(line, key) # 0 /\ Is(line, ValueStart(line, key), "true")

\* Slip: an element ends at the first quote, escaped or not.
ClosingQuoteFirst(s, open) ==
  LET ends == {i \in (open + 1)..Len(s) : s[i] = Quote}
  IN  IF ends = {} THEN 0 ELSE CHOOSE i \in ends : \A j \in ends : i <= j

RECURSIVE QuoteFrom(_, _)
QuoteFrom(s, at) ==
  IF at > Len(s) THEN 0
  ELSE IF s[at] = Back THEN QuoteFrom(s, at + 2)
  ELSE IF s[at] = Quote THEN at ELSE QuoteFrom(s, at + 1)

ClosingQuote(s, open) == QuoteFrom(s, open + 1)

\* The elements of an array of strings from a place on; what cannot be read
\* is left out, and an element that does not end ends the array.
RECURSIVE Elements(_, _, _)
Elements(s, at, out) ==
  IF at > Len(s) \/ Is(s, at, "]") THEN out
  ELSE IF s[at] # Quote THEN Elements(s, at + 1, out)
  ELSE LET close == ClosingQuote(s, at)
           read == StringAt(SubSeq(s, 1, close), at)
       IN  IF close = 0 THEN out
           ELSE Elements(s, close + 1, IF Read(read) THEN Append(out, read.value) ELSE out)

ListAt(line, key) ==
  LET at == ValueStart(line, key) IN IF at # 0 /\ Is(line, at, "[") THEN at + 1 ELSE 0

FieldStrs(line, key) ==
  IF ListAt(line, key) = 0 THEN <<>> ELSE Elements(line, ListAt(line, key), <<>>)

\* An array of numbers: the text up to the first bracket, parted at commas;
\* a part that is no number is left out, and a plus may lead one.
RECURSIVE Numbers(_, _, _)
Numbers(s, at, out) ==
  LET first == Skip(s, at) + (IF Is(s, Skip(s, at), "+") THEN 1 ELSE 0)
      end   == DigitRun(s, first)
      stop  == CHOOSE i \in first..(Len(s) + 1) :
                 /\ \A j \in first..(i - 1) : s[j] \notin {",", "]"}
                 /\ i = Len(s) + 1 \/ s[i] \in {",", "]"}
      all   == IF end > first /\ Skip(s, end) = stop
                 THEN Append(out, Decimal(SubSeq(s, first, end - 1))) ELSE out
  IN  IF Is(s, stop, ",") THEN Numbers(s, stop + 1, all) ELSE all

FieldNums(line, key) ==
  IF ListAt(line, key) = 0 THEN <<>> ELSE Numbers(line, ListAt(line, key), <<>>)
=============================================================================
