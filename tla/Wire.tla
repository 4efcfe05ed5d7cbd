--------------------------------- MODULE Wire ---------------------------------
(***************************************************************************)
(* Every text philemon writes for another reader: the request lines of the *)
(* client and the lines the backend answers with (proto.rs and the *_line  *)
(* functions beside each handler), the note requests and replies, and the  *)
(* settings file. A stream is one sequence of characters; its reader finds *)
(* the lines again.                                                        *)
(*                                                                         *)
(* The links share nothing, so a behaviour runs one of them. A line is a   *)
(* sequence of fields, each of a kind; no two fields of a line are given   *)
(* the same text or number.                                                *)
(***************************************************************************)
EXTENDS JsonDoc, JsonText

CONSTANTS
  Texts,      (* names, paths and queries, as sequences of characters       *)
  First,      (* a line's first number is the one after it                  *)
  Lexemes,    (* what a user types into the settings file                   *)
  MaxLines,   (* bound: lines a side writes                                 *)
  MaxLexemes  (* bound: lexemes typed                                       *)

ASSUME WireAssumption ==
  /\ First \in Nat /\ MaxLines \in Nat /\ MaxLexemes \in Nat
  /\ {8, 12} \subseteq DOMAIN CharOf

VARIABLES
  link,   (* stdin, stdout, note, reply or file                             *)
  text,   (* what was written and not read yet; the whole of the file       *)
  due,    (* the messages it holds                                          *)
  heard,  (* the last message, as it was said and as it was read            *)
  used    (* lines written, or lexemes typed, so far                        *)

vars == <<link, text, due, heard, used>>

-----------------------------------------------------------------------------
(* Fields.                                                                 *)

RECURSIVE DecimalText(_)
DecimalText(n) ==
  IF n < 10 THEN <<Digits[n + 1]>> ELSE DecimalText(n \div 10) \o <<Digits[(n % 10) + 1]>>

Count(n) == Num(DecimalText(n))

\* The fields of one row: of a window, of a peek, of an archive's names.
Row(dir, thumb) == <<<<"n", "str">>, <<"d", dir>>, <<"s", "num">>, <<"m", "num">>, <<"p", "num">>,
                     <<"i", "str">>, <<"t", thumb>>, <<"k", "num">>>>
Tables ==
  [rows   |-> <<Append(Row("true", "false"), <<"v", "num">>), Append(Row("false", "false"), <<"l", "str">>),
                Row("false", "true")>>,
   peeked |-> <<<<<<"n", "str">>, <<"d", "true">>, <<"i", "str">>>>, <<<<"n", "str">>, <<"d", "false">>, <<"i", "str">>>>>>,
   names  |-> <<<<<<"n", "str">>, <<"d", "true">>>>, <<<<"n", "str">>, <<"d", "false">>>>>>]

\* What a reader takes a field for that is not in the line.
Default(kind) ==
  CASE kind \in {"num", "zero"} -> Count(0)
    [] kind \in {"bool", "true", "false"} -> Bool(FALSE)
    [] kind \in {"strs", "nums", "none"} -> Arr(<<>>)
    [] kind \in {"str", "empty"} -> Str(<<>>)

RECURSIVE Fields(_, _, _, _)

\* The value of the i-th field: the texts take turns, on is where flags are set.
Filled(kind, i, names, on) ==
  CASE kind = "str"  -> Str(DecimalText(i) \o names[(i % 2) + 1])
    [] kind = "num"  -> Count(First + i)
    [] kind = "ms"   -> Num(DecimalText(First + i) \o <<".", "0", "0", "0">>)
    [] kind = "bool" -> Bool(i \in on)
    [] kind = "true" -> Bool(TRUE)
    [] kind = "strs" -> Arr(<<Str(names[1]), Str(names[2])>>)
    [] kind = "nums" -> Arr(<<Count(First + i), Count(0), Count(First)>>)
    [] kind \in DOMAIN Tables -> Arr([j \in DOMAIN Tables[kind] |-> Fields(Tables[kind][j], 10 * j, names, on)])
    [] OTHER         -> Default(kind)

Pair(key, value) == <<<<key>>, value>>

Fields(shape, from, names, on) ==
  Obj([i \in DOMAIN shape |-> Pair(shape[i][1], Filled(shape[i][2], from + i, names, on))])

Flags(shape) == {i \in DOMAIN shape : shape[i][2] = "bool"}

-----------------------------------------------------------------------------
(* Requests.                                                               *)

\* The requests of Backend.qml, and those protocol.md has that it never sends:
\* paths in place of rows, a folder with a name. Those without fields are apart.
Sent ==
  [list           |-> {<<<<"path", "str">>, <<"first", "num">>, <<"hidden", "bool">>>>},
   listpaths      |-> {<<<<"paths", "strs">>, <<"first", "num">>>>},
   window         |-> {<<<<"start", "num">>, <<"count", "num">>>>},
   sort           |-> {<<<<"by", "str">>, <<"desc", "bool">>>>},
   search         |-> {<<<<"path", "str">>, <<"query", "str">>, <<"hidden", "bool">>>>},
   thumb          |-> {<<<<"rows", "nums">>>>},
   thumbcancel    |-> {<<<<"rows", "nums">>>>},
   dirsize        |-> {<<<<"rows", "nums">>>>},
   transfer       |-> {<<<<"op", "str">>, <<"rows", "nums">>, <<"dest", "str">>>>,
                       <<<<"op", "str">>, <<"paths", "strs">>, <<"dest", "str">>>>},
   transfercancel |-> {<<<<"id", "num">>>>},
   trash          |-> {<<<<"rows", "nums">>>>, <<<<"paths", "strs">>>>},
   rename         |-> {<<<<"path", "str">>, <<"to", "str">>>>},
   duplicate      |-> {<<<<"path", "str">>>>},
   mkdir          |-> {<<<<"path", "str">>>>, <<<<"path", "str">>, <<"name", "str">>>>},
   newfile        |-> {<<<<"path", "str">>, <<"name", "str">>, <<"from", "str">>>>},
   paths          |-> {<<<<"rows", "nums">>>>},
   archive        |-> {<<<<"op", "str">>, <<"paths", "strs">>, <<"dest", "str">>, <<"format", "str">>>>,
                       <<<<"op", "str">>, <<"path", "str">>, <<"dest", "str">>>>},
   convert        |-> {<<<<"path", "str">>, <<"dest", "str">>, <<"strip", "bool">>>>},
   peek           |-> {<<<<"path", "str">>, <<"first", "num">>, <<"hidden", "bool">>>>},
   meta           |-> {<<<<"row", "num">>, <<"text", "bool">>, <<"media", "bool">>, <<"archive", "bool">>>>}]
  @@ [c \in {"searchcancel", "dirsizecancel", "undo", "fsinfo", "formats", "quit"} |-> {<<>>}]

\* NoteWorkspace.qml's requests, NoteBackend.qml's id after the rest.
NoteSent ==
  LET opened == <<<<"path", "str">>, <<"vault", "str">>>>
      Ended(more) == {opened \o more \o <<<<"id", "num">>>>}
  IN  [load |-> Ended(<<>>), reload |-> Ended(<<>>), resolve |-> Ended(<<<<"link", "str">>>>),
       save |-> Ended(<<<<"text", "str">>, <<"original", "str">>>>)]

\* The fields parse_request reads for each request.
Shapes ==
  [list           |-> [path |-> "str", first |-> "num", hidden |-> "bool"],
   listpaths      |-> [paths |-> "strs", first |-> "num"],
   window         |-> [start |-> "num", count |-> "num"],
   sort           |-> [by |-> "str", desc |-> "bool"],
   search         |-> [path |-> "str", query |-> "str", hidden |-> "bool"],
   transfer       |-> [op |-> "str", paths |-> "strs", rows |-> "nums", dest |-> "str"],
   transfercancel |-> [id |-> "num"],
   trash          |-> [paths |-> "strs", rows |-> "nums"],
   rename         |-> [path |-> "str", to |-> "str"],
   duplicate      |-> [path |-> "str"],
   mkdir          |-> [path |-> "str", name |-> "str"],
   newfile        |-> [path |-> "str", name |-> "str", from |-> "str"],
   archive        |-> [op |-> "str", paths |-> "strs", path |-> "str", dest |-> "str", format |-> "str"],
   convert        |-> [path |-> "str", dest |-> "str", strip |-> "bool"],
   peek           |-> [path |-> "str", first |-> "num", hidden |-> "bool"],
   meta           |-> [row |-> "num", text |-> "bool", media |-> "bool", archive |-> "bool"]]
  @@ [c \in {"thumb", "thumbcancel", "dirsize", "paths"} |-> [rows |-> "nums"]]
  @@ [c \in {"searchcancel", "dirsizecancel", "undo", "fsinfo", "formats", "quit"} |-> [f \in {} |-> ""]]

\* The fields request reads of a note's line; id is read beside it.
NoteShapes ==
  LET both == [vault |-> "str", path |-> "str", id |-> "num"]
  IN  [load |-> both, reload |-> both, resolve |-> both @@ [link |-> "str"],
       save |-> both @@ [original |-> "str", text |-> "str"]]

Request(c, fields) == [c |-> c, fields |-> fields]
Unknown == Request("unknown", <<>>)

Field(line, key, kind) ==
  CASE kind = "str"  -> Str(FieldStr(line, key))
    [] kind = "num"  -> Count(FieldNum(line, key))
    [] kind = "bool" -> Bool(FieldBool(line, key))
    [] kind = "strs" -> LET all == FieldStrs(line, key) IN Arr([i \in DOMAIN all |-> Str(all[i])])
    [] kind = "nums" -> LET all == FieldNums(line, key) IN Arr([i \in DOMAIN all |-> Count(all[i])])

RequestOf(shapes, line) ==
  LET c == FieldStr(line, "c")
  IN  IF Len(c) = 1 /\ c[1] \in DOMAIN shapes
        THEN Request(c[1], [f \in DOMAIN shapes[c[1]] |-> Field(line, f, shapes[c[1]][f])])
        ELSE Unknown

ParseRequest(line) == RequestOf(Shapes, line)

\* A note's request lacks none of its texts, or it is refused.
NoteRequest(line) ==
  LET r == RequestOf(NoteShapes, line)
  IN  IF \A f \in DOMAIN r.fields : NoteShapes[r.c][f] = "str" => Read(StrOf(line, f)) THEN r ELSE Unknown

\* What the client means by a request it leaves fields out of.
Meant(shapes, c, fields) ==
  Request(c, [f \in DOMAIN shapes[c] |->
    IF \E i \in DOMAIN fields : fields[i][1] = <<f>>
      THEN (CHOOSE pair \in ToSet(fields) : pair[1] = <<f>>)[2] ELSE Default(shapes[c][f])])

-----------------------------------------------------------------------------
(* Answers, the ways each is written: a field that rides only sometimes is  *)
(* in one of them and not in the other.                                    *)

ProtoLines ==
  [listed    |-> {<<<<"n", "num">>, <<"read", "ms">>, <<"sort", "ms">>, <<"v", "num">>>>},
   searching |-> {<<<<"n", "num">>, <<"scanned", "num">>, <<"ms", "ms">>>>},
   searched  |-> {<<<<"n", "num">>, <<"scanned", "num">>, <<"ms", "ms">>, <<"cancelled", "bool">>>>},
   thumbed   |-> {<<<<"row", "num">>, <<"file", "str">>, <<"ms", "ms">>>>, <<<<"row", "num">>, <<"file", "empty">>, <<"ms", "ms">>>>},
   dirsized  |-> {<<<<"row", "num">>, <<"bytes", "num">>, <<"partial", "bool">>, <<"ms", "ms">>>>},
   paths     |-> {<<<<"paths", "strs">>>>, <<<<"paths", "none">>>>},
   error     |-> {<<<<"where", "str">>, <<"path", "str">>, <<"msg", "str">>>>,
                  <<<<"where", "str">>, <<"path", "str">>, <<"msg", "str">>, <<"mode", "num">>>>}]

OpsLines ==
  [transferstarted  |-> {<<<<"id", "num">>, <<"n", "num">>, <<"moving", "bool">>>>},
   transferprogress |-> {<<<<"id", "num">>, <<"index", "num">>, <<"name", "str">>, <<"bytes", "num">>, <<"total", "num">>>>},
   transferitem     |-> {<<<<"id", "num">>, <<"index", "num">>, <<"name", "str">>, <<"ok", "true">>>>,
                         <<<<"id", "num">>, <<"index", "num">>, <<"name", "str">>, <<"ok", "false">>, <<"err", "str">>>>},
   transferdone     |-> {<<<<"id", "num">>, <<"ok", "num">>, <<"failed", "num">>, <<"skipped", "num">>, <<"cancelled", "bool">>>>},
   trashed          |-> {<<<<"ok", "num">>, <<"failed", "num">>>>},
   undone           |-> {<<<<"op", "str">>, <<"ok", "bool">>>>}]
  @@ [t \in {"renamed", "duplicated", "made"} |-> {<<<<"ok", "bool">>, <<"path", "str">>>>}]

ArchiveLines ==
  [archivestarted |-> {<<<<"id", "num">>>>},
   archivedone    |-> {<<<<"id", "num">>, <<"ok", "bool">>, <<"verified", "bool">>, <<"err", "str">>>>},
   convertstarted |-> {<<<<"id", "num">>>>},
   convertdone    |-> {<<<<"id", "num">>, <<"ok", "bool">>, <<"path", "str">>, <<"err", "str">>>>},
   formats        |-> {<<<<"archive", "strs">>, <<"convert", "bool">>>>}]

MetaLine ==
  [meta |-> {<<<<"row", "num">>, <<"w", "num">>, <<"h", "num">>, <<"ms", "num">>, <<"rate", "num">>, <<"entries", "num">>,
               <<"unpacked", "num">>, <<"afailed", "bool">>, <<"names", "names">>, <<"lines", "num">>,
               <<"partial", "bool">>, <<"lfailed", "bool">>, <<"target", "str">>, <<"targetdir", "bool">>,
               <<"owner", "str">>>>}]

ChangedLine == [changed |-> {<<<<"path", "str">>>>}]
FsInfoLine == [fsinfo |-> {<<<<"fs", "str">>, <<"free", "num">>>>, <<<<"fs", "empty">>, <<"free", "zero">>>>}]

\* A row's link and device ride only where they mean something (Tables).
RowsLine == [rows |-> {<<<<"start", "num">>, <<"rows", "rows">>, <<"kinds", "strs">>, <<"ms", "ms">>>>}]

\* A directory that could not be read tells so, with its mode when it has one.
PeekLines ==
  LET failed == <<<<"path", "str">>, <<"hidden", "bool">>, <<"n", "zero">>, <<"failed", "true">>>>
  IN  [peeked |-> {<<<<"path", "str">>, <<"hidden", "bool">>, <<"n", "num">>, <<"rows", "peeked">>>>,
                   failed \o <<<<"rows", "none">>>>, failed \o <<<<"mode", "num">>, <<"rows", "none">>>>}]

Lines == ProtoLines @@ OpsLines @@ ArchiveLines @@ MetaLine @@ ChangedLine @@ FsInfoLine @@ RowsLine @@ PeekLines

\* What a note was asked for, or why there is none.
NoteReplies ==
  {<<<<"id", "num">>, <<"ok", "true">>, <<"path", "str">>, <<"text", "str">>>>,
   <<<<"id", "num">>, <<"ok", "false">>, <<"error", "str">>>>}

\* What Backend.qml takes a field for that is not in the line.
IfMissing(t) ==
  CASE t = "error"        -> <<Pair("mode", Count(0))>>
    [] t = "transferitem" -> <<Pair("err", Str(<<>>))>>
    [] t = "peeked"       -> <<Pair("failed", Bool(FALSE)), Pair("mode", Count(0))>>
    [] OTHER              -> <<>>

\* A document, as a reader of its text would have it.
RECURSIVE Means(_)
Means(v) ==
  CASE v.t = "str" -> [str |-> Units(v.str)]
    [] v.t = "arr" -> [arr |-> [i \in DOMAIN v.arr |-> Means(v.arr[i])]]
    [] v.t = "obj" -> [obj |-> [key \in {Units(pair[1]) : pair \in ToSet(v.obj)} |->
                                  Means((CHOOSE pair \in ToSet(v.obj) : Units(pair[1]) = key)[2])]]
    [] OTHER -> Word(Written(v, 0))

\* The fields some way of writing the line has and this one has not.
LeftOut(t, shape) ==
  SetToSeq({Pair(f[1], Default(f[2])) : f \in {g \in UNION {ToSet(other) : other \in Lines[t]} :
                                                 \A i \in DOMAIN shape : shape[i][1] # g[1]}})

-----------------------------------------------------------------------------
(* Writing a line.                                                         *)

\* JSON.stringify has two short escapes more.
ClientChar(c) == IF c = CharOf[8] THEN <<Back, "b">> ELSE IF c = CharOf[12] THEN <<Back, "f">>
                 ELSE EscapeChar(c)

StringText(s, by) ==
  IF by = "backend" THEN Quoted(s)
  ELSE <<Quote>> \o FlattenSeq([i \in DOMAIN s |-> ClientChar(s[i])]) \o <<Quote>>

Commas(parts) == FlattenSeq([i \in DOMAIN parts |-> IF i = 1 THEN parts[i] ELSE <<",">> \o parts[i]])

\* A value on one line, without spaces.
RECURSIVE Compact(_, _)
Compact(v, by) ==
  CASE v.t = "str" -> StringText(v.str, by)
    [] v.t = "arr" -> <<"[">> \o Commas([i \in DOMAIN v.arr |-> Compact(v.arr[i], by)]) \o <<"]">>
    [] v.t = "obj" -> <<"{">> \o Commas([i \in DOMAIN v.obj |->
                        StringText(v.obj[i][1], by) \o <<":">> \o Compact(v.obj[i][2], by)]) \o <<"}">>
    [] OTHER -> Written(v, 0)

\* A line leads with what it is; a note's reply is known by its id.
Line(head, fields, by) == Compact(Obj(head \o fields), by)

-----------------------------------------------------------------------------
(* The pipes.                                                              *)

NoMessage == <<>>

Init ==
  /\ link \in {"stdin", "stdout", "note", "reply", "file"}
  /\ text = <<>> /\ due = <<>> /\ heard = NoMessage /\ used = 0

Say(message, line) ==
  /\ used < MaxLines /\ used' = used + 1
  /\ text' = text \o line \o <<"\n">>
  /\ due' = Append(due, message)
  /\ UNCHANGED <<link, heard>>

\* Neighbouring texts are never the same.
TwoTexts == {<<s1, s2>> \in Texts \X Texts : s1 # s2}

Send(sent, shapes) ==
  \E c \in DOMAIN sent, names \in TwoTexts : \E shape \in sent[c] : \E on \in SUBSET Flags(shape) :
    LET fields == Fields(shape, 0, names, on).obj
    IN  Say(Meant(shapes, c, fields), Line(<<Pair("c", Str(<<c>>))>>, fields, "client"))

\* Backend.qml send: one request, one line.
Ask == link = "stdin" /\ Send(Sent, Shapes)

\* NoteBackend.qml send.
AskNote == link = "note" /\ Send(NoteSent, NoteShapes)

\* say, and every handler's own writeln.
Answer ==
  /\ link = "stdout"
  /\ \E t \in DOMAIN Lines, names \in TwoTexts : \E shape \in Lines[t] : \E on \in SUBSET Flags(shape) :
       LET head   == <<Pair("t", Str(<<t>>))>>
           fields == Fields(shape, 0, names, on).obj
       IN  Say(Means(Obj(head \o fields \o LeftOut(t, shape))), Line(head, fields, "backend"))

\* reply, and the loop of run that writes it.
Reply ==
  /\ link = "reply"
  /\ \E shape \in NoteReplies, names \in TwoTexts :
       LET fields == Fields(shape, 0, names, {})
       IN  Say(Means(fields), Line(<<>>, fields.obj, "backend"))

LineEnd == CHOOSE i \in DOMAIN text : text[i] = "\n" /\ \A j \in 1..(i - 1) : text[j] # "\n"

FirstLine == SubSeq(text, 1, LineEnd - 1)

\* A line is taken when it has ended, and what its reader made of it is kept.
Hear(read) ==
  /\ \E i \in DOMAIN text : text[i] = "\n"
  /\ heard' = <<Head(due), read>>
  /\ due' = Tail(due)
  /\ text' = From(text, LineEnd + 1)
  /\ UNCHANGED <<link, used>>

\* spawn_reader hands the loop a line at a time, and handle_line reads it.
TakeRequest == link = "stdin" /\ Hear(ParseRequest(FirstLine))

TakeNoteRequest == link = "note" /\ Hear(NoteRequest(FirstLine))

\* JSON.parse, and the fields Backend.qml receive reads of what it gave.
Received(line) ==
  LET read == Agreed(line)
  IN  IF read = NotJson THEN read
      ELSE [obj |-> read.obj @@ Means(Obj(IfMissing(read.obj[Units(<<"t">>)].str[1][1]))).obj]

TakeAnswer == link = "stdout" /\ Hear(Received(FirstLine))

\* NoteBackend.qml onRead.
TakeReply == link = "reply" /\ Hear(Agreed(FirstLine))

-----------------------------------------------------------------------------
(* The settings file.                                                      *)

\* A user, or another program, adds to the file.
Type ==
  /\ link = "file"
  /\ used < MaxLexemes /\ used' = used + 1
  /\ \E lexeme \in Lexemes : text' = text \o lexeme
  /\ UNCHANGED <<link, due, heard>>

\* Philemon writes the document it read, none of its values changed.
Rewrite ==
  /\ link = "file"
  /\ Read(Parse(text))
  /\ text' = Render(Parse(text).value)
  /\ UNCHANGED <<link, due, heard, used>>

Next == \/ Ask \/ AskNote \/ Answer \/ Reply
        \/ TakeRequest \/ TakeNoteRequest \/ TakeAnswer \/ TakeReply
        \/ Type \/ Rewrite

Spec == Init /\ [][Next]_vars

-----------------------------------------------------------------------------
\* Whatever a name, a path, a query or a note holds (quotes, backslashes,
\* newlines, a key of the request itself, what looks like another request),
\* each line is one message, read as it was said: no field takes another's
\* value, none is cut short, and a field left out reads as its default
\* (json.rs, proto.rs, notes/mod.rs and the *_line functions; protocol.md
\* "Framing").
HeardAsSaid ==
  /\ heard # NoMessage => heard[1] = heard[2]
  /\ Cardinality({i \in DOMAIN text : text[i] = "\n" /\ link # "file"}) = Len(due)

\* Whatever a settings file holds, once jsondoc.rs takes it the rewrite means
\* to every reader of JSON what the file meant, number by number and character
\* by character, and is read again as the same document. Of what readers
\* disagree about, a control character in a string and the last of two equal
\* names are kept, and half a surrogate pair is U+FFFD from then on: the one
\* thing a rewrite changes (jsondoc.rs parse and render, jsonstring.rs
\* unescape_hex; uistore.rs update).
RewriteKeepsAll ==
  link = "file" /\ Read(Parse(text)) =>
    LET doc   == Parse(text).value
        again == Render(doc)
    IN  /\ Agreed(again) # NotJson
        /\ Agreed(again) = Lenient(text)
        /\ Parse(again) = Got(doc, Len(again))
=============================================================================
