------------------------------ MODULE KeyFiles ------------------------------
(***************************************************************************)
(* How one owner's part of a file shared with the user is written and      *)
(* taken out: a key of one group of portals.conf (chooser.rs), a handler   *)
(* of mimeapps.list (defaults.rs), a marked block of Hyprland's            *)
(* bindings.lua (hyprkeys.rs). A file is a sequence of lines:              *)
(*   key files  <<"group", name>>, <<"key", name, values>>, <<"note", b>>, *)
(*              a comment that quotes the text "[preferred]" iff b         *)
(*   bindings   <<"begin", block>>, <<"body", block>>, <<"end", block>>,   *)
(*              <<"blank">>, <<"user", b>>, which Hyprland refuses iff b   *)
(***************************************************************************)
EXTENDS Naturals, SequencesExt

Own == "philemon"          \* the handler id, and the portal's name
Preferred == <<Own, "gtk">>
ChooserLine == <<"key", "chooser", Preferred>>

\* The group in force after line i: a group line ends the one before it.
GroupAt(lines, i) ==
  LET heads == {j \in 1..i : lines[j][1] = "group"}
  IN IF heads = {} THEN "none" ELSE lines[Max(heads)][2]

IsKey(line, key) == line[1] = "key" /\ line[2] = key

\* The lines of one group that give one key.
Held(lines, group, key) ==
  {i \in DOMAIN lines : IsKey(lines[i], key) /\ GroupAt(lines, i) = group}

\* Where [preferred] is left for another group.
Leaves(lines) ==
  {i \in DOMAIN lines : i > 1 /\ lines[i][1] = "group" /\ GroupAt(lines, i - 1) = "preferred"}

\* text.contains(GROUP) looks at the text and not at its groups.
QuotesGroup(lines) ==
  \E i \in DOMAIN lines : lines[i] \in {<<"group", "preferred">>, <<"note", TRUE>>}

\* Slip: the key always goes last, in whatever group that is.
SetPreferredLast(lines) ==
  IF ~QuotesGroup(lines) THEN lines \o <<<<"group", "preferred">>, ChooserLine>>
  ELSE IF Held(lines, "preferred", "chooser") # {} THEN lines
  ELSE Append(lines, ChooserLine)

\* set_preferred: over the first value, or where the group is first left, or
\* last of all. The same lines again stand for its None.
SetPreferred(lines) ==
  LET held == Held(lines, "preferred", "chooser")
      first == Min(held \cup Leaves(lines))
  IN IF ~QuotesGroup(lines) THEN lines \o <<<<"group", "preferred">>, ChooserLine>>
     ELSE IF held \cup Leaves(lines) = {} THEN Append(lines, ChooserLine)
     ELSE IF first \in held THEN ReplaceAt(lines, first, ChooserLine)
     ELSE InsertAt(lines, first, ChooserLine)

\* What is left of a sequence without the elements at some places.
Without(seq, places) ==
  FlattenSeq([i \in DOMAIN seq |-> IF i \in places THEN <<>> ELSE <<seq[i]>>])

\* drop_preferred: every line of the group that gives the key.
DropPreferred(lines) == Without(lines, Held(lines, "preferred", "chooser"))

OnlyHeading(lines) == lines = <<<<"group", "preferred">>>>

\* The lines that name Philemon the handler of a directory.
Claims(lines) ==
  {i \in Held(lines, "defaults", "dir") : Own \in ToSet(lines[i][3])}

\* Slip: the whole line goes with Philemon's name on it.
DropDefaultWhole(lines) == Without(lines, Claims(lines))

\* drop_default: its own name out of each list, and the line with the last name.
DropDefault(lines) ==
  LET kept(i) == Without(lines[i][3], {k \in DOMAIN lines[i][3] : lines[i][3][k] = Own})
  IN FlattenSeq([i \in DOMAIN lines |->
       IF i \notin Claims(lines) THEN <<lines[i]>>
       ELSE IF kept(i) = <<>> THEN <<>>
       ELSE <<<<"key", "dir", kept(i)>>>>])

-----------------------------------------------------------------------------
Block(b) == <<<<"blank">>, <<"begin", b>>, <<"body", b>>, <<"end", b>>>>

Begins(lines, b) == {i \in DOMAIN lines : lines[i] = <<"begin", b>>}
HasBlock(lines, b) == Begins(lines, b) # {}
Appended(lines, b) == lines \o Block(b)

Ends(lines, b) ==
  {i \in DOMAIN lines : i > Min(Begins(lines, b)) /\ lines[i] = <<"end", b>>}

\* A begin marker with no end marker is left to the user.
Cuttable(lines, b) == Ends(lines, b) # {}

\* cut: from the first begin marker to its end marker, and the blank line in
\* front of it.
Cut(lines, b) ==
  LET begin == Min(Begins(lines, b))
      from == IF begin > 1 /\ lines[begin - 1] = <<"blank">> THEN begin - 1 ELSE begin
  IN SubSeq(lines, 1, from - 1) \o SubSeq(lines, Min(Ends(lines, b)) + 1, Len(lines))
=============================================================================
