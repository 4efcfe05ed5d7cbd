---------------------------- MODULE ArchiveIndex ----------------------------
(***************************************************************************)
(* How an archive's listing is read (archivespec.rs, archivelist.rs) and   *)
(* which formats the installed tools give (archive.rs).                    *)
(*                                                                         *)
(* A line of a listing is a record: the member's name, as the sequence of  *)
(* the parts between its slashes, <<>> when the line has too few fields to *)
(* hold one, and its size column, <<>> when that is not a number.          *)
(***************************************************************************)
EXTENDS Integers, Sequences, SequencesExt, FiniteSets

CONSTANT NameCap   (* ARCHIVE_NAME_CAP *)

Line == [name : Seq(STRING), size : Seq(Nat)]

\* Slashes at the end go before the name is tested for being empty.
TrimmedSlashes(name) ==
  LET last == {i \in DOMAIN name : name[i] # ""}
  IN IF last = {} THEN <<>>
     ELSE SubSeq(name, 1, CHOOSE i \in last : \A j \in last : j <= i)

\* A row has a name, or the line is only counted.
HasRow(line) == TrimmedSlashes(line.name) # <<>>

\* The root names no component at all: "./", "././".
IsArchiveRoot(name) == \A i \in DOMAIN name : name[i] \in {"", "."}

\* A member produces an entry in the destination unless it is the destination.
ProducesEntry(line) == HasRow(line) /\ ~IsArchiveRoot(line.name)

NoContents == [entries |-> 0, unpacked |-> 0, produced |-> 0, names |-> <<>>, failed |-> FALSE]

\* One line of the listing.
Counted(c, line) ==
  [c EXCEPT !.entries = @ + 1,
            !.produced = @ + IF ProducesEntry(line) THEN 1 ELSE 0,
            !.unpacked = @ + IF line.size = <<>> THEN 0 ELSE line.size[1],
            !.names = IF Len(@) < NameCap /\ HasRow(line)
                        THEN Append(@, TrimmedSlashes(line.name)) ELSE @]

Contents(lines) ==
  LET counted[n \in 0..Len(lines)] ==
        IF n = 0 THEN NoContents ELSE Counted(counted[n - 1], lines[n])
  IN counted[Len(lines)]

\* A count that stopped early is not a total.
Cleared == [NoContents EXCEPT !.failed = TRUE]

-----------------------------------------------------------------------------
TarFormats == {"zip", "tar", "tar.gz", "tar.bz2", "tar.xz", "tar.zst"}

\* The formats to write, with what the installed tools are.
Offers(tools, format) ==
  (format \in TarFormats /\ "bsdtar" \in tools) \/ (format = "7z" /\ "7z" \in tools)

\* An archive is read by what it is: a .7z by 7z, everything else by bsdtar.
Reads(tools, format) == (IF format = "7z" THEN "7z" ELSE "bsdtar") \in tools

\* The parent every path shares and the names under it, <<>> when a path is
\* from another directory or there is none.
SplitPaths(paths) ==
  IF paths = <<>> \/ \E i \in DOMAIN paths : Front(paths[i]) # Front(paths[1]) THEN <<>>
  ELSE <<Front(paths[1]), [i \in DOMAIN paths |-> Last(paths[i])]>>
=============================================================================
