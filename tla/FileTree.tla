------------------------------- MODULE FileTree -------------------------------
(***************************************************************************)
(* The part of a Linux file system philemon's write operations see, as     *)
(* pure operators over a map from paths to nodes. Every create is          *)
(* exclusive and every rename is RENAME_NOREPLACE, so nothing here ever    *)
(* overwrites (copyfile.rs, renamecompat.rs).                              *)
(*                                                                         *)
(* A path is a sequence: a volume, then names. Two volumes are two file    *)
(* systems, between which rename(2) answers EXDEV. Depth bounds a path the *)
(* way PATH_MAX does: a longer one cannot be created.                      *)
(***************************************************************************)
EXTENDS Naturals, SequencesExt

CONSTANTS
  Volumes,       (* mounted file systems; <<v>> is the root directory of v *)
  Names,         (* file names                                             *)
  CannotRename   (* the kinds of node each of them cannot rename           *)

Paths == (Volumes \X Names) \cup (Volumes \X Names \X Names)

Roots == {<<v>> : v \in Volumes}

Parent(p) == Front(p)
Volume(p) == Head(p)

\* What a file holds is where and by which request it was first written, and
\* whether the writing was cut short.
Data(at, by, half) == [at |-> at, by |-> by, half |-> half]
Nothing == Data(<<>>, 0, FALSE)

\* A name in a directory: what it names, whether a copy is still writing it,
\* and which request made it (0: it was there before). A tree is a function
\* from the paths that exist to their nodes.
Node(kind, data, open, maker) ==
  [kind |-> kind, data |-> data, open |-> open, maker |-> maker]

Dir(maker) == Node("dir", Nothing, FALSE, maker)
Fifo(maker) == Node("fifo", Nothing, FALSE, maker)
File(data, open, maker) == Node("file", data, open, maker)

Exists(f, p) == p \in Roots \cup DOMAIN f
IsDir(f, p) == p \in Roots \/ (p \in DOMAIN f /\ f[p].kind = "dir")

\* What a name may name; a file's content is named by where and when it was
\* first written.
Contents == [at : Paths \cup {<<>>}, by : Nat, half : BOOLEAN]
Nodes == [kind : {"file", "dir", "fifo"}, data : Contents, open : BOOLEAN, maker : Nat]

\* Every name is in a directory, and only files are written.
IsTree(f) ==
  /\ DOMAIN f \subseteq Paths
  /\ f \in [DOMAIN f -> Nodes]
  /\ \A q \in DOMAIN f : IsDir(f, Parent(q)) /\ (f[q].open => f[q].kind = "file")

\* A name an exclusive create can take.
Free(f, p) == p \in Paths \ DOMAIN f /\ IsDir(f, Parent(p))

Below(f, p) == {q \in DOMAIN f : IsPrefix(p, q)}
Under(f, p) == Below(f, p) \ {p}
Children(f, p) == {q \in DOMAIN f : Parent(q) = p}

\* The name and everything below it, and everything else.
Subtree(f, p) == Restrict(f, Below(f, p))
Erased(f, p) == Restrict(f, DOMAIN f \ Below(f, p))

\* remove_file refuses a directory, remove_dir_all anything else.
FileErased(f, p) == IF IsDir(f, p) THEN f ELSE Erased(f, p)
TreeErased(f, p) == IF IsDir(f, p) THEN Erased(f, p) ELSE f

\* remove_dir_all that failed partway: the directory and some of it stay.
PartlyErased(f, p, keep) == Restrict(f, DOMAIN f \ (Under(f, p) \ keep))

\* Two trees of disjoint names, as one.
Joined(f, g) ==
  [q \in DOMAIN f \cup DOMAIN g |-> IF q \in DOMAIN f THEN f[q] ELSE g[q]]

Put(f, p, node) == Joined(f, [q \in {p} |-> node])

\* The path q has once from is called to.
Rebased(q, from, to) == to \o SubSeq(q, Len(from) + 1, Len(q))

Movable(f, from, to) ==
  /\ from \in DOMAIN f
  /\ Volume(from) = Volume(to)
  /\ ~IsPrefix(from, to)
  /\ Free(f, to)
  /\ \A q \in Below(f, from) : Rebased(q, from, to) \in Paths

\* rename(2) of a name, with everything below it.
Renamed(f, from, to) ==
  Joined(Erased(f, from),
         [q \in {Rebased(r, from, to) : r \in Below(f, from)} |->
            f[Rebased(q, to, from)]])

\* A mount that refuses RENAME_NOREPLACE: of a directory (rclone), of
\* anything (WebDAV through gvfs).
RefusesRename(f, p) == f[p].kind \in CannotRename[Volume(p)]

\* copy_then_remove that went through: the copy has what the source had by
\* then.
CopiedOver(f, from, to) ==
  LET copy(q) == f[Rebased(q, to, from)]
  IN  Joined(f, [q \in {Rebased(r, from, to) : r \in Below(f, from)} |->
                   [copy(q) EXCEPT !.data.half = @ \/ copy(q).open, !.open = FALSE]])

\* Every content a tree holds in full.
Whole(f) ==
  {f[q].data : q \in {r \in DOMAIN f :
     f[r].kind = "file" /\ ~f[r].open /\ ~f[r].data.half}}

\* The file a copy is writing is finished, under whatever name it has now.
Finished(f) == [q \in DOMAIN f |-> [f[q] EXCEPT !.open = FALSE]]

CutShort(f) ==
  [q \in DOMAIN f |->
     [f[q] EXCEPT !.open = FALSE, !.data.half = @ \/ f[q].open]]
=============================================================================
