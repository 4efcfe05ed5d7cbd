------------------------------- MODULE FileOps -------------------------------
(***************************************************************************)
(* The write operations of one philemon backend process. transfer, trash   *)
(* and duplicate take the one operation slot and run on a thread of their  *)
(* own (opsdispatch.rs, opsreq.rs, copyfile.rs, trash.rs); rename, mkdir,  *)
(* newfile and undo run on the loop's thread while that one runs (ops.rs,  *)
(* undo.rs). Both work on the same files.                                  *)
(*                                                                         *)
(* The thread advances by the system calls another party can fall between: *)
(* one item's rename, one name created, one file finished, the source      *)
(* removed. A loop request is one action. The serial of a request stands   *)
(* for the operation id: both only grow. serial, and the fields an         *)
(* operation or an entry names start, quiet, late, named, before and after *)
(* are read by the properties and by the bound MaxRequests only.           *)
(***************************************************************************)
EXTENDS FileTree

CONSTANTS
  CopyNames,    (* for a name, the " copy N" names duplicate tries         *)
  FolderNames,  (* the "New Folder N" names a nameless mkdir tries         *)
  InitialFiles, (* the tree at the start                                   *)
  Depth,        (* DEPTH, the journal's ring                               *)
  MaxItems,     (* bound: items of one request                             *)
  MaxRequests,  (* bound: requests that change files                       *)
  Faults,       (* which system calls may fail: of copy, unlink, chmod      *)
  MaxFaults     (* bound: how many of them fail                            *)

ASSUME OpsAssumption ==
  /\ CopyNames \in [Names -> Seq(Names)]
  /\ CannotRename \in [Volumes -> {{}, {"dir"}, {"dir", "file", "fifo"}}]
  /\ FolderNames \in Seq(Names)
  /\ Depth \in Nat \ {0}
  /\ MaxItems \in Nat /\ MaxRequests \in Nat /\ MaxFaults \in Nat
  /\ Faults \subseteq {"copy", "unlink", "chmod"}
  /\ IsTree(InitialFiles)
  /\ \A p \in DOMAIN InitialFiles : ~InitialFiles[p].open /\ InitialFiles[p].maker = 0

VARIABLES
  fs,       (* the files                                                   *)
  trash,    (* the freedesktop trash: uri, original, tree                  *)
  op,       (* the operation on the thread; NoOp when the slot is free     *)
  cancel,   (* the running operation's own flag                            *)
  journal,  (* the undo ring, oldest first                                 *)
  serial,   (* requests so far                                             *)
  faults,   (* system calls that have failed                               *)
  phase     (* serving, draining, closed                                   *)

vars == <<fs, trash, op, cancel, journal, serial, faults, phase>>

NoOp == [kind |-> "none"]

\* The steps of undo.rs; a trashed item with no uri cannot be restored.
Moved(from, to) == [step |-> "moved", from |-> from, to |-> to]
Created(path)   == [step |-> "created", path |-> path]
MadeDir(path)   == [step |-> "madedir", path |-> path]
Trashed(uri)    == [step |-> "trashed", uri |-> uri]
NoUri == 0

\* An operation on the thread: where it is in its items, and in one item.
Operation(kind, items, dest) ==
  [kind |-> kind, id |-> serial + 1, items |-> items, dest |-> dest,
   at |-> 1, stage |-> "next", target |-> <<>>, tree |-> FALSE,
   todo |-> {}, listed |-> {},
   steps |-> <<>>, cancelled |-> FALSE,
   start |-> <<fs, trash>>, quiet |-> TRUE, late |-> {}, named |-> FALSE]

Init ==
  /\ fs = InitialFiles
  /\ trash = {}
  /\ op = NoOp
  /\ cancel = FALSE
  /\ journal = <<>>
  /\ serial = 0
  /\ faults = 0
  /\ phase = "serving"

Fault(kind) == kind \in Faults /\ faults < MaxFaults /\ faults' = faults + 1

\* Journal::push: an entry with no step is not recorded, and the ring drops
\* its oldest.
Push(entry) ==
  IF entry.steps = <<>> THEN journal
  ELSE IF Len(journal) < Depth THEN Append(journal, entry)
  ELSE Append(Tail(journal), entry)

Entry(id, steps, before, after, quiet) ==
  [id |-> id, steps |-> steps, before |-> before, after |-> after,
   quiet |-> quiet]

-----------------------------------------------------------------------------
(* Requests that take the slot.                                            *)

\* Slip: one flag for every operation, never lowered.
ClaimStaleFlag(new) ==
  /\ phase = "serving"
  /\ serial < MaxRequests
  /\ op = NoOp
  /\ op' = new
  /\ serial' = serial + 1
  /\ UNCHANGED <<fs, trash, cancel, journal, faults, phase>>

Claim(new) ==
  /\ phase = "serving"
  /\ serial < MaxRequests
  /\ op = NoOp
  /\ op' = new
  /\ serial' = serial + 1
  /\ cancel' = FALSE
  /\ UNCHANGED <<fs, trash, journal, faults, phase>>

\* A selection: some rows of one directory, in some order.
Selections ==
  {s \in UNION {[1..n -> DOMAIN fs] : n \in 1..MaxItems} :
     \A i, j \in DOMAIN s : Parent(s[i]) = Parent(s[j]) /\ (s[i] = s[j] => i = j)}

Dirs == {p \in Roots \cup DOMAIN fs : IsDir(fs, p)}

StartTransfer(kind, items, dest) ==
  kind \in {"copy", "move"} /\ Claim(Operation(kind, items, dest))

StartTrash(items) == Claim(Operation("trash", items, <<>>))

StartDuplicate(p) == Claim(Operation("duplicate", <<p>>, Parent(p)))

\* transfercancel: nothing happens unless the id is the running one's.
CancelTransfer(id) ==
  /\ phase = "serving"
  /\ op # NoOp /\ op.id = id
  /\ cancel' = TRUE
  /\ op' = [op EXCEPT !.named = TRUE]
  /\ UNCHANGED <<fs, trash, journal, serial, faults, phase>>

-----------------------------------------------------------------------------
(* The operation thread: run_transfer and run_duplicate.                   *)

Copying == op # NoOp /\ op.kind \in {"copy", "move", "duplicate"} /\ phase # "closed"

\* duplicate runs with a flag of its own that nobody sets.
Cancelled == cancel /\ op.kind # "duplicate"

Source == op.items[op.at]

\* Slip: the last item's steps replace the entry's.
NextItemOnly(steps) ==
  [op EXCEPT !.at = @ + 1, !.stage = "next", !.steps = steps, !.todo = {},
             !.target = <<>>, !.tree = FALSE]

\* Slip: an item's steps are dropped with it.
NextItemUnrecorded(steps) ==
  [op EXCEPT !.at = @ + 1, !.stage = "next", !.todo = {},
             !.target = <<>>, !.tree = FALSE]

\* The next item, with the steps this one leaves in the journal entry.
NextItem(steps) ==
  [op EXCEPT !.at = @ + 1, !.stage = "next", !.steps = @ \o steps, !.todo = {},
             !.target = <<>>, !.tree = FALSE]

ThreadOnly == UNCHANGED <<trash, cancel, journal, serial, phase>>

\* Where an item goes; duplicate takes the first sibling name that is free.
Targets ==
  IF op.kind # "duplicate" THEN {Append(op.dest, Last(Source))}
  ELSE LET tries == CopyNames[Last(Source)]
           free == {i \in DOMAIN tries : ~Exists(fs, Append(op.dest, tries[i]))}
       IN  {Append(op.dest, tries[i]) : i \in {j \in free : \A k \in free : j <= k}}

Renames(from, to) == op.kind = "move" /\ Volume(from) = Volume(to)

\* Slip: the batch waits where the cancel found it.
SkipForever ==
  /\ Copying /\ op.stage = "next" /\ op.at <= Len(op.items)
  /\ Cancelled
  /\ op' = [op EXCEPT !.cancelled = TRUE]
  /\ UNCHANGED <<fs, faults>> /\ ThreadOnly

\* The flag, read before an item: it is skipped, and so are the rest.
SkipItem ==
  /\ Copying /\ op.stage = "next" /\ op.at <= Len(op.items)
  /\ Cancelled
  /\ op' = [NextItem(<<>>) EXCEPT !.cancelled = TRUE]
  /\ UNCHANGED <<fs, faults>> /\ ThreadOnly

\* move_any within one file system, which has no copy to fall back to, and
\* every way an item fails at once.
RenameItem ==
  /\ Copying /\ op.stage = "next" /\ op.at <= Len(op.items)
  /\ ~Cancelled
  /\ \E to \in Targets :
       /\ Renames(Source, to)
       /\ Movable(fs, Source, to) /\ ~RefusesRename(fs, Source)
       /\ fs' = Renamed(fs, Source, to)
       /\ op' = NextItem(<<Moved(Source, to)>>)
  /\ UNCHANGED faults /\ ThreadOnly

RefuseItem ==
  /\ Copying /\ op.stage = "next" /\ op.at <= Len(op.items)
  /\ ~Cancelled
  /\ \A to \in Targets :
       \/ ~Exists(fs, Source)
       \/ Renames(Source, to) /\ (Movable(fs, Source, to) => RefusesRename(fs, Source))
       \/ ~Renames(Source, to) /\ ~Free(fs, to)
  /\ op' = NextItem(<<>>)
  /\ UNCHANGED <<fs, faults>> /\ ThreadOnly

\* What an exclusive create puts at the target: a file's bytes still to come.
Copied(node, by) ==
  CASE node.kind = "file" -> File([node.data EXCEPT !.half = @ \/ node.open], TRUE, by)
    [] node.kind = "dir"  -> Dir(by)
    [] node.kind = "fifo" -> Fifo(by)

\* copy_any's first system call for an item.
OpenItem ==
  /\ Copying /\ op.stage = "next" /\ op.at <= Len(op.items)
  /\ ~Cancelled
  /\ Exists(fs, Source)
  /\ \E to \in Targets :
       /\ ~Renames(Source, to)
       /\ Free(fs, to)
       /\ fs' = Put(fs, to, Copied(fs[Source], op.id))
       /\ op' = [op EXCEPT
                   !.target = to,
                   !.tree = fs[Source].kind = "dir",
                   !.todo = IF fs[Source].kind = "dir" THEN Children(fs', Source) ELSE {},
                   !.stage = IF fs[Source].kind = "file" THEN "writing" ELSE "entries"]
  /\ UNCHANGED faults /\ ThreadOnly

\* copy_node made the node and could not set its mode: no partial is reported.
FailNode ==
  /\ Copying /\ op.stage = "next" /\ op.at <= Len(op.items)
  /\ ~Cancelled
  /\ Exists(fs, Source) /\ fs[Source].kind = "fifo"
  /\ Fault("chmod")
  /\ \E to \in Targets :
       /\ ~Renames(Source, to)
       /\ Free(fs, to)
       /\ fs' = Put(fs, to, Fifo(op.id))
  /\ op' = NextItem(<<>>)
  /\ ThreadOnly

\* A child of a directory item; todo is the part of read_dir still to come.
ChildTarget(c) == Append(op.target, Last(c))

Readable(c) == Exists(fs, c) /\ Free(fs, ChildTarget(c))

OpenChild(c) ==
  /\ Copying /\ op.stage = "entries" /\ c \in op.todo
  /\ ~Cancelled
  /\ Readable(c)
  /\ fs' = Put(fs, ChildTarget(c), Copied(fs[c], op.id))
  /\ op' = [op EXCEPT !.todo = @ \ {c},
                      !.stage = IF fs[c].kind = "file" THEN "writing" ELSE "entries"]
  /\ UNCHANGED faults /\ ThreadOnly

\* The last chunk was read and written; the flag is not looked at again.
FinishFile ==
  /\ Copying /\ op.stage = "writing"
  /\ fs' = Finished(fs)
  /\ op' = [op EXCEPT !.stage = "entries"]
  /\ UNCHANGED faults /\ ThreadOnly

\* A copy that failed inside an item: what was copied stays and is journaled,
\* unless the item is a directory and the flag is up.
FailCopy ==
  /\ Copying
  /\ \/ op.stage = "writing" /\ Fault("copy")
     \/ op.stage = "entries" /\ op.todo # {} /\ Fault("copy")
     \/ /\ op.stage = "entries"
        /\ \E c \in op.todo : ~Readable(c)
        /\ UNCHANGED faults
  /\ IF Cancelled /\ op.tree
       THEN fs' = CutShort(TreeErased(fs, op.target)) /\ op' = NextItem(<<>>)
       ELSE fs' = CutShort(fs) /\ op' = NextItem(<<Created(op.target)>>)
  /\ ThreadOnly

\* The flag, seen between two chunks or two entries: the partial goes.
CancelCopy ==
  /\ Copying
  /\ Cancelled
  /\ op.stage = "writing" \/ (op.stage = "entries" /\ op.todo # {})
  /\ fs' = CutShort(IF op.tree THEN TreeErased(fs, op.target)
                               ELSE FileErased(fs, op.target))
  /\ op' = [NextItem(<<>>) EXCEPT !.cancelled = TRUE]
  /\ UNCHANGED faults /\ ThreadOnly

ItemCopied == Copying /\ op.stage = "entries" /\ op.todo = {}

EndCopy ==
  /\ ItemCopied
  /\ op.kind # "move"
  /\ op' = NextItem(<<Created(op.target)>>)
  /\ UNCHANGED <<fs, faults>> /\ ThreadOnly

\* A move across file systems removes its source last.
EndMove ==
  /\ ItemCopied
  /\ op.kind = "move"
  /\ IF Exists(fs, Source)
       THEN fs' = Erased(fs, Source) /\ op' = NextItem(<<Moved(Source, op.target)>>)
       ELSE UNCHANGED fs /\ op' = NextItem(<<>>)
  /\ UNCHANGED faults /\ ThreadOnly

\* That removal failed, partway for a directory: the copy stays, and nothing
\* of it is journaled.
FailMove ==
  /\ ItemCopied
  /\ op.kind = "move"
  /\ Exists(fs, Source)
  /\ Fault("unlink")
  /\ \E keep \in SUBSET Under(fs, Source) :
       fs' = PartlyErased(fs, Source, keep)
  /\ op' = NextItem(<<>>)
  /\ ThreadOnly

-----------------------------------------------------------------------------
(* The operation thread: run_trash.                                        *)

Uris(t) == {e.uri : e \in t}

\* gio lists the trash, takes what it can of the batch, and lists it again.
\* One call numbers its entries after every uri in use.
GioTrash ==
  /\ op.kind = "trash" /\ op.stage = "next" /\ phase # "closed"
  /\ \E gone \in SUBSET {i \in DOMAIN op.items : Exists(fs, op.items[i])} :
       LET went == {[uri |-> MaxItems * op.id + i, original |-> op.items[i],
                     tree |-> Subtree(fs, op.items[i])] : i \in gone}
       IN  /\ fs' = Restrict(fs, DOMAIN fs \ UNION {DOMAIN e.tree : e \in went})
           /\ trash' = trash \cup went
           /\ op' = [op EXCEPT !.stage = "check", !.listed = Uris(went)]
  /\ UNCHANGED <<cancel, journal, serial, faults, phase>>

\* Each path is looked up again: one that still exists has failed, one that
\* is gone is journaled under its new uri, or under none.
CheckTrashed ==
  /\ op.kind = "trash" /\ op.stage = "check" /\ phase # "closed"
  /\ op.at <= Len(op.items)
  /\ LET found == {e.uri : e \in {x \in trash :
                     x.uri \in op.listed /\ x.original = Source}}
         uri   == IF found = {} THEN NoUri ELSE CHOOSE u \in found : TRUE
     IN  op' = [op EXCEPT !.at = @ + 1,
                          !.steps = IF Exists(fs, Source) THEN @
                                    ELSE Append(@, Trashed(uri))]
  /\ UNCHANGED faults /\ UNCHANGED fs /\ ThreadOnly

-----------------------------------------------------------------------------
(* The loop: the terminal message of the thread, and its own requests.     *)

Ended == op # NoOp /\ op.at > Len(op.items) /\ (op.kind = "trash" => op.stage = "check")

\* report_op: the entry is journaled and the slot freed, while draining too.
Report ==
  /\ Ended
  /\ phase # "closed"
  /\ journal' = Push(Entry(op.id, op.steps, op.start, <<fs, trash>>, op.quiet))
  /\ op' = NoOp
  /\ UNCHANGED <<fs, trash, cancel, serial, faults, phase>>

\* What a running operation must be told by the properties' account of it:
\* what another request touched, the file it writes included when that file
\* is copied and unlinked under it.
Disturbed(contents) ==
  LET open(f) == {f[q].data : q \in {r \in DOMAIN f : f[r].open}}
  IN  IF op = NoOp THEN op
      ELSE [op EXCEPT !.quiet = FALSE, !.late = @ \cup contents \cup (open(fs) \ open(fs'))]

\* rename, mkdir and newfile answer on the loop's thread, and journal at once.
LoopRequest(files, steps, contents) ==
  /\ phase = "serving"
  /\ serial < MaxRequests
  /\ serial' = serial + 1
  /\ fs' = files
  /\ journal' = Push(Entry(serial', steps, <<fs, trash>>, <<files, trash>>, TRUE))
  /\ op' = Disturbed(contents)
  /\ UNCHANGED <<trash, cancel, phase>>

\* Slip: the copy of a directory whose removal failed is taken back.
KeptTakenBack(f, from, to, keep) == PartlyErased(f, from, keep)

\* copy_then_remove whose removal failed partway: only a directory's can, and
\* the copy, then the only whole one, is kept.
Kept(f, from, to, keep) == PartlyErased(CopiedOver(f, from, to), from, keep)

\* rename_path, the copy included where a mount cannot rename.
RenamePath(f, from, to) ==
  IF RefusesRename(f, from) THEN Erased(CopiedOver(f, from, to), from) ELSE Renamed(f, from, to)

Rename(p, name) ==
  LET to == Append(Parent(p), name)
  IN  /\ Movable(fs, p, to)
      /\ LoopRequest(RenamePath(fs, p, to), <<Moved(p, to)>>, Whole(Subtree(fs, p)))
      /\ UNCHANGED faults

\* What a failed rename leaves behind, and no entry names: a directory whose
\* removal stopped partway, or a node whose mode was refused. Every other
\* failure takes back what it made; that this fails too is left out.
RenameFails(p, name) ==
  LET to == Append(Parent(p), name)
  IN  /\ Movable(fs, p, to) /\ RefusesRename(fs, p)
      /\ \/ /\ IsDir(fs, p) /\ Fault("unlink")
            /\ \E keep \in SUBSET Under(fs, p) :
                 LoopRequest(Kept(fs, p, to, keep), <<>>, Whole(Subtree(fs, p)))
         \/ /\ fs[p].kind = "fifo" /\ Fault("chmod")
            /\ LoopRequest(Put(fs, to, Fifo(0)), <<>>, {})

MakeDir(p) ==
  /\ Free(fs, p)
  /\ LoopRequest(Put(fs, p, Dir(serial + 1)), <<MadeDir(p)>>, {})
  /\ UNCHANGED faults

MkDirNamed(dir, name) == MakeDir(Append(dir, name))

\* No name given: the first default name that is free.
MkDirDefault(dir) ==
  \E i \in DOMAIN FolderNames :
    /\ \A k \in 1..(i - 1) : Exists(fs, Append(dir, FolderNames[k]))
    /\ MakeDir(Append(dir, FolderNames[i]))

NewFile(dir, name) ==
  LET p    == Append(dir, name)
      data == Data(p, serial + 1, FALSE)
  IN  /\ Free(fs, p)
      /\ LoopRequest(Put(fs, p, File(data, FALSE, serial + 1)), <<Created(p)>>, {data})
      /\ UNCHANGED faults

-----------------------------------------------------------------------------
(* undo.                                                                   *)

World(f, t, ok) == [fs |-> f, trash |-> t, ok |-> ok]

\* One step reversed, or refused because something is in the way.
Reversed(s, w) ==
  CASE s.step = "moved" ->
         IF Movable(w.fs, s.to, s.from)
           THEN World(RenamePath(w.fs, s.to, s.from), w.trash, TRUE)
           ELSE [w EXCEPT !.ok = FALSE]
    [] s.step = "created" ->
         IF Exists(w.fs, s.path)
           THEN World(Erased(w.fs, s.path), w.trash, TRUE)
           ELSE [w EXCEPT !.ok = FALSE]
    [] s.step = "madedir" ->
         IF IsDir(w.fs, s.path) /\ Children(w.fs, s.path) = {}
           THEN World(Erased(w.fs, s.path), w.trash, TRUE)
           ELSE [w EXCEPT !.ok = FALSE]
    [] s.step = "trashed" ->
         LET held == {e \in w.trash : e.uri = s.uri /\ Free(w.fs, e.original)}
         IN  IF held = {} THEN [w EXCEPT !.ok = FALSE]
             ELSE LET e == CHOOSE x \in held : TRUE
                  IN  World(Joined(w.fs, e.tree), w.trash \ {e}, TRUE)

\* The world once each of the newest steps has been taken back, stopping for
\* good at the first that is refused.
Undone(steps) ==
  LET after[k \in 0..Len(steps)] ==
        IF k = 0 THEN World(fs, trash, TRUE)
        ELSE LET w == after[k - 1]
             IN  IF w.ok THEN Reversed(steps[Len(steps) + 1 - k], w) ELSE w
  IN  after

\* The newest entry is popped whether or not it can be reversed.
PopTo(w) ==
  /\ fs' = w.fs /\ trash' = w.trash /\ op' = Disturbed(Whole(fs) \cup Whole(w.fs))
  /\ journal' = Front(journal)
  /\ UNCHANGED <<cancel, serial, phase>>

Undo ==
  /\ phase = "serving"
  /\ journal # <<>>
  /\ PopTo(Undone(Last(journal).steps)[Len(Last(journal).steps)])
  /\ UNCHANGED faults

\* A step back that falls to a copy, and cannot remove what it copied.
UndoFails ==
  /\ phase = "serving"
  /\ journal # <<>>
  /\ LET steps == Last(journal).steps
     IN  \E k \in DOMAIN steps :
           LET s == steps[Len(steps) + 1 - k]
               w == Undone(steps)[k - 1]
           IN  /\ w.ok /\ s.step = "moved" /\ Movable(w.fs, s.to, s.from)
               /\ IsDir(w.fs, s.to) /\ RefusesRename(w.fs, s.to)
               /\ Fault("unlink")
               /\ \E keep \in SUBSET Under(w.fs, s.to) :
                    PopTo(World(Kept(w.fs, s.to, s.from, keep), w.trash, FALSE))

-----------------------------------------------------------------------------
(* Shutdown.                                                               *)

\* quit or a closed stdin cancels what runs, and the drain waits for it.
Quit ==
  /\ phase = "serving"
  /\ phase' = "draining"
  /\ cancel' = (cancel \/ op # NoOp)
  /\ UNCHANGED <<fs, trash, op, journal, serial, faults>>

DrainDone ==
  /\ phase = "draining"
  /\ op = NoOp
  /\ phase' = "closed"
  /\ UNCHANGED <<fs, trash, op, cancel, journal, serial, faults>>

\* DRAIN_LIMIT ran out: only an operation that never reads its flag can still
\* be at work by then. The process exits under its thread.
DrainDeadline ==
  /\ phase = "draining"
  /\ op # NoOp /\ op.kind \in {"duplicate", "trash"}
  /\ phase' = "closed"
  /\ UNCHANGED <<fs, trash, op, cancel, journal, serial, faults>>

-----------------------------------------------------------------------------
Requests ==
  \/ \E items \in Selections :
       \/ \E dest \in Dirs, kind \in {"copy", "move"} : StartTransfer(kind, items, dest)
       \/ StartTrash(items)
  \/ \E p \in DOMAIN fs : StartDuplicate(p)
  \/ \E id \in 1..serial : CancelTransfer(id)
  \/ \E p \in DOMAIN fs, name \in Names : Rename(p, name) \/ RenameFails(p, name)
  \/ \E dir \in Dirs, name \in Names : MkDirNamed(dir, name) \/ NewFile(dir, name)
  \/ \E dir \in Dirs : MkDirDefault(dir)
  \/ Undo \/ UndoFails
  \/ Quit

Thread ==
  \/ SkipItem \/ RenameItem \/ RefuseItem \/ OpenItem \/ FailNode
  \/ \E c \in op.todo : OpenChild(c)
  \/ FinishFile \/ FailCopy \/ CancelCopy \/ EndCopy \/ EndMove \/ FailMove
  \/ GioTrash \/ CheckTrashed

Running == op # NoOp /\ Thread

Next == Requests \/ Running \/ Report \/ DrainDone \/ DrainDeadline

Spec == Init /\ [][Next]_vars

\* The thread and the loop keep running; no system call blocks for good.
Fairness == WF_vars(Running) /\ WF_vars(Report) /\ WF_vars(DrainDone)

FairSpec == Spec /\ Fairness

-----------------------------------------------------------------------------
\* Everything held in full, in a directory or in the trash.
Held(f, t) == Whole(f) \cup UNION {Whole(e.tree) : e \in t}
Lost == Held(fs, trash) \ Held(fs', trash')

Undoing == Len(journal') < Len(journal)

\* A transfer is cancelled only by a transfercancel that named it, or by the
\* quit: a cancel aimed at an operation that has ended never reaches the one
\* after it (opsdispatch.rs claim, cancel_transfer).
CancelReachesItsTarget ==
  op # NoOp /\ op.cancelled => op.named \/ phase # "serving"

\* No content that was there when an operation started, and that no other
\* request touched since, is ever lost by it, cancelled, failed or killed at
\* any system call; only an undo may take the last copy of anything away
\* (copyfile.rs move_any, trash.rs).
ContentKept ==
  [][Lost = {} \/ Undoing \/ (op # NoOp /\ Lost \subseteq op.late)]_vars

\* Where a step's path is, and whether the operation made it.
MadeBy(id) == {p \in DOMAIN fs : fs[p].maker = id}
Recorded(steps, kinds) ==
  {p \in DOMAIN fs : \E i \in DOMAIN steps :
     /\ steps[i].step \in kinds
     /\ IsPrefix(IF steps[i].step = "moved" THEN steps[i].to ELSE steps[i].path, p)}

\* An operation nobody disturbed journals exactly what it left behind: what
\* it made is under one of its steps, and nothing it did not make is under a
\* step that undo would delete (opsreq.rs one_item, copyfile.rs partial). The
\* ring never passes DEPTH.
JournalExact ==
  /\ Len(journal) <= Depth
  /\ Ended /\ op.quiet /\ op.kind # "trash" =>
       /\ MadeBy(op.id) \subseteq Recorded(op.steps, {"created", "moved"})
       /\ Recorded(op.steps, {"created"}) \subseteq MadeBy(op.id)

\* The newest entry describes the files as they are now.
Fresh == journal # <<>> /\ Last(journal).quiet /\ Last(journal).after = <<fs, trash>>

CrossesVolumes(s) == s.step = "moved" /\ Volume(s.from) # Volume(s.to)

\* Undoing an operation right after it, however many items it had, and
\* whether they succeeded, failed partway or were cancelled, puts back the
\* files and the trash exactly as they were; it is refused only for a move
\* between file systems or an item the trash lists no entry for (undo.rs).
UndoRestores ==
  [][Undoing /\ Fresh =>
       \/ <<fs', trash'>> = Last(journal).before
       \/ \E i \in DOMAIN Last(journal).steps :
            LET s == Last(journal).steps[i]
            IN  CrossesVolumes(s) \/ s = Trashed(NoUri)]_vars

\* An operation ends, and frees the slot.
OpEnds == (op # NoOp) ~> (op = NoOp \/ phase = "closed")
=============================================================================
