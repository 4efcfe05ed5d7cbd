---------------------------- MODULE FileOps_proofs ----------------------------
(***************************************************************************)
(* Four results, for any files and any requests. A cancel reaches the      *)
(* operation it names and no other: the flag is one for all operations,    *)
(* and a claim lowers it, so while the loop serves a raised flag means     *)
(* that a transfercancel named the one that runs. No operation loses a     *)
(* content nobody else touched: what it may yet remove, a partial or the   *)
(* source of a move, is held elsewhere. And its journal entry accounts for *)
(* what it made: undo deletes nothing else, and, unless an unlink or a     *)
(* chmod was refused, leaves nothing of it behind. Last, an undo right     *)
(* after it puts back files and trash as they were: each step of an entry, *)
(* reversed in the world after it, leaves the world before it, so all of   *)
(* them, from the newest, lead back to where the operation started.        *)
(***************************************************************************)
EXTENDS FileOps, WellFoundedInduction, TLAPS

\* The slot's fields the argument is about.
Slot == {"kind", "id", "named", "cancelled", "quiet", "late"}

Types == op # NoOp => Slot \subseteq DOMAIN op

FlagNamesRunning == op # NoOp /\ cancel => op.named \/ phase # "serving"

IInv == Types /\ FlagNamesRunning /\ CancelReachesItsTarget

\* What a step must do, whatever else it does: it leaves the operation and the
\* flag as the invariant reads them.
SameOp ==
  /\ op' # NoOp => /\ op # NoOp /\ DOMAIN op' = DOMAIN op
                   /\ op'.named = op.named
                   /\ op'.cancelled => op.cancelled \/ cancel
  /\ cancel' = cancel /\ phase' = phase

-----------------------------------------------------------------------------
LEMMA InitHolds == Init => IInv
  BY DEF Init, IInv, Types, FlagNamesRunning, CancelReachesItsTarget

LEMMA SameOpKeeps ==
  ASSUME IInv, SameOp
  PROVE  IInv'
  BY DEF IInv, Types, FlagNamesRunning, CancelReachesItsTarget, SameOp

\* A claim starts a new operation with the flag down.
LEMMA ClaimKeeps ==
  ASSUME IInv, NEW kind, NEW items, NEW dest, Claim(Operation(kind, items, dest))
  PROVE  IInv'
<1>1. op' = Operation(kind, items, dest) /\ cancel' = FALSE  BY DEF Claim
<1>2. /\ Slot \subseteq DOMAIN op'
      /\ op'.cancelled = FALSE
  BY <1>1 DEF Operation, Slot
<1>3. QED  BY <1>1, <1>2 DEF IInv, Types, FlagNamesRunning, CancelReachesItsTarget

LEMMA CancelTransferKeeps ==
  ASSUME IInv, NEW id, CancelTransfer(id)
  PROVE  IInv'
<1>1. op # NoOp /\ op' = [op EXCEPT !.named = TRUE]  BY DEF CancelTransfer
<1>2. "named" \in DOMAIN op  BY <1>1 DEF IInv, Types, Slot
<1>3. DOMAIN op' = DOMAIN op /\ op'.named = TRUE  BY <1>1, <1>2
<1>4. QED  BY <1>1, <1>3 DEF IInv, Types, FlagNamesRunning, CancelReachesItsTarget

\* The loop's own requests only mark the operation as disturbed.
LEMMA DisturbedIs ==
  ASSUME IInv, NEW contents, op' = Disturbed(contents), cancel' = cancel, phase' = phase
  PROVE  SameOp
<1>1. CASE op = NoOp  BY <1>1 DEF Disturbed, SameOp
<1>2. CASE op # NoOp
  <2>1. Slot \subseteq DOMAIN op  BY <1>2 DEF IInv, Types
  <2>2. /\ DOMAIN op' = DOMAIN op
        /\ op'.named = op.named
        /\ op'.cancelled = op.cancelled
    BY <1>2, <2>1 DEF Disturbed, Slot
  <2>3. QED  BY <1>2, <2>2 DEF SameOp
<1>3. QED  BY <1>1, <1>2

LEMMA LoopRequestIs ==
  ASSUME IInv, NEW files, NEW steps, NEW contents, LoopRequest(files, steps, contents)
  PROVE  SameOp
  BY DisturbedIs DEF LoopRequest

LEMMA LoopKeeps ==
  ASSUME IInv,
         \/ \E p \in DOMAIN fs, name \in Names : Rename(p, name) \/ RenameFails(p, name)
         \/ \E dir \in Dirs, name \in Names : MkDirNamed(dir, name) \/ NewFile(dir, name)
         \/ \E dir \in Dirs : MkDirDefault(dir)
  PROVE  IInv'
<1>1. \E files, steps, contents : LoopRequest(files, steps, contents)
  BY DEF Rename, RenameFails, MkDirNamed, NewFile, MkDirDefault, MakeDir
<1>2. QED  BY <1>1, LoopRequestIs, SameOpKeeps

LEMMA UndoKeeps ==
  ASSUME IInv, Undo \/ UndoFails
  PROVE  IInv'
<1>1. \E w : PopTo(w)  BY DEF Undo, UndoFails
<1>2. SameOp  BY <1>1, DisturbedIs DEF PopTo
<1>3. QED  BY <1>2, SameOpKeeps

LEMMA QuitKeeps ==
  ASSUME IInv, Quit
  PROVE  IInv'
  BY DEF IInv, Types, FlagNamesRunning, CancelReachesItsTarget, Quit

LEMMA RequestsKeep ==
  ASSUME IInv, Requests
  PROVE  IInv'
<1>1. CASE \E items \in Selections :
             \/ \E dest \in Dirs, kind \in {"copy", "move"} : StartTransfer(kind, items, dest)
             \/ StartTrash(items)
  BY <1>1, ClaimKeeps DEF StartTransfer, StartTrash
<1>2. CASE \E p \in DOMAIN fs : StartDuplicate(p)
  BY <1>2, ClaimKeeps DEF StartDuplicate
<1>3. CASE \E id \in 1..serial : CancelTransfer(id)  BY <1>3, CancelTransferKeeps
<1>4. CASE \/ \E p \in DOMAIN fs, name \in Names : Rename(p, name) \/ RenameFails(p, name)
           \/ \E dir \in Dirs, name \in Names : MkDirNamed(dir, name) \/ NewFile(dir, name)
           \/ \E dir \in Dirs : MkDirDefault(dir)
  BY <1>4, LoopKeeps
<1>5. CASE Undo \/ UndoFails  BY <1>5, UndoKeeps
<1>6. CASE Quit  BY <1>6, QuitKeeps
<1>7. QED  BY <1>1, <1>2, <1>3, <1>4, <1>5, <1>6 DEF Requests

-----------------------------------------------------------------------------
(* The thread says an operation was cancelled only where it saw the flag.  *)

LEMMA NextItemIs ==
  ASSUME IInv, op # NoOp, NEW steps
  PROVE  /\ DOMAIN NextItem(steps) = DOMAIN op
         /\ NextItem(steps).named = op.named
         /\ NextItem(steps).cancelled = op.cancelled
<1>1. Slot \subseteq DOMAIN op  BY DEF IInv, Types
<1>2. QED  BY <1>1 DEF NextItem, Slot

LEMMA ItemEndsIs ==
  ASSUME IInv, op # NoOp, NEW steps, op' = NextItem(steps), ThreadOnly
  PROVE  SameOp
  BY NextItemIs DEF SameOp, ThreadOnly

LEMMA CancelledIs ==
  ASSUME IInv, op # NoOp, NEW steps, Cancelled,
         op' = [NextItem(steps) EXCEPT !.cancelled = TRUE], ThreadOnly
  PROVE  SameOp
<1>1. /\ DOMAIN op' = DOMAIN NextItem(steps)
      /\ op'.named = NextItem(steps).named
  <2>1. "named" \in DOMAIN NextItem(steps)  BY NextItemIs DEF IInv, Types, Slot
  <2>2. QED  BY <2>1
<1>2. QED  BY <1>1, NextItemIs DEF SameOp, ThreadOnly, Cancelled

LEMMA InItemIs ==
  ASSUME IInv, op # NoOp,
         \/ OpenItem \/ FinishFile \/ GioTrash \/ CheckTrashed
         \/ \E c \in op.todo : OpenChild(c)
  PROVE  SameOp
<1>1. Slot \subseteq DOMAIN op  BY DEF IInv, Types
<1>2. CASE OpenItem  BY <1>1, <1>2 DEF OpenItem, SameOp, Slot, ThreadOnly
<1>3. CASE FinishFile  BY <1>1, <1>3 DEF FinishFile, SameOp, Slot, ThreadOnly
<1>4. CASE GioTrash  BY <1>1, <1>4 DEF GioTrash, SameOp, Slot
<1>5. CASE CheckTrashed  BY <1>1, <1>5 DEF CheckTrashed, SameOp, Slot, ThreadOnly
<1>6. CASE \E c \in op.todo : OpenChild(c)
  BY <1>1, <1>6 DEF OpenChild, SameOp, Slot, ThreadOnly
<1>7. QED  BY <1>2, <1>3, <1>4, <1>5, <1>6

LEMMA RunningKeeps ==
  ASSUME IInv, Running
  PROVE  IInv'
<1>1. op # NoOp  BY DEF Running
<1>2. CASE SkipItem
  BY <1>1, <1>2, CancelledIs, SameOpKeeps DEF SkipItem
<1>3. CASE CancelCopy
  BY <1>1, <1>3, CancelledIs, SameOpKeeps DEF CancelCopy
<1>4. CASE \/ RenameItem \/ RefuseItem \/ FailNode \/ FailCopy
           \/ EndCopy \/ EndMove \/ FailMove
  <2>1. ThreadOnly /\ \E steps : op' = NextItem(steps)
    BY <1>4 DEF RenameItem, RefuseItem, FailNode, FailCopy, EndCopy, EndMove, FailMove
  <2>2. QED  BY <1>1, <2>1, ItemEndsIs, SameOpKeeps
<1>5. CASE \/ OpenItem \/ FinishFile \/ GioTrash \/ CheckTrashed
           \/ \E c \in op.todo : OpenChild(c)
  BY <1>1, <1>5, InItemIs, SameOpKeeps
<1>6. QED  BY <1>2, <1>3, <1>4, <1>5 DEF Running, Thread

\* The slot freed, the drain and its deadline.
LEMMA EndKeeps ==
  ASSUME IInv, Report \/ DrainDone \/ DrainDeadline
  PROVE  IInv'
  BY DEF IInv, Types, FlagNamesRunning, CancelReachesItsTarget,
         Report, DrainDone, DrainDeadline

LEMMA StepKeeps == IInv /\ [Next]_vars => IInv'
<1> SUFFICES ASSUME IInv, [Next]_vars PROVE IInv'  OBVIOUS
<1>1. CASE Requests  BY <1>1, RequestsKeep
<1>2. CASE Running  BY <1>2, RunningKeeps
<1>3. CASE Report \/ DrainDone \/ DrainDeadline  BY <1>3, EndKeeps
<1>4. CASE UNCHANGED vars
  BY <1>4 DEF vars, IInv, Types, FlagNamesRunning, CancelReachesItsTarget
<1>5. QED  BY <1>1, <1>2, <1>3, <1>4 DEF Next

\* An operation that ends cancelled was named by a transfercancel while it ran,
\* or the loop is shutting down, for any sequence of operations and cancels
\* (opsdispatch.rs claim, cancel_transfer).
THEOREM CancelHitsItsTarget == Spec => []CancelReachesItsTarget
<1>1. IInv => CancelReachesItsTarget  BY DEF IInv
<1>2. QED  BY <1>1, InitHolds, StepKeeps, PTL DEF Spec

-----------------------------------------------------------------------------
(* Paths.                                                                  *)

\* Sequences of one, two and three elements, and what Front, Append and
\* SubSeq make of them.
LEMMA Of1 ==
  ASSUME NEW S, NEW s \in Seq(S), Len(s) = 1
  PROVE  s = <<s[1]>>
  OBVIOUS

LEMMA Of2 ==
  ASSUME NEW S, NEW s \in Seq(S), Len(s) = 2
  PROVE  s = <<s[1], s[2]>>
  OBVIOUS

LEMMA Of3 ==
  ASSUME NEW S, NEW s \in Seq(S), Len(s) = 3
  PROVE  s = <<s[1], s[2], s[3]>>
  OBVIOUS

LEMMA Front2 ==
  ASSUME NEW v, NEW n
  PROVE  SubSeq(<<v, n>>, 1, 1) = <<v>>
<1> DEFINE S == {v, n}
           s == <<v, n>>
           t == SubSeq(s, 1, 1)
<1>1. s \in Seq(S) /\ Len(s) = 2 /\ s[1] = v OBVIOUS
<1> HIDE DEF s, S
<1>2. t \in Seq(S) /\ Len(t) = 1 /\ t[1] = s[1]  BY <1>1
<1> HIDE DEF t
<1>3. t = <<t[1]>>  BY <1>2, Of1
<1>4. QED BY <1>1, <1>2, <1>3 DEF t, s

LEMMA Front3 ==
  ASSUME NEW v, NEW n, NEW m
  PROVE  SubSeq(<<v, n, m>>, 1, 2) = <<v, n>>
<1> DEFINE S == {v, n, m}
           s == <<v, n, m>>
           t == SubSeq(s, 1, 2)
<1>1. s \in Seq(S) /\ Len(s) = 3 /\ s[1] = v /\ s[2] = n OBVIOUS
<1> HIDE DEF s, S
<1>2. t \in Seq(S) /\ Len(t) = 2 /\ t[1] = s[1] /\ t[2] = s[2]  BY <1>1
<1> HIDE DEF t
<1>3. t = <<t[1], t[2]>>  BY <1>2, Of2
<1>4. QED BY <1>1, <1>2, <1>3 DEF t, s

LEMMA Append2 ==
  ASSUME NEW v, NEW n, NEW x
  PROVE  Append(<<v, n>>, x) = <<v, n, x>>
<1> DEFINE S == {v, n, x}
           s == <<v, n>>
           t == Append(s, x)
<1>1. s \in Seq(S) /\ Len(s) = 2 /\ s[1] = v /\ s[2] = n /\ x \in S OBVIOUS
<1> HIDE DEF s, S
<1>2. t \in Seq(S) /\ Len(t) = 3 /\ t[1] = s[1] /\ t[2] = s[2] /\ t[3] = x
  <2>1. t \in Seq(S) /\ Len(t) = 3  BY <1>1
  <2>2. t[1] = s[1] /\ t[2] = s[2]  BY <1>1
  <2>3. t[3] = x  BY <1>1, SMTT(30)
  <2>4. QED  BY <2>1, <2>2, <2>3
<1> HIDE DEF t
<1>3. t = <<t[1], t[2], t[3]>>  BY <1>2, Of3
<1>4. QED BY <1>1, <1>2, <1>3 DEF t, s

LEMMA Append3 ==
  ASSUME NEW v, NEW n, NEW m, NEW x
  PROVE  Len(Append(<<v, n, m>>, x)) = 4
<1> DEFINE S == {v, n, m, x}
           s == <<v, n, m>>
<1>1. s \in Seq(S) /\ Len(s) = 3 /\ x \in S OBVIOUS
<1> HIDE DEF s, S
<1>2. QED  BY <1>1 DEF s

LEMMA NothingAppended ==
  ASSUME NEW S, NEW s \in Seq(S)
  PROVE  s \o <<>> = s
  OBVIOUS

LEMMA NothingLeft ==
  ASSUME NEW S, NEW s \in Seq(S)
  PROVE  SubSeq(s, Len(s) + 1, Len(s)) = <<>>
  OBVIOUS

LEMMA Last3 ==
  ASSUME NEW v, NEW n, NEW m
  PROVE  SubSeq(<<v, n, m>>, 3, 3) = <<m>>
<1> DEFINE S == {v, n, m}
           s == <<v, n, m>>
           t == SubSeq(s, 3, 3)
<1>1. s \in Seq(S) /\ Len(s) = 3 /\ s[3] = m OBVIOUS
<1> HIDE DEF s, S
<1>2. t \in Seq(S) /\ Len(t) = 1 /\ t[1] = s[3]  BY <1>1, SMTT(30)
<1> HIDE DEF t
<1>3. t = <<t[1]>>  BY <1>2, Of1
<1>4. QED BY <1>1, <1>2, <1>3 DEF t, s

LEMMA OneAppended ==
  ASSUME NEW S, NEW s \in Seq(S), NEW x \in S
  PROVE  s \o <<x>> = Append(s, x)
  OBVIOUS

\* A path has one name or two.
LEMMA PathCases ==
  ASSUME NEW p \in Paths
  PROVE  \/ \E v \in Volumes, n \in Names : p = <<v, n>>
         \/ \E v \in Volumes, n, m \in Names : p = <<v, n, m>>
  BY DEF Paths

LEMMA TwoIs ==
  ASSUME NEW v, NEW n
  PROVE  /\ Len(<<v, n>>) = 2 /\ Front(<<v, n>>) = <<v>>
         /\ Last(<<v, n>>) = n /\ Head(<<v, n>>) = v
  BY Front2 DEF Front, Last

LEMMA ThreeIs ==
  ASSUME NEW v, NEW n, NEW m
  PROVE  /\ Len(<<v, n, m>>) = 3 /\ Front(<<v, n, m>>) = <<v, n>>
         /\ Last(<<v, n, m>>) = m /\ Head(<<v, n, m>>) = v
  BY Front3 DEF Front, Last

\* A path is in the root of its volume or in a directory that is.
LEMMA PathIs ==
  ASSUME NEW p \in Paths
  PROVE  /\ p \notin Roots
         /\ \/ Len(p) = 2 /\ Parent(p) \in Roots /\ Parent(p) \notin Paths
            \/ Len(p) = 3 /\ Parent(p) \in Paths /\ Len(Parent(p)) = 2
         /\ Volume(p) \in Volumes
         /\ Parent(p) \in Paths => Volume(Parent(p)) = Volume(p)
         /\ \A q \in Paths : Parent(q) = Parent(p) /\ Last(q) = Last(p) => q = p
<1>1. CASE \E v \in Volumes, n \in Names : p = <<v, n>>
  <2>1. PICK v \in Volumes, n \in Names : p = <<v, n>>  BY <1>1
  <2>2. Parent(p) = <<v>> /\ Len(p) = 2 /\ Last(p) = n /\ Volume(p) = v
    BY <2>1, TwoIs DEF Parent, Volume
  <2>3. <<v>> \in Roots /\ <<v>> \notin Paths /\ p \notin Roots
    BY <2>1 DEF Roots, Paths
  <2>4. ASSUME NEW q \in Paths, Parent(q) = Parent(p), Last(q) = Last(p)
        PROVE  q = p
    <3>1. CASE \E w \in Volumes, x \in Names : q = <<w, x>>
      BY <2>1, <2>2, <2>4, <3>1, TwoIs DEF Parent
    <3>2. CASE \E w \in Volumes, x, y \in Names : q = <<w, x, y>>
      BY <2>2, <2>4, <3>2, ThreeIs DEF Parent
    <3>3. QED  BY <3>1, <3>2, PathCases
  <2>5. QED  BY <2>2, <2>3, <2>4
<1>2. CASE \E v \in Volumes, n, m \in Names : p = <<v, n, m>>
  <2>1. PICK v \in Volumes, n \in Names, m \in Names : p = <<v, n, m>>  BY <1>2
  <2>2. Parent(p) = <<v, n>> /\ Len(p) = 3 /\ Last(p) = m /\ Volume(p) = v
    BY <2>1, ThreeIs DEF Parent, Volume
  <2>3. <<v, n>> \in Paths /\ Len(<<v, n>>) = 2 /\ Volume(<<v, n>>) = v /\ p \notin Roots
    BY <2>1, TwoIs DEF Roots, Paths, Volume
  <2>4. ASSUME NEW q \in Paths, Parent(q) = Parent(p), Last(q) = Last(p)
        PROVE  q = p
    <3>1. CASE \E w \in Volumes, x \in Names : q = <<w, x>>
      BY <2>2, <2>4, <3>1, TwoIs DEF Parent
    <3>2. CASE \E w \in Volumes, x, y \in Names : q = <<w, x, y>>
      BY <2>1, <2>2, <2>4, <3>2, ThreeIs DEF Parent
    <3>3. QED  BY <3>1, <3>2, PathCases
  <2>5. QED  BY <2>2, <2>3, <2>4
<1>3. QED  BY <1>1, <1>2, PathCases

\* Two levels of names: below a path is what it names and what is in it.
LEMMA PrefixIs ==
  ASSUME NEW p \in Paths, NEW q \in Paths
  PROVE  IsPrefix(p, q) <=> q = p \/ Parent(q) = p
<1>1. CASE \E v \in Volumes, n \in Names : p = <<v, n>>
  <2>1. PICK v \in Volumes, n \in Names : p = <<v, n>>  BY <1>1
  <2>2. CASE \E w \in Volumes, x \in Names : q = <<w, x>>
    BY <2>1, <2>2, TwoIs DEF IsPrefix, Parent
  <2>3. CASE \E w \in Volumes, x, y \in Names : q = <<w, x, y>>
    BY <2>1, <2>3, TwoIs, ThreeIs DEF IsPrefix, Parent
  <2>4. QED  BY <2>2, <2>3, PathCases
<1>2. CASE \E v \in Volumes, n, m \in Names : p = <<v, n, m>>
  <2>1. PICK v \in Volumes, n \in Names, m \in Names : p = <<v, n, m>>  BY <1>2
  <2>2. CASE \E w \in Volumes, x \in Names : q = <<w, x>>
    BY <2>1, <2>2, TwoIs, ThreeIs DEF IsPrefix, Parent
  <2>3. CASE \E w \in Volumes, x, y \in Names : q = <<w, x, y>>
    BY <2>1, <2>3, ThreeIs DEF IsPrefix, Parent
  <2>4. QED  BY <2>2, <2>3, PathCases
<1>3. QED  BY <1>1, <1>2, PathCases

\* Of a file system's root is everything in it.
LEMMA RootPrefix ==
  ASSUME NEW p \in Roots, NEW q \in Paths
  PROVE  IsPrefix(p, q) <=> p = <<Volume(q)>>
<1>1. PICK v \in Volumes : p = <<v>>  BY DEF Roots
<1>2. CASE \E w \in Volumes, x \in Names : q = <<w, x>>
  BY <1>1, <1>2, TwoIs DEF IsPrefix, Volume
<1>3. CASE \E w \in Volumes, x, y \in Names : q = <<w, x, y>>
  BY <1>1, <1>3, ThreeIs DEF IsPrefix, Volume
<1>4. QED  BY <1>2, <1>3, PathCases

\* Paths are sequences.
LEMMA PathIsSeq == \A p \in Paths : p \in Seq(Volumes \cup Names)
<1> SUFFICES ASSUME NEW p \in Paths PROVE p \in Seq(Volumes \cup Names)  OBVIOUS
<1>1. CASE \E v \in Volumes, n \in Names : p = <<v, n>>  BY <1>1
<1>2. CASE \E v \in Volumes, n, m \in Names : p = <<v, n, m>>  BY <1>2
<1>3. QED  BY <1>1, <1>2, PathCases

\* The names a moved directory and what is in it get.
LEMMA RebasedIs ==
  ASSUME NEW from \in Paths, NEW to \in Paths, NEW q \in Paths
  PROVE  /\ Rebased(from, from, to) = to
         /\ Parent(q) = from => Rebased(q, from, to) = Append(to, Last(q))
<1> DEFINE S == Volumes \cup Names
<1>1. from \in Seq(S) /\ to \in Seq(S)  BY PathIsSeq
<1> HIDE DEF S
<1>2. Rebased(from, from, to) = to
  <2>1. SubSeq(from, Len(from) + 1, Len(from)) = <<>>  BY <1>1, NothingLeft
  <2>2. to \o <<>> = to  BY <1>1, NothingAppended
  <2>3. QED  BY <2>1, <2>2 DEF Rebased
<1>3. ASSUME Parent(q) = from  PROVE Rebased(q, from, to) = Append(to, Last(q))
  <2>1. PICK v \in Volumes, n \in Names, m \in Names : q = <<v, n, m>>
    <3>1. CASE \E w \in Volumes, x \in Names : q = <<w, x>>
      BY <1>3, <3>1, PathIs, TwoIs
    <3>2. QED  BY <3>1, PathCases
  <2>2. from = <<v, n>> /\ Last(q) = m  BY <1>3, <2>1, ThreeIs DEF Parent
  <2>3. Len(from) = 2 /\ Len(q) = 3  BY <2>1, <2>2
  <2>4. SubSeq(q, Len(from) + 1, Len(q)) = <<m>>  BY <2>1, <2>3, Last3
  <2>5. to \o <<m>> = Append(to, m)  BY <1>1, OneAppended DEF S
  <2>6. QED  BY <2>2, <2>4, <2>5 DEF Rebased
<1>4. QED  BY <1>2, <1>3

\* A name appended to a directory is in it.
LEMMA AppendIs ==
  ASSUME NEW p \in Paths, NEW x, Append(p, x) \in Paths
  PROVE  /\ Parent(Append(p, x)) = p /\ Last(Append(p, x)) = x /\ Len(p) = 2
<1>1. CASE \E v \in Volumes, n \in Names : p = <<v, n>>
  <2>1. PICK v \in Volumes, n \in Names : p = <<v, n>>  BY <1>1
  <2>2. Append(p, x) = <<v, n, x>>  BY <2>1, Append2
  <2>3. Front(<<v, n, x>>) = <<v, n>> /\ Last(<<v, n, x>>) = x  BY ThreeIs
  <2>4. Len(p) = 2  BY <2>1
  <2>5. QED  BY <2>1, <2>2, <2>3, <2>4, Zenon DEF Parent
<1>2. CASE \E v \in Volumes, n, m \in Names : p = <<v, n, m>>
  <2>1. PICK v \in Volumes, n \in Names, m \in Names : p = <<v, n, m>>  BY <1>2
  <2>2. Len(Append(p, x)) = 4  BY <2>1, Append3
  <2>3. Len(Append(p, x)) \in {2, 3}
    <3> DEFINE t == Append(p, x)
    <3>1. t \in Paths  OBVIOUS
    <3> HIDE DEF t
    <3>2. Len(t) \in {2, 3}  BY <3>1, PathIs
    <3>3. QED  BY <3>2 DEF t
  <2>4. QED  BY <2>2, <2>3
<1>3. QED  BY <1>1, <1>2, PathCases

-----------------------------------------------------------------------------
(* Nodes.                                                                  *)

\* A node that holds a content in full, and one that does once its writing ends.
Full(n) == n.kind = "file" /\ ~n.open /\ ~n.data.half
Good(n) == n.kind = "file" /\ ~n.data.half

\* The node a copy or an end of writing leaves of another.
Shut(n) == Node(n.kind, Data(n.data.at, n.data.by, n.data.half \/ n.open), FALSE, n.maker)

\* The fields of a node.
LEMMA NodeIs ==
  ASSUME NEW n \in Nodes
  PROVE  /\ n = [kind |-> n.kind, data |-> n.data, open |-> n.open, maker |-> n.maker]
         /\ n.data = [at |-> n.data.at, by |-> n.data.by, half |-> n.data.half]
         /\ n.kind \in {"file", "dir", "fifo"} /\ n.data \in Contents /\ n.open \in BOOLEAN
         /\ n.maker \in Nat
         /\ n.data.at \in Paths \cup {<<>>} /\ n.data.by \in Nat /\ n.data.half \in BOOLEAN
  BY DEF Nodes, Contents

\* One field rewritten.
LEMMA RewrittenIs ==
  ASSUME NEW k, NEW e, NEW o, NEW m, NEW x, NEW n,
         n = [kind |-> k, data |-> e, open |-> o, maker |-> m]
  PROVE  /\ [n EXCEPT !.data = x] = [kind |-> k, data |-> x, open |-> o, maker |-> m]
         /\ [n EXCEPT !.open = x] = [kind |-> k, data |-> e, open |-> x, maker |-> m]
  OBVIOUS

\* A node cut short is Shut, whichever of its fields is written first.
LEMMA ShutIs ==
  ASSUME NEW n \in Nodes
  PROVE  /\ [n EXCEPT !.data.half = @ \/ n.open, !.open = FALSE] = Shut(n)
         /\ [n EXCEPT !.open = FALSE, !.data.half = @ \/ n.open] = Shut(n)
<1> DEFINE h == n.data.half \/ n.open
<1>1. [n EXCEPT !.data.half = @ \/ n.open, !.open = FALSE]
        = [n EXCEPT !.data.half = h, !.open = FALSE]
  OBVIOUS
<1>2. [n EXCEPT !.open = FALSE, !.data.half = @ \/ n.open]
        = [n EXCEPT !.open = FALSE, !.data.half = h]
  OBVIOUS
<1>3. Shut(n) = Node(n.kind, Data(n.data.at, n.data.by, h), FALSE, n.maker)
  BY DEF Shut
<1> HIDE DEF h
<1>4. [n EXCEPT !.data.half = h, !.open = FALSE]
        = [n EXCEPT !.open = FALSE, !.data.half = h]
  BY DEF Nodes
<1>5. [n EXCEPT !.data.half = h, !.open = FALSE]
        = Node(n.kind, Data(n.data.at, n.data.by, h), FALSE, n.maker)
  <2> DEFINE d == [n.data EXCEPT !.half = h]
  <2>1. d = Data(n.data.at, n.data.by, h)  BY DEF Nodes, Contents, Data
  <2>2. [n EXCEPT !.data.half = h, !.open = FALSE] = [n EXCEPT !.data = d, !.open = FALSE]
    BY DEF Nodes
  <2> HIDE DEF d
  <2>3. [n EXCEPT !.data = d, !.open = FALSE] = Node(n.kind, d, FALSE, n.maker)
    <3>1. n = [kind |-> n.kind, data |-> n.data, open |-> n.open, maker |-> n.maker]
      BY NodeIs
    <3> DEFINE k == n.kind  e == n.data  o == n.open  m == n.maker  l == [n EXCEPT !.data = d]
    <3> HIDE DEF k, e, o, m
    <3>2. n = [kind |-> k, data |-> e, open |-> o, maker |-> m]
      BY <3>1 DEF k, e, o, m
    <3>3. l = [kind |-> k, data |-> d, open |-> o, maker |-> m]
      BY <3>2, RewrittenIs
    <3>4. [n EXCEPT !.data = d, !.open = FALSE] = [l EXCEPT !.open = FALSE]  OBVIOUS
    <3> HIDE DEF l
    <3>5. \A x : [l EXCEPT !.open = x] = [kind |-> k, data |-> d, open |-> x, maker |-> m]
      BY <3>3, RewrittenIs
    <3>6. QED  BY <3>4, <3>5, Zenon DEF Node, k, m
  <2>4. QED  BY <2>1, <2>2, <2>3
<1>6. QED  BY <1>1, <1>2, <1>3, <1>4, <1>5

\* A node whose writing was cut short holds in full what it held in full.
LEMMA ShutKeeps ==
  ASSUME NEW n \in Nodes
  PROVE  /\ Shut(n) \in Nodes /\ ~Shut(n).open /\ Shut(n).kind = n.kind
         /\ Shut(n).maker = n.maker
         /\ Full(Shut(n)) <=> Full(n)
         /\ Good(Shut(n)) <=> Full(n)
         /\ ~n.open => Shut(n) = n
<1> DEFINE h == n.data.half \/ n.open
<1>1. h \in BOOLEAN  BY NodeIs
<1>2. Shut(n) = Node(n.kind, Data(n.data.at, n.data.by, h), FALSE, n.maker)
  BY DEF Shut
<1>3. ~n.open => h = n.data.half
  BY NodeIs, Zenon
<1>4. ~h <=> ~n.data.half /\ ~n.open  BY Zenon
<1> HIDE DEF h
<1>5. Data(n.data.at, n.data.by, h) \in Contents  BY <1>1, NodeIs DEF Data, Contents
<1>6. Shut(n) \in Nodes  BY <1>2, <1>5, NodeIs DEF Node, Nodes
<1>7. /\ Shut(n).open = FALSE /\ Shut(n).kind = n.kind /\ Shut(n).maker = n.maker
      /\ Shut(n).data = Data(n.data.at, n.data.by, h)
      /\ Data(n.data.at, n.data.by, h).half = h
  BY <1>2 DEF Node, Data
<1>8. ~n.open => Shut(n) = n
  <2> SUFFICES ASSUME ~n.open PROVE Shut(n) = n  OBVIOUS
  <2>1. n.open = FALSE /\ h = n.data.half  BY <1>3, NodeIs, Zenon
  <2>2. QED  BY <1>2, <2>1, NodeIs, Zenon DEF Node, Data
<1>9. Shut(n).data.half = h  BY <1>7, Zenon
<1>10. QED  BY <1>4, <1>6, <1>7, <1>8, <1>9, Zenon DEF Full, Good

\* A file whose writing ended.
LEMMA DoneKeeps ==
  ASSUME NEW n \in Nodes
  PROVE  LET m == [n EXCEPT !.open = FALSE]
         IN  /\ m \in Nodes /\ ~m.open /\ m.kind = n.kind /\ m.data = n.data
             /\ m.maker = n.maker
  BY DEF Nodes

\* A copy has a content to come only where its source held one in full.
LEMMA CopiedKeeps ==
  ASSUME NEW n \in Nodes, NEW by \in Nat
  PROVE  /\ Copied(n, by) \in Nodes /\ Copied(n, by).kind = n.kind
         /\ Copied(n, by).maker = by
         /\ Copied(n, by).open <=> n.kind = "file"
         /\ Good(Copied(n, by)) => Full(n) /\ Copied(n, by).data = n.data
         /\ Full(n) => Good(Copied(n, by))
<1>1. CASE n.kind = "file"
  <2> DEFINE h == n.data.half \/ n.open
  <2>1. [n.data EXCEPT !.half = @ \/ n.open] = [n.data EXCEPT !.half = h]  OBVIOUS
  <2>2. h \in BOOLEAN  BY NodeIs
  <2>3. ~h <=> ~n.data.half /\ ~n.open  BY Zenon
  <2>4. Copied(n, by) = File([n.data EXCEPT !.half = h], TRUE, by)
    BY <1>1, <2>1 DEF Copied
  <2>5. ~h => h = n.data.half  BY NodeIs, Zenon
  <2> HIDE DEF h
  <2>6. [n.data EXCEPT !.half = h] \in Contents /\ [n.data EXCEPT !.half = h].half = h
    BY <2>2, NodeIs DEF Contents
  <2>7. /\ Copied(n, by) \in Nodes /\ Copied(n, by).kind = "file"
        /\ Copied(n, by).maker = by /\ Copied(n, by).open
        /\ Copied(n, by).data = [n.data EXCEPT !.half = h]
    BY <2>4, <2>6 DEF File, Node, Nodes
  <2>8. ~h => Copied(n, by).data = n.data
    <3> SUFFICES ASSUME ~h PROVE [n.data EXCEPT !.half = h] = n.data  BY <2>7
    <3>1. h = n.data.half  BY <2>5
    <3>2. [n.data EXCEPT !.half = n.data.half] = n.data  BY NodeIs
    <3>3. QED  BY <3>1, <3>2, Zenon
  <2>9. Copied(n, by).data.half = h  BY <2>6, <2>7, Zenon
  <2>10. QED  BY <1>1, <2>3, <2>7, <2>8, <2>9, Zenon DEF Full, Good
<1>2. CASE n.kind = "dir"
  <2>1. Copied(n, by) = Dir(by)  BY <1>2 DEF Copied
  <2>2. Nothing \in Contents  BY DEF Nothing, Data, Contents
  <2>3. QED  BY <1>2, <2>1, <2>2 DEF Dir, Node, Nodes, Full, Good
<1>3. CASE n.kind = "fifo"
  <2>1. Copied(n, by) = Fifo(by)  BY <1>3 DEF Copied
  <2>2. Nothing \in Contents  BY DEF Nothing, Data, Contents
  <2>3. QED  BY <1>3, <2>1, <2>2 DEF Fifo, Node, Nodes, Full, Good
<1>4. QED  BY <1>1, <1>2, <1>3, NodeIs

\* A new directory, and a new fifo.
LEMMA NewNodes ==
  ASSUME NEW by \in Nat
  PROVE  /\ Dir(by) \in Nodes /\ Dir(by).kind = "dir" /\ ~Dir(by).open /\ Dir(by).maker = by
         /\ Fifo(by) \in Nodes /\ Fifo(by).kind = "fifo" /\ ~Fifo(by).open /\ Fifo(by).maker = by
<1>1. Nothing \in Contents  BY DEF Nothing, Data, Contents
<1>2. Dir(by) \in Nodes /\ Dir(by).kind = "dir" /\ ~Dir(by).open /\ Dir(by).maker = by
  BY <1>1 DEF Dir, Node, Nodes
<1>3. Fifo(by) \in Nodes /\ Fifo(by).kind = "fifo" /\ ~Fifo(by).open /\ Fifo(by).maker = by
  BY <1>1 DEF Fifo, Node, Nodes
<1>4. QED  BY <1>2, <1>3

\* What newfile makes.
NewData(at, by) == Data(at, by, FALSE)
NewNode(at, by) == File(NewData(at, by), FALSE, by)

\* A new file.
LEMMA NewFileIs ==
  ASSUME NEW by \in Nat, NEW at \in Paths
  PROVE  /\ NewNode(at, by) \in Nodes /\ NewNode(at, by).kind = "file"
         /\ NewNode(at, by).data = NewData(at, by) /\ ~NewNode(at, by).open
         /\ NewNode(at, by).maker = by
<1>1. NewData(at, by) \in Contents  BY DEF NewData, Data, Contents
<1>2. QED  BY <1>1 DEF NewNode, File, Node, Nodes

-----------------------------------------------------------------------------
(* Trees.                                                                  *)

\* A content is held in full by a node that holds it.
LEMMA WholeIs ==
  ASSUME NEW f, NEW x
  PROVE  x \in Whole(f) <=> \E q \in DOMAIN f : Full(f[q]) /\ f[q].data = x
  BY DEF Whole, Full

\* What a tree says of one of its names.
LEMMA TreeNode ==
  ASSUME NEW f, IsTree(f), NEW q \in DOMAIN f
  PROVE  /\ q \in Paths /\ f[q] \in Nodes
         /\ Parent(q) \in Roots \/ (Parent(q) \in DOMAIN f /\ f[Parent(q)].kind = "dir")
         /\ f[q].open => f[q].kind = "file"
  BY DEF IsTree, IsDir

\* Two levels: the directory of a name in a directory is in the root.
LEMMA TwoLevels ==
  ASSUME NEW q \in Paths, NEW p \in Paths, Parent(q) \in Paths
  PROVE  ~(Parent(Parent(q)) = p) /\ (IsPrefix(p, Parent(q)) <=> Parent(q) = p)
<1>1. Len(Parent(q)) = 2  BY PathIs
<1> DEFINE d == Parent(q)
<1>2. d \in Paths /\ Len(d) = 2  BY <1>1
<1> HIDE DEF d
<1>3. Parent(d) \in Roots /\ Parent(d) \notin Paths  BY <1>2, PathIs
<1>4. Parent(d) # p  BY <1>3
<1>5. IsPrefix(p, d) <=> d = p  BY <1>2, <1>4, PrefixIs
<1>6. QED  BY <1>4, <1>5 DEF d

\* What is below a path is closed downwards.
LEMMA PrefixOfParent ==
  ASSUME NEW q \in Paths, NEW p \in Paths \cup Roots, Parent(q) \in Paths, IsPrefix(p, Parent(q))
  PROVE  IsPrefix(p, q)
<1>1. CASE p \in Paths  BY <1>1, TwoLevels, PrefixIs
<1>2. CASE p \in Roots
  <2>1. p = <<Volume(Parent(q))>>  BY <1>2, RootPrefix
  <2>2. Volume(Parent(q)) = Volume(q)  BY PathIs
  <2>3. QED  BY <1>2, <2>1, <2>2, RootPrefix
<1>3. QED  BY <1>1, <1>2

\* Nothing is below a path that is not there.
LEMMA NothingBelow ==
  ASSUME NEW f, IsTree(f), NEW p \in Paths, p \notin DOMAIN f
  PROVE  \A q \in DOMAIN f : ~IsPrefix(p, q)
<1> SUFFICES ASSUME NEW q \in DOMAIN f, IsPrefix(p, q) PROVE FALSE  OBVIOUS
<1>1. q \in Paths  BY TreeNode
<1>2. Parent(q) = p  BY <1>1, PrefixIs
<1>3. p \in Roots \/ p \in DOMAIN f  BY <1>2, TreeNode
<1>4. p \notin Roots  BY PathIs
<1>5. QED  BY <1>3, <1>4

\* A tree without a name and all below it is a tree.
LEMMA ErasedIs ==
  ASSUME NEW f, IsTree(f), NEW p \in Paths \cup Roots
  PROVE  /\ IsTree(Erased(f, p))
         /\ DOMAIN Erased(f, p) = {q \in DOMAIN f : ~IsPrefix(p, q)}
         /\ \A q \in DOMAIN Erased(f, p) : Erased(f, p)[q] = f[q]
<1> DEFINE D == {q \in DOMAIN f : ~IsPrefix(p, q)}
<1>1. Erased(f, p) = [q \in D |-> f[q]]
  BY DEF Erased, Restrict, Below
<1>2. ASSUME NEW q \in D
      PROVE  /\ q \in Paths /\ f[q] \in Nodes /\ (f[q].open => f[q].kind = "file")
             /\ Parent(q) \in Roots \/ (Parent(q) \in D /\ f[Parent(q)].kind = "dir")
  <2>1. q \in DOMAIN f /\ ~IsPrefix(p, q)  OBVIOUS
  <2>2. /\ q \in Paths /\ f[q] \in Nodes /\ (f[q].open => f[q].kind = "file")
        /\ Parent(q) \in Roots \/ (Parent(q) \in DOMAIN f /\ f[Parent(q)].kind = "dir")
    BY <2>1, TreeNode
  <2>3. CASE Parent(q) \in DOMAIN f /\ f[Parent(q)].kind = "dir"
    <3>1. Parent(q) \in Paths  BY <2>3, TreeNode
    <3>2. ~IsPrefix(p, Parent(q))  BY <2>1, <2>2, <3>1, PrefixOfParent
    <3>3. QED  BY <2>2, <2>3, <3>2
  <2>4. QED  BY <2>2, <2>3
<1>3. D \subseteq Paths  BY <1>2
<1> HIDE DEF D
<1>4. IsTree([q \in D |-> f[q]])  BY <1>2, <1>3 DEF IsTree, IsDir
<1>5. QED  BY <1>1, <1>4 DEF D

\* So is one whose removal stopped partway.
LEMMA PartlyErasedIs ==
  ASSUME NEW f, IsTree(f), NEW p \in Paths, NEW keep,
         NEW g, g = PartlyErased(f, p, keep)
  PROVE  /\ IsTree(g)
         /\ DOMAIN g \subseteq DOMAIN f
         /\ \A q \in DOMAIN f : ~IsPrefix(p, q) => q \in DOMAIN g
         /\ \A q \in DOMAIN g : g[q] = f[q]
<1> DEFINE D == {q \in DOMAIN f : ~IsPrefix(p, q) \/ q = p \/ q \in keep}
<1>1. g = [q \in D |-> f[q]]
  BY DEF PartlyErased, Restrict, Below, Under
<1>2. ASSUME NEW q \in D
      PROVE  /\ q \in Paths /\ f[q] \in Nodes /\ (f[q].open => f[q].kind = "file")
             /\ Parent(q) \in Roots \/ (Parent(q) \in D /\ f[Parent(q)].kind = "dir")
  <2>1. q \in DOMAIN f  OBVIOUS
  <2>2. /\ q \in Paths /\ f[q] \in Nodes /\ (f[q].open => f[q].kind = "file")
        /\ Parent(q) \in Roots \/ (Parent(q) \in DOMAIN f /\ f[Parent(q)].kind = "dir")
    BY <2>1, TreeNode
  <2>3. CASE Parent(q) \in DOMAIN f /\ f[Parent(q)].kind = "dir"
    <3>1. Parent(q) \in Paths  BY <2>3, TreeNode
    <3>2. ~IsPrefix(p, Parent(q)) \/ Parent(q) = p  BY <2>2, <3>1, TwoLevels
    <3>3. QED  BY <2>2, <2>3, <3>2
  <2>4. QED  BY <2>2, <2>3
<1>3. D \subseteq Paths  BY <1>2
<1> HIDE DEF D
<1>4. IsTree([q \in D |-> f[q]])  BY <1>2, <1>3 DEF IsTree, IsDir
<1>5. QED  BY <1>1, <1>4 DEF D

\* Only a file is written.
FileOnly(n) == n.open => n.kind = "file"

\* So is one with a new name in a directory.
LEMMA PutIs ==
  ASSUME NEW f, IsTree(f), NEW p, Free(f, p), NEW n \in Nodes, FileOnly(n),
         NEW g, g = Put(f, p, n)
  PROVE  /\ IsTree(g) /\ DOMAIN g = DOMAIN f \cup {p} /\ g[p] = n
         /\ \A q \in DOMAIN f : q # p /\ g[q] = f[q]
<1>1. p \in Paths /\ p \notin DOMAIN f /\ IsDir(f, Parent(p))  BY DEF Free
<1>2. /\ DOMAIN g = DOMAIN f \cup {p} /\ g = [q \in DOMAIN g |-> g[q]]
      /\ g[p] = n /\ \A q \in DOMAIN f : q # p /\ g[q] = f[q]
  BY <1>1 DEF Put, Joined
<1>3. ASSUME NEW q \in DOMAIN g
      PROVE  /\ q \in Paths /\ g[q] \in Nodes /\ (g[q].open => g[q].kind = "file")
             /\ Parent(q) \in Roots \/ (Parent(q) \in DOMAIN f /\ f[Parent(q)].kind = "dir")
  <2>1. CASE q = p  BY <1>1, <1>2, <2>1 DEF IsDir, FileOnly
  <2>2. CASE q \in DOMAIN f  BY <1>2, <2>2, TreeNode
  <2>3. QED  BY <1>2, <2>1, <2>2
<1>4. IsTree(g)
  <2>1. DOMAIN g \subseteq Paths  BY <1>3
  <2>2. g \in [DOMAIN g -> Nodes]  BY <1>2, <1>3
  <2>3. \A q \in DOMAIN g : IsDir(g, Parent(q)) /\ (g[q].open => g[q].kind = "file")
    BY <1>2, <1>3 DEF IsDir
  <2>4. QED  BY <2>1, <2>2, <2>3 DEF IsTree
<1>5. QED  BY <1>2, <1>4

\* The nodes rewritten where they are.
LEMMA RewrittenTree ==
  ASSUME NEW f, IsTree(f), NEW g, g = [q \in DOMAIN f |-> g[q]],
         \A q \in DOMAIN f : g[q] \in Nodes /\ ~g[q].open /\ g[q].kind = f[q].kind
  PROVE  IsTree(g)
<1>1. DOMAIN g = DOMAIN f /\ g \in [DOMAIN g -> Nodes]  OBVIOUS
<1>2. \A q \in DOMAIN g : IsDir(g, Parent(q))
  BY <1>1, TreeNode DEF IsDir
<1>3. QED  BY <1>1, <1>2, TreeNode DEF IsTree

\* So is one whose open file was finished.
LEMMA FinishedIs ==
  ASSUME NEW f, IsTree(f)
  PROVE  /\ IsTree(Finished(f)) /\ DOMAIN Finished(f) = DOMAIN f
         /\ \A q \in DOMAIN f : LET n == Finished(f)[q]
                                IN  ~n.open /\ n.kind = f[q].kind /\ n.data = f[q].data
                                    /\ n.maker = f[q].maker
<1> DEFINE g == Finished(f)
<1>1. g = [q \in DOMAIN f |-> g[q]] /\ \A q \in DOMAIN f : g[q] = [f[q] EXCEPT !.open = FALSE]
  BY DEF Finished
<1> HIDE DEF g
<1>2. ASSUME NEW q \in DOMAIN f
      PROVE  /\ g[q] \in Nodes /\ ~g[q].open /\ g[q].kind = f[q].kind /\ g[q].data = f[q].data
             /\ g[q].maker = f[q].maker
  <2>1. f[q] \in Nodes  BY TreeNode
  <2>2. QED  BY <1>1, <2>1, DoneKeeps
<1>3. IsTree(g)  BY <1>1, <1>2, RewrittenTree
<1>4. QED  BY <1>1, <1>2, <1>3 DEF g

\* So is one whose open file was cut short.
LEMMA CutShortIs ==
  ASSUME NEW f, IsTree(f)
  PROVE  /\ IsTree(CutShort(f)) /\ DOMAIN CutShort(f) = DOMAIN f
         /\ \A q \in DOMAIN f : CutShort(f)[q] = Shut(f[q])
<1> DEFINE g == CutShort(f)
<1>1. /\ g = [q \in DOMAIN f |-> g[q]]
      /\ \A q \in DOMAIN f : g[q] = [f[q] EXCEPT !.open = FALSE, !.data.half = @ \/ f[q].open]
  BY DEF CutShort
<1> HIDE DEF g
<1>2. ASSUME NEW q \in DOMAIN f
      PROVE  g[q] = Shut(f[q]) /\ g[q] \in Nodes /\ ~g[q].open /\ g[q].kind = f[q].kind
  <2>1. f[q] \in Nodes  BY TreeNode
  <2>2. g[q] = Shut(f[q])  BY <1>1, <2>1, ShutIs
  <2>3. QED  BY <2>1, <2>2, ShutKeeps
<1>3. IsTree(g)  BY <1>1, <1>2, RewrittenTree, ZenonT(60)
<1>4. QED  BY <1>1, <1>2, <1>3 DEF g

\* A file cut short was not held in full before either.
LEMMA CutShortWhole ==
  ASSUME NEW f, IsTree(f)
  PROVE  Whole(CutShort(f)) = Whole(f)
<1>1. ASSUME NEW q \in DOMAIN f
      PROVE  /\ Full(CutShort(f)[q]) <=> Full(f[q])
             /\ Full(f[q]) => CutShort(f)[q].data = f[q].data
  <2>1. f[q] \in Nodes  BY TreeNode
  <2>2. CutShort(f)[q] = Shut(f[q])  BY CutShortIs
  <2>3. Full(f[q]) => Shut(f[q]) = f[q]  BY <2>1, ShutKeeps DEF Full
  <2>4. QED  BY <2>1, <2>2, <2>3, ShutKeeps
<1>2. \A x : x \in Whole(CutShort(f)) <=> x \in Whole(f)  BY <1>1, CutShortIs, WholeIs
<1>3. QED  BY <1>2

-----------------------------------------------------------------------------
(* Renames.                                                                *)

\* What a rename moves and where to: below the new name, nothing was.
LEMMA MovedPath ==
  ASSUME NEW f, IsTree(f), NEW from, NEW to, Movable(f, from, to), NEW r \in Below(f, from)
  PROVE  LET q == Rebased(r, from, to)
         IN  /\ r \in DOMAIN f /\ from \in Paths /\ to \in Paths
             /\ q \in Paths /\ q \notin DOMAIN f /\ IsPrefix(to, q) /\ ~IsPrefix(from, q)
             /\ Rebased(q, to, from) = r
             /\ Volume(q) = Volume(r)
             /\ Parent(q) = IF r = from THEN Parent(to) ELSE to
             /\ r # from => Parent(r) = from
<1> DEFINE q == Rebased(r, from, to)
<1>1. /\ r \in DOMAIN f /\ IsPrefix(from, r) /\ from \in DOMAIN f
      /\ Volume(from) = Volume(to) /\ ~IsPrefix(from, to)
      /\ to \in Paths /\ to \notin DOMAIN f /\ IsDir(f, Parent(to)) /\ q \in Paths
  BY DEF Movable, Below, Free
<1>2. r \in Paths /\ from \in Paths  BY <1>1, TreeNode
<1>3. r = from \/ Parent(r) = from  BY <1>1, <1>2, PrefixIs
<1>4. from # to /\ Parent(to) # from  BY <1>1, <1>2, PrefixIs
<1>5. Parent(from) # to
  <2>1. Parent(from) \in Roots \/ Parent(from) \in DOMAIN f  BY <1>1, TreeNode
  <2>2. to \notin Roots  BY <1>1, PathIs
  <2>3. QED  BY <1>1, <2>1, <2>2
<1>6. CASE r = from
  <2>1. q = to  BY <1>1, <1>2, <1>6, RebasedIs
  <2>2. Rebased(to, to, from) = from  BY <1>1, <1>2, RebasedIs
  <2>3. IsPrefix(to, to)  BY <1>1, PrefixIs
  <2>4. QED  BY <1>1, <1>2, <1>6, <2>1, <2>2, <2>3
<1>7. CASE r # from
  <2>1. Parent(r) = from  BY <1>3, <1>7
  <2>2. q = Append(to, Last(r))  BY <1>1, <1>2, <2>1, RebasedIs
  <2>3. Parent(q) = to /\ Last(q) = Last(r)  BY <1>1, <2>2, AppendIs
  <2>4. IsPrefix(to, q)  BY <1>1, <2>3, PrefixIs
  <2>5. q \notin DOMAIN f  BY <1>1, <2>4, NothingBelow
  <2>6. ~IsPrefix(from, q)
    <3>1. q # from  BY <1>1, <2>5
    <3>2. QED  BY <1>1, <1>2, <1>4, <2>3, <3>1, PrefixIs
  <2>7. Rebased(q, to, from) = Append(from, Last(r))  BY <1>1, <1>2, <2>3, RebasedIs
  <2>8. Append(from, Last(r)) = r
    <3>1. r = Append(Front(r), Last(r))
      <4>1. CASE \E v \in Volumes, n \in Names : r = <<v, n>>
        <5>1. Parent(r) \in Roots  BY <4>1, TwoIs DEF Parent, Roots
        <5>2. QED  BY <1>2, <2>1, <5>1, PathIs
      <4>2. CASE \E v \in Volumes, n, m \in Names : r = <<v, n, m>>
        <5>1. PICK v \in Volumes, n \in Names, m \in Names : r = <<v, n, m>>  BY <4>2
        <5>2. Front(r) = <<v, n>> /\ Last(r) = m  BY <5>1, ThreeIs
        <5>3. QED  BY <5>1, <5>2, Append2
      <4>3. QED  BY <1>2, <4>1, <4>2, PathCases
    <3>2. QED  BY <2>1, <3>1 DEF Parent
  <2>9. Volume(q) = Volume(to) /\ Volume(r) = Volume(from)
    BY <1>1, <1>2, <2>1, <2>3, PathIs
  <2>10. QED
    BY <1>1, <1>2, <1>7, <2>1, <2>3, <2>4, <2>5, <2>6, <2>7, <2>8, <2>9
<1>8. QED  BY <1>6, <1>7

\* Every way a rename leaves a tree: the name and what is below it are at the
\* new name too or only, and what stays is as it was.
RenameShape(f, g, from, to, stay) ==
  /\ stay \subseteq DOMAIN f /\ DOMAIN f \ Below(f, from) \subseteq stay
  /\ \A q \in stay : Parent(q) = from => from \in stay
  /\ DOMAIN g = stay \cup {Rebased(r, from, to) : r \in Below(f, from)}
  /\ g = [q \in DOMAIN g |-> g[q]]
  /\ \A q \in stay : g[q] = f[q]
  /\ \A r \in Below(f, from) : g[Rebased(r, from, to)] \in {f[r], Shut(f[r])}

\* A rename moves a branch of the tree as it is.
LEMMA RenamedIs ==
  ASSUME NEW f, IsTree(f), NEW from, NEW to, Movable(f, from, to)
  PROVE  RenameShape(f, Renamed(f, from, to), from, to, DOMAIN f \ Below(f, from))
<1> DEFINE g == Renamed(f, from, to)
           E == Erased(f, from)
           M == {Rebased(r, from, to) : r \in Below(f, from)}
           S == DOMAIN f \ Below(f, from)
<1>1. from \in Paths  BY TreeNode DEF Movable
<1>2. DOMAIN E = S /\ \A q \in S : E[q] = f[q]
  BY DEF Erased, Restrict
<1>3. S \cap M = {}
  BY MovedPath
<1>4. g = [q \in S \cup M |-> IF q \in S THEN E[q] ELSE f[Rebased(q, to, from)]]
  <2> DEFINE h == [q \in M |-> f[Rebased(q, to, from)]]
  <2>1. g = [q \in DOMAIN E \cup DOMAIN h |-> IF q \in DOMAIN E THEN E[q] ELSE h[q]]
    BY DEF Renamed, Joined
  <2>2. DOMAIN h = M /\ \A q \in M : h[q] = f[Rebased(q, to, from)]  OBVIOUS
  <2> HIDE DEF h, M, S, E
  <2>3. QED  BY <1>2, <2>1, <2>2
<1>5. \A q \in S : g[q] = f[q]  BY <1>2, <1>4
<1>6. ASSUME NEW r \in Below(f, from)
      PROVE  g[Rebased(r, from, to)] = f[r]
  <2>1. Rebased(r, from, to) \in M  OBVIOUS
  <2>2. Rebased(r, from, to) \notin S  BY <1>3, <2>1
  <2>3. Rebased(Rebased(r, from, to), to, from) = r  BY MovedPath
  <2> HIDE DEF M, S, g
  <2>4. QED  BY <1>4, <2>1, <2>2, <2>3
<1>7. \A q \in S : Parent(q) # from
  <2> SUFFICES ASSUME NEW q \in S, Parent(q) = from PROVE FALSE  OBVIOUS
  <2>1. q \in Paths /\ q \in DOMAIN f  BY TreeNode
  <2>2. IsPrefix(from, q)  BY <1>1, <2>1, PrefixIs
  <2>3. QED  BY <2>1, <2>2 DEF Below
<1> HIDE DEF M, g
<1>8. DOMAIN g = S \cup M /\ g = [q \in DOMAIN g |-> g[q]]  BY <1>4
<1>9. QED  BY <1>5, <1>6, <1>7, <1>8 DEF RenameShape, g, M

\* A copy in place of a rename leaves the source where it was.
LEMMA CopiedOverIs ==
  ASSUME NEW f, IsTree(f), NEW from, NEW to, Movable(f, from, to)
  PROVE  RenameShape(f, CopiedOver(f, from, to), from, to, DOMAIN f)
<1> DEFINE g == CopiedOver(f, from, to)
           M == {Rebased(r, from, to) : r \in Below(f, from)}
           c(q) == [f[Rebased(q, to, from)] EXCEPT !.data.half = @ \/ f[Rebased(q, to, from)].open,
                                                   !.open = FALSE]
           h == [q \in M |-> c(q)]
<1>1. g = [q \in DOMAIN f \cup DOMAIN h |-> IF q \in DOMAIN f THEN f[q] ELSE h[q]]
  BY DEF CopiedOver, Joined
<1>2. DOMAIN h = M /\ \A q \in M : h[q] = c(q)  OBVIOUS
<1>3. M \cap DOMAIN f = {}  BY MovedPath
<1>4. ASSUME NEW r \in Below(f, from)
      PROVE  c(Rebased(r, from, to)) = Shut(f[r])
  <2>1. Rebased(Rebased(r, from, to), to, from) = r /\ r \in DOMAIN f  BY MovedPath
  <2>2. f[r] \in Nodes  BY <2>1, TreeNode
  <2>3. QED  BY <2>1, <2>2, ShutIs
<1>5. \A r \in Below(f, from) : Rebased(r, from, to) \in M  OBVIOUS
<1> HIDE DEF M, h, g, c
<1>6. DOMAIN g = DOMAIN f \cup M /\ g = [q \in DOMAIN g |-> g[q]]  BY <1>1, <1>2
<1>7. \A q \in DOMAIN f : g[q] = f[q]  BY <1>1
<1>8. \A r \in Below(f, from) : g[Rebased(r, from, to)] = Shut(f[r])
  BY <1>1, <1>2, <1>3, <1>4, <1>5
<1>9. from \in DOMAIN f  BY DEF Movable
<1>10. QED  BY <1>6, <1>7, <1>8, <1>9 DEF RenameShape, g, M

\* The source of a finished copy, erased all or in part.
LEMMA ErasedShape ==
  ASSUME NEW f, IsTree(f), NEW g, NEW from, NEW to, Movable(f, from, to),
         RenameShape(f, g, from, to, DOMAIN f), NEW D,
         D \subseteq Below(f, from), from \in D => Below(f, from) \subseteq D
  PROVE  RenameShape(f, Restrict(g, DOMAIN g \ D), from, to, DOMAIN f \ D)
<1> DEFINE M == {Rebased(r, from, to) : r \in Below(f, from)}
           h == Restrict(g, DOMAIN g \ D)
<1>1. M \cap DOMAIN f = {}  BY MovedPath
<1>2. DOMAIN g = DOMAIN f \cup M  BY DEF RenameShape
<1>3. D \subseteq DOMAIN f  BY DEF Below
<1>4. \A r \in Below(f, from) : Rebased(r, from, to) \in M  OBVIOUS
<1>5. DOMAIN h = DOMAIN g \ D /\ h = [q \in DOMAIN h |-> h[q]]
      /\ \A q \in DOMAIN h : h[q] = g[q]
  BY DEF Restrict
<1> HIDE DEF M, h
<1>6. DOMAIN h = (DOMAIN f \ D) \cup M  BY <1>1, <1>2, <1>3, <1>5
<1>7. \A q \in DOMAIN f \ D : h[q] = f[q]  BY <1>5, <1>6 DEF RenameShape
<1>8. \A r \in Below(f, from) : h[Rebased(r, from, to)] \in {f[r], Shut(f[r])}
  BY <1>4, <1>5, <1>6 DEF RenameShape
<1>9. \A q \in DOMAIN f \ D : Parent(q) = from => from \in DOMAIN f \ D
  <2> SUFFICES ASSUME NEW q \in DOMAIN f \ D, Parent(q) = from PROVE from \notin D
    BY DEF Movable
  <2>1. q \in Paths /\ from \in Paths  BY TreeNode DEF Movable
  <2>2. q \in Below(f, from)  BY <2>1, PrefixIs DEF Below
  <2>3. QED  BY <2>2
<1>10. QED  BY <1>5, <1>6, <1>7, <1>8, <1>9 DEF RenameShape, h, M

\* Such a copy makes nothing below its source.
LEMMA BelowCopied ==
  ASSUME NEW f, IsTree(f), NEW g, NEW from, NEW to, Movable(f, from, to),
         RenameShape(f, g, from, to, DOMAIN f)
  PROVE  Below(g, from) = Below(f, from)
<1> DEFINE M == {Rebased(r, from, to) : r \in Below(f, from)}
<1>1. \A q \in M : ~IsPrefix(from, q)  BY MovedPath
<1>2. DOMAIN g = DOMAIN f \cup M  BY DEF RenameShape
<1> HIDE DEF M
<1>3. QED  BY <1>1, <1>2 DEF Below

\* Either way rename_path goes, the branch is under its new name.
LEMMA RenamePathIs ==
  ASSUME NEW f, IsTree(f), NEW from, NEW to, Movable(f, from, to)
  PROVE  \E stay : RenameShape(f, RenamePath(f, from, to), from, to, stay)
<1>1. CASE ~RefusesRename(f, from)  BY <1>1, RenamedIs DEF RenamePath
<1>2. CASE RefusesRename(f, from)
  <2> DEFINE g == CopiedOver(f, from, to)
  <2>1. RenameShape(f, g, from, to, DOMAIN f)  BY CopiedOverIs
  <2>2. Below(g, from) = Below(f, from)  BY <2>1, BelowCopied
  <2>3. RenamePath(f, from, to) = Restrict(g, DOMAIN g \ Below(f, from))
    BY <1>2, <2>2 DEF RenamePath, Erased
  <2> HIDE DEF g
  <2>4. RenameShape(f, Restrict(g, DOMAIN g \ Below(f, from)), from, to,
                    DOMAIN f \ Below(f, from))
    BY <2>1, ErasedShape
  <2>5. QED  BY <2>3, <2>4
<1>3. QED  BY <1>1, <1>2

\* So is it when the removal of the source failed partway.
LEMMA KeptIs ==
  ASSUME NEW f, IsTree(f), NEW from, NEW to, Movable(f, from, to), NEW keep
  PROVE  \E stay : RenameShape(f, Kept(f, from, to, keep), from, to, stay)
<1> DEFINE g == CopiedOver(f, from, to)
           D == (Below(f, from) \ {from}) \ keep
<1>1. RenameShape(f, g, from, to, DOMAIN f)  BY CopiedOverIs
<1>2. Below(g, from) = Below(f, from)  BY <1>1, BelowCopied
<1>3. Kept(f, from, to, keep) = Restrict(g, DOMAIN g \ D)
  BY <1>2 DEF Kept, PartlyErased, Under
<1>4. D \subseteq Below(f, from) /\ from \notin D  OBVIOUS
<1> HIDE DEF g, D
<1>5. RenameShape(f, Restrict(g, DOMAIN g \ D), from, to, DOMAIN f \ D)
  BY <1>1, <1>4, ErasedShape
<1>6. QED  BY <1>3, <1>5

-----------------------------------------------------------------------------
(* What a change touches.                                                  *)

\* What a change to the tree does to the contents held, given those it touched:
\* nothing else is made or lost, and nothing is opened.
Touches(f, g, contents) ==
  /\ \A q \in DOMAIN g : Full(g[q]) =>
       g[q].data \in contents \/ (q \in DOMAIN f /\ Full(f[q]) /\ f[q].data = g[q].data)
  /\ \A q \in DOMAIN f : Full(f[q]) =>
       f[q].data \in contents \/ (q \in DOMAIN g /\ Full(g[q]) /\ g[q].data = f[q].data)

\* No file is open that was not.
OpensFrom(f, g) ==
  \A q \in DOMAIN g : g[q].open =>
    \E r \in DOMAIN f : f[r].open /\ f[r].data = g[q].data /\ Volume(r) = Volume(q)

\* What the names of a moved branch hold.
LEMMA ShapeNodes ==
  ASSUME NEW f, IsTree(f), NEW g, NEW from, NEW to, Movable(f, from, to), NEW stay,
         RenameShape(f, g, from, to, stay)
  PROVE  /\ \A q \in stay : q \in DOMAIN g /\ q \in DOMAIN f /\ g[q] = f[q]
         /\ \A r \in Below(f, from) :
              LET q == Rebased(r, from, to)
              IN  /\ r \in DOMAIN f /\ q \in DOMAIN g /\ Volume(q) = Volume(r)
                  /\ g[q] \in Nodes /\ g[q].kind = f[r].kind /\ (g[q].open => g[q] = f[r])
                  /\ (Full(g[q]) <=> Full(f[r]))
                  /\ (Full(f[r]) => g[q].data = f[r].data)
         /\ \A q \in DOMAIN g : q \in stay \/ \E r \in Below(f, from) : q = Rebased(r, from, to)
<1>1. \A q \in stay : q \in DOMAIN g /\ q \in DOMAIN f /\ g[q] = f[q]  BY DEF RenameShape
<1>2. ASSUME NEW r \in Below(f, from)
      PROVE  LET q == Rebased(r, from, to)
             IN  /\ r \in DOMAIN f /\ q \in DOMAIN g /\ Volume(q) = Volume(r)
                  /\ g[q] \in Nodes /\ g[q].kind = f[r].kind /\ (g[q].open => g[q] = f[r])
                  /\ (Full(g[q]) <=> Full(f[r]))
                  /\ (Full(f[r]) => g[q].data = f[r].data)
  <2> DEFINE q == Rebased(r, from, to)
  <2>1. r \in DOMAIN f /\ Volume(q) = Volume(r)  BY MovedPath
  <2>2. q \in DOMAIN g /\ g[q] \in {f[r], Shut(f[r])}  BY DEF RenameShape
  <2>3. f[r] \in Nodes  BY <2>1, TreeNode
  <2>4. Full(f[r]) => Shut(f[r]) = f[r]  BY <2>3, ShutKeeps DEF Full
  <2> HIDE DEF q
  <2> DEFINE m == g[q]
  <2>5. m = f[r] \/ m = Shut(f[r])  BY <2>2
  <2> HIDE DEF m
  <2>6. /\ m \in Nodes /\ m.kind = f[r].kind /\ (m.open => m = f[r])
        /\ (Full(m) <=> Full(f[r])) /\ (Full(f[r]) => m.data = f[r].data)
    <3>1. CASE m = f[r]  BY <2>3, <3>1
    <3>2. CASE m = Shut(f[r])  BY <2>3, <2>4, <3>2, ShutKeeps
    <3>3. QED  BY <2>5, <3>1, <3>2
  <2>7. QED  BY <2>1, <2>2, <2>6 DEF q, m
<1>3. \A q \in DOMAIN g : q \in stay \/ \E r \in Below(f, from) : q = Rebased(r, from, to)
  BY DEF RenameShape
<1>4. QED  BY <1>1, <1>2, <1>3

\* A tree with a branch moved is a tree.
LEMMA ShapeTree ==
  ASSUME NEW f, IsTree(f), NEW g, NEW from, NEW to, Movable(f, from, to), NEW stay,
         RenameShape(f, g, from, to, stay)
  PROVE  IsTree(g)
<1>1. /\ from \in DOMAIN f /\ from \in Paths /\ to \in Paths /\ ~IsPrefix(from, to)
      /\ IsDir(f, Parent(to)) /\ from \in Below(f, from)
  <2>1. from \in Paths  BY TreeNode DEF Movable
  <2>2. QED  BY <2>1, PrefixIs DEF Movable, Free, Below
<1>2. /\ DOMAIN f \ Below(f, from) \subseteq stay
      /\ \A q \in stay : Parent(q) = from => from \in stay
      /\ g = [q \in DOMAIN g |-> g[q]]
  BY DEF RenameShape
\* A directory outside the one moved stays one.
<1>3. ASSUME NEW p \in DOMAIN f, f[p].kind = "dir", p \in stay
      PROVE  IsDir(g, p)
  BY <1>3, ShapeNodes DEF IsDir
<1>4. ASSUME NEW q \in stay
      PROVE  /\ q \in Paths /\ g[q] \in Nodes /\ (g[q].open => g[q].kind = "file")
             /\ IsDir(g, Parent(q))
  <2>1. q \in DOMAIN f /\ g[q] = f[q]  BY ShapeNodes
  <2>2. /\ q \in Paths /\ f[q] \in Nodes /\ (f[q].open => f[q].kind = "file")
        /\ Parent(q) \in Roots \/ (Parent(q) \in DOMAIN f /\ f[Parent(q)].kind = "dir")
    BY <2>1, TreeNode
  <2>3. CASE Parent(q) \in DOMAIN f /\ f[Parent(q)].kind = "dir"
    <3>1. Parent(q) \in Paths  BY <2>3, TreeNode
    <3>2. Parent(q) \in Below(f, from) => Parent(q) = from
      BY <1>1, <2>2, <3>1, TwoLevels, PrefixIs DEF Below
    <3>3. Parent(q) \in stay  BY <1>2, <2>3, <3>2
    <3>4. QED  BY <1>3, <2>1, <2>2, <2>3, <3>3
  <2>4. QED  BY <2>1, <2>2, <2>3 DEF IsDir
<1>5. ASSUME NEW r \in Below(f, from)
      PROVE  LET q == Rebased(r, from, to)
             IN  /\ q \in Paths /\ g[q] \in Nodes /\ (g[q].open => g[q].kind = "file")
                 /\ IsDir(g, Parent(q))
  <2> DEFINE q == Rebased(r, from, to)
  <2>1. /\ q \in Paths /\ Parent(q) = (IF r = from THEN Parent(to) ELSE to)
        /\ r \in DOMAIN f /\ (r # from => Parent(r) = from)
    BY MovedPath
  <2>2. g[q] \in Nodes /\ (g[q].open => g[q].kind = "file")
    <3>1. g[q] \in Nodes /\ (g[q].open => g[q] = f[r])  BY ShapeNodes
    <3>2. f[r].open => f[r].kind = "file"  BY <2>1, TreeNode
    <3>3. QED  BY <3>1, <3>2
  <2>3. IsDir(g, Parent(q))
    <3>1. CASE r = from
      <4>1. CASE Parent(to) \in Roots  BY <2>1, <3>1, <4>1 DEF IsDir
      <4>2. CASE Parent(to) \in DOMAIN f /\ f[Parent(to)].kind = "dir"
        <5>1. Parent(to) \in Paths  BY <4>2, TreeNode
        <5>2. ~IsPrefix(from, Parent(to))  BY <1>1, <5>1, TwoLevels, PrefixIs
        <5>3. Parent(to) \in stay  BY <1>2, <4>2, <5>2 DEF Below
        <5>4. IsDir(g, Parent(to))  BY <1>3, <4>2, <5>3
        <5>5. QED  BY <2>1, <3>1, <5>4
      <4>3. QED  BY <1>1, <4>1, <4>2 DEF IsDir
    <3>2. CASE r # from
      <4>1. Parent(r) = from /\ Parent(q) = to  BY <2>1, <3>2
      <4>2. from \notin Roots  BY <1>1, PathIs
      <4>3. f[from].kind = "dir"  BY <2>1, <4>1, <4>2, TreeNode
      <4>4. Rebased(from, from, to) = to  BY <1>1, RebasedIs
      <4>5. to \in DOMAIN g /\ g[to].kind = "dir"  BY <1>1, <4>3, <4>4, ShapeNodes
      <4>6. QED  BY <4>1, <4>5 DEF IsDir
    <3>3. QED  BY <3>1, <3>2
  <2>4. QED  BY <2>1, <2>2, <2>3
<1>6. \A q \in DOMAIN g : /\ q \in Paths /\ g[q] \in Nodes /\ (g[q].open => g[q].kind = "file")
                          /\ IsDir(g, Parent(q))
  BY <1>4, <1>5, ShapeNodes
<1>7. g \in [DOMAIN g -> Nodes]  BY <1>2, <1>6
<1>8. QED  BY <1>6, <1>7 DEF IsTree

\* A move touches only what is in the branch it moves.
LEMMA ShapeKeeps ==
  ASSUME NEW f, IsTree(f), NEW g, NEW from, NEW to, Movable(f, from, to), NEW stay,
         RenameShape(f, g, from, to, stay)
  PROVE  /\ IsTree(g) /\ Whole(f) \subseteq Whole(g) /\ OpensFrom(f, g)
         /\ Touches(f, g, Whole(Subtree(f, from)))
<1> DEFINE C == Whole(Subtree(f, from))
<1>1. \A q \in DOMAIN f : q \in stay \/ q \in Below(f, from)  BY DEF RenameShape
<1>2. ASSUME NEW r \in Below(f, from), Full(f[r])
      PROVE  f[r].data \in C
  <2>1. DOMAIN Subtree(f, from) = Below(f, from) /\ Subtree(f, from)[r] = f[r]
    BY DEF Subtree, Restrict
  <2>2. QED  BY <1>2, <2>1, WholeIs
<1>3. Whole(f) \subseteq Whole(g)
  <2> SUFFICES ASSUME NEW q \in DOMAIN f, Full(f[q]) PROVE f[q].data \in Whole(g)
    BY WholeIs
  <2>1. CASE q \in stay  BY <2>1, ShapeNodes, WholeIs
  <2>2. CASE q \in Below(f, from)
    <3>1. /\ Rebased(q, from, to) \in DOMAIN g /\ Full(g[Rebased(q, from, to)])
          /\ g[Rebased(q, from, to)].data = f[q].data
      BY <2>2, ShapeNodes
    <3>2. QED  BY <3>1, WholeIs
  <2>3. QED  BY <1>1, <2>1, <2>2
<1>4. OpensFrom(f, g)
  <2> SUFFICES ASSUME NEW q \in DOMAIN g, g[q].open
               PROVE  \E r \in DOMAIN f : f[r].open /\ f[r].data = g[q].data /\ Volume(r) = Volume(q)
    BY DEF OpensFrom
  <2>1. CASE q \in stay  BY <2>1, ShapeNodes
  <2>2. CASE \E r \in Below(f, from) : q = Rebased(r, from, to)  BY <2>2, ShapeNodes
  <2>3. QED  BY <2>1, <2>2, ShapeNodes
<1> HIDE DEF C
<1>5. ASSUME NEW q \in DOMAIN g, Full(g[q])
      PROVE  g[q].data \in C \/ (q \in DOMAIN f /\ Full(f[q]) /\ f[q].data = g[q].data)
  <2>1. CASE q \in stay  BY <1>5, <2>1, ShapeNodes
  <2>2. CASE \E r \in Below(f, from) : q = Rebased(r, from, to)
    <3>1. PICK r \in Below(f, from) : q = Rebased(r, from, to)  BY <2>2
    <3>2. Full(f[r]) /\ g[q].data = f[r].data  BY <1>5, <3>1, ShapeNodes
    <3>3. QED  BY <1>2, <3>2
  <2>3. QED  BY <2>1, <2>2, ShapeNodes
<1>6. ASSUME NEW q \in DOMAIN f, Full(f[q])
      PROVE  f[q].data \in C \/ (q \in DOMAIN g /\ Full(g[q]) /\ g[q].data = f[q].data)
  <2>1. CASE q \in stay  BY <1>6, <2>1, ShapeNodes
  <2>2. CASE q \in Below(f, from)  BY <1>2, <1>6, <2>2
  <2>3. QED  BY <1>1, <2>1, <2>2
<1>7. QED  BY <1>3, <1>4, <1>5, <1>6, ShapeTree DEF Touches, C

\* A name made: nothing else changes.
LEMMA PutKeeps ==
  ASSUME NEW f, IsTree(f), NEW p, Free(f, p), NEW n \in Nodes, FileOnly(n),
         NEW g, g = Put(f, p, n), NEW contents, Full(n) => n.data \in contents
  PROVE  /\ IsTree(g) /\ Whole(f) \subseteq Whole(g) /\ Touches(f, g, contents)
         /\ ~n.open => OpensFrom(f, g)
<1>1. /\ IsTree(g) /\ DOMAIN g = DOMAIN f \cup {p} /\ g[p] = n
      /\ \A q \in DOMAIN f : q # p /\ g[q] = f[q]
  BY PutIs
<1>2. Whole(f) \subseteq Whole(g)  BY <1>1, WholeIs
<1>3. Touches(f, g, contents)  BY <1>1 DEF Touches
<1>4. ~n.open => OpensFrom(f, g)  BY <1>1 DEF OpensFrom
<1>5. QED  BY <1>1, <1>2, <1>3, <1>4

\* A tree taken from another by dropping names.
LEMMA FewerKeeps ==
  ASSUME NEW f, NEW g, DOMAIN g \subseteq DOMAIN f, \A q \in DOMAIN g : g[q] = f[q]
  PROVE  OpensFrom(f, g) /\ Whole(g) \subseteq Whole(f)
<1>1. OpensFrom(f, g)  BY DEF OpensFrom
<1>2. Whole(g) \subseteq Whole(f)  BY WholeIs
<1>3. QED  BY <1>1, <1>2

\* Opening nothing composes.
LEMMA OpensChain ==
  ASSUME NEW f, NEW g, NEW h, OpensFrom(f, g), OpensFrom(g, h)
  PROVE  OpensFrom(f, h)
  BY DEF OpensFrom

-----------------------------------------------------------------------------
(* The invariant.                                                          *)

\* One name and what is below it, out of the tree it was in.
IsBranch(t, top) ==
  /\ top \in Paths /\ DOMAIN t \subseteq Below(t, top)
  /\ DOMAIN t \subseteq Paths /\ t \in [DOMAIN t -> Nodes]
  /\ \A q \in DOMAIN t : ~t[q].open /\ (q = top \/ IsDir(t, Parent(q)))

\* Every entry of the trash is a branch with a uri.
TrashIs(t) == \A e \in t : e.uri \in Nat /\ IsBranch(e.tree, e.original)

TrashRight == TrashIs(trash)

\* The steps a journal entry may have.
Steps ==
  [step : {"moved"}, from : Paths, to : Paths]
    \cup [step : {"created", "madedir"}, path : Paths]
    \cup [step : {"trashed"}, uri : Nat]

\* The journal is a sequence of entries of such steps.
JournalRight ==
  /\ journal \in Seq(Range(journal))
  /\ \A i \in DOMAIN journal : journal[i].steps \in Seq(Steps)

\* The fields of an operation.
Fields == {"kind", "id", "items", "dest", "at", "stage", "target", "tree", "todo", "listed",
           "steps", "cancelled", "start", "quiet", "late", "named"}

\* The operation is one, at one of its stages.
OpRight ==
  op # NoOp =>
    /\ DOMAIN op = Fields
    /\ op.kind \in {"copy", "move", "duplicate", "trash"}
    /\ op.stage \in IF op.kind = "trash" THEN {"next", "check"}
                                         ELSE {"next", "writing", "entries"}
    /\ op.id \in Nat
    /\ op.items \in Seq(Paths)
    /\ op.at \in Nat \ {0}
    /\ op.steps \in Seq(Steps)

\* Inside an item: what it copies and where to.
InItem == op # NoOp /\ op.stage \in {"writing", "entries"}

\* It copies an item of its batch; a move copies to another volume, and what is
\* still to be copied is in the source.
ItemRight ==
  InItem =>
    /\ op.at \in DOMAIN op.items
    /\ op.target \in Paths
    /\ op.kind = "move" => Volume(op.target) # Volume(Source)
    /\ \A x \in op.todo : x \in Paths /\ Parent(x) = Source

\* A file is open only while the operation writes it, in the target's volume.
OpensRight ==
  \A q \in DOMAIN fs :
    fs[q].open => op # NoOp /\ op.stage = "writing" /\ Volume(q) = Volume(op.target)

\* What the target holds another name outside it holds in full, or a request
\* touched it: the partial can be removed.
TargetKept ==
  InItem =>
    \A q \in DOMAIN fs :
      Good(fs[q]) /\ (fs[q].open \/ IsPrefix(op.target, q)) =>
        \/ fs[q].data \in op.late
        \/ \E r \in DOMAIN fs : ~IsPrefix(op.target, r) /\ Full(fs[r]) /\ fs[r].data = fs[q].data

\* What the source of a move holds and is not still to be copied is outside it,
\* or a request touched it: the source can be removed once all is copied.
SourceKept ==
  InItem /\ op.kind = "move" =>
    \A q \in DOMAIN fs :
      IsPrefix(Source, q) /\ Full(fs[q]) =>
        \/ q \in op.todo
        \/ fs[q].data \in op.late
        \/ \E r \in DOMAIN fs : ~IsPrefix(Source, r) /\ Good(fs[r]) /\ fs[r].data = fs[q].data

\* The inductive invariant: nothing an operation may yet remove is the last copy.
FInv ==
  /\ IsTree(fs) /\ serial \in Nat
  /\ TrashRight /\ JournalRight /\ OpRight /\ ItemRight /\ OpensRight
  /\ TargetKept /\ SourceKept

\* What no step but an undo may lose.
ContentStep == Lost = {} \/ Undoing \/ (op # NoOp /\ Lost \subseteq op.late)

\* NoOp is no operation.
LEMMA NoOpIs == DOMAIN NoOp = {"kind"} /\ NoOp.kind = "none"
  BY DEF NoOp

\* An operation is not NoOp.
LEMMA OpIs ==
  ASSUME NEW o, DOMAIN o = Fields
  PROVE  o # NoOp
<1>1. "id" \in DOMAIN o  BY DEF Fields
<1>2. QED  BY <1>1, NoOpIs

\* A step that keeps every content it finds.
LEMMA NothingLost ==
  ASSUME trash' = trash, Whole(fs) \subseteq Whole(fs')
  PROVE  ContentStep
  BY DEF ContentStep, Lost, Held

\* A step that leaves the trash alone loses what the files lose.
LEMMA LostIs ==
  ASSUME trash' = trash
  PROVE  Lost \subseteq Whole(fs) \ Whole(fs')
  BY DEF Lost, Held

\* Nothing is open outside the writing of a file.
LEMMA NoneOpen ==
  ASSUME OpensRight, op = NoOp \/ op.stage # "writing"
  PROVE  \A q \in DOMAIN fs : ~fs[q].open
  BY DEF OpensRight

\* A step that leaves the files and the item's account as they were.
SameItem ==
  /\ fs' = fs /\ trash' = trash /\ journal' = journal /\ serial' = serial
  /\ op # NoOp => /\ op' # NoOp /\ DOMAIN op' = DOMAIN op
                  /\ op'.kind = op.kind /\ op'.stage = op.stage /\ op'.id = op.id
                  /\ op'.items = op.items /\ op'.at = op.at /\ op'.steps = op.steps
                  /\ op'.target = op.target /\ op'.todo = op.todo /\ op'.late = op.late
  /\ op = NoOp => op' = NoOp

\* Such a step keeps the invariant.
LEMMA SameItemKeeps ==
  ASSUME FInv, SameItem
  PROVE  FInv' /\ ContentStep
<1>1. IsTree(fs)' /\ (serial \in Nat)' /\ TrashRight' /\ JournalRight' /\ ContentStep
  BY NothingLost DEF FInv, SameItem, TrashRight, JournalRight
<1>2. CASE op = NoOp
  <2>1. op' = NoOp /\ \A q \in DOMAIN fs' : ~fs'[q].open
    BY <1>2, NoneOpen DEF SameItem, FInv
  <2>2. OpRight' /\ ItemRight' /\ OpensRight' /\ TargetKept' /\ SourceKept'
    BY <2>1 DEF OpRight, ItemRight, OpensRight, TargetKept, SourceKept, InItem
  <2>3. QED  BY <1>1, <2>2 DEF FInv
<1>3. CASE op # NoOp
  <2>1. /\ op' # NoOp /\ DOMAIN op' = DOMAIN op
        /\ op'.kind = op.kind /\ op'.stage = op.stage /\ op'.id = op.id
        /\ op'.items = op.items /\ op'.at = op.at /\ op'.steps = op.steps
        /\ op'.target = op.target /\ op'.todo = op.todo /\ op'.late = op.late /\ fs' = fs
    BY <1>3 DEF SameItem
  <2>2. Source' = Source /\ (InItem' <=> InItem)  BY <1>3, <2>1 DEF Source, InItem
  <2>3. OpRight'  BY <1>3, <2>1 DEF FInv, OpRight
  <2>4. ItemRight'  BY <2>1, <2>2 DEF FInv, ItemRight
  <2>5. OpensRight'  BY <1>3, <2>1 DEF FInv, OpensRight
  <2>6. TargetKept'  BY <2>1, <2>2 DEF FInv, TargetKept
  <2>7. SourceKept'  BY <2>1, <2>2 DEF FInv, SourceKept
  <2>8. QED  BY <1>1, <2>3, <2>4, <2>5, <2>6, <2>7 DEF FInv
<1>4. QED  BY <1>2, <1>3

\* The operation as a request disturbs it: the same item, and an account that
\* grows by what was touched and by what was being written and is not now.
LEMMA DisturbedFields ==
  ASSUME OpRight, op # NoOp, NEW contents, op' = Disturbed(contents)
  PROVE  /\ op' # NoOp /\ DOMAIN op' = Fields
         /\ op'.kind = op.kind /\ op'.stage = op.stage /\ op'.id = op.id
         /\ op'.items = op.items /\ op'.at = op.at /\ op'.steps = op.steps
         /\ op'.target = op.target /\ op'.todo = op.todo
         /\ op.late \subseteq op'.late /\ contents \subseteq op'.late
         /\ \A q \in DOMAIN fs : fs[q].open =>
              \/ fs[q].data \in op'.late
              \/ \E r \in DOMAIN fs' : fs'[r].open /\ fs'[r].data = fs[q].data
<1> DEFINE was == {fs[q].data : q \in {r \in DOMAIN fs : fs[r].open}}
           is == {fs'[q].data : q \in {r \in DOMAIN fs' : fs'[r].open}}
           l == op.late \cup contents \cup (was \ is)
<1>1. op' = [op EXCEPT !.quiet = FALSE, !.late = l]  BY DEF Disturbed
<1>2. DOMAIN op = Fields  BY DEF OpRight
<1>3. \A q \in DOMAIN fs : fs[q].open => fs[q].data \in was  OBVIOUS
<1>4. \A x \in is : \E r \in DOMAIN fs' : fs'[r].open /\ fs'[r].data = x  OBVIOUS
<1> HIDE DEF was, is
<1>5. op.late \subseteq l /\ contents \subseteq l /\ was \ is \subseteq l  OBVIOUS
<1> HIDE DEF l
<1>6. /\ DOMAIN op' = Fields
      /\ op'.kind = op.kind /\ op'.stage = op.stage /\ op'.id = op.id
      /\ op'.items = op.items /\ op'.at = op.at /\ op'.steps = op.steps
      /\ op'.target = op.target /\ op'.todo = op.todo /\ op'.late = l
  BY <1>1, <1>2 DEF Fields
<1>7. op' # NoOp  BY <1>6, OpIs
<1>8. QED  BY <1>3, <1>4, <1>5, <1>6, <1>7

\* A request that says what it touched keeps the item's account.
LEMMA LoopKeepsItem ==
  ASSUME FInv, IsTree(fs'), OpensFrom(fs, fs'), NEW contents, Touches(fs, fs', contents),
         op' = Disturbed(contents)
  PROVE  OpRight' /\ ItemRight' /\ OpensRight' /\ TargetKept' /\ SourceKept'
<1>1. CASE op = NoOp
  <2>1. op' = NoOp  BY <1>1 DEF Disturbed
  <2>2. \A q \in DOMAIN fs : ~fs[q].open  BY <1>1, NoneOpen DEF FInv
  <2>3. \A q \in DOMAIN fs' : ~fs'[q].open  BY <2>2 DEF OpensFrom
  <2>4. QED  BY <2>1, <2>3 DEF OpRight, ItemRight, OpensRight, TargetKept, SourceKept, InItem
<1>2. CASE op # NoOp
  <2>1. /\ op' # NoOp /\ DOMAIN op' = Fields
        /\ op'.kind = op.kind /\ op'.stage = op.stage /\ op'.id = op.id
        /\ op'.items = op.items /\ op'.at = op.at /\ op'.steps = op.steps
        /\ op'.target = op.target /\ op'.todo = op.todo
        /\ op.late \subseteq op'.late /\ contents \subseteq op'.late
        /\ \A q \in DOMAIN fs : fs[q].open =>
             \/ fs[q].data \in op'.late
             \/ \E r \in DOMAIN fs' : fs'[r].open /\ fs'[r].data = fs[q].data
    BY <1>2, DisturbedFields DEF FInv
  <2>2. Source' = Source /\ (InItem' <=> InItem)  BY <1>2, <2>1 DEF Source, InItem
  <2>3. OpRight'  BY <1>2, <2>1 DEF FInv, OpRight
  <2>4. ItemRight'  BY <2>1, <2>2 DEF FInv, ItemRight
  <2>5. OpensRight'  BY <1>2, <2>1 DEF FInv, OpensRight, OpensFrom
  <2>6. TargetKept'
    <3> SUFFICES ASSUME InItem, NEW q \in DOMAIN fs', Good(fs'[q]),
                        fs'[q].open \/ IsPrefix(op.target, q)
                 PROVE  \/ fs'[q].data \in op'.late
                        \/ \E r \in DOMAIN fs' :
                             ~IsPrefix(op.target, r) /\ Full(fs'[r]) /\ fs'[r].data = fs'[q].data
      BY <2>1, <2>2 DEF TargetKept
    <3>1. \/ fs'[q].data \in contents
          \/ \E r \in DOMAIN fs : /\ Good(fs[r]) /\ fs[r].data = fs'[q].data
                                  /\ fs[r].open \/ IsPrefix(op.target, r)
      <4>1. CASE fs'[q].open
        <5>1. PICK r \in DOMAIN fs : fs[r].open /\ fs[r].data = fs'[q].data
          BY <4>1 DEF OpensFrom
        <5>2. Good(fs[r])  BY <5>1, TreeNode DEF FInv, Good
        <5>3. QED  BY <5>1, <5>2
      <4>2. CASE ~fs'[q].open
        <5>1. Full(fs'[q]) /\ IsPrefix(op.target, q)  BY <4>2 DEF Full, Good
        <5>2. QED  BY <5>1 DEF Touches, Full, Good
      <4>3. QED  BY <4>1, <4>2
    <3>2. ASSUME NEW r \in DOMAIN fs, Good(fs[r]), fs[r].data = fs'[q].data,
                 fs[r].open \/ IsPrefix(op.target, r)
          PROVE  \/ fs'[q].data \in op'.late
                 \/ \E s \in DOMAIN fs' :
                      ~IsPrefix(op.target, s) /\ Full(fs'[s]) /\ fs'[s].data = fs'[q].data
      <4>1. \/ fs[r].data \in op.late
            \/ \E s \in DOMAIN fs : ~IsPrefix(op.target, s) /\ Full(fs[s]) /\ fs[s].data = fs[r].data
        BY <3>2 DEF FInv, TargetKept
      <4>2. CASE fs[r].data \in op.late  BY <2>1, <3>2, <4>2
      <4>3. CASE \E s \in DOMAIN fs :
                   ~IsPrefix(op.target, s) /\ Full(fs[s]) /\ fs[s].data = fs[r].data
        BY <2>1, <3>2, <4>3 DEF Touches
      <4>4. QED  BY <4>1, <4>2, <4>3
    <3>3. QED  BY <2>1, <3>1, <3>2
  <2>7. SourceKept'
    <3> SUFFICES ASSUME InItem, op.kind = "move", NEW q \in DOMAIN fs',
                        IsPrefix(Source, q), Full(fs'[q])
                 PROVE  \/ q \in op.todo
                        \/ fs'[q].data \in op'.late
                        \/ \E r \in DOMAIN fs' :
                             ~IsPrefix(Source, r) /\ Good(fs'[r]) /\ fs'[r].data = fs'[q].data
      BY <2>1, <2>2 DEF SourceKept
    <3>1. CASE fs'[q].data \in contents  BY <2>1, <3>1
    <3>2. CASE q \in DOMAIN fs /\ Full(fs[q]) /\ fs[q].data = fs'[q].data
      <4>1. \/ q \in op.todo
            \/ fs[q].data \in op.late
            \/ \E r \in DOMAIN fs : ~IsPrefix(Source, r) /\ Good(fs[r]) /\ fs[r].data = fs[q].data
        BY <3>2 DEF FInv, SourceKept
      <4>2. ASSUME NEW r \in DOMAIN fs, ~IsPrefix(Source, r), Good(fs[r]), fs[r].data = fs[q].data
            PROVE  \/ fs'[q].data \in op'.late
                   \/ \E s \in DOMAIN fs' :
                        ~IsPrefix(Source, s) /\ Good(fs'[s]) /\ fs'[s].data = fs'[q].data
        <5>1. CASE fs[r].open
          <6>1. CASE fs[r].data \in op'.late  BY <3>2, <4>2, <6>1
          <6>2. CASE \E s \in DOMAIN fs' : fs'[s].open /\ fs'[s].data = fs[r].data
            <7>1. PICK s \in DOMAIN fs' : fs'[s].open /\ fs'[s].data = fs[r].data  BY <6>2
            <7>2. Good(fs'[s])  BY <4>2, <7>1, TreeNode DEF Good
            <7>3. Volume(s) = Volume(op.target)  BY <2>1, <2>5, <7>1 DEF OpensRight
            <7>4. Volume(s) # Volume(Source) /\ op.at \in DOMAIN op.items
              BY <7>3 DEF FInv, ItemRight
            <7>5. Source \in Paths  BY <1>2, <7>4 DEF FInv, OpRight, Source
            <7>6. s \in Paths  BY TreeNode
            <7>7. ~IsPrefix(Source, s)  BY <7>4, <7>5, <7>6, PrefixIs, PathIs
            <7>8. QED  BY <3>2, <4>2, <7>1, <7>2, <7>7
          <6>3. QED  BY <2>1, <5>1, <6>1, <6>2
        <5>2. CASE ~fs[r].open
          <6>1. Full(fs[r])  BY <4>2, <5>2 DEF Full, Good
          <6>2. fs[r].data \in contents \/ (r \in DOMAIN fs' /\ Full(fs'[r]) /\ fs'[r].data = fs[r].data)
            BY <6>1 DEF Touches
          <6>3. QED  BY <2>1, <3>2, <4>2, <6>2 DEF Full, Good
        <5>3. QED  BY <5>1, <5>2
      <4>3. QED  BY <2>1, <3>2, <4>1, <4>2
    <3>3. QED  BY <3>1, <3>2 DEF Touches
  <2>8. QED  BY <2>3, <2>4, <2>5, <2>6, <2>7
<1>3. QED  BY <1>1, <1>2

-----------------------------------------------------------------------------
(* The loop's own requests.                                                *)

\* A sequence is one of its own elements.
LEMMA OwnElements ==
  ASSUME NEW S, NEW s \in Seq(S)
  PROVE  s \in Seq(Range(s))
<1>1. s \in [1..Len(s) -> S] /\ Len(s) \in Nat  OBVIOUS
<1>2. \A i \in 1..Len(s) : s[i] \in Range(s)  BY <1>1 DEF Range
<1>3. s \in [1..Len(s) -> Range(s)]  BY <1>1, <1>2
<1>4. QED  BY <1>1, <1>3

\* The steps of a new entry.
LEMMA EntryIs ==
  ASSUME NEW id, NEW steps, NEW before, NEW after, NEW quiet
  PROVE  Entry(id, steps, before, after, quiet).steps = steps
  BY DEF Entry

\* An entry pushed, the oldest dropped where the ring is full.
LEMMA PushKeeps ==
  ASSUME JournalRight, NEW entry, entry.steps \in Seq(Steps), journal' = Push(entry)
  PROVE  JournalRight'
<1> DEFINE S == Range(journal) \cup {entry}
<1>1. journal \in Seq(S) /\ entry \in S  BY DEF JournalRight
<1>2. \A i \in DOMAIN journal : journal[i].steps \in Seq(Steps)  BY DEF JournalRight
<1> HIDE DEF S
<1>3. CASE entry.steps = <<>>
  BY <1>3 DEF Push, JournalRight
<1>4. CASE entry.steps # <<>> /\ Len(journal) < Depth
  <2>1. journal' = Append(journal, entry)  BY <1>4 DEF Push
  <2>2. journal' \in Seq(S)  BY <1>1, <2>1
  <2>3. \A i \in DOMAIN journal' : journal'[i].steps \in Seq(Steps)
    BY <1>1, <1>2, <2>1
  <2>4. QED  BY <2>2, <2>3, OwnElements DEF JournalRight
<1>5. CASE entry.steps # <<>> /\ ~(Len(journal) < Depth)
  <2> DEFINE t == Tail(journal)
  <2>1. journal' = Append(t, entry)  BY <1>5 DEF Push
  <2>2. Len(journal) # 0  BY <1>1, <1>5, OpsAssumption DEF OpsAssumption
  <2>3. t \in Seq(S) /\ Len(t) = Len(journal) - 1
        /\ \A i \in 1..Len(t) : t[i] = journal[i + 1]
    BY <1>1, <2>2
  <2>4. \A i \in 1..Len(t) : t[i].steps \in Seq(Steps)
    <3> SUFFICES ASSUME NEW i \in 1..Len(t) PROVE t[i].steps \in Seq(Steps)  OBVIOUS
    <3>1. i + 1 \in DOMAIN journal  BY <1>1, <2>3
    <3>2. QED  BY <1>2, <2>3, <3>1
  <2> HIDE DEF t
  <2>5. journal' \in Seq(S)  BY <1>1, <2>1, <2>3
  <2>6. \A i \in DOMAIN journal' : journal'[i].steps \in Seq(Steps)
    BY <1>1, <2>1, <2>3, <2>4
  <2>7. QED  BY <2>5, <2>6, OwnElements DEF JournalRight
<1>6. QED  BY <1>3, <1>4, <1>5

\* What the steps are made from.
LEMMA StepsAre ==
  /\ \A p, q \in Paths : Moved(p, q) \in Steps
  /\ \A p \in Paths : Created(p) \in Steps /\ MadeDir(p) \in Steps
  /\ \A u \in Nat : Trashed(u) \in Steps
  BY DEF Moved, Created, MadeDir, Trashed, Steps

\* A request of the loop that loses nothing and says what it touched.
LEMMA LoopRequestKeeps ==
  ASSUME FInv, NEW files, NEW steps, NEW contents, LoopRequest(files, steps, contents),
         IsTree(files), OpensFrom(fs, files), Touches(fs, files, contents),
         Whole(fs) \subseteq Whole(files), steps \in Seq(Steps)
  PROVE  FInv' /\ ContentStep
<1>1. /\ fs' = files /\ trash' = trash /\ serial' = serial + 1 /\ op' = Disturbed(contents)
      /\ journal' = Push(Entry(serial', steps, <<fs, trash>>, <<files, trash>>, TRUE))
  BY DEF LoopRequest
<1>2. OpRight' /\ ItemRight' /\ OpensRight' /\ TargetKept' /\ SourceKept'
  BY <1>1, LoopKeepsItem
<1>3. JournalRight'
  <2> DEFINE e == Entry(serial', steps, <<fs, trash>>, <<files, trash>>, TRUE)
  <2>1. e.steps = steps  BY DEF Entry
  <2>2. journal' = Push(e)  BY <1>1
  <2> HIDE DEF e
  <2>3. QED  BY <2>1, <2>2, PushKeeps DEF FInv
<1>4. IsTree(fs)' /\ (serial \in Nat)' /\ TrashRight'
  BY <1>1 DEF FInv, TrashRight
<1>5. ContentStep  BY <1>1, NothingLost
<1>6. QED  BY <1>2, <1>3, <1>4, <1>5 DEF FInv

\* rename.
LEMMA RenameKeeps ==
  ASSUME FInv, NEW p, NEW name, Rename(p, name)
  PROVE  FInv' /\ ContentStep
<1> DEFINE to == Append(Parent(p), name)
           files == RenamePath(fs, p, to)
<1>1. Movable(fs, p, to) /\ LoopRequest(files, <<Moved(p, to)>>, Whole(Subtree(fs, p)))
  BY DEF Rename
<1>2. p \in Paths /\ to \in Paths  BY <1>1, TreeNode DEF Movable, Free, FInv
<1> HIDE DEF to
<1>3. PICK stay : RenameShape(fs, files, p, to, stay)  BY <1>1, RenamePathIs DEF FInv
<1>4. <<Moved(p, to)>> \in Seq(Steps)
  <2>1. Moved(p, to) \in Steps  BY <1>2, StepsAre
  <2>2. QED  BY <2>1
<1> HIDE DEF files
<1>5. /\ IsTree(files) /\ Whole(fs) \subseteq Whole(files) /\ OpensFrom(fs, files)
      /\ Touches(fs, files, Whole(Subtree(fs, p)))
  BY <1>1, <1>3, ShapeKeeps DEF FInv
<1>6. QED  BY <1>1, <1>4, <1>5, LoopRequestKeeps

\* rename, failed partway.
LEMMA RenameFailsKeeps ==
  ASSUME FInv, NEW p, NEW name, RenameFails(p, name)
  PROVE  FInv' /\ ContentStep
<1> DEFINE to == Append(Parent(p), name)
<1>1. /\ Movable(fs, p, to)
      /\ \/ \E keep \in SUBSET Under(fs, p) :
               LoopRequest(Kept(fs, p, to, keep), <<>>, Whole(Subtree(fs, p)))
         \/ LoopRequest(Put(fs, to, Fifo(0)), <<>>, {})
  BY DEF RenameFails
<1> HIDE DEF to
<1>2. <<>> \in Seq(Steps)  OBVIOUS
<1>3. CASE \E keep \in SUBSET Under(fs, p) :
             LoopRequest(Kept(fs, p, to, keep), <<>>, Whole(Subtree(fs, p)))
  <2>1. PICK keep : LoopRequest(Kept(fs, p, to, keep), <<>>, Whole(Subtree(fs, p)))
    BY <1>3
  <2> DEFINE files == Kept(fs, p, to, keep)
  <2>2. PICK stay : RenameShape(fs, files, p, to, stay)  BY <1>1, KeptIs DEF FInv
  <2>3. LoopRequest(files, <<>>, Whole(Subtree(fs, p)))  BY <2>1
  <2> HIDE DEF files
  <2>4. /\ IsTree(files) /\ Whole(fs) \subseteq Whole(files) /\ OpensFrom(fs, files)
        /\ Touches(fs, files, Whole(Subtree(fs, p)))
    BY <1>1, <2>2, ShapeKeeps DEF FInv
  <2>5. QED  BY <1>2, <2>3, <2>4, LoopRequestKeeps
<1>4. CASE LoopRequest(Put(fs, to, Fifo(0)), <<>>, {})
  <2> DEFINE files == Put(fs, to, Fifo(0))
  <2>1. Fifo(0) \in Nodes /\ ~Fifo(0).open /\ Fifo(0).kind # "file"
    BY NewNodes
  <2>2. Free(fs, to)  BY <1>1 DEF Movable
  <2>3. FileOnly(Fifo(0)) /\ ~Full(Fifo(0))  BY <2>1 DEF FileOnly, Full
  <2>4. LoopRequest(files, <<>>, {}) /\ files = Put(fs, to, Fifo(0))  BY <1>4
  <2> HIDE DEF files
  <2>5. /\ IsTree(files) /\ Whole(fs) \subseteq Whole(files) /\ OpensFrom(fs, files)
        /\ Touches(fs, files, {})
    BY <2>1, <2>2, <2>3, <2>4, PutKeeps DEF FInv
  <2>6. QED  BY <1>2, <2>4, <2>5, LoopRequestKeeps
<1>5. QED  BY <1>1, <1>3, <1>4

\* mkdir, named or not.
LEMMA MakeDirKeeps ==
  ASSUME FInv, NEW p, MakeDir(p)
  PROVE  FInv' /\ ContentStep
<1> DEFINE n == Dir(serial + 1)
           files == Put(fs, p, n)
<1>1. Free(fs, p) /\ LoopRequest(files, <<MadeDir(p)>>, {})  BY DEF MakeDir
<1>2. serial + 1 \in Nat  BY DEF FInv
<1>3. n \in Nodes /\ ~n.open /\ n.kind # "file"  BY <1>2, NewNodes
<1> HIDE DEF n
<1>4. FileOnly(n) /\ ~Full(n)  BY <1>3 DEF FileOnly, Full
<1>5. files = Put(fs, p, n)  OBVIOUS
<1> HIDE DEF files
<1>6. /\ IsTree(files) /\ Whole(fs) \subseteq Whole(files) /\ OpensFrom(fs, files)
      /\ Touches(fs, files, {})
  BY <1>1, <1>3, <1>4, <1>5, PutKeeps DEF FInv
<1>7. MadeDir(p) \in Steps  BY <1>1, StepsAre DEF Free
<1>8. <<MadeDir(p)>> \in Seq(Steps)  BY <1>7
<1>9. QED  BY <1>1, <1>6, <1>8, LoopRequestKeeps

\* newfile.
LEMMA NewFileKeeps ==
  ASSUME FInv, NEW dir, NEW name, NewFile(dir, name)
  PROVE  FInv' /\ ContentStep
<1> DEFINE p == Append(dir, name)
           by == serial + 1
           data == Data(p, by, FALSE)
           n == File(data, FALSE, by)
           files == Put(fs, p, n)
<1>1. Free(fs, p) /\ LoopRequest(files, <<Created(p)>>, {data})  BY DEF NewFile
<1>2. by \in Nat /\ p \in Paths  BY <1>1 DEF FInv, Free
<1> HIDE DEF by, p
<1>3. data = NewData(p, by) /\ n = NewNode(p, by)  BY DEF NewData, NewNode
<1> HIDE DEF n, data
<1>4. n \in Nodes /\ ~n.open /\ n.kind = "file" /\ n.data = data
  BY <1>2, <1>3, NewFileIs
<1>5. FileOnly(n) /\ (Full(n) => n.data \in {data})  BY <1>4 DEF FileOnly
<1>6. files = Put(fs, p, n)  OBVIOUS
<1> HIDE DEF files
<1>7. /\ IsTree(files) /\ Whole(fs) \subseteq Whole(files) /\ OpensFrom(fs, files)
      /\ Touches(fs, files, {data})
  BY <1>1, <1>4, <1>5, <1>6, PutKeeps DEF FInv
<1>8. Created(p) \in Steps  BY <1>2, StepsAre
<1>9. <<Created(p)>> \in Seq(Steps)  BY <1>8
<1>10. QED  BY <1>1, <1>7, <1>9, LoopRequestKeeps

-----------------------------------------------------------------------------
(* undo.                                                                   *)

\* A set of naturals has a least element.
LEMMA Least ==
  ASSUME NEW T \in SUBSET Nat, T # {}
  PROVE  \E n \in T : \A m \in T : n <= m
<1> DEFINE R == OpToRel(<, Nat)
<1>1. IsWellFoundedOn(R, Nat)  BY NatLessThanWellFounded
<1>2. \A x, y \in Nat : x < y => <<x, y>> \in R  BY DEF OpToRel
<1> HIDE DEF R
<1>3. PICK x \in T : \A y \in T : ~(<<y, x>> \in R)  BY <1>1, WFMin
<1>4. \A y \in T : x <= y
  <2> TAKE y \in T
  <2>1. ~(<<y, x>> \in R)  BY <1>3
  <2>2. y \in Nat /\ x \in Nat  OBVIOUS
  <2>3. ~(y < x)  BY <1>2, <2>1, <2>2, Zenon
  <2>4. QED  BY <2>2, <2>3
<1>5. QED  BY <1>4

\* A step taken back, unless one before it was refused.
Back(w, s) == IF w.ok THEN Reversed(s, w) ELSE w

\* Where an undo starts.
Start == World(fs, trash, TRUE)

\* f[n] is the world once the n newest steps have been taken back.
TakesBack(f, steps, n) ==
  f = [k \in 0..n |-> IF k = 0 THEN Start ELSE Back(f[k - 1], steps[Len(steps) + 1 - k])]

\* The worlds an undo goes through exist, by the least count of steps without
\* them.
LEMMA TakesBackExists ==
  ASSUME NEW steps, NEW n \in Nat
  PROVE  \E f : TakesBack(f, steps, n)
<1> DEFINE T == {k \in Nat : ~\E f : TakesBack(f, steps, k)}
           S(k) == steps[Len(steps) + 1 - k]
<1> SUFFICES ASSUME T # {} PROVE FALSE  OBVIOUS
<1>1. PICK m \in T : \A k \in T : m <= k
  <2>1. T \in SUBSET Nat  OBVIOUS
  <2> HIDE DEF T
  <2>2. QED  BY <2>1, Least
<1>2. m \in Nat /\ ~\E f : TakesBack(f, steps, m)  OBVIOUS
<1>3. CASE m = 0
  <2> DEFINE f == [k \in 0..m |-> Start]
  <2>1. TakesBack(f, steps, m)  BY <1>3 DEF TakesBack
  <2>2. QED  BY <1>2, <2>1
<1>4. CASE m # 0
  <2>1. m - 1 \in Nat /\ m - 1 \notin T  BY <1>1, <1>2, <1>4
  <2>2. PICK g : TakesBack(g, steps, m - 1)  BY <2>1
  <2>3. g = [k \in 0..(m - 1) |-> IF k = 0 THEN Start ELSE Back(g[k - 1], S(k))]
    BY <2>2 DEF TakesBack
  <2> HIDE DEF S
  <2>4. g[0] = Start /\ \A k \in 1..(m - 1) : g[k] = Back(g[k - 1], S(k))
    BY <1>2, <1>4, <2>3
  <2> DEFINE f == [k \in 0..m |-> IF k = m THEN Back(g[m - 1], S(m)) ELSE g[k]]
             h == [k \in 0..m |-> IF k = 0 THEN Start ELSE Back(f[k - 1], S(k))]
  <2>5. \A k \in 0..m : f[k] = h[k]
    <3> TAKE k \in 0..m
    <3>1. CASE k = 0  BY <1>2, <1>4, <2>4, <3>1
    <3>2. CASE k \in 1..(m - 1)
      <4>1. f[k] = g[k] /\ f[k - 1] = g[k - 1]  BY <1>2, <3>2
      <4>2. h[k] = Back(f[k - 1], S(k))  BY <3>2
      <4>3. QED  BY <2>4, <3>2, <4>1, <4>2
    <3>3. CASE k = m
      <4>1. f[k] = Back(g[m - 1], S(m)) /\ f[m - 1] = g[m - 1]
        BY <1>2, <1>4, <3>3
      <4>2. h[k] = Back(f[m - 1], S(m))  BY <1>4, <3>3
      <4>3. QED  BY <4>1, <4>2
    <3>4. QED  BY <1>2, <3>1, <3>2, <3>3
  <2>6. f = h
    <3>1. f = [k \in 0..m |-> f[k]] /\ h = [k \in 0..m |-> h[k]]  OBVIOUS
    <3> HIDE DEF f, h
    <3>2. QED  BY <2>5, <3>1
  <2>7. TakesBack(f, steps, m)  BY <2>6 DEF TakesBack, S
  <2>8. QED  BY <1>2, <2>7
<1>5. QED  BY <1>3, <1>4

\* So each is the one before it with a step taken back.
LEMMA UndoneIs ==
  ASSUME NEW steps, Len(steps) \in Nat
  PROVE  /\ Undone(steps)[0] = Start
         /\ \A k \in 1..Len(steps) :
              Undone(steps)[k] = Back(Undone(steps)[k - 1], steps[Len(steps) + 1 - k])
<1> DEFINE N == Len(steps)
           S(k) == steps[N + 1 - k]
           f == CHOOSE f : f = [k \in 0..N |->
                  IF k = 0 THEN World(fs, trash, TRUE)
                  ELSE LET w == f[k - 1]
                       IN  IF w.ok THEN Reversed(steps[N + 1 - k], w) ELSE w]
<1>1. \E g : g = [k \in 0..N |->
                  IF k = 0 THEN World(fs, trash, TRUE)
                  ELSE LET w == g[k - 1]
                       IN  IF w.ok THEN Reversed(steps[N + 1 - k], w) ELSE w]
  BY TakesBackExists, ZenonT(60) DEF TakesBack, Back, Start
<1>2. f = [k \in 0..N |-> IF k = 0 THEN Start ELSE Back(f[k - 1], S(k))]
  BY <1>1 DEF Back, Start
<1>3. Undone(steps) = f  BY DEF Undone
<1> HIDE DEF f, S, N
<1>4. f[0] = Start /\ \A k \in 1..N : f[k] = Back(f[k - 1], S(k))
  BY <1>2 DEF N
<1>5. QED  BY <1>3, <1>4 DEF S, N

\* What is true of a world whose steps are being taken back.
WorldRight(w) ==
  /\ DOMAIN w = {"fs", "trash", "ok"}
  /\ IsTree(w.fs) /\ TrashIs(w.trash) /\ OpensFrom(fs, w.fs)

\* The fields of a world.
LEMMA WorldIs ==
  ASSUME NEW f, NEW t, NEW ok
  PROVE  LET w == World(f, t, ok)
         IN  DOMAIN w = {"fs", "trash", "ok"} /\ w.fs = f /\ w.trash = t /\ w.ok = ok
  BY DEF World

\* A right tree and a right trash are a right world.
LEMMA MakesWorld ==
  ASSUME NEW f, NEW t, NEW ok, IsTree(f), TrashIs(t), OpensFrom(fs, f)
  PROVE  WorldRight(World(f, t, ok))
<1> DEFINE w == World(f, t, ok)
<1>1. DOMAIN w = {"fs", "trash", "ok"} /\ w.fs = f /\ w.trash = t  BY WorldIs
<1> HIDE DEF w
<1>2. WorldRight(w)  BY <1>1 DEF WorldRight
<1>3. QED  BY <1>2 DEF w

\* A refused step leaves the world.
LEMMA RefusedWorld ==
  ASSUME NEW w, WorldRight(w)
  PROVE  WorldRight([w EXCEPT !.ok = FALSE])
<1> DEFINE v == [w EXCEPT !.ok = FALSE]
<1>1. DOMAIN v = {"fs", "trash", "ok"} /\ v.fs = w.fs /\ v.trash = w.trash
  BY DEF WorldRight
<1> HIDE DEF v
<1>2. WorldRight(v)  BY <1>1 DEF WorldRight
<1>3. QED  BY <1>2 DEF v

\* A branch put back where it was.
LEMMA JoinedIs ==
  ASSUME NEW f, IsTree(f), NEW t, NEW top, IsBranch(t, top), Free(f, top)
  PROVE  IsTree(Joined(f, t)) /\ OpensFrom(f, Joined(f, t))
<1> DEFINE g == Joined(f, t)
<1>1. /\ top \in Paths /\ top \notin DOMAIN f /\ IsDir(f, Parent(top))
      /\ DOMAIN t \subseteq Paths /\ t \in [DOMAIN t -> Nodes]
      /\ \A q \in DOMAIN t : /\ IsPrefix(top, q) /\ ~t[q].open
                             /\ q = top \/ IsDir(t, Parent(q))
  BY DEF IsBranch, Free, Below
<1>2. \A q \in DOMAIN t : q \notin DOMAIN f  BY <1>1, NothingBelow
<1>3. /\ DOMAIN g = DOMAIN f \cup DOMAIN t /\ g = [q \in DOMAIN g |-> g[q]]
      /\ \A q \in DOMAIN f : g[q] = f[q]
      /\ \A q \in DOMAIN t : g[q] = t[q]
  BY <1>2 DEF Joined
<1> HIDE DEF g
<1>4. \A p : IsDir(f, p) \/ IsDir(t, p) => IsDir(g, p)  BY <1>3 DEF IsDir
<1>5. ASSUME NEW q \in DOMAIN g
      PROVE  /\ q \in Paths /\ g[q] \in Nodes /\ (g[q].open => g[q].kind = "file")
             /\ IsDir(g, Parent(q))
  <2>1. CASE q \in DOMAIN f
    <3>1. IsDir(f, Parent(q))  BY <2>1, TreeNode DEF IsDir
    <3>2. QED  BY <1>3, <1>4, <2>1, <3>1, TreeNode
  <2>2. CASE q \in DOMAIN t
    <3>1. IsDir(f, Parent(q)) \/ IsDir(t, Parent(q))  BY <1>1, <2>2
    <3>2. t[q] \in Nodes /\ q \in Paths /\ ~t[q].open  BY <1>1, <2>2
    <3>3. QED  BY <1>3, <1>4, <2>2, <3>1, <3>2
  <2>3. QED  BY <1>3, <2>1, <2>2
<1>6. g \in [DOMAIN g -> Nodes]  BY <1>3, <1>5
<1>7. IsTree(g)  BY <1>5, <1>6 DEF IsTree
<1>8. OpensFrom(f, g)  BY <1>1, <1>3 DEF OpensFrom
<1>9. QED  BY <1>7, <1>8 DEF g

\* A step back that erases.
LEMMA ErasedWorld ==
  ASSUME NEW w, WorldRight(w), NEW p \in Paths \cup Roots
  PROVE  WorldRight(World(Erased(w.fs, p), w.trash, TRUE))
<1>1. IsTree(Erased(w.fs, p)) /\ OpensFrom(w.fs, Erased(w.fs, p))
  BY ErasedIs, FewerKeeps DEF WorldRight
<1>2. OpensFrom(fs, Erased(w.fs, p))  BY <1>1, OpensChain DEF WorldRight
<1>3. QED  BY <1>1, <1>2, MakesWorld DEF WorldRight

\* Each step back leaves a right world.
LEMMA ReversedKeeps ==
  ASSUME NEW w, WorldRight(w), NEW s \in Steps
  PROVE  WorldRight(Reversed(s, w))
<1>1. CASE s.step = "moved"
  <2>1. CASE Movable(w.fs, s.to, s.from)
    <3> DEFINE f == w.fs  g == RenamePath(f, s.to, s.from)
    <3>1. PICK stay : RenameShape(f, g, s.to, s.from, stay)
      BY <2>1, RenamePathIs DEF WorldRight
    <3>2. IsTree(g) /\ OpensFrom(f, g)
      <4> HIDE DEF g
      <4>1. QED  BY <2>1, <3>1, ShapeKeeps DEF WorldRight
    <3>3. OpensFrom(fs, g)  BY <3>2, OpensChain DEF WorldRight
    <3>4. Reversed(s, w) = World(g, w.trash, TRUE)  BY <1>1, <2>1 DEF Reversed
    <3> HIDE DEF g
    <3>5. QED  BY <3>2, <3>3, <3>4, MakesWorld DEF WorldRight
  <2>2. CASE ~Movable(w.fs, s.to, s.from)
    <3>1. Reversed(s, w) = [w EXCEPT !.ok = FALSE]  BY <1>1, <2>2 DEF Reversed
    <3>2. QED  BY <3>1, RefusedWorld
  <2>3. QED  BY <2>1, <2>2
<1>2. CASE s.step = "created"
  <2>1. CASE Exists(w.fs, s.path)
    <3>1. Reversed(s, w) = World(Erased(w.fs, s.path), w.trash, TRUE)
      BY <1>2, <2>1 DEF Reversed
    <3>2. s.path \in Paths \cup Roots  BY <2>1, TreeNode DEF Exists, WorldRight
    <3>3. QED  BY <3>1, <3>2, ErasedWorld
  <2>2. CASE ~Exists(w.fs, s.path)
    <3>1. Reversed(s, w) = [w EXCEPT !.ok = FALSE]  BY <1>2, <2>2 DEF Reversed
    <3>2. QED  BY <3>1, RefusedWorld
  <2>3. QED  BY <2>1, <2>2
<1>3. CASE s.step = "madedir"
  <2>1. CASE IsDir(w.fs, s.path) /\ Children(w.fs, s.path) = {}
    <3>1. Reversed(s, w) = World(Erased(w.fs, s.path), w.trash, TRUE)
      BY <1>3, <2>1 DEF Reversed
    <3>2. s.path \in Paths \cup Roots  BY <2>1, TreeNode DEF IsDir, WorldRight
    <3>3. QED  BY <3>1, <3>2, ErasedWorld
  <2>2. CASE ~(IsDir(w.fs, s.path) /\ Children(w.fs, s.path) = {})
    <3>1. Reversed(s, w) = [w EXCEPT !.ok = FALSE]  BY <1>3, <2>2 DEF Reversed
    <3>2. QED  BY <3>1, RefusedWorld
  <2>3. QED  BY <2>1, <2>2
<1>4. CASE s.step = "trashed"
  <2> DEFINE held == {e \in w.trash : e.uri = s.uri /\ Free(w.fs, e.original)}
  <2>1. CASE held = {}
    <3>1. Reversed(s, w) = [w EXCEPT !.ok = FALSE]  BY <1>4, <2>1 DEF Reversed
    <3>2. QED  BY <3>1, RefusedWorld
  <2>2. CASE held # {}
    <3> DEFINE e == CHOOSE x \in held : TRUE
    <3>1. e \in held  BY <2>2
    <3>2. Reversed(s, w) = World(Joined(w.fs, e.tree), w.trash \ {e}, TRUE)
      BY <1>4, <2>2 DEF Reversed
    <3>3. e \in w.trash /\ Free(w.fs, e.original)  BY <3>1
    <3> HIDE DEF e, held
    <3>4. IsBranch(e.tree, e.original)  BY <3>3 DEF WorldRight, TrashIs
    <3>5. IsTree(Joined(w.fs, e.tree)) /\ OpensFrom(w.fs, Joined(w.fs, e.tree))
      BY <3>3, <3>4, JoinedIs DEF WorldRight
    <3>6. OpensFrom(fs, Joined(w.fs, e.tree))  BY <3>5, OpensChain DEF WorldRight
    <3>7. TrashIs(w.trash \ {e})  BY DEF WorldRight, TrashIs
    <3>8. QED  BY <3>2, <3>5, <3>6, <3>7, MakesWorld
  <2>3. QED  BY <2>1, <2>2
<1>5. QED  BY <1>1, <1>2, <1>3, <1>4 DEF Steps

\* So do all of them, by the least count that does not.
LEMMA UndoneKeeps ==
  ASSUME FInv, NEW steps \in Seq(Steps), NEW n \in 0..Len(steps)
  PROVE  WorldRight(Undone(steps)[n])
<1> DEFINE T == {k \in 0..Len(steps) : ~WorldRight(Undone(steps)[k])}
<1> SUFFICES ASSUME T # {} PROVE FALSE  OBVIOUS
<1>1. Len(steps) \in Nat  OBVIOUS
<1>2. PICK m \in T : \A k \in T : m <= k
  <2>1. T \in SUBSET Nat  BY <1>1
  <2> HIDE DEF T
  <2>2. QED  BY <2>1, Least
<1>3. m \in 0..Len(steps) /\ ~WorldRight(Undone(steps)[m])  OBVIOUS
<1>4. CASE m = 0
  <2>1. OpensFrom(fs, fs)  BY DEF OpensFrom
  <2>2. WorldRight(Start)  BY <2>1, MakesWorld DEF Start, FInv, TrashRight
  <2>3. Undone(steps)[0] = Start  BY <1>1, UndoneIs
  <2>4. QED  BY <1>3, <1>4, <2>2, <2>3
<1>5. CASE m # 0
  <2>1. m \in 1..Len(steps) /\ m - 1 \in 0..Len(steps) /\ m - 1 \notin T
    BY <1>1, <1>2, <1>3, <1>5
  <2>2. WorldRight(Undone(steps)[m - 1])  BY <2>1
  <2>3. Len(steps) + 1 - m \in DOMAIN steps  BY <1>1, <2>1
  <2>4. steps[Len(steps) + 1 - m] \in Steps  BY <2>3
  <2>5. Undone(steps)[m] = Back(Undone(steps)[m - 1], steps[Len(steps) + 1 - m])
    BY <1>1, <2>1, UndoneIs
  <2>6. WorldRight(Undone(steps)[m])  BY <2>2, <2>4, <2>5, ReversedKeeps DEF Back
  <2>7. QED  BY <1>3, <2>6
<1>6. QED  BY <1>4, <1>5

\* An undo may take the last copy of anything away; what runs is told of all.
LEMMA PopKeeps ==
  ASSUME FInv, journal # <<>>, NEW w, WorldRight(w), PopTo(w)
  PROVE  FInv' /\ ContentStep
<1> DEFINE S == Range(journal)
<1>1. /\ fs' = w.fs /\ trash' = w.trash /\ serial' = serial /\ journal' = Front(journal)
      /\ op' = Disturbed(Whole(fs) \cup Whole(w.fs))
  BY DEF PopTo
<1>2. Touches(fs, w.fs, Whole(fs) \cup Whole(w.fs))  BY WholeIs DEF Touches
<1>3. OpRight' /\ ItemRight' /\ OpensRight' /\ TargetKept' /\ SourceKept'
  BY <1>1, <1>2, LoopKeepsItem DEF WorldRight
<1>4. IsTree(fs)' /\ (serial \in Nat)' /\ TrashRight'
  BY <1>1 DEF FInv, WorldRight, TrashRight
<1>5. journal \in Seq(S) /\ \A i \in DOMAIN journal : journal[i].steps \in Seq(Steps)
  BY DEF FInv, JournalRight
<1> HIDE DEF S
<1>6. /\ Front(journal) \in Seq(S) /\ Len(Front(journal)) = Len(journal) - 1
      /\ \A i \in 1..(Len(journal) - 1) : Front(journal)[i] = journal[i]
      /\ Len(journal) \in Nat
  <2>1. Len(journal) \in Nat /\ Len(journal) # 0  BY <1>5
  <2>2. Front(journal) = SubSeq(journal, 1, Len(journal) - 1)  BY DEF Front
  <2> DEFINE n == Len(journal) - 1
  <2>3. n \in 0..Len(journal)  BY <2>1
  <2> HIDE DEF n
  <2>4. SubSeq(journal, 1, n) \in Seq(S) /\ Len(SubSeq(journal, 1, n)) = n
        /\ \A i \in 1..n : SubSeq(journal, 1, n)[i] = journal[i]
    BY <1>5, <2>1, <2>3
  <2>5. QED  BY <2>1, <2>2, <2>4 DEF n
<1>7. JournalRight'
  <2>1. \A i \in DOMAIN journal' : journal'[i].steps \in Seq(Steps)
    BY <1>1, <1>5, <1>6
  <2>2. journal' \in Seq(S)  BY <1>1, <1>6
  <2>3. QED  BY <2>1, <2>2, OwnElements DEF JournalRight
<1>8. ContentStep  BY <1>1, <1>6 DEF ContentStep, Undoing
<1>9. QED  BY <1>3, <1>4, <1>7, <1>8 DEF FInv

\* The newest entry has steps.
LEMMA LastEntry ==
  ASSUME FInv, journal # <<>>
  PROVE  Last(journal).steps \in Seq(Steps)
<1> DEFINE S == Range(journal)
<1>1. journal \in Seq(S) /\ \A i \in DOMAIN journal : journal[i].steps \in Seq(Steps)
  BY DEF FInv, JournalRight
<1> HIDE DEF S
<1>2. Len(journal) \in DOMAIN journal  BY <1>1
<1>3. QED  BY <1>1, <1>2 DEF Last

\* undo.
LEMMA UndoKeepsContent ==
  ASSUME FInv, Undo
  PROVE  FInv' /\ ContentStep
<1> DEFINE steps == Last(journal).steps
           w == Undone(steps)[Len(steps)]
<1>1. journal # <<>> /\ PopTo(w)  BY DEF Undo
<1>2. steps \in Seq(Steps)  BY <1>1, LastEntry
<1> HIDE DEF steps
<1>3. WorldRight(w)  BY <1>2, UndoneKeeps
<1> HIDE DEF w
<1>4. QED  BY <1>1, <1>3, PopKeeps

\* undo, failed partway.
LEMMA UndoFailsKeeps ==
  ASSUME FInv, UndoFails
  PROVE  FInv' /\ ContentStep
<1> DEFINE steps == Last(journal).steps
<1>1. /\ journal # <<>>
      /\ \E k \in DOMAIN steps :
           LET s == steps[Len(steps) + 1 - k]
               w == Undone(steps)[k - 1]
           IN  /\ Movable(w.fs, s.to, s.from)
               /\ \E keep \in SUBSET Under(w.fs, s.to) :
                    PopTo(World(Kept(w.fs, s.to, s.from, keep), w.trash, FALSE))
  BY DEF UndoFails
<1>2. steps \in Seq(Steps)  BY <1>1, LastEntry
<1> HIDE DEF steps
<1>3. PICK k \in DOMAIN steps :
           LET s == steps[Len(steps) + 1 - k]
               w == Undone(steps)[k - 1]
           IN  /\ Movable(w.fs, s.to, s.from)
               /\ \E keep \in SUBSET Under(w.fs, s.to) :
                    PopTo(World(Kept(w.fs, s.to, s.from, keep), w.trash, FALSE))
  BY <1>1
<1> DEFINE s == steps[Len(steps) + 1 - k]
           w == Undone(steps)[k - 1]
           f == w.fs
<1>4. k - 1 \in 0..Len(steps)  BY <1>2
<1>5. WorldRight(w)  BY <1>2, <1>4, UndoneKeeps
<1>6. PICK keep : /\ Movable(f, s.to, s.from)
                  /\ PopTo(World(Kept(f, s.to, s.from, keep), w.trash, FALSE))
  BY <1>3
<1> HIDE DEF w, s
<1> DEFINE g == Kept(f, s.to, s.from, keep)
<1>7. PICK stay : RenameShape(f, g, s.to, s.from, stay)
  BY <1>5, <1>6, KeptIs DEF WorldRight
<1>8. PopTo(World(g, w.trash, FALSE))  BY <1>6
<1> HIDE DEF g
<1>9. IsTree(g) /\ OpensFrom(f, g)  BY <1>5, <1>6, <1>7, ShapeKeeps DEF WorldRight
<1>10. OpensFrom(fs, g)  BY <1>5, <1>9, OpensChain DEF WorldRight
<1>11. WorldRight(World(g, w.trash, FALSE))
  BY <1>5, <1>9, <1>10, MakesWorld DEF WorldRight
<1>12. QED  BY <1>1, <1>8, <1>11, PopKeeps

-----------------------------------------------------------------------------
(* The thread: items that end.                                             *)

\* The next item, said to be cancelled or not.
ItemEnds(steps) ==
  op' = NextItem(steps) \/ op' = [NextItem(steps) EXCEPT !.cancelled = TRUE]

\* An item that has ended leaves nothing to account for.
LEMMA ItemEndsKeeps ==
  ASSUME FInv, op # NoOp, op.kind # "trash", NEW steps \in Seq(Steps), ItemEnds(steps),
         ThreadOnly, IsTree(fs'), \A q \in DOMAIN fs' : ~fs'[q].open
  PROVE  FInv'
<1>1. /\ DOMAIN op = Fields /\ op.kind \in {"copy", "move", "duplicate"} /\ op.id \in Nat
      /\ op.items \in Seq(Paths) /\ op.at \in Nat \ {0} /\ op.steps \in Seq(Steps)
  BY DEF FInv, OpRight
<1> DEFINE new == NextItem(steps)
<1>2. /\ DOMAIN new = Fields /\ new.kind = op.kind /\ new.id = op.id /\ new.items = op.items
      /\ new.at = op.at + 1 /\ new.stage = "next" /\ new.steps = op.steps \o steps
  BY <1>1 DEF NextItem, Fields
<1> HIDE DEF new
<1>3. op' = new \/ op' = [new EXCEPT !.cancelled = TRUE]  BY DEF ItemEnds, new
<1>4. /\ DOMAIN op' = Fields /\ op'.kind = op.kind /\ op'.id = op.id /\ op'.items = op.items
      /\ op'.at = op.at + 1 /\ op'.stage = "next" /\ op'.steps = op.steps \o steps
  BY <1>2, <1>3 DEF Fields
<1>5. op' # NoOp  BY <1>4, OpIs
<1>6. ~InItem'  BY <1>4 DEF InItem
<1>7. op.steps \o steps \in Seq(Steps)  BY <1>1
<1>8. OpRight'  BY <1>1, <1>4, <1>7 DEF OpRight
<1>9. OpensRight'  BY DEF OpensRight
<1>10. ItemRight' /\ TargetKept' /\ SourceKept'
  BY <1>6 DEF ItemRight, TargetKept, SourceKept
<1>11. TrashRight' /\ JournalRight' /\ (serial \in Nat)'
  BY DEF ThreadOnly, FInv, TrashRight, JournalRight
<1>12. QED  BY <1>8, <1>9, <1>10, <1>11 DEF FInv

\* Only gio changes the trash.
LEMMA ThreadTrash == ThreadOnly => trash' = trash
  BY DEF ThreadOnly

\* What the invariant says while the thread copies.
LEMMA CopyingIs ==
  ASSUME FInv, Copying
  PROVE  /\ op # NoOp /\ op.kind # "trash" /\ DOMAIN op = Fields /\ op.id \in Nat
         /\ op.items \in Seq(Paths) /\ op.at \in Nat \ {0}
         /\ op.at <= Len(op.items) => Source \in Paths
         /\ op.stage # "writing" => \A q \in DOMAIN fs : ~fs[q].open
<1>1. op # NoOp /\ op.kind # "trash"  BY DEF Copying
<1>2. /\ DOMAIN op = Fields /\ op.id \in Nat
      /\ op.items \in Seq(Paths) /\ op.at \in Nat \ {0}
  BY <1>1 DEF FInv, OpRight
<1>3. op.at <= Len(op.items) => Source \in Paths  BY <1>2 DEF Source
<1>4. op.stage # "writing" => \A q \in DOMAIN fs : ~fs[q].open  BY NoneOpen DEF FInv
<1>5. QED  BY <1>1, <1>2, <1>3, <1>4

\* No steps are steps.
LEMMA EmptySteps == <<>> \in Seq(Steps)
  OBVIOUS

\* An item passed over: nothing changes.
LEMMA PassedOver ==
  ASSUME FInv, Copying, op.stage = "next", NEW steps \in Seq(Steps), ItemEnds(steps), fs' = fs,
         ThreadOnly
  PROVE  FInv' /\ ContentStep
<1>1. \A q \in DOMAIN fs : ~fs[q].open  BY CopyingIs
<1>2. FInv'  BY <1>1, ItemEndsKeeps, CopyingIs DEF FInv
<1>3. QED  BY <1>2, NothingLost, ThreadTrash

\* An item is skipped.
LEMMA SkipItemKeeps ==
  ASSUME FInv, SkipItem
  PROVE  FInv' /\ ContentStep
<1>1. Copying /\ op.stage = "next" /\ ItemEnds(<<>>) /\ fs' = fs /\ ThreadOnly
  BY DEF SkipItem, ItemEnds
<1>2. QED  BY <1>1, PassedOver, EmptySteps

\* An item is refused.
LEMMA RefuseItemKeeps ==
  ASSUME FInv, RefuseItem
  PROVE  FInv' /\ ContentStep
<1>1. Copying /\ op.stage = "next" /\ ItemEnds(<<>>) /\ fs' = fs /\ ThreadOnly
  BY DEF RefuseItem, ItemEnds
<1>2. QED  BY <1>1, PassedOver, EmptySteps

\* An item is renamed.
LEMMA RenameItemKeeps ==
  ASSUME FInv, RenameItem
  PROVE  FInv' /\ ContentStep
<1>1. PICK to : /\ Movable(fs, Source, to)
                /\ fs' = Renamed(fs, Source, to) /\ op' = NextItem(<<Moved(Source, to)>>)
  BY DEF RenameItem
<1>2. Copying /\ op.stage = "next" /\ ThreadOnly  BY DEF RenameItem
<1>3. Source \in Paths /\ to \in Paths  BY <1>1, TreeNode DEF Movable, Free, FInv
<1>4. RenameShape(fs, fs', Source, to, DOMAIN fs \ Below(fs, Source))
  BY <1>1, RenamedIs DEF FInv
<1>5. IsTree(fs') /\ Whole(fs) \subseteq Whole(fs') /\ OpensFrom(fs, fs')
  BY <1>1, <1>4, ShapeKeeps DEF FInv
<1>6. \A q \in DOMAIN fs' : ~fs'[q].open  BY <1>2, <1>5, CopyingIs DEF OpensFrom
<1>7. <<Moved(Source, to)>> \in Seq(Steps)
  <2>1. Moved(Source, to) \in Steps  BY <1>3, StepsAre
  <2>2. QED  BY <2>1
<1>8. FInv'
  <2>1. ItemEnds(<<Moved(Source, to)>>)  BY <1>1 DEF ItemEnds
  <2>2. QED  BY <1>2, <1>5, <1>6, <1>7, <2>1, ItemEndsKeeps, CopyingIs
<1>9. QED  BY <1>2, <1>5, <1>8, NothingLost, ThreadTrash

\* An item's node is made and its mode refused.
LEMMA FailNodeKeeps ==
  ASSUME FInv, FailNode
  PROVE  FInv' /\ ContentStep
<1>1. PICK to : Free(fs, to) /\ fs' = Put(fs, to, Fifo(op.id))
  BY DEF FailNode
<1>2. Copying /\ op.stage = "next" /\ ThreadOnly /\ ItemEnds(<<>>)
  BY DEF FailNode, ItemEnds
<1>3. /\ Fifo(op.id) \in Nodes /\ ~Fifo(op.id).open /\ Fifo(op.id).kind # "file"
  BY <1>2, CopyingIs, NewNodes
<1>4. FileOnly(Fifo(op.id)) /\ ~Full(Fifo(op.id))  BY <1>3 DEF FileOnly, Full
<1>5. IsTree(fs') /\ Whole(fs) \subseteq Whole(fs') /\ OpensFrom(fs, fs')
  BY <1>1, <1>3, <1>4, PutKeeps DEF FInv
<1>6. \A q \in DOMAIN fs' : ~fs'[q].open  BY <1>2, <1>5, CopyingIs DEF OpensFrom
<1>7. FInv'  BY <1>2, <1>5, <1>6, EmptySteps, ItemEndsKeeps, CopyingIs
<1>8. QED  BY <1>2, <1>5, <1>7, NothingLost, ThreadTrash

\* What the operation's own removals may take: it is held elsewhere, or was
\* touched by another request.
LEMMA TargetErasedIs ==
  ASSUME FInv, InItem
  PROVE  Whole(fs) \ Whole(Erased(fs, op.target)) \subseteq op.late
<1> SUFFICES ASSUME NEW q \in DOMAIN fs, Full(fs[q]),
                    fs[q].data \notin Whole(Erased(fs, op.target))
             PROVE  fs[q].data \in op.late
  BY WholeIs
<1>1. /\ DOMAIN Erased(fs, op.target) = {r \in DOMAIN fs : ~IsPrefix(op.target, r)}
      /\ \A r \in DOMAIN Erased(fs, op.target) : Erased(fs, op.target)[r] = fs[r]
  BY ErasedIs DEF FInv, ItemRight
<1>2. \A r \in DOMAIN fs : ~IsPrefix(op.target, r) /\ Full(fs[r]) =>
        fs[r].data \in Whole(Erased(fs, op.target))
  BY <1>1, WholeIs
<1>3. IsPrefix(op.target, q) /\ Good(fs[q])  BY <1>2 DEF Full, Good
<1>4. QED  BY <1>2, <1>3 DEF FInv, TargetKept

\* A source all of which was copied loses nothing that no request touched.
LEMMA SourceErasedIs ==
  ASSUME FInv, InItem, op.kind = "move", op.stage = "entries", op.todo = {}, Source \in Paths
  PROVE  Whole(fs) \ Whole(Erased(fs, Source)) \subseteq op.late
<1> SUFFICES ASSUME NEW q \in DOMAIN fs, Full(fs[q]),
                    fs[q].data \notin Whole(Erased(fs, Source))
             PROVE  fs[q].data \in op.late
  BY WholeIs
<1>1. /\ DOMAIN Erased(fs, Source) = {r \in DOMAIN fs : ~IsPrefix(Source, r)}
      /\ \A r \in DOMAIN Erased(fs, Source) : Erased(fs, Source)[r] = fs[r]
  BY ErasedIs DEF FInv
<1>2. \A r \in DOMAIN fs : ~IsPrefix(Source, r) /\ Full(fs[r]) =>
        fs[r].data \in Whole(Erased(fs, Source))
  BY <1>1, WholeIs
<1>3. IsPrefix(Source, q)  BY <1>2
<1>4. \A r \in DOMAIN fs : Good(fs[r]) => Full(fs[r])
  BY NoneOpen DEF FInv, Good, Full
<1>5. QED  BY <1>2, <1>3, <1>4 DEF FInv, SourceKept

\* An item ended in the middle.
LEMMA CutShortEnds ==
  ASSUME FInv, Copying, NEW f, IsTree(f), fs' = CutShort(f), NEW steps \in Seq(Steps),
         ItemEnds(steps), ThreadOnly, Whole(fs) \ Whole(f) \subseteq op.late
  PROVE  FInv' /\ ContentStep
<1>1. /\ IsTree(fs') /\ DOMAIN fs' = DOMAIN f
      /\ \A q \in DOMAIN f : fs'[q] = Shut(f[q])
  BY CutShortIs
<1>2. \A q \in DOMAIN fs' : ~fs'[q].open  BY <1>1, TreeNode, ShutKeeps
<1>3. Whole(fs') = Whole(f)  BY CutShortWhole
<1>4. FInv'  BY <1>1, <1>2, ItemEndsKeeps, CopyingIs
<1>5. Lost \subseteq op.late  BY <1>3, LostIs, ThreadTrash
<1>6. QED  BY <1>4, <1>5, CopyingIs DEF ContentStep

\* The partial kept or removed loses nothing that no request touched.
LEMMA TargetGone ==
  ASSUME FInv, InItem, NEW f, f = fs \/ f = Erased(fs, op.target)
  PROVE  IsTree(f) /\ Whole(fs) \ Whole(f) \subseteq op.late
<1>1. CASE f = fs  BY <1>1 DEF FInv
<1>2. CASE f = Erased(fs, op.target)
  BY <1>2, ErasedIs, TargetErasedIs DEF FInv, ItemRight
<1>3. QED  BY <1>1, <1>2

\* A copy fails inside an item.
LEMMA FailCopyKeeps ==
  ASSUME FInv, FailCopy
  PROVE  FInv' /\ ContentStep
<1>1. Copying /\ ThreadOnly /\ op.stage \in {"writing", "entries"}  BY DEF FailCopy
<1>2. InItem  BY <1>1 DEF InItem, Copying
<1>3. CASE Cancelled /\ op.tree
  <2> DEFINE f == TreeErased(fs, op.target)
  <2>1. fs' = CutShort(f) /\ ItemEnds(<<>>)  BY <1>3 DEF FailCopy, ItemEnds
  <2>2. f = fs \/ f = Erased(fs, op.target)  BY DEF TreeErased
  <2> HIDE DEF f
  <2>3. QED  BY <1>1, <1>2, <2>1, <2>2, TargetGone, CutShortEnds, EmptySteps
<1>4. CASE ~(Cancelled /\ op.tree)
  <2>1. fs' = CutShort(fs) /\ ItemEnds(<<Created(op.target)>>)
    BY <1>4 DEF FailCopy, ItemEnds
  <2>2. Created(op.target) \in Steps  BY <1>2, StepsAre DEF FInv, ItemRight
  <2>3. <<Created(op.target)>> \in Seq(Steps)  BY <2>2
  <2>4. QED  BY <1>1, <1>2, <2>1, <2>3, TargetGone, CutShortEnds
<1>5. QED  BY <1>3, <1>4

\* A copy is cancelled inside an item.
LEMMA CancelCopyKeeps ==
  ASSUME FInv, CancelCopy
  PROVE  FInv' /\ ContentStep
<1> DEFINE f == IF op.tree THEN TreeErased(fs, op.target) ELSE FileErased(fs, op.target)
<1>1. /\ Copying /\ ThreadOnly /\ op.stage \in {"writing", "entries"}
      /\ fs' = CutShort(f) /\ ItemEnds(<<>>)
  BY DEF CancelCopy, ItemEnds
<1>2. InItem  BY <1>1 DEF InItem, Copying
<1>3. f = fs \/ f = Erased(fs, op.target)  BY DEF TreeErased, FileErased
<1> HIDE DEF f
<1>4. QED  BY <1>1, <1>2, <1>3, TargetGone, CutShortEnds, EmptySteps

\* The end of an item whose copy is whole: none of it is written any more.
LEMMA CopiedItem ==
  ASSUME FInv, ItemCopied
  PROVE  /\ Copying /\ InItem /\ op.stage = "entries" /\ op.todo = {}
         /\ Source \in Paths /\ op.target \in Paths
         /\ \A q \in DOMAIN fs : ~fs[q].open
<1>1. Copying /\ InItem /\ op.stage = "entries" /\ op.todo = {}
  BY DEF ItemCopied, InItem, Copying
<1>2. op.at \in DOMAIN op.items /\ op.target \in Paths  BY <1>1 DEF FInv, ItemRight
<1>3. Source \in Paths  BY <1>1, <1>2, CopyingIs DEF Source
<1>4. QED  BY <1>1, <1>2, <1>3, CopyingIs

\* A copied item ends.
LEMMA EndCopyKeeps ==
  ASSUME FInv, EndCopy
  PROVE  FInv' /\ ContentStep
<1>1. ItemCopied /\ ItemEnds(<<Created(op.target)>>) /\ fs' = fs /\ ThreadOnly
  BY DEF EndCopy, ItemEnds
<1>2. Created(op.target) \in Steps  BY <1>1, CopiedItem, StepsAre
<1>3. <<Created(op.target)>> \in Seq(Steps)  BY <1>2
<1>4. FInv'  BY <1>1, <1>3, CopiedItem, CopyingIs, ItemEndsKeeps DEF FInv
<1>5. QED  BY <1>1, <1>4, NothingLost, ThreadTrash

\* A moved item ends, its source removed in whole or in part.
LEMMA SourceEnds ==
  ASSUME FInv, ItemCopied, op.kind = "move", ThreadOnly, NEW steps \in Seq(Steps),
         ItemEnds(steps), IsTree(fs'), DOMAIN fs' \subseteq DOMAIN fs,
         \A q \in DOMAIN fs' : fs'[q] = fs[q],
         \A q \in DOMAIN fs : ~IsPrefix(Source, q) => q \in DOMAIN fs'
  PROVE  FInv' /\ ContentStep
<1>1. \A q \in DOMAIN fs' : ~fs'[q].open  BY CopiedItem
<1>2. FInv'  BY <1>1, CopiedItem, CopyingIs, ItemEndsKeeps
<1>3. Whole(Erased(fs, Source)) \subseteq Whole(fs')
  <2>1. /\ DOMAIN Erased(fs, Source) = {r \in DOMAIN fs : ~IsPrefix(Source, r)}
        /\ \A r \in DOMAIN Erased(fs, Source) : Erased(fs, Source)[r] = fs[r]
    BY CopiedItem, ErasedIs DEF FInv
  <2>2. QED  BY <2>1, WholeIs
<1>4. Lost \subseteq op.late  BY <1>3, CopiedItem, SourceErasedIs, LostIs, ThreadTrash
<1>5. QED  BY <1>2, <1>4, CopiedItem DEF ContentStep, InItem

\* The source is removed.
LEMMA EndMoveKeeps ==
  ASSUME FInv, EndMove
  PROVE  FInv' /\ ContentStep
<1>1. ItemCopied /\ op.kind = "move" /\ ThreadOnly  BY DEF EndMove
<1>2. CASE Exists(fs, Source)
  <2>1. fs' = Erased(fs, Source) /\ ItemEnds(<<Moved(Source, op.target)>>)
    BY <1>2 DEF EndMove, ItemEnds
  <2>2. Moved(Source, op.target) \in Steps  BY <1>1, CopiedItem, StepsAre
  <2>3. <<Moved(Source, op.target)>> \in Seq(Steps)  BY <2>2
  <2>4. /\ IsTree(fs') /\ DOMAIN fs' = {q \in DOMAIN fs : ~IsPrefix(Source, q)}
        /\ \A q \in DOMAIN fs' : fs'[q] = fs[q]
    BY <1>1, <2>1, CopiedItem, ErasedIs DEF FInv
  <2>5. QED  BY <1>1, <2>1, <2>3, <2>4, SourceEnds
<1>3. CASE ~Exists(fs, Source)
  <2>1. fs' = fs /\ ItemEnds(<<>>)  BY <1>3 DEF EndMove, ItemEnds
  <2>2. FInv'  BY <1>1, <2>1, EmptySteps, CopiedItem, CopyingIs, ItemEndsKeeps DEF FInv
  <2>3. QED  BY <1>1, <2>1, <2>2, NothingLost, ThreadTrash
<1>4. QED  BY <1>2, <1>3

\* The removal of the source fails partway.
LEMMA FailMoveKeeps ==
  ASSUME FInv, FailMove
  PROVE  FInv' /\ ContentStep
<1>1. ItemCopied /\ op.kind = "move" /\ ThreadOnly /\ ItemEnds(<<>>)
  BY DEF FailMove, ItemEnds
<1>2. PICK keep : fs' = PartlyErased(fs, Source, keep)  BY DEF FailMove
<1>3. Source \in Paths /\ IsTree(fs)  BY <1>1, CopiedItem DEF FInv
<1>4. /\ IsTree(fs')
      /\ DOMAIN fs' \subseteq DOMAIN fs
      /\ \A q \in DOMAIN fs : ~IsPrefix(Source, q) => q \in DOMAIN fs'
      /\ \A q \in DOMAIN fs' : fs'[q] = fs[q]
  BY <1>2, <1>3, PartlyErasedIs
<1>5. QED  BY <1>1, <1>4, EmptySteps, SourceEnds

-----------------------------------------------------------------------------
(* The thread: one item copied.                                            *)

\* Names in different volumes are not below one another.
LEMMA Apart ==
  ASSUME NEW p \in Paths, NEW q \in Paths, Volume(p) # Volume(q)
  PROVE  ~IsPrefix(p, q)
  BY PrefixIs, PathIs

\* What a copy makes of a node.
LEMMA CopiedNode ==
  ASSUME NEW node \in Nodes, NEW by \in Nat, NEW n, n = Copied(node, by)
  PROVE  /\ n \in Nodes /\ n.kind = node.kind
         /\ n.open <=> n.kind = "file"
         /\ Good(n) => Full(node) /\ n.data = node.data
         /\ Full(node) => Good(n)
<1>1. /\ n \in Nodes /\ n.kind = node.kind
      /\ Good(n) => Full(node) /\ n.data = node.data
      /\ Full(node) => Good(n)
  BY CopiedKeeps
<1>2. Copied(node, by).open <=> node.kind = "file"  BY CopiedKeeps
<1>3. n.open <=> node.kind = "file"  BY <1>2, Zenon
<1>4. QED  BY <1>1, <1>3

\* The first system call of an item: what the target is to hold its source holds.
LEMMA OpenItemKeeps ==
  ASSUME FInv, OpenItem
  PROVE  FInv' /\ ContentStep
<1> DEFINE n == Copied(fs[Source], op.id)
<1>1. PICK to : /\ ~Renames(Source, to) /\ Free(fs, to)
                /\ fs' = Put(fs, to, n)
                /\ op' = [op EXCEPT
                     !.target = to,
                     !.tree = fs[Source].kind = "dir",
                     !.todo = IF fs[Source].kind = "dir" THEN Children(fs', Source) ELSE {},
                     !.stage = IF fs[Source].kind = "file" THEN "writing" ELSE "entries"]
  BY DEF OpenItem
<1>2. /\ Copying /\ op.stage = "next" /\ op.at <= Len(op.items) /\ Exists(fs, Source)
      /\ ThreadOnly
  BY DEF OpenItem
<1>3. /\ op # NoOp /\ op.kind \in {"copy", "move", "duplicate"} /\ DOMAIN op = Fields
      /\ op.id \in Nat /\ op.items \in Seq(Paths) /\ op.at \in DOMAIN op.items
      /\ op.at \in Nat \ {0} /\ op.steps \in Seq(Steps)
      /\ Source \in Paths /\ Source \in DOMAIN fs
      /\ \A q \in DOMAIN fs : ~fs[q].open
  <2>1. op # NoOp /\ op.kind \in {"copy", "move", "duplicate"}  BY <1>2 DEF Copying
  <2>2. Source \in Paths /\ \A q \in DOMAIN fs : ~fs[q].open  BY <1>2, CopyingIs
  <2>3. Source \in DOMAIN fs  BY <1>2, <2>2, PathIs DEF Exists
  <2>4. /\ DOMAIN op = Fields /\ op.id \in Nat /\ op.items \in Seq(Paths)
        /\ op.at \in Nat \ {0} /\ op.steps \in Seq(Steps)
    BY <2>1 DEF FInv, OpRight
  <2>5. op.at \in DOMAIN op.items  BY <1>2, <2>4
  <2>6. QED  BY <2>1, <2>2, <2>3, <2>4, <2>5
<1>4. /\ n \in Nodes /\ n.kind = fs[Source].kind /\ (n.open <=> n.kind = "file")
      /\ Good(n) => Full(fs[Source]) /\ n.data = fs[Source].data
      /\ Full(fs[Source]) => Good(n)
  <2>1. fs[Source] \in Nodes  BY <1>3, TreeNode DEF FInv
  <2>2. op.id \in Nat  BY <1>3
  <2>3. QED  BY <2>1, <2>2, CopiedNode
<1> HIDE DEF n
<1>5. FileOnly(n) /\ ~Full(n)  BY <1>4 DEF FileOnly, Full
<1>6. IsTree(fs') /\ Whole(fs) \subseteq Whole(fs')
  BY <1>1, <1>4, <1>5, PutKeeps DEF FInv
<1>7. /\ to \in Paths /\ DOMAIN fs' = DOMAIN fs \cup {to} /\ fs'[to] = n
      /\ \A q \in DOMAIN fs : q # to /\ fs'[q] = fs[q] /\ ~IsPrefix(to, q)
  <2>1. /\ DOMAIN fs' = DOMAIN fs \cup {to} /\ fs'[to] = n
        /\ \A q \in DOMAIN fs : q # to /\ fs'[q] = fs[q]
    <3>1. to \notin DOMAIN fs /\ fs' = Put(fs, to, n)  BY <1>1 DEF Free
    <3>2. QED  BY <3>1 DEF Put, Joined
  <2>2. to \in Paths /\ to \notin DOMAIN fs  BY <1>1 DEF Free
  <2>3. QED  BY <2>1, <2>2, NothingBelow DEF FInv
<1>8. /\ DOMAIN op' = Fields /\ op'.kind = op.kind /\ op'.id = op.id /\ op'.items = op.items
      /\ op'.at = op.at /\ op'.steps = op.steps /\ op'.late = op.late /\ op'.target = to
      /\ op'.todo = IF fs[Source].kind = "dir" THEN Children(fs', Source) ELSE {}
      /\ op'.stage = IF fs[Source].kind = "file" THEN "writing" ELSE "entries"
  <2> DEFINE tree == fs[Source].kind = "dir"
             todo == IF fs[Source].kind = "dir" THEN Children(fs', Source) ELSE {}
             stage == IF fs[Source].kind = "file" THEN "writing" ELSE "entries"
  <2>1. op' = [op EXCEPT !.target = to, !.tree = tree, !.todo = todo, !.stage = stage]
    BY <1>1
  <2> HIDE DEF tree, todo, stage
  <2>2. /\ DOMAIN op' = Fields /\ op'.kind = op.kind /\ op'.id = op.id /\ op'.items = op.items
        /\ op'.at = op.at /\ op'.steps = op.steps /\ op'.late = op.late /\ op'.target = to
        /\ op'.todo = todo /\ op'.stage = stage
    BY <1>3, <2>1 DEF Fields
  <2>3. QED  BY <2>2 DEF todo, stage
<1>9. op' # NoOp /\ Source' = Source  BY <1>8, OpIs DEF Source
<1>10. op'.kind = "move" => Volume(to) # Volume(Source)
  BY <1>1, <1>8 DEF Renames
<1>11. OpRight'  BY <1>3, <1>8 DEF OpRight
<1>12. \A x \in op'.todo : x \in Paths /\ Parent(x) = Source
  BY <1>6, <1>8, TreeNode DEF Children
<1>13. ItemRight'  BY <1>3, <1>7, <1>8, <1>9, <1>10, <1>12 DEF ItemRight
<1>14. OpensRight'  BY <1>3, <1>4, <1>7, <1>8, <1>9 DEF OpensRight
<1>15. TargetKept'
  <2> SUFFICES ASSUME NEW q \in DOMAIN fs', Good(fs'[q]), fs'[q].open \/ IsPrefix(to, q)
               PROVE  \E r \in DOMAIN fs' :
                        ~IsPrefix(to, r) /\ Full(fs'[r]) /\ fs'[r].data = fs'[q].data
    BY <1>8 DEF TargetKept
  <2>1. q = to  BY <1>3, <1>7
  <2>2. Full(fs[Source]) /\ fs'[q].data = fs[Source].data  BY <1>4, <1>7, <2>1
  <2>3. QED  BY <1>3, <1>7, <2>2
<1>16. SourceKept'
  <2> SUFFICES ASSUME op'.kind = "move", NEW q \in DOMAIN fs', IsPrefix(Source, q), Full(fs'[q])
               PROVE  \/ q \in op'.todo
                      \/ \E r \in DOMAIN fs' :
                           ~IsPrefix(Source, r) /\ Good(fs'[r]) /\ fs'[r].data = fs'[q].data
    BY <1>9 DEF SourceKept
  <2>1. ~IsPrefix(Source, to)  BY <1>3, <1>7, <1>10, Apart
  <2>2. q \in DOMAIN fs /\ q \in Paths  BY <1>7, <2>1, TreeNode DEF FInv
  <2>3. CASE q = Source
    <3>1. Full(fs[Source])  BY <1>7, <2>2, <2>3
    <3>2. Good(n) /\ n.data = fs[Source].data  BY <1>4, <3>1
    <3>3. QED  BY <1>7, <2>1, <2>2, <2>3, <3>2
  <2>4. CASE q # Source
    <3>1. Parent(q) = Source  BY <1>3, <2>2, <2>4, PrefixIs
    <3>2. fs[Source].kind = "dir"
      <4>1. Source \notin Roots  BY <1>3, PathIs
      <4>2. QED  BY <2>2, <3>1, <4>1, TreeNode DEF FInv
    <3>3. q \in op'.todo  BY <1>8, <3>1, <3>2 DEF Children
    <3>4. QED  BY <3>3
  <2>5. QED  BY <2>3, <2>4
<1>17. TrashRight' /\ JournalRight' /\ (serial \in Nat)'
  BY <1>2 DEF ThreadOnly, FInv, TrashRight, JournalRight
<1>18. ContentStep  BY <1>2, <1>6, NothingLost, ThreadTrash
<1>19. QED  BY <1>6, <1>11, <1>13, <1>14, <1>15, <1>16, <1>17, <1>18 DEF FInv

\* A child is opened: it leaves what is to be copied, and is to be held.
LEMMA OpenChildKeeps ==
  ASSUME FInv, NEW c, OpenChild(c)
  PROVE  FInv' /\ ContentStep
<1> DEFINE to == ChildTarget(c)
           n == Copied(fs[c], op.id)
           todo == op.todo \ {c}
           stage == IF fs[c].kind = "file" THEN "writing" ELSE "entries"
<1>1. /\ Copying /\ op.stage = "entries" /\ c \in op.todo /\ Exists(fs, c) /\ Free(fs, to)
      /\ fs' = Put(fs, to, n) /\ op' = [op EXCEPT !.todo = todo, !.stage = stage]
      /\ ThreadOnly
  BY DEF OpenChild, Readable
<1>2. InItem  BY <1>1 DEF InItem, Copying
<1>3. /\ op.at \in DOMAIN op.items /\ op.target \in Paths
      /\ op.kind = "move" => Volume(op.target) # Volume(Source)
      /\ \A x \in op.todo : x \in Paths /\ Parent(x) = Source
  BY <1>2 DEF FInv, ItemRight
<1>4. /\ op # NoOp /\ op.kind \in {"copy", "move", "duplicate"} /\ DOMAIN op = Fields
      /\ op.id \in Nat /\ op.items \in Seq(Paths)
      /\ op.at \in Nat \ {0} /\ op.steps \in Seq(Steps) /\ Source \in Paths
      /\ \A q \in DOMAIN fs : ~fs[q].open
  <2>1. op # NoOp /\ op.kind \in {"copy", "move", "duplicate"}  BY <1>1 DEF Copying
  <2>2. /\ DOMAIN op = Fields /\ op.id \in Nat /\ op.items \in Seq(Paths)
        /\ op.at \in Nat \ {0} /\ op.steps \in Seq(Steps)
    BY <2>1 DEF FInv, OpRight
  <2>3. Source \in Paths  BY <1>3, <2>2 DEF Source
  <2>4. QED  BY <1>1, <2>1, <2>2, <2>3, CopyingIs
<1>5. c \in Paths /\ c \in DOMAIN fs  BY <1>1, <1>3, PathIs DEF Exists
<1>6. /\ n \in Nodes /\ n.kind = fs[c].kind /\ (n.open <=> n.kind = "file")
      /\ Good(n) => Full(fs[c]) /\ n.data = fs[c].data
      /\ Full(fs[c]) => Good(n)
  <2>1. fs[c] \in Nodes  BY <1>5, TreeNode DEF FInv
  <2>2. op.id \in Nat  BY <1>4
  <2>3. QED  BY <2>1, <2>2, CopiedNode
<1> HIDE DEF n
<1>7. FileOnly(n) /\ ~Full(n)  BY <1>6 DEF FileOnly, Full
<1>8. IsTree(fs') /\ Whole(fs) \subseteq Whole(fs')
  BY <1>1, <1>6, <1>7, PutKeeps DEF FInv
<1>9. /\ to \in Paths /\ Parent(to) = op.target /\ Volume(to) = Volume(op.target)
  <2>1. to \in Paths  BY <1>1 DEF Free
  <2>2. Parent(to) = op.target  BY <1>3, <2>1, AppendIs DEF ChildTarget
  <2> HIDE DEF to
  <2>3. Volume(to) = Volume(op.target)  BY <1>3, <2>1, <2>2, PathIs
  <2>4. QED  BY <2>1, <2>2, <2>3
<1> HIDE DEF to
<1>10. /\ DOMAIN fs' = DOMAIN fs \cup {to} /\ fs'[to] = n
       /\ \A q \in DOMAIN fs : q # to /\ fs'[q] = fs[q]
  <2>1. to \notin DOMAIN fs /\ fs' = Put(fs, to, n)  BY <1>1 DEF Free
  <2>2. QED  BY <2>1 DEF Put, Joined
<1> HIDE DEF todo, stage
<1>11. /\ DOMAIN op' = Fields /\ op'.kind = op.kind /\ op'.id = op.id /\ op'.items = op.items
       /\ op'.at = op.at /\ op'.steps = op.steps /\ op'.late = op.late
       /\ op'.target = op.target /\ op'.todo = todo /\ op'.stage = stage
  BY <1>1, <1>4 DEF Fields
<1>12. stage \in {"writing", "entries"} /\ (n.open => stage = "writing")
  BY <1>6 DEF stage
<1>13. todo \subseteq op.todo /\ \A q \in op.todo : q # c => q \in todo  BY DEF todo
<1>14. op' # NoOp /\ Source' = Source  BY <1>11, OpIs DEF Source
<1>15. OpRight'  BY <1>4, <1>11, <1>12 DEF OpRight
<1>16. ItemRight'  BY <1>3, <1>11, <1>13, <1>14 DEF ItemRight
<1>17. OpensRight'  BY <1>4, <1>9, <1>10, <1>11, <1>12, <1>14 DEF OpensRight
<1>18. TargetKept'
  <2> SUFFICES ASSUME NEW q \in DOMAIN fs', Good(fs'[q]),
                      fs'[q].open \/ IsPrefix(op.target, q)
               PROVE  \/ fs'[q].data \in op.late
                      \/ \E r \in DOMAIN fs' :
                           ~IsPrefix(op.target, r) /\ Full(fs'[r]) /\ fs'[r].data = fs'[q].data
    BY <1>11 DEF TargetKept
  <2>1. ASSUME NEW p \in DOMAIN fs, Good(fs[p]), IsPrefix(op.target, p),
               fs[p].data = fs'[q].data
        PROVE  \/ fs'[q].data \in op.late
               \/ \E r \in DOMAIN fs' :
                    ~IsPrefix(op.target, r) /\ Full(fs'[r]) /\ fs'[r].data = fs'[q].data
    <3>1. \/ fs[p].data \in op.late
          \/ \E r \in DOMAIN fs : ~IsPrefix(op.target, r) /\ Full(fs[r]) /\ fs[r].data = fs[p].data
      BY <1>2, <2>1 DEF FInv, TargetKept
    <3>2. QED  BY <1>10, <2>1, <3>1
  <2>2. CASE q = to
    <3>1. Full(fs[c]) /\ fs'[q].data = fs[c].data  BY <1>6, <1>10, <2>2
    <3>2. CASE IsPrefix(op.target, c)
      <4>1. Good(fs[c])  BY <3>1 DEF Full, Good
      <4>2. QED  BY <1>5, <2>1, <3>1, <3>2, <4>1
    <3>3. CASE ~IsPrefix(op.target, c)  BY <1>5, <1>10, <3>1, <3>3
    <3>4. QED  BY <3>2, <3>3
  <2>3. CASE q \in DOMAIN fs  BY <1>4, <1>10, <2>1, <2>3
  <2>4. QED  BY <1>10, <2>2, <2>3
<1>19. SourceKept'
  <2> SUFFICES ASSUME op.kind = "move", NEW q \in DOMAIN fs', IsPrefix(Source, q), Full(fs'[q])
               PROVE  \/ q \in todo
                      \/ fs'[q].data \in op.late
                      \/ \E r \in DOMAIN fs' :
                           ~IsPrefix(Source, r) /\ Good(fs'[r]) /\ fs'[r].data = fs'[q].data
    BY <1>11, <1>14 DEF SourceKept
  <2>1. ~IsPrefix(Source, to)  BY <1>3, <1>4, <1>9, Apart
  <2>2. q \in DOMAIN fs /\ Full(fs[q]) /\ fs'[q].data = fs[q].data  BY <1>10, <2>1
  <2>3. \/ q \in op.todo
        \/ fs[q].data \in op.late
        \/ \E r \in DOMAIN fs : ~IsPrefix(Source, r) /\ Good(fs[r]) /\ fs[r].data = fs[q].data
    BY <1>2, <2>2 DEF FInv, SourceKept
  <2>4. CASE q = c
    <3>1. Good(n) /\ n.data = fs[q].data  BY <1>6, <2>2, <2>4
    <3>2. QED  BY <1>10, <2>1, <2>2, <3>1
  <2>5. CASE q # c  BY <1>10, <1>13, <2>2, <2>3, <2>5
  <2>6. QED  BY <2>4, <2>5
<1>20. TrashRight' /\ JournalRight' /\ (serial \in Nat)'
  BY <1>1 DEF ThreadOnly, FInv, TrashRight, JournalRight
<1>21. ContentStep  BY <1>1, <1>8, NothingLost, ThreadTrash
<1>22. QED  BY <1>8, <1>15, <1>16, <1>17, <1>18, <1>19, <1>20, <1>21 DEF FInv

\* A file is finished: what was to be held is.
LEMMA FinishFileKeeps ==
  ASSUME FInv, FinishFile
  PROVE  FInv' /\ ContentStep
<1>1. /\ Copying /\ op.stage = "writing" /\ fs' = Finished(fs)
      /\ op' = [op EXCEPT !.stage = "entries"] /\ ThreadOnly
  BY DEF FinishFile
<1>2. InItem  BY <1>1 DEF InItem, Copying
<1>3. /\ op # NoOp /\ op.kind \in {"copy", "move", "duplicate"} /\ DOMAIN op = Fields
      /\ op.id \in Nat /\ op.items \in Seq(Paths)
      /\ op.at \in Nat \ {0} /\ op.steps \in Seq(Steps)
      /\ op.at \in DOMAIN op.items /\ Source \in Paths
  <2>1. op # NoOp /\ op.kind \in {"copy", "move", "duplicate"}  BY <1>1 DEF Copying
  <2>2. /\ DOMAIN op = Fields /\ op.id \in Nat /\ op.items \in Seq(Paths)
        /\ op.at \in Nat \ {0} /\ op.steps \in Seq(Steps)
    BY <2>1 DEF FInv, OpRight
  <2>3. op.at \in DOMAIN op.items  BY <1>2 DEF FInv, ItemRight
  <2>4. QED  BY <2>1, <2>2, <2>3 DEF Source
<1>4. /\ IsTree(fs') /\ DOMAIN fs' = DOMAIN fs
      /\ \A q \in DOMAIN fs : /\ ~fs'[q].open /\ fs'[q].kind = fs[q].kind
                              /\ fs'[q].data = fs[q].data
  BY <1>1, FinishedIs DEF FInv
<1>5. \A q \in DOMAIN fs : /\ Good(fs'[q]) <=> Good(fs[q])
                           /\ Full(fs'[q]) <=> Good(fs[q])
                           /\ Full(fs[q]) => Full(fs'[q])
  BY <1>4 DEF Good, Full
<1>6. Whole(fs) \subseteq Whole(fs')  BY <1>4, <1>5, WholeIs
<1>7. /\ DOMAIN op' = Fields /\ op'.kind = op.kind /\ op'.id = op.id /\ op'.items = op.items
      /\ op'.at = op.at /\ op'.steps = op.steps /\ op'.late = op.late
      /\ op'.target = op.target /\ op'.todo = op.todo /\ op'.stage = "entries"
  BY <1>1, <1>3 DEF Fields
<1>8. op' # NoOp /\ Source' = Source  BY <1>7, OpIs DEF Source
<1>9. OpRight'  BY <1>3, <1>7 DEF OpRight
<1>10. ItemRight'  BY <1>2, <1>7, <1>8 DEF FInv, ItemRight
<1>11. OpensRight'  BY <1>4 DEF OpensRight
<1>12. TargetKept'
  <2> SUFFICES ASSUME NEW q \in DOMAIN fs, Good(fs'[q]), IsPrefix(op.target, q)
               PROVE  \/ fs'[q].data \in op.late
                      \/ \E r \in DOMAIN fs' :
                           ~IsPrefix(op.target, r) /\ Full(fs'[r]) /\ fs'[r].data = fs'[q].data
    BY <1>4, <1>7 DEF TargetKept
  <2>1. Good(fs[q])  BY <1>5
  <2>2. \/ fs[q].data \in op.late
        \/ \E r \in DOMAIN fs : ~IsPrefix(op.target, r) /\ Full(fs[r]) /\ fs[r].data = fs[q].data
    BY <1>2, <2>1 DEF FInv, TargetKept
  <2>3. QED  BY <1>4, <1>5, <2>2
<1>13. SourceKept'
  <2> SUFFICES ASSUME op.kind = "move", NEW q \in DOMAIN fs, IsPrefix(Source, q), Full(fs'[q])
               PROVE  \/ q \in op.todo
                      \/ fs'[q].data \in op.late
                      \/ \E r \in DOMAIN fs' :
                           ~IsPrefix(Source, r) /\ Good(fs'[r]) /\ fs'[r].data = fs'[q].data
    BY <1>4, <1>7, <1>8 DEF SourceKept
  <2>1. ~fs[q].open
    <3> SUFFICES ASSUME fs[q].open PROVE FALSE  OBVIOUS
    <3>1. Volume(q) = Volume(op.target)  BY DEF FInv, OpensRight
    <3>2. Volume(op.target) # Volume(Source)  BY <1>2 DEF FInv, ItemRight
    <3>3. q \in Paths  BY TreeNode DEF FInv
    <3>4. QED  BY <1>3, <3>1, <3>2, <3>3, Apart
  <2>2. Full(fs[q])  BY <1>5, <2>1 DEF Full, Good
  <2>3. \/ q \in op.todo
        \/ fs[q].data \in op.late
        \/ \E r \in DOMAIN fs : ~IsPrefix(Source, r) /\ Good(fs[r]) /\ fs[r].data = fs[q].data
    BY <1>2, <2>2 DEF FInv, SourceKept
  <2>4. QED  BY <1>4, <1>5, <2>3
<1>14. TrashRight' /\ JournalRight' /\ (serial \in Nat)'
  BY <1>1 DEF ThreadOnly, FInv, TrashRight, JournalRight
<1>15. ContentStep  BY <1>1, <1>6, NothingLost, ThreadTrash
<1>16. QED  BY <1>4, <1>9, <1>10, <1>11, <1>12, <1>13, <1>14, <1>15 DEF FInv

-----------------------------------------------------------------------------
(* The thread: a batch to the trash.                                       *)

\* An operation that takes a batch to the trash is never inside an item.
LEMMA TrashingKeeps ==
  ASSUME DOMAIN op' = Fields, op'.kind = "trash", op'.stage = "check", op'.id \in Nat,
         op'.items \in Seq(Paths), op'.at \in Nat \ {0}, op'.steps \in Seq(Steps),
         \A q \in DOMAIN fs' : ~fs'[q].open
  PROVE  OpRight' /\ ItemRight' /\ OpensRight' /\ TargetKept' /\ SourceKept'
<1>1. OpRight'  BY DEF OpRight
<1>2. ~InItem'  BY DEF InItem
<1>3. QED  BY <1>1, <1>2 DEF ItemRight, OpensRight, TargetKept, SourceKept

\* What the invariant says while a batch goes to the trash.
LEMMA TrashOpIs ==
  ASSUME FInv, op # NoOp, op.kind = "trash"
  PROVE  /\ DOMAIN op = Fields /\ op.id \in Nat /\ op.items \in Seq(Paths)
         /\ op.at \in Nat \ {0} /\ op.steps \in Seq(Steps) /\ op.stage \in {"next", "check"}
         /\ \A q \in DOMAIN fs : ~fs[q].open
<1>1. /\ DOMAIN op = Fields /\ op.id \in Nat /\ op.items \in Seq(Paths)
      /\ op.at \in Nat \ {0} /\ op.steps \in Seq(Steps) /\ op.stage \in {"next", "check"}
  BY DEF FInv, OpRight
<1>2. QED  BY <1>1, NoneOpen DEF FInv

\* What goes to the trash is a branch of the tree.
LEMMA SubtreeIs ==
  ASSUME NEW f, IsTree(f), NEW p \in Paths, p \in DOMAIN f, \A q \in DOMAIN f : ~f[q].open,
         NEW t, t = Subtree(f, p)
  PROVE  /\ IsBranch(t, p)
         /\ \A q : q \in DOMAIN t <=> q \in DOMAIN f /\ IsPrefix(p, q)
         /\ \A q \in DOMAIN t : t[q] = f[q]
<1>1. /\ DOMAIN t = {q \in DOMAIN f : IsPrefix(p, q)} /\ t = [q \in DOMAIN t |-> t[q]]
      /\ \A q \in DOMAIN t : t[q] = f[q]
  BY DEF Subtree, Restrict, Below
<1>2. \A q \in DOMAIN t : q \in Paths /\ t[q] \in Nodes /\ ~t[q].open  BY <1>1, TreeNode
<1>3. t \in [DOMAIN t -> Nodes]  BY <1>1, <1>2
<1>4. ASSUME NEW q \in DOMAIN t, q # p PROVE IsDir(t, Parent(q))
  <2>1. q \in Paths /\ q \in DOMAIN f /\ IsPrefix(p, q)  BY <1>1, <1>2
  <2>2. Parent(q) = p  BY <1>4, <2>1, PrefixIs
  <2>3. p \notin Roots  BY PathIs
  <2>4. f[p].kind = "dir"  BY <2>1, <2>2, <2>3, TreeNode
  <2>5. p \in DOMAIN t  BY <1>1, PrefixIs
  <2>6. QED  BY <1>1, <2>2, <2>4, <2>5 DEF IsDir
<1>5. DOMAIN t \subseteq Below(t, p)  BY <1>1 DEF Below
<1>6. QED  BY <1>1, <1>2, <1>3, <1>4, <1>5 DEF IsBranch

\* The entries one gio call lists.
WentEntry(i) ==
  [uri |-> MaxItems * op.id + i, original |-> op.items[i], tree |-> Subtree(fs, op.items[i])]

\* All of them.
Went(gone) == {WentEntry(i) : i \in gone}

\* What they hold.
LEMMA WentIs ==
  ASSUME NEW gone
  PROVE  /\ \A e \in Went(gone) : \E i \in gone :
              e.uri = MaxItems * op.id + i /\ e.original = op.items[i]
              /\ e.tree = Subtree(fs, op.items[i])
         /\ \A i \in gone : \E e \in Went(gone) : e.tree = Subtree(fs, op.items[i])
<1>1. \A i \in gone : /\ WentEntry(i).uri = MaxItems * op.id + i
                      /\ WentEntry(i).original = op.items[i]
                      /\ WentEntry(i).tree = Subtree(fs, op.items[i])
  BY DEF WentEntry
<1>2. \A e : e \in Went(gone) <=> \E i \in gone : e = WentEntry(i)  BY DEF Went
<1>3. ASSUME NEW e \in Went(gone)
      PROVE  \E i \in gone : e.uri = MaxItems * op.id + i /\ e.original = op.items[i]
                             /\ e.tree = Subtree(fs, op.items[i])
  <2>1. PICK i \in gone : e = WentEntry(i)  BY <1>2
  <2>2. QED  BY <1>1, <2>1
<1>4. ASSUME NEW i \in gone PROVE \E e \in Went(gone) : e.tree = Subtree(fs, op.items[i])
  <2>1. WentEntry(i) \in Went(gone)  BY <1>2
  <2>2. QED  BY <1>1, <2>1
<1>5. QED  BY <1>3, <1>4

\* gio: what leaves the files is in the trash.
LEMMA GioTrashKeeps ==
  ASSUME FInv, op # NoOp, GioTrash
  PROVE  FInv' /\ ContentStep
<1>1. PICK gone \in SUBSET {i \in DOMAIN op.items : Exists(fs, op.items[i])} :
        /\ fs' = Restrict(fs, DOMAIN fs \ UNION {DOMAIN e.tree : e \in Went(gone)})
        /\ trash' = trash \cup Went(gone)
        /\ op' = [op EXCEPT !.stage = "check", !.listed = Uris(Went(gone))]
  BY DEF GioTrash, Went, WentEntry
<1>2. op.kind = "trash" /\ journal' = journal /\ serial' = serial  BY DEF GioTrash
<1>3. /\ DOMAIN op = Fields /\ op.id \in Nat /\ op.items \in Seq(Paths)
      /\ op.at \in Nat \ {0} /\ op.steps \in Seq(Steps)
      /\ \A q \in DOMAIN fs : ~fs[q].open
  BY <1>2, TrashOpIs
<1>4. \A i \in gone : i \in Nat /\ op.items[i] \in Paths /\ op.items[i] \in DOMAIN fs
  <2>1. \A i \in gone : i \in DOMAIN op.items /\ Exists(fs, op.items[i])  BY <1>1
  <2>2. \A i \in DOMAIN op.items : i \in Nat /\ op.items[i] \in Paths  BY <1>3
  <2>3. QED  BY <2>1, <2>2, PathIs DEF Exists
<1>5. ASSUME NEW i \in gone, NEW t, t = Subtree(fs, op.items[i])
      PROVE  /\ IsBranch(t, op.items[i])
             /\ \A q : q \in DOMAIN t <=> q \in DOMAIN fs /\ IsPrefix(op.items[i], q)
             /\ \A q \in DOMAIN t : t[q] = fs[q]
  <2> DEFINE p == op.items[i]
  <2>1. p \in Paths /\ p \in DOMAIN fs /\ t = Subtree(fs, p)  BY <1>4, <1>5
  <2>2. IsTree(fs) /\ \A q \in DOMAIN fs : ~fs[q].open  BY <1>3 DEF FInv
  <2> HIDE DEF p
  <2>3. /\ IsBranch(t, p)
        /\ \A q : q \in DOMAIN t <=> q \in DOMAIN fs /\ IsPrefix(p, q)
        /\ \A q \in DOMAIN t : t[q] = fs[q]
    BY <2>1, <2>2, SubtreeIs
  <2>4. QED  BY <2>3 DEF p
<1> DEFINE W == Went(gone)
           G == UNION {DOMAIN e.tree : e \in W}
<1>6. /\ \A e \in W : \E i \in gone :
              e.uri = MaxItems * op.id + i /\ e.original = op.items[i]
              /\ e.tree = Subtree(fs, op.items[i])
      /\ \A i \in gone : \E e \in W : e.tree = Subtree(fs, op.items[i])
  BY WentIs
<1>7. /\ fs' = Restrict(fs, DOMAIN fs \ G) /\ trash' = trash \cup W
      /\ op' = [op EXCEPT !.stage = "check", !.listed = Uris(W)]
  BY <1>1
<1> HIDE DEF W
<1>8. \A q : q \in G <=> q \in DOMAIN fs /\ \E i \in gone : IsPrefix(op.items[i], q)
  <2>1. ASSUME NEW q \in G PROVE q \in DOMAIN fs /\ \E i \in gone : IsPrefix(op.items[i], q)
    <3>1. PICK e \in W : q \in DOMAIN e.tree  OBVIOUS
    <3>2. PICK i \in gone : e.tree = Subtree(fs, op.items[i])  BY <1>6
    <3>3. QED  BY <1>5, <3>1, <3>2
  <2>2. ASSUME NEW q \in DOMAIN fs, NEW i \in gone, IsPrefix(op.items[i], q) PROVE q \in G
    <3>1. PICK e \in W : e.tree = Subtree(fs, op.items[i])  BY <1>6
    <3>2. q \in DOMAIN e.tree  BY <1>5, <2>2, <3>1
    <3>3. QED  BY <3>2
  <2>3. QED  BY <2>1, <2>2
<1> HIDE DEF G
<1>9. /\ DOMAIN fs' = DOMAIN fs \ G /\ fs' = [q \in DOMAIN fs' |-> fs'[q]]
      /\ \A q \in DOMAIN fs' : q \in DOMAIN fs /\ fs'[q] = fs[q]
  BY <1>7, <1>8 DEF Restrict
<1>10. IsTree(fs')
  <2>1. ASSUME NEW q \in DOMAIN fs'
        PROVE  /\ q \in Paths /\ fs'[q] \in Nodes /\ ~fs'[q].open
               /\ Parent(q) \in Roots \/ (Parent(q) \in DOMAIN fs' /\ fs'[Parent(q)].kind = "dir")
    <3>1. q \in Paths /\ q \in DOMAIN fs /\ q \notin G /\ fs'[q] = fs[q] /\ fs[q] \in Nodes
      BY <1>9, TreeNode DEF FInv
    <3>2. CASE Parent(q) \in Roots  BY <1>3, <3>1, <3>2
    <3>3. CASE Parent(q) \notin Roots
      <4>1. Parent(q) \in DOMAIN fs /\ fs[Parent(q)].kind = "dir" /\ Parent(q) \in Paths
        BY <3>1, <3>3, TreeNode DEF FInv
      <4>2. Parent(q) \notin G
        <5> SUFFICES ASSUME Parent(q) \in G PROVE FALSE  OBVIOUS
        <5>1. PICK i \in gone : IsPrefix(op.items[i], Parent(q))  BY <1>8
        <5>2. IsPrefix(op.items[i], q)  BY <1>4, <3>1, <4>1, <5>1, PrefixOfParent
        <5>3. QED  BY <1>8, <3>1, <5>2
      <4>3. Parent(q) \in DOMAIN fs' /\ fs'[Parent(q)] = fs[Parent(q)]  BY <1>9, <4>1, <4>2
      <4>4. QED  BY <1>3, <3>1, <4>1, <4>3
    <3>4. QED  BY <3>2, <3>3
  <2>2. fs' \in [DOMAIN fs' -> Nodes]  BY <1>9, <2>1
  <2>3. QED  BY <2>1, <2>2 DEF IsTree, IsDir
<1>11. TrashRight'
  <2>1. ASSUME NEW e \in W PROVE e.uri \in Nat /\ IsBranch(e.tree, e.original)
    <3>1. PICK i \in gone : /\ e.uri = MaxItems * op.id + i /\ e.original = op.items[i]
                            /\ e.tree = Subtree(fs, op.items[i])
      BY <1>6
    <3>2. MaxItems * op.id + i \in Nat
      <4>1. MaxItems \in Nat /\ op.id \in Nat /\ i \in Nat  BY <1>3, <1>4, OpsAssumption
      <4> HIDE DEF W
      <4>2. QED  BY <4>1
    <3>3. QED  BY <1>5, <3>1, <3>2
  <2>2. QED  BY <1>7, <2>1 DEF FInv, TrashRight, TrashIs
<1>12. /\ DOMAIN op' = Fields /\ op'.kind = "trash" /\ op'.stage = "check" /\ op'.id = op.id
       /\ op'.items = op.items /\ op'.at = op.at /\ op'.steps = op.steps
  <2> DEFINE u == Uris(W)
  <2>1. op' = [op EXCEPT !.stage = "check", !.listed = u]  BY <1>7
  <2> HIDE DEF u
  <2>2. QED  BY <1>2, <1>3, <2>1 DEF Fields
<1>13. OpRight' /\ ItemRight' /\ OpensRight' /\ TargetKept' /\ SourceKept'
  BY <1>3, <1>9, <1>12, TrashingKeeps
<1>14. ContentStep
  <2>1. ASSUME NEW x \in Whole(fs) PROVE x \in Held(fs', trash')
    <3>1. PICK q \in DOMAIN fs : Full(fs[q]) /\ fs[q].data = x  BY <2>1, WholeIs
    <3>2. CASE q \in G
      <4>1. PICK i \in gone : IsPrefix(op.items[i], q)  BY <1>8, <3>2
      <4>2. PICK e \in W : e.tree = Subtree(fs, op.items[i])  BY <1>6
      <4>3. q \in DOMAIN e.tree /\ e.tree[q] = fs[q]  BY <1>5, <4>1, <4>2
      <4>4. x \in Whole(e.tree)  BY <3>1, <4>3, WholeIs
      <4>5. QED  BY <1>7, <4>4 DEF Held
    <3>3. CASE q \notin G
      <4>1. q \in DOMAIN fs' /\ fs'[q] = fs[q]  BY <1>9, <3>3
      <4>2. x \in Whole(fs')  BY <3>1, <4>1, WholeIs
      <4>3. QED  BY <4>2 DEF Held
    <3>4. QED  BY <3>2, <3>3
  <2>2. \A e \in trash : Whole(e.tree) \subseteq Held(fs', trash')  BY <1>7 DEF Held
  <2>3. Held(fs, trash) \subseteq Held(fs', trash')  BY <2>1, <2>2 DEF Held
  <2>4. QED  BY <2>3 DEF ContentStep, Lost
<1>15. JournalRight' /\ (serial \in Nat)'  BY <1>2 DEF FInv, JournalRight
<1>16. QED  BY <1>10, <1>11, <1>13, <1>14, <1>15 DEF FInv

\* A path is looked up again.
LEMMA CheckTrashedKeeps ==
  ASSUME FInv, op # NoOp, CheckTrashed
  PROVE  FInv' /\ ContentStep
<1> DEFINE found == {e.uri : e \in {x \in trash : x.uri \in op.listed /\ x.original = Source}}
           uri == IF found = {} THEN NoUri ELSE CHOOSE u \in found : TRUE
           steps == IF Exists(fs, Source) THEN op.steps ELSE Append(op.steps, Trashed(uri))
<1>1. /\ op.kind = "trash" /\ op.stage = "check" /\ ThreadOnly /\ fs' = fs
      /\ op' = [op EXCEPT !.at = @ + 1, !.steps = steps]
  BY DEF CheckTrashed
<1>2. /\ DOMAIN op = Fields /\ op.id \in Nat /\ op.items \in Seq(Paths)
      /\ op.at \in Nat \ {0} /\ op.steps \in Seq(Steps)
      /\ \A q \in DOMAIN fs : ~fs[q].open
  BY <1>1, TrashOpIs
<1>3. uri \in Nat
  <2>1. \A u \in found : u \in Nat  BY DEF FInv, TrashRight, TrashIs
  <2> HIDE DEF found
  <2>2. QED  BY <2>1 DEF NoUri
<1> HIDE DEF uri
<1>4. steps \in Seq(Steps)
  <2>1. Trashed(uri) \in Steps  BY <1>3, StepsAre
  <2>2. QED  BY <1>2, <2>1
<1> HIDE DEF steps
<1>5. /\ DOMAIN op' = Fields /\ op'.kind = "trash" /\ op'.stage = "check" /\ op'.id = op.id
      /\ op'.items = op.items /\ op'.at = op.at + 1 /\ op'.steps = steps
  BY <1>1, <1>2 DEF Fields
<1>6. OpRight' /\ ItemRight' /\ OpensRight' /\ TargetKept' /\ SourceKept'
  <2>1. op'.at \in Nat \ {0}  BY <1>2, <1>5
  <2>2. QED  BY <1>1, <1>2, <1>4, <1>5, <2>1, TrashingKeeps
<1>7. IsTree(fs') /\ TrashRight' /\ JournalRight' /\ (serial \in Nat)'
  BY <1>1 DEF ThreadOnly, FInv, TrashRight, JournalRight
<1>8. ContentStep  BY <1>1, NothingLost, ThreadTrash
<1>9. QED  BY <1>6, <1>7, <1>8 DEF FInv

-----------------------------------------------------------------------------
(* Every step.                                                             *)

\* No operation has nothing to account for.
LEMMA NoOpKeeps ==
  ASSUME op' = NoOp, \A q \in DOMAIN fs' : ~fs'[q].open
  PROVE  OpRight' /\ ItemRight' /\ OpensRight' /\ TargetKept' /\ SourceKept'
<1>1. ~InItem'  BY DEF InItem
<1>2. QED  BY <1>1 DEF OpRight, ItemRight, OpensRight, TargetKept, SourceKept

\* An operation is reported between two items.
LEMMA ReportKeeps ==
  ASSUME FInv, Report
  PROVE  FInv' /\ ContentStep
<1>1. /\ op # NoOp /\ op.at > Len(op.items) /\ op' = NoOp /\ fs' = fs /\ trash' = trash
      /\ serial' = serial
      /\ journal' = Push(Entry(op.id, op.steps, op.start, <<fs, trash>>, op.quiet))
  BY DEF Report, Ended
<1>2. op.items \in Seq(Paths) /\ op.at \in Nat \ {0} /\ op.steps \in Seq(Steps)
      /\ (op.kind = "trash" => op.stage \in {"next", "check"})
      /\ (op.kind # "trash" => op.stage \in {"next", "writing", "entries"})
  BY <1>1 DEF FInv, OpRight
<1>3. ~InItem
  <2>1. op.at \notin DOMAIN op.items  BY <1>1, <1>2
  <2>2. QED  BY <2>1 DEF FInv, ItemRight
<1>4. op.stage # "writing"  BY <1>1, <1>3 DEF InItem
<1>5. \A q \in DOMAIN fs' : ~fs'[q].open  BY <1>1, <1>4, NoneOpen DEF FInv
<1>6. OpRight' /\ ItemRight' /\ OpensRight' /\ TargetKept' /\ SourceKept'
  BY <1>1, <1>5, NoOpKeeps
<1>7. JournalRight'
  <2> DEFINE entry == Entry(op.id, op.steps, op.start, <<fs, trash>>, op.quiet)
  <2>1. entry.steps = op.steps  BY EntryIs
  <2>2. journal' = Push(entry)  BY <1>1
  <2> HIDE DEF entry
  <2>3. entry.steps \in Seq(Steps)  BY <1>2, <2>1
  <2>4. QED  BY <2>2, <2>3, PushKeeps DEF FInv
<1>8. IsTree(fs') /\ TrashRight' /\ (serial \in Nat)'  BY <1>1 DEF FInv, TrashRight
<1>9. ContentStep  BY <1>1, NothingLost
<1>10. QED  BY <1>6, <1>7, <1>8, <1>9 DEF FInv

\* An operation that takes the slot starts before its first item.
LEMMA TakenKeeps ==
  ASSUME FInv, NEW kind \in {"copy", "move", "duplicate", "trash"}, NEW items \in Seq(Paths),
         NEW dest, Claim(Operation(kind, items, dest))
  PROVE  FInv' /\ ContentStep
<1> DEFINE new == Operation(kind, items, dest)
<1>1. /\ op = NoOp /\ op' = new /\ fs' = fs /\ trash' = trash /\ journal' = journal
      /\ serial' = serial + 1
  BY DEF Claim
<1>2. serial \in Nat /\ serial + 1 \in Nat  BY DEF FInv
<1>3. /\ DOMAIN new = Fields /\ new.kind = kind /\ new.stage = "next" /\ new.id = serial + 1
      /\ new.items = items /\ new.at = 1 /\ new.steps = <<>>
  <2> DEFINE by == serial + 1
             start == <<fs, trash>>
             no == <<>>
             none == {}
  <2>1. new = [kind |-> kind, id |-> by, items |-> items, dest |-> dest,
               at |-> 1, stage |-> "next", target |-> no, tree |-> FALSE,
               todo |-> none, listed |-> none,
               steps |-> no, cancelled |-> FALSE,
               start |-> start, quiet |-> TRUE, late |-> none, named |-> FALSE]
    BY DEF Operation
  <2> HIDE DEF new, by, start, no, none
  <2>2. DOMAIN new = Fields  BY <2>1 DEF Fields
  <2>3. /\ new.kind = kind /\ new.stage = "next" /\ new.id = by
        /\ new.items = items /\ new.at = 1 /\ new.steps = no
    BY <2>1
  <2>4. QED  BY <2>2, <2>3 DEF by, no
<1> HIDE DEF new
<1>4. \A q \in DOMAIN fs' : ~fs'[q].open  BY <1>1, NoneOpen DEF FInv
<1>5. OpRight'
  <2>1. op'.steps \in Seq(Steps)  BY <1>1, <1>3, EmptySteps
  <2>2. QED  BY <1>1, <1>2, <1>3, <2>1 DEF OpRight
<1>6. ~InItem'  BY <1>1, <1>3 DEF InItem
<1>7. ItemRight' /\ OpensRight' /\ TargetKept' /\ SourceKept'
  BY <1>4, <1>6 DEF ItemRight, OpensRight, TargetKept, SourceKept
<1>8. IsTree(fs') /\ TrashRight' /\ JournalRight' /\ (serial \in Nat)'
  BY <1>1, <1>2 DEF FInv, TrashRight, JournalRight
<1>9. ContentStep  BY <1>1, NothingLost
<1>10. QED  BY <1>5, <1>7, <1>8, <1>9 DEF FInv

\* A selection is a sequence of paths.
LEMMA SelectionIs ==
  ASSUME FInv, NEW s \in Selections
  PROVE  s \in Seq(Paths)
<1>1. PICK n \in 1..MaxItems : s \in [1..n -> DOMAIN fs]  BY DEF Selections
<1>2. n \in Nat  BY <1>1, OpsAssumption
<1>3. DOMAIN fs \subseteq Paths  BY DEF FInv, IsTree
<1>4. s \in [1..n -> Paths]  BY <1>1, <1>3
<1>5. QED  BY <1>2, <1>4

\* transfercancel.
LEMMA CancelRequestKeeps ==
  ASSUME FInv, NEW id, CancelTransfer(id)
  PROVE  FInv' /\ ContentStep
<1>1. /\ op # NoOp /\ op' = [op EXCEPT !.named = TRUE]
      /\ fs' = fs /\ trash' = trash /\ journal' = journal /\ serial' = serial
  BY DEF CancelTransfer
<1>2. DOMAIN op = Fields  BY <1>1 DEF FInv, OpRight
<1>3. /\ DOMAIN op' = Fields /\ op'.kind = op.kind /\ op'.stage = op.stage /\ op'.id = op.id
      /\ op'.items = op.items /\ op'.at = op.at /\ op'.steps = op.steps
      /\ op'.target = op.target /\ op'.todo = op.todo /\ op'.late = op.late
  BY <1>1, <1>2 DEF Fields
<1>4. SameItem  BY <1>1, <1>2, <1>3, OpIs DEF SameItem
<1>5. QED  BY <1>4, SameItemKeeps

\* Shutdown.
LEMMA RestKeeps ==
  ASSUME FInv, Quit \/ DrainDone \/ DrainDeadline \/ UNCHANGED vars
  PROVE  FInv' /\ ContentStep
<1>1. SameItem  BY DEF Quit, DrainDone, DrainDeadline, vars, SameItem
<1>2. QED  BY <1>1, SameItemKeeps

\* Every request.
LEMMA AskedKeeps ==
  ASSUME FInv, Requests
  PROVE  FInv' /\ ContentStep
<1>1. ASSUME NEW items \in Selections, NEW dest, NEW kind \in {"copy", "move"},
             StartTransfer(kind, items, dest)
      PROVE  FInv' /\ ContentStep
  BY <1>1, SelectionIs, TakenKeeps DEF StartTransfer
<1>2. ASSUME NEW items \in Selections, StartTrash(items)
      PROVE  FInv' /\ ContentStep
  BY <1>2, SelectionIs, TakenKeeps DEF StartTrash
<1>3. ASSUME NEW p \in DOMAIN fs, StartDuplicate(p)
      PROVE  FInv' /\ ContentStep
  <2>1. <<p>> \in Seq(Paths)
    <3>1. p \in Paths  BY TreeNode DEF FInv
    <3>2. QED  BY <3>1
  <2>2. QED  BY <1>3, <2>1, TakenKeeps DEF StartDuplicate
<1>4. ASSUME NEW dir, NEW name, MkDirNamed(dir, name)
      PROVE  FInv' /\ ContentStep
  BY <1>4, MakeDirKeeps DEF MkDirNamed
<1>5. ASSUME NEW dir, MkDirDefault(dir)
      PROVE  FInv' /\ ContentStep
  BY <1>5, MakeDirKeeps DEF MkDirDefault
<1>6. QED
  BY <1>1, <1>2, <1>3, <1>4, <1>5, CancelRequestKeeps, RenameKeeps, RenameFailsKeeps,
     NewFileKeeps, UndoKeepsContent, UndoFailsKeeps, RestKeeps
  DEF Requests

\* Every step of the thread.
LEMMA ThreadKeeps ==
  ASSUME FInv, Running
  PROVE  FInv' /\ ContentStep
  BY SkipItemKeeps, RenameItemKeeps, RefuseItemKeeps, OpenItemKeeps, FailNodeKeeps,
     OpenChildKeeps, FinishFileKeeps, FailCopyKeeps, CancelCopyKeeps, EndCopyKeeps,
     EndMoveKeeps, FailMoveKeeps, GioTrashKeeps, CheckTrashedKeeps
  DEF Running, Thread

\* The invariant holds at the start.
LEMMA FirstContents ==
  ASSUME Init
  PROVE  FInv
<1>1. IsTree(fs) /\ \A q \in DOMAIN fs : ~fs[q].open  BY OpsAssumption DEF Init
<1>2. op = NoOp /\ trash = {} /\ journal = <<>> /\ serial = 0  BY DEF Init
<1>3. ~InItem  BY <1>2 DEF InItem
<1>4. TrashRight /\ serial \in Nat  BY <1>2 DEF TrashRight, TrashIs
<1>5. JournalRight
  <2>1. DOMAIN journal = {}  BY <1>2
  <2>2. journal \in Seq(Range(journal))  BY <1>2
  <2>3. QED  BY <2>1, <2>2 DEF JournalRight
<1>6. QED
  BY <1>1, <1>2, <1>3, <1>4, <1>5 DEF FInv, OpRight, ItemRight, OpensRight, TargetKept, SourceKept

\* Every step keeps the invariant, and loses only what it may.
LEMMA ContentStepKeeps ==
  ASSUME FInv, [Next]_vars
  PROVE  FInv' /\ ContentStep
  BY AskedKeeps, ThreadKeeps, ReportKeeps, RestKeeps DEF Next

\* No content that was there when an operation started, and that no other
\* request touched since, is lost by it, cancelled, failed or killed at any
\* system call; only an undo takes the last copy of anything away.
THEOREM ContentIsKept == Spec => ContentKept
<1>1. Init => FInv  BY FirstContents
<1>2. FInv /\ [Next]_vars => FInv'  BY ContentStepKeeps
<1> DEFINE Kept1 == Lost = {} \/ Undoing \/ (op # NoOp /\ Lost \subseteq op.late)
<1>3. FInv /\ [Next]_vars => [Kept1]_vars  BY ContentStepKeeps DEF ContentStep
<1> HIDE DEF Kept1
<1>4. Spec => [][Kept1]_vars  BY <1>1, <1>2, <1>3, PTL DEF Spec
<1>5. QED  BY <1>4 DEF Kept1, ContentKept

-----------------------------------------------------------------------------
(* What an operation made: the account of it.                              *)

\* No file of a tree was made by a request later than the nth.
Aged(f, n) == \A q \in DOMAIN f : f[q].maker <= n

\* No file was made by a request yet to come.
Ages == Aged(fs, serial) /\ \A e \in trash : Aged(e.tree, serial)

OpAge == op # NoOp => op.id <= serial

\* A path is at or below one of the steps of these kinds.
Covered(steps, kinds, q) ==
  \E i \in DOMAIN steps :
    /\ steps[i].step \in kinds
    /\ IsPrefix(IF steps[i].step = "moved" THEN steps[i].to ELSE steps[i].path, q)

\* An operation whose files no request has touched.
Undisturbed == op # NoOp /\ op.kind # "trash" /\ op.quiet

\* A move that makes copies renames nothing: its items are in one volume, its
\* targets in another.
MovesApart ==
  op # NoOp /\ op.kind = "move" =>
    /\ op.dest \in Paths \cup Roots
    /\ \A i, j \in DOMAIN op.items : Volume(op.items[i]) = Volume(op.items[j])
    /\ InItem => Volume(op.target) = Head(op.dest)
    /\ \A i \in DOMAIN op.steps : op.steps[i].step = "created" =>
         \A j \in DOMAIN op.items : Volume(op.items[j]) # Head(op.dest)

\* What it is copying is there, and below the target is only what it made.
ItemWhole ==
  Undisturbed /\ InItem =>
    /\ Source \in DOMAIN fs
    /\ op.target \in DOMAIN fs /\ (op.tree <=> fs[op.target].kind = "dir")
    /\ \A q \in DOMAIN fs : IsPrefix(op.target, q) => fs[q].maker = op.id

\* An undo of its steps would delete only what it made.
CreatedIsOwn ==
  Undisturbed =>
    \A q \in DOMAIN fs : Covered(op.steps, {"created"}, q) => fs[q].maker = op.id

\* What it made is under one of its steps, or is what it is making.
OwnIsRecorded ==
  Undisturbed =>
    \A q \in DOMAIN fs : fs[q].maker = op.id =>
      \/ Covered(op.steps, {"created", "moved"}, q)
      \/ InItem /\ IsPrefix(op.target, q)

\* The operation's account of what it made; all of it only where no removal and
\* no mode is refused.
Accounts ==
  /\ MovesApart /\ ItemWhole /\ CreatedIsOwn
  /\ Faults \subseteq {"copy"} => OwnIsRecorded

JInv == Len(journal) <= Depth /\ Ages /\ OpAge /\ Accounts

\* A tree is no younger for a later request.
LEMMA AgedLater ==
  ASSUME NEW f, IsTree(f), NEW m \in Nat, NEW n \in Nat, m <= n, Aged(f, m)
  PROVE  Aged(f, n)
<1> SUFFICES ASSUME NEW q \in DOMAIN f PROVE f[q].maker <= n  BY DEF Aged
<1>1. f[q] \in Nodes  BY TreeNode
<1>2. f[q].maker \in Nat /\ f[q].maker <= m  BY <1>1, NodeIs DEF Aged
<1>3. QED  BY <1>2

\* Nor is an entry of the trash.
LEMMA AgedBranch ==
  ASSUME NEW t, NEW top, IsBranch(t, top), NEW m \in Nat, NEW n \in Nat, m <= n, Aged(t, m)
  PROVE  Aged(t, n)
<1> SUFFICES ASSUME NEW q \in DOMAIN t PROVE t[q].maker <= n  BY DEF Aged
<1>1. t[q] \in Nodes  BY DEF IsBranch
<1>2. t[q].maker \in Nat /\ t[q].maker <= m  BY <1>1, NodeIs DEF Aged
<1>3. QED  BY <1>2

\* A rename moves names, and says nothing new of who made them.
LEMMA ShapeMakers ==
  ASSUME NEW f, IsTree(f), NEW g, NEW from, NEW to, Movable(f, from, to), NEW stay,
         RenameShape(f, g, from, to, stay)
  PROVE  \A q \in DOMAIN g :
           \/ q \in stay /\ q \in DOMAIN f /\ g[q].maker = f[q].maker
           \/ \E r \in DOMAIN f : g[q].maker = f[r].maker /\ IsPrefix(to, q)
<1> SUFFICES ASSUME NEW q \in DOMAIN g
             PROVE  \/ q \in stay /\ q \in DOMAIN f /\ g[q].maker = f[q].maker
                    \/ \E r \in DOMAIN f : g[q].maker = f[r].maker /\ IsPrefix(to, q)
  OBVIOUS
<1>1. CASE q \in stay  BY <1>1, ShapeNodes
<1>2. CASE \E r \in Below(f, from) : q = Rebased(r, from, to)
  <2>1. PICK r \in Below(f, from) : q = Rebased(r, from, to)  BY <1>2
  <2>2. r \in DOMAIN f /\ IsPrefix(to, q)  BY <2>1, MovedPath
  <2>3. g[q] \in {f[r], Shut(f[r])}  BY <2>1 DEF RenameShape
  <2>4. f[r] \in Nodes  BY <2>2, TreeNode
  <2>5. Shut(f[r]).maker = f[r].maker  BY <2>4, ShutKeeps
  <2>6. g[q] = f[r] \/ g[q] = Shut(f[r])  BY <2>3
  <2>7. g[q].maker = f[r].maker  BY <2>5, <2>6, Zenon
  <2>8. QED  BY <2>2, <2>7
<1>3. QED  BY <1>1, <1>2, ShapeNodes

LEMMA ShapeAged ==
  ASSUME NEW f, IsTree(f), NEW g, NEW from, NEW to, Movable(f, from, to), NEW stay,
         RenameShape(f, g, from, to, stay), NEW n, Aged(f, n)
  PROVE  Aged(g, n)
  BY ShapeMakers DEF Aged

\* What each change of a tree makes is no younger than its request.
LEMMA PutAged ==
  ASSUME NEW f, NEW p, NEW node, NEW n, Aged(f, n), node.maker <= n,
         NEW g, g = Put(f, p, node)
  PROVE  Aged(g, n)
<1>1. DOMAIN g = DOMAIN f \cup {p}
      /\ \A q \in DOMAIN g : g[q] = IF q \in DOMAIN f THEN f[q] ELSE node
  BY DEF Put, Joined
<1>2. QED  BY <1>1 DEF Aged

LEMMA JoinedAged ==
  ASSUME NEW f, NEW t, NEW n, Aged(f, n), Aged(t, n), NEW g, g = Joined(f, t)
  PROVE  Aged(g, n)
<1>1. DOMAIN g = DOMAIN f \cup DOMAIN t
      /\ \A q \in DOMAIN g : g[q] = IF q \in DOMAIN f THEN f[q] ELSE t[q]
  BY DEF Joined
<1>2. QED  BY <1>1 DEF Aged

LEMMA FewerAged ==
  ASSUME NEW f, NEW g, DOMAIN g \subseteq DOMAIN f, \A q \in DOMAIN g : g[q] = f[q],
         NEW n, Aged(f, n)
  PROVE  Aged(g, n)
  BY DEF Aged

LEMMA SameMakersAged ==
  ASSUME NEW f, NEW g, DOMAIN g \subseteq DOMAIN f,
         \A q \in DOMAIN g : g[q].maker = f[q].maker, NEW n, Aged(f, n)
  PROVE  Aged(g, n)
  BY DEF Aged

\* A pushed entry keeps the ring within its depth.
LEMMA PushFits ==
  ASSUME JournalRight, Len(journal) <= Depth, NEW entry, journal' = Push(entry)
  PROVE  Len(journal') <= Depth
<1> DEFINE S == Range(journal) \cup {entry}
<1>1. journal \in Seq(S) /\ entry \in S  BY DEF JournalRight
<1> HIDE DEF S
<1>2. Len(journal) \in Nat /\ Depth \in Nat \ {0}  BY <1>1, OpsAssumption DEF OpsAssumption
<1>3. CASE entry.steps = <<>>  BY <1>3 DEF Push
<1>4. CASE entry.steps # <<>> /\ Len(journal) < Depth
  <2>1. journal' = Append(journal, entry)  BY <1>4 DEF Push
  <2>2. Len(journal') = Len(journal) + 1  BY <1>1, <2>1
  <2>3. QED  BY <1>2, <1>4, <2>2
<1>5. CASE entry.steps # <<>> /\ ~(Len(journal) < Depth)
  <2> DEFINE t == Tail(journal)
  <2>1. journal' = Append(t, entry)  BY <1>5 DEF Push
  <2>2. t \in Seq(S) /\ Len(t) = Len(journal) - 1  BY <1>1, <1>2, <1>5
  <2> HIDE DEF t
  <2>3. Len(journal') = Len(t) + 1  BY <1>1, <2>1, <2>2
  <2>4. QED  BY <1>2, <1>5, <2>2, <2>3
<1>6. QED  BY <1>3, <1>4, <1>5

\* So does a popped one.
LEMMA PopFits ==
  ASSUME JournalRight, Len(journal) <= Depth, journal # <<>>, journal' = Front(journal)
  PROVE  Len(journal') <= Depth
<1> DEFINE S == Range(journal)
<1>1. journal \in Seq(S)  BY DEF JournalRight
<1> HIDE DEF S
<1>2. Len(journal) \in Nat /\ Depth \in Nat /\ Len(journal) # 0
  BY <1>1, OpsAssumption DEF OpsAssumption
<1>3. Front(journal) = SubSeq(journal, 1, Len(journal) - 1)  BY DEF Front
<1> DEFINE n == Len(journal) - 1
<1>4. n \in 0..Len(journal)  BY <1>2
<1> HIDE DEF n
<1>5. Len(SubSeq(journal, 1, n)) = n  BY <1>1, <1>2, <1>4
<1>6. QED  BY <1>2, <1>3, <1>5 DEF n

\* Of an operation another request disturbed only its moves are accounted for.
LEMMA NoAccount ==
  ASSUME ~Undisturbed', MovesApart'
  PROVE  Accounts'
  BY DEF Accounts, ItemWhole, CreatedIsOwn, OwnIsRecorded

\* A step that leaves the batch where it is.
LEMMA SameMoves ==
  ASSUME MovesApart,
         op' # NoOp => /\ op # NoOp /\ op'.kind = op.kind /\ op'.dest = op.dest
                       /\ op'.items = op.items /\ op'.stage = op.stage
                       /\ op'.target = op.target /\ op'.steps = op.steps
  PROVE  MovesApart'
<1> SUFFICES ASSUME op' # NoOp, op'.kind = "move"
             PROVE  /\ op'.dest \in Paths \cup Roots
                    /\ \A i, j \in DOMAIN op'.items : Volume(op'.items[i]) = Volume(op'.items[j])
                    /\ InItem' => Volume(op'.target) = Head(op'.dest)
                    /\ \A i \in DOMAIN op'.steps : op'.steps[i].step = "created" =>
                         \A j \in DOMAIN op'.items : Volume(op'.items[j]) # Head(op'.dest)
  BY DEF MovesApart
<1>1. /\ op # NoOp /\ op'.kind = op.kind /\ op'.dest = op.dest
      /\ op'.items = op.items /\ op'.stage = op.stage
      /\ op'.target = op.target /\ op'.steps = op.steps
  OBVIOUS
<1>2. InItem' <=> InItem  BY <1>1 DEF InItem
<1>3. QED  BY <1>1, <1>2 DEF MovesApart

\* A request of the loop, or the end of an operation.
LEMMA DisturbedAccounts ==
  ASSUME OpRight, Accounts, NEW contents, op' = Disturbed(contents)
  PROVE  Accounts'
<1>1. CASE op = NoOp
  <2>1. op' = NoOp  BY <1>1 DEF Disturbed
  <2>2. QED  BY <2>1 DEF Accounts, MovesApart, ItemWhole, CreatedIsOwn, OwnIsRecorded, Undisturbed
<1>2. CASE op # NoOp
  <2> DEFINE l == op'.late
  <2>1. PICK m : op' = [op EXCEPT !.quiet = FALSE, !.late = m]
    BY <1>2 DEF Disturbed
  <2>2. DOMAIN op = Fields  BY <1>2 DEF OpRight
  <2>3. /\ op'.quiet = FALSE /\ op'.kind = op.kind /\ op'.dest = op.dest
        /\ op'.items = op.items /\ op'.stage = op.stage
        /\ op'.target = op.target /\ op'.steps = op.steps
    BY <2>1, <2>2 DEF Fields
  <2>4. MovesApart'  BY <1>2, <2>3, SameMoves DEF Accounts
  <2>5. ~Undisturbed'
    <3>1. ~op'.quiet  BY <2>3, Zenon
    <3>2. QED  BY <3>1 DEF Undisturbed
  <2>6. QED  BY <2>4, <2>5, NoAccount
<1>3. QED  BY <1>1, <1>2

-----------------------------------------------------------------------------
(* The account and the loop's own requests.                                *)

\* A later serial leaves every tree as old as it was.
LEMMA SerialGrows ==
  ASSUME FInv, Ages, serial' = serial + 1
  PROVE  /\ Aged(fs, serial') /\ \A e \in trash : Aged(e.tree, serial')
         /\ serial \in Nat /\ serial' \in Nat /\ serial <= serial'
<1>1. serial \in Nat /\ serial' \in Nat /\ serial <= serial'  BY DEF FInv
<1>2. Aged(fs, serial')  BY <1>1, AgedLater DEF FInv, Ages
<1>3. \A e \in trash : Aged(e.tree, serial')
  BY <1>1, AgedBranch DEF FInv, Ages, TrashRight, TrashIs
<1>4. QED  BY <1>1, <1>2, <1>3

LEMMA DisturbedAge ==
  ASSUME OpRight, OpAge, NEW contents, op' = Disturbed(contents),
         serial \in Nat, serial' \in Nat, serial <= serial'
  PROVE  OpAge'
<1>1. CASE op = NoOp
  BY <1>1 DEF Disturbed, OpAge
<1>2. CASE op # NoOp
  <2>1. op'.id = op.id /\ op.id \in Nat  BY <1>2, DisturbedFields DEF OpRight
  <2>2. op.id <= serial  BY <1>2 DEF OpAge
  <2>3. QED  BY <2>1, <2>2 DEF OpAge
<1>3. QED  BY <1>1, <1>2

\* A loop request that makes nothing of a later request.
LEMMA LoopRequestOwns ==
  ASSUME FInv, JInv, NEW files, NEW steps, NEW contents, LoopRequest(files, steps, contents),
         Aged(files, serial + 1)
  PROVE  JInv'
<1>1. /\ fs' = files /\ trash' = trash /\ serial' = serial + 1 /\ op' = Disturbed(contents)
      /\ journal' = Push(Entry(serial', steps, <<fs, trash>>, <<files, trash>>, TRUE))
  BY DEF LoopRequest
<1>2. /\ \A e \in trash : Aged(e.tree, serial')
      /\ serial \in Nat /\ serial' \in Nat /\ serial <= serial'
  BY <1>1, SerialGrows DEF JInv
<1>3. Ages'  BY <1>1, <1>2 DEF Ages
<1>4. Len(journal') <= Depth  BY <1>1, PushFits DEF FInv, JInv
<1>5. Accounts'  BY <1>1, DisturbedAccounts DEF FInv, JInv
<1>6. OpAge'  BY <1>1, <1>2, DisturbedAge DEF FInv, JInv
<1>7. QED  BY <1>3, <1>4, <1>5, <1>6 DEF JInv

\* rename, whole and failed partway.
LEMMA RenameOwns ==
  ASSUME FInv, JInv, NEW p, NEW name, Rename(p, name)
  PROVE  JInv'
<1> DEFINE to == Append(Parent(p), name)
           files == RenamePath(fs, p, to)
<1>1. Movable(fs, p, to) /\ LoopRequest(files, <<Moved(p, to)>>, Whole(Subtree(fs, p)))
  BY DEF Rename
<1> HIDE DEF to
<1>2. PICK stay : RenameShape(fs, files, p, to, stay)  BY <1>1, RenamePathIs DEF FInv
<1>3. serial' = serial + 1  BY <1>1 DEF LoopRequest
<1>4. Aged(fs, serial + 1)  BY <1>3, SerialGrows DEF JInv
<1> HIDE DEF files
<1>5. Aged(files, serial + 1)  BY <1>1, <1>2, <1>4, ShapeAged DEF FInv
<1>6. QED  BY <1>1, <1>5, LoopRequestOwns

LEMMA RenameFailsOwns ==
  ASSUME FInv, JInv, NEW p, NEW name, RenameFails(p, name)
  PROVE  JInv'
<1> DEFINE to == Append(Parent(p), name)
<1>1. /\ Movable(fs, p, to)
      /\ \/ \E keep \in SUBSET Under(fs, p) :
               LoopRequest(Kept(fs, p, to, keep), <<>>, Whole(Subtree(fs, p)))
         \/ LoopRequest(Put(fs, to, Fifo(0)), <<>>, {})
  BY DEF RenameFails
<1> HIDE DEF to
<1>2. serial' = serial + 1  BY <1>1 DEF LoopRequest
<1>3. Aged(fs, serial + 1) /\ serial \in Nat  BY <1>2, SerialGrows DEF JInv
<1>4. CASE \E keep \in SUBSET Under(fs, p) :
             LoopRequest(Kept(fs, p, to, keep), <<>>, Whole(Subtree(fs, p)))
  <2>1. PICK keep : LoopRequest(Kept(fs, p, to, keep), <<>>, Whole(Subtree(fs, p)))
    BY <1>4
  <2> DEFINE files == Kept(fs, p, to, keep)
  <2>2. PICK stay : RenameShape(fs, files, p, to, stay)  BY <1>1, KeptIs DEF FInv
  <2>3. LoopRequest(files, <<>>, Whole(Subtree(fs, p)))  BY <2>1
  <2> HIDE DEF files
  <2>4. Aged(files, serial + 1)  BY <1>1, <1>3, <2>2, ShapeAged DEF FInv
  <2>5. QED  BY <2>3, <2>4, LoopRequestOwns
<1>5. CASE LoopRequest(Put(fs, to, Fifo(0)), <<>>, {})
  <2> DEFINE files == Put(fs, to, Fifo(0))
  <2>1. LoopRequest(files, <<>>, {}) /\ files = Put(fs, to, Fifo(0))  BY <1>5
  <2>2. Fifo(0).maker <= serial + 1  BY <1>3, NewNodes
  <2> HIDE DEF files
  <2>3. Aged(files, serial + 1)  BY <1>3, <2>1, <2>2, PutAged
  <2>4. QED  BY <2>1, <2>3, LoopRequestOwns
<1>6. QED  BY <1>1, <1>4, <1>5

\* mkdir and newfile.
LEMMA MakeDirOwns ==
  ASSUME FInv, JInv, NEW p, MakeDir(p)
  PROVE  JInv'
<1> DEFINE files == Put(fs, p, Dir(serial + 1))
<1>1. LoopRequest(files, <<MadeDir(p)>>, {}) /\ files = Put(fs, p, Dir(serial + 1))
  BY DEF MakeDir
<1> HIDE DEF files
<1>2. serial' = serial + 1  BY <1>1 DEF LoopRequest
<1>3. Aged(fs, serial + 1) /\ serial + 1 \in Nat  BY <1>2, SerialGrows DEF JInv
<1>4. Dir(serial + 1).maker <= serial + 1  BY <1>3, NewNodes
<1>5. Aged(files, serial + 1)  BY <1>1, <1>3, <1>4, PutAged
<1>6. QED  BY <1>1, <1>5, LoopRequestOwns

LEMMA NewFileOwns ==
  ASSUME FInv, JInv, NEW dir, NEW name, NewFile(dir, name)
  PROVE  JInv'
<1> DEFINE p == Append(dir, name)
           by == serial + 1
           data == Data(p, by, FALSE)
           n == File(data, FALSE, by)
           files == Put(fs, p, n)
<1>1. LoopRequest(files, <<Created(p)>>, {data}) /\ files = Put(fs, p, n) /\ Free(fs, p)
  BY DEF NewFile
<1> HIDE DEF files
<1>2. serial' = by  BY <1>1 DEF LoopRequest
<1>3. Aged(fs, by) /\ by \in Nat /\ p \in Paths  BY <1>1, <1>2, SerialGrows DEF JInv, Free
<1>4. by = serial + 1  OBVIOUS
<1> HIDE DEF by, p
<1>5. n = NewNode(p, by)  BY DEF NewData, NewNode
<1> HIDE DEF n, data
<1>6. n.maker = by  BY <1>3, <1>5, NewFileIs
<1>7. n.maker <= by  BY <1>3, <1>6
<1>8. Aged(files, serial + 1)  BY <1>1, <1>3, <1>4, <1>7, PutAged
<1>9. QED  BY <1>1, <1>8, LoopRequestOwns
\* A world of undo with nothing made by a request yet to come.
WorldAged(w) == Aged(w.fs, serial) /\ \A e \in w.trash : Aged(e.tree, serial)

LEMMA MakesAged ==
  ASSUME NEW f, NEW t, NEW ok, Aged(f, serial), \A e \in t : Aged(e.tree, serial)
  PROVE  WorldAged(World(f, t, ok))
<1> DEFINE v == World(f, t, ok)
<1>1. v.fs = f /\ v.trash = t  BY DEF World
<1> HIDE DEF v
<1>2. WorldAged(v)  BY <1>1 DEF WorldAged
<1>3. QED  BY <1>2 DEF v

\* One step reversed makes nothing.
LEMMA ReversedAged ==
  ASSUME NEW w, WorldRight(w), WorldAged(w), NEW s \in Steps
  PROVE  WorldAged(Reversed(s, w))
<1>1. WorldAged([w EXCEPT !.ok = FALSE])
  <2> DEFINE v == [w EXCEPT !.ok = FALSE]
  <2>1. v.fs = w.fs /\ v.trash = w.trash  BY DEF WorldRight
  <2> HIDE DEF v
  <2>2. WorldAged(v)  BY <2>1 DEF WorldAged
  <2>3. QED  BY <2>2 DEF v
<1>2. ASSUME NEW f, NEW t, Aged(f, serial), t \subseteq w.trash
      PROVE  WorldAged(World(f, t, TRUE))
  BY <1>2, MakesAged DEF WorldAged
<1>3. ASSUME NEW p \in Paths \cup Roots
      PROVE  WorldAged(World(Erased(w.fs, p), w.trash, TRUE))
  <2> DEFINE g == Erased(w.fs, p)
  <2>1. DOMAIN g \subseteq DOMAIN w.fs /\ \A q \in DOMAIN g : g[q] = w.fs[q]
    BY DEF Erased, Restrict
  <2> HIDE DEF g
  <2>2. Aged(g, serial)  BY <2>1, FewerAged DEF WorldAged
  <2>3. WorldAged(World(g, w.trash, TRUE))  BY <1>2, <2>2
  <2>4. QED  BY <2>3 DEF g
<1>4. CASE s.step = "moved"
  <2>1. CASE Movable(w.fs, s.to, s.from)
    <3> DEFINE f == w.fs  g == RenamePath(f, s.to, s.from)
    <3>1. PICK stay : RenameShape(f, g, s.to, s.from, stay)
      BY <2>1, RenamePathIs DEF WorldRight
    <3>2. Reversed(s, w) = World(g, w.trash, TRUE)  BY <1>4, <2>1 DEF Reversed
    <3> HIDE DEF g
    <3>3. Aged(g, serial)  BY <2>1, <3>1, ShapeAged DEF WorldRight, WorldAged
    <3>4. QED  BY <1>2, <3>2, <3>3
  <2>2. CASE ~Movable(w.fs, s.to, s.from)
    <3>1. Reversed(s, w) = [w EXCEPT !.ok = FALSE]  BY <1>4, <2>2 DEF Reversed
    <3>2. QED  BY <1>1, <3>1
  <2>3. QED  BY <2>1, <2>2
<1>5. CASE s.step = "created"
  <2>1. CASE Exists(w.fs, s.path)
    <3>1. Reversed(s, w) = World(Erased(w.fs, s.path), w.trash, TRUE)
      BY <1>5, <2>1 DEF Reversed
    <3>2. s.path \in Paths \cup Roots  BY <2>1, TreeNode DEF Exists, WorldRight
    <3>3. QED  BY <1>3, <3>1, <3>2
  <2>2. CASE ~Exists(w.fs, s.path)
    <3>1. Reversed(s, w) = [w EXCEPT !.ok = FALSE]  BY <1>5, <2>2 DEF Reversed
    <3>2. QED  BY <1>1, <3>1
  <2>3. QED  BY <2>1, <2>2
<1>6. CASE s.step = "madedir"
  <2>1. CASE IsDir(w.fs, s.path) /\ Children(w.fs, s.path) = {}
    <3>1. Reversed(s, w) = World(Erased(w.fs, s.path), w.trash, TRUE)
      BY <1>6, <2>1 DEF Reversed
    <3>2. s.path \in Paths \cup Roots  BY <2>1, TreeNode DEF IsDir, WorldRight
    <3>3. QED  BY <1>3, <3>1, <3>2
  <2>2. CASE ~(IsDir(w.fs, s.path) /\ Children(w.fs, s.path) = {})
    <3>1. Reversed(s, w) = [w EXCEPT !.ok = FALSE]  BY <1>6, <2>2 DEF Reversed
    <3>2. QED  BY <1>1, <3>1
  <2>3. QED  BY <2>1, <2>2
<1>7. CASE s.step = "trashed"
  <2> DEFINE held == {e \in w.trash : e.uri = s.uri /\ Free(w.fs, e.original)}
  <2>1. CASE held = {}
    <3>1. Reversed(s, w) = [w EXCEPT !.ok = FALSE]  BY <1>7, <2>1 DEF Reversed
    <3>2. QED  BY <1>1, <3>1
  <2>2. CASE held # {}
    <3> DEFINE e == CHOOSE x \in held : TRUE
    <3>1. e \in held  BY <2>2
    <3>2. Reversed(s, w) = World(Joined(w.fs, e.tree), w.trash \ {e}, TRUE)
      BY <1>7, <2>2 DEF Reversed
    <3>3. e \in w.trash  BY <3>1
    <3> HIDE DEF e, held
    <3> DEFINE g == Joined(w.fs, e.tree)
    <3>4. g = Joined(w.fs, e.tree)  OBVIOUS
    <3> HIDE DEF g
    <3>5. Aged(g, serial)  BY <3>3, <3>4, JoinedAged DEF WorldAged
    <3>6. WorldAged(World(g, w.trash \ {e}, TRUE))  BY <1>2, <3>5
    <3>7. QED  BY <3>2, <3>4, <3>6
  <2>3. QED  BY <2>1, <2>2
<1>8. QED  BY <1>4, <1>5, <1>6, <1>7 DEF Steps

\* So do any number of steps: the least number of which this fails is none.
LEMMA UndoneAged ==
  ASSUME FInv, Ages, NEW steps \in Seq(Steps), NEW n \in 0..Len(steps)
  PROVE  WorldAged(Undone(steps)[n])
<1> DEFINE T == {k \in 0..Len(steps) : ~WorldAged(Undone(steps)[k])}
<1> SUFFICES ASSUME T # {} PROVE FALSE  OBVIOUS
<1>1. Len(steps) \in Nat  OBVIOUS
<1>2. PICK m \in T : \A k \in T : m <= k
  <2>1. T \in SUBSET Nat  BY <1>1
  <2> HIDE DEF T
  <2>2. QED  BY <2>1, Least
<1>3. m \in 0..Len(steps) /\ ~WorldAged(Undone(steps)[m])  OBVIOUS
<1>4. CASE m = 0
  <2>1. WorldAged(Start)  BY MakesAged DEF Start, Ages
  <2>2. Undone(steps)[0] = Start  BY <1>1, UndoneIs
  <2>3. QED  BY <1>3, <1>4, <2>1, <2>2
<1>5. CASE m # 0
  <2>1. m \in 1..Len(steps) /\ m - 1 \in 0..Len(steps) /\ m - 1 \notin T
    BY <1>1, <1>2, <1>3, <1>5
  <2>2. WorldAged(Undone(steps)[m - 1]) /\ WorldRight(Undone(steps)[m - 1])
    BY <2>1, UndoneKeeps
  <2>3. Len(steps) + 1 - m \in DOMAIN steps  BY <1>1, <2>1
  <2>4. steps[Len(steps) + 1 - m] \in Steps  BY <2>3
  <2>5. Undone(steps)[m] = Back(Undone(steps)[m - 1], steps[Len(steps) + 1 - m])
    BY <1>1, <2>1, UndoneIs
  <2>6. WorldAged(Undone(steps)[m])  BY <2>2, <2>4, <2>5, ReversedAged DEF Back
  <2>7. QED  BY <1>3, <2>6
<1>6. QED  BY <1>4, <1>5

\* undo.
LEMMA PopOwns ==
  ASSUME FInv, JInv, journal # <<>>, NEW w, WorldAged(w), PopTo(w)
  PROVE  JInv'
<1>1. /\ fs' = w.fs /\ trash' = w.trash /\ serial' = serial /\ journal' = Front(journal)
      /\ op' = Disturbed(Whole(fs) \cup Whole(w.fs))
  BY DEF PopTo
<1>2. Ages'  BY <1>1 DEF Ages, WorldAged
<1>3. Len(journal') <= Depth  BY <1>1, PopFits DEF FInv, JInv
<1>4. Accounts'  BY <1>1, DisturbedAccounts DEF FInv, JInv
<1>5. serial \in Nat /\ serial' \in Nat /\ serial <= serial'  BY <1>1 DEF FInv
<1>6. OpAge'  BY <1>1, <1>5, DisturbedAge DEF FInv, JInv
<1>7. QED  BY <1>2, <1>3, <1>4, <1>6 DEF JInv

LEMMA UndoOwns ==
  ASSUME FInv, JInv, Undo
  PROVE  JInv'
<1> DEFINE steps == Last(journal).steps
           w == Undone(steps)[Len(steps)]
<1>1. journal # <<>> /\ PopTo(w)  BY DEF Undo
<1>2. steps \in Seq(Steps)  BY <1>1, LastEntry
<1> HIDE DEF steps
<1>3. WorldAged(w)  BY <1>2, UndoneAged DEF JInv
<1> HIDE DEF w
<1>4. QED  BY <1>1, <1>3, PopOwns

LEMMA UndoFailsOwns ==
  ASSUME FInv, JInv, UndoFails
  PROVE  JInv'
<1> DEFINE steps == Last(journal).steps
<1>1. /\ journal # <<>>
      /\ \E k \in DOMAIN steps :
           LET s == steps[Len(steps) + 1 - k]
               w == Undone(steps)[k - 1]
           IN  /\ Movable(w.fs, s.to, s.from)
               /\ \E keep \in SUBSET Under(w.fs, s.to) :
                    PopTo(World(Kept(w.fs, s.to, s.from, keep), w.trash, FALSE))
  BY DEF UndoFails
<1>2. steps \in Seq(Steps)  BY <1>1, LastEntry
<1> HIDE DEF steps
<1>3. PICK k \in DOMAIN steps :
           LET s == steps[Len(steps) + 1 - k]
               w == Undone(steps)[k - 1]
           IN  /\ Movable(w.fs, s.to, s.from)
               /\ \E keep \in SUBSET Under(w.fs, s.to) :
                    PopTo(World(Kept(w.fs, s.to, s.from, keep), w.trash, FALSE))
  BY <1>1
<1> DEFINE s == steps[Len(steps) + 1 - k]
           w == Undone(steps)[k - 1]
           f == w.fs
<1>4. k - 1 \in 0..Len(steps)  BY <1>2
<1>5. WorldRight(w) /\ WorldAged(w)  BY <1>2, <1>4, UndoneKeeps, UndoneAged DEF JInv
<1>6. PICK keep : /\ Movable(f, s.to, s.from)
                  /\ PopTo(World(Kept(f, s.to, s.from, keep), w.trash, FALSE))
  BY <1>3
<1> HIDE DEF w, s
<1> DEFINE g == Kept(f, s.to, s.from, keep)
<1>7. PICK stay : RenameShape(f, g, s.to, s.from, stay)
  BY <1>5, <1>6, KeptIs DEF WorldRight
<1>8. PopTo(World(g, w.trash, FALSE))  BY <1>6
<1> HIDE DEF g
<1>9. Aged(g, serial)  BY <1>5, <1>6, <1>7, ShapeAged DEF WorldRight, WorldAged
<1>10. WorldAged(World(g, w.trash, FALSE))  BY <1>5, <1>9, MakesAged DEF WorldAged
<1>11. QED  BY <1>1, <1>8, <1>10, PopOwns

-----------------------------------------------------------------------------
(* The account and the requests that take the slot.                        *)

\* A step that leaves the files and the account of the operation alone.
SameAccount ==
  /\ fs' = fs /\ trash' = trash /\ journal' = journal /\ serial' = serial
  /\ op # NoOp => /\ op' # NoOp /\ op'.kind = op.kind /\ op'.id = op.id
                  /\ op'.items = op.items /\ op'.dest = op.dest /\ op'.at = op.at
                  /\ op'.stage = op.stage /\ op'.target = op.target /\ op'.tree = op.tree
                  /\ op'.steps = op.steps /\ op'.quiet = op.quiet
  /\ op = NoOp => op' = NoOp

LEMMA SameAccountOwns ==
  ASSUME JInv, SameAccount
  PROVE  JInv'
<1>1. (Len(journal) <= Depth)' /\ Ages' /\ OpAge'
  BY DEF SameAccount, JInv, Ages, OpAge
<1>2. MovesApart'  BY SameMoves DEF SameAccount, JInv, Accounts
<1>3. CASE op = NoOp
  <2>1. ~Undisturbed'  BY <1>3 DEF SameAccount, Undisturbed
  <2>2. QED  BY <1>1, <1>2, <2>1, NoAccount DEF JInv
<1>4. CASE op # NoOp
  <2>1. /\ op' # NoOp /\ op'.kind = op.kind /\ op'.id = op.id
        /\ op'.items = op.items /\ op'.dest = op.dest /\ op'.at = op.at
        /\ op'.stage = op.stage /\ op'.target = op.target /\ op'.tree = op.tree
        /\ op'.steps = op.steps /\ op'.quiet = op.quiet /\ fs' = fs
    BY <1>4 DEF SameAccount
  <2>2. Source' = Source /\ (InItem' <=> InItem)  BY <1>4, <2>1 DEF Source, InItem
  <2>3. Undisturbed' => Undisturbed  BY <1>4, <2>1 DEF Undisturbed
  <2>4. ItemWhole'  BY <2>1, <2>2, <2>3 DEF JInv, Accounts, ItemWhole
  <2>5. CreatedIsOwn'  BY <2>1, <2>3 DEF JInv, Accounts, CreatedIsOwn
  <2>6. Faults \subseteq {"copy"} => OwnIsRecorded'
    BY <2>1, <2>2, <2>3 DEF JInv, Accounts, OwnIsRecorded
  <2>7. QED  BY <1>1, <1>2, <2>4, <2>5, <2>6 DEF JInv, Accounts
<1>5. QED  BY <1>3, <1>4

LEMMA CancelRequestOwns ==
  ASSUME FInv, JInv, NEW id, CancelTransfer(id)
  PROVE  JInv'
<1>1. /\ op # NoOp /\ op' = [op EXCEPT !.named = TRUE]
      /\ fs' = fs /\ trash' = trash /\ journal' = journal /\ serial' = serial
  BY DEF CancelTransfer
<1>2. DOMAIN op = Fields  BY <1>1 DEF FInv, OpRight
<1>3. PICK yes : op' = [op EXCEPT !.named = yes]  BY <1>1
<1>4. /\ DOMAIN op' = Fields /\ op'.kind = op.kind /\ op'.id = op.id
      /\ op'.items = op.items /\ op'.dest = op.dest /\ op'.at = op.at
      /\ op'.stage = op.stage /\ op'.target = op.target /\ op'.tree = op.tree
      /\ op'.steps = op.steps /\ op'.quiet = op.quiet
  BY <1>2, <1>3 DEF Fields
<1>5. op' # NoOp  BY <1>4, OpIs
<1>6. SameAccount  BY <1>1, <1>4, <1>5 DEF SameAccount
<1>7. QED  BY <1>6, SameAccountOwns

\* quit and the drain.
LEMMA RestOwns ==
  ASSUME JInv, Quit \/ DrainDone \/ DrainDeadline \/ UNCHANGED vars
  PROVE  JInv'
<1>1. SameAccount  BY DEF Quit, DrainDone, DrainDeadline, vars, SameAccount
<1>2. QED  BY <1>1, SameAccountOwns

\* The end of an operation.
LEMMA ReportOwns ==
  ASSUME FInv, JInv, Report
  PROVE  JInv'
<1>1. /\ op' = NoOp /\ fs' = fs /\ trash' = trash /\ serial' = serial
      /\ journal' = Push(Entry(op.id, op.steps, op.start, <<fs, trash>>, op.quiet))
  BY DEF Report
<1>2. Len(journal') <= Depth  BY <1>1, PushFits DEF FInv, JInv
<1>3. Ages' /\ OpAge'  BY <1>1 DEF JInv, Ages, OpAge
<1>4. MovesApart' /\ ~Undisturbed'  BY <1>1 DEF MovesApart, Undisturbed
<1>5. QED  BY <1>2, <1>3, <1>4, NoAccount DEF JInv

\* An operation that takes the slot has made nothing.
LEMMA TakenOwns ==
  ASSUME FInv, JInv, NEW kind \in {"copy", "move", "duplicate", "trash"}, NEW items \in Seq(Paths),
         NEW dest, Claim(Operation(kind, items, dest)),
         kind = "move" =>
           /\ dest \in Paths \cup Roots
           /\ \A i, j \in DOMAIN items : Volume(items[i]) = Volume(items[j])
  PROVE  JInv'
<1> DEFINE new == Operation(kind, items, dest)
<1>1. /\ op = NoOp /\ op' = new /\ fs' = fs /\ trash' = trash /\ journal' = journal
      /\ serial' = serial + 1
  BY DEF Claim
<1>2. /\ Aged(fs, serial') /\ \A e \in trash : Aged(e.tree, serial')
      /\ serial \in Nat /\ serial' \in Nat
  BY <1>1, SerialGrows DEF JInv
<1>3. /\ new.kind = kind /\ new.stage = "next" /\ new.id = serial + 1
      /\ new.items = items /\ new.dest = dest /\ new.steps = <<>>
  <2> DEFINE by == serial + 1
             start == <<fs, trash>>
             no == <<>>
             none == {}
  <2>1. new = [kind |-> kind, id |-> by, items |-> items, dest |-> dest,
               at |-> 1, stage |-> "next", target |-> no, tree |-> FALSE,
               todo |-> none, listed |-> none,
               steps |-> no, cancelled |-> FALSE,
               start |-> start, quiet |-> TRUE, late |-> none, named |-> FALSE]
    BY DEF Operation
  <2> HIDE DEF new, by, start, no, none
  <2>2. /\ new.kind = kind /\ new.stage = "next" /\ new.id = by
        /\ new.items = items /\ new.dest = dest /\ new.steps = no
    BY <2>1
  <2>3. QED  BY <2>2 DEF by, no
<1> HIDE DEF new
<1>4. ~InItem'  BY <1>1, <1>3 DEF InItem
<1>5. DOMAIN op'.steps = {}  BY <1>1, <1>3
<1>6. Ages'  BY <1>1, <1>2 DEF Ages
<1>7. OpAge'  BY <1>1, <1>2, <1>3 DEF OpAge
<1>8. MovesApart'  BY <1>1, <1>3, <1>4, <1>5 DEF MovesApart
<1>9. ItemWhole'  BY <1>4 DEF ItemWhole
<1>10. CreatedIsOwn'  BY <1>5 DEF CreatedIsOwn, Covered
<1>11. \A q \in DOMAIN fs' : fs'[q].maker # op'.id
  <2> SUFFICES ASSUME NEW q \in DOMAIN fs PROVE fs[q].maker # serial + 1  BY <1>1, <1>3
  <2>1. fs[q] \in Nodes  BY TreeNode DEF FInv
  <2>2. fs[q].maker \in Nat /\ fs[q].maker <= serial  BY <2>1, NodeIs DEF JInv, Ages, Aged
  <2>3. QED  BY <1>2, <2>2
<1>12. OwnIsRecorded'  BY <1>11 DEF OwnIsRecorded
<1>13. (Len(journal) <= Depth)'  BY <1>1 DEF JInv
<1>14. QED  BY <1>6, <1>7, <1>8, <1>9, <1>10, <1>12, <1>13 DEF JInv, Accounts

\* Tuples are equal when their elements are.
LEMMA Tuples ==
  /\ \A u, v : <<u>> = <<v>> => u = v
  /\ \A u, v, m : <<u, m>> # <<v>>
  /\ \A u, v, m, n : <<u, m>> = <<v, n>> => u = v
  OBVIOUS

\* Rows of one directory are in one volume.
LEMMA SameParent ==
  ASSUME NEW p \in Paths, NEW q \in Paths, Parent(p) = Parent(q)
  PROVE  Volume(p) = Volume(q)
<1>1. CASE \E v \in Volumes, n \in Names : p = <<v, n>>
  <2>1. PICK v \in Volumes, n \in Names : p = <<v, n>>  BY <1>1
  <2>2. Parent(p) = <<v>> /\ Volume(p) = v  BY <2>1, TwoIs DEF Parent, Volume
  <2>3. CASE \E u \in Volumes, m \in Names : q = <<u, m>>
    <3>1. PICK u \in Volumes, m \in Names : q = <<u, m>>  BY <2>3
    <3>2. Parent(q) = <<u>> /\ Volume(q) = u  BY <3>1, TwoIs DEF Parent, Volume
    <3>3. u = v  BY <2>2, <3>2, Tuples, Zenon
    <3>4. QED  BY <2>2, <3>2, <3>3
  <2>4. CASE \E u \in Volumes, m, k \in Names : q = <<u, m, k>>
    <3>1. PICK u \in Volumes, m, k \in Names : q = <<u, m, k>>  BY <2>4
    <3>2. Parent(q) = <<u, m>>  BY <3>1, ThreeIs DEF Parent
    <3>3. QED  BY <2>2, <3>2, Tuples, Zenon
  <2>5. QED  BY <2>3, <2>4, PathCases
<1>2. CASE \E v \in Volumes, n, m \in Names : p = <<v, n, m>>
  <2>1. PICK v \in Volumes, n, m \in Names : p = <<v, n, m>>  BY <1>2
  <2>2. Parent(p) = <<v, n>> /\ Volume(p) = v  BY <2>1, ThreeIs DEF Parent, Volume
  <2>3. CASE \E u \in Volumes, k \in Names : q = <<u, k>>
    <3>1. PICK u \in Volumes, k \in Names : q = <<u, k>>  BY <2>3
    <3>2. Parent(q) = <<u>>  BY <3>1, TwoIs DEF Parent
    <3>3. QED  BY <2>2, <3>2, Tuples, Zenon
  <2>4. CASE \E u \in Volumes, k, l \in Names : q = <<u, k, l>>
    <3>1. PICK u \in Volumes, k, l \in Names : q = <<u, k, l>>  BY <2>4
    <3>2. Parent(q) = <<u, k>> /\ Volume(q) = u  BY <3>1, ThreeIs DEF Parent, Volume
    <3>3. u = v  BY <2>2, <3>2, Tuples, Zenon
    <3>4. QED  BY <2>2, <3>2, <3>3
  <2>5. QED  BY <2>3, <2>4, PathCases
<1>3. QED  BY <1>1, <1>2, PathCases

\* A selection is rows of one directory, and so of one volume.
LEMMA SelectedTogether ==
  ASSUME FInv, NEW s \in Selections
  PROVE  \A i, j \in DOMAIN s : Volume(s[i]) = Volume(s[j])
<1> SUFFICES ASSUME NEW i \in DOMAIN s, NEW j \in DOMAIN s PROVE Volume(s[i]) = Volume(s[j])
  OBVIOUS
<1> DEFINE p == s[i]  q == s[j]
<1>1. Parent(p) = Parent(q)  BY DEF Selections
<1>2. p \in Paths /\ q \in Paths  BY SelectionIs
<1> HIDE DEF p, q
<1>3. Volume(p) = Volume(q)  BY <1>1, <1>2, SameParent
<1>4. QED  BY <1>3 DEF p, q

\* transfer, trash and duplicate.
LEMMA TransferOwns ==
  ASSUME FInv, JInv, NEW items \in Selections, NEW dest \in Dirs, NEW kind \in {"copy", "move"},
         StartTransfer(kind, items, dest)
  PROVE  JInv'
<1>1. Claim(Operation(kind, items, dest))  BY DEF StartTransfer
<1>2. items \in Seq(Paths)  BY SelectionIs
<1>3. dest \in Paths \cup Roots  BY TreeNode DEF Dirs, FInv
<1>4. QED  BY <1>1, <1>2, <1>3, SelectedTogether, TakenOwns

LEMMA StartTrashOwns ==
  ASSUME FInv, JInv, NEW items \in Selections, StartTrash(items)
  PROVE  JInv'
  BY SelectionIs, TakenOwns DEF StartTrash

LEMMA StartDuplicateOwns ==
  ASSUME FInv, JInv, NEW p \in DOMAIN fs, StartDuplicate(p)
  PROVE  JInv'
<1>1. p \in Paths  BY TreeNode DEF FInv
<1>2. <<p>> \in Seq(Paths)  BY <1>1
<1>3. QED  BY <1>2, TakenOwns DEF StartDuplicate

\* A batch to the trash.
LEMMA TrashOwns ==
  ASSUME FInv, JInv, op # NoOp, op' # NoOp, op'.kind = "trash", op'.id = op.id, serial' = serial,
         journal' = journal, Ages'
  PROVE  JInv'
<1>1. MovesApart' /\ ~Undisturbed'  BY DEF MovesApart, Undisturbed
<1>2. OpAge' /\ (Len(journal) <= Depth)'  BY DEF JInv, OpAge
<1>3. QED  BY <1>1, <1>2, NoAccount DEF JInv

LEMMA CheckTrashedOwns ==
  ASSUME FInv, JInv, op # NoOp, CheckTrashed
  PROVE  JInv'
<1> DEFINE found == {e.uri : e \in {x \in trash : x.uri \in op.listed /\ x.original = Source}}
           uri == IF found = {} THEN NoUri ELSE CHOOSE u \in found : TRUE
           steps == IF Exists(fs, Source) THEN op.steps ELSE Append(op.steps, Trashed(uri))
<1>1. /\ op.kind = "trash" /\ ThreadOnly /\ fs' = fs
      /\ op' = [op EXCEPT !.at = @ + 1, !.steps = steps]
  BY DEF CheckTrashed
<1>2. DOMAIN op = Fields  BY <1>1, TrashOpIs
<1> HIDE DEF steps
<1>3. DOMAIN op' = Fields /\ op'.kind = "trash" /\ op'.id = op.id
  BY <1>1, <1>2 DEF Fields
<1>4. op' # NoOp  BY <1>3, OpIs
<1>5. Ages' /\ serial' = serial /\ journal' = journal  BY <1>1 DEF ThreadOnly, JInv, Ages
<1>6. QED  BY <1>3, <1>4, <1>5, TrashOwns

LEMMA GioTrashOwns ==
  ASSUME FInv, JInv, op # NoOp, GioTrash
  PROVE  JInv'
<1>1. PICK gone \in SUBSET {i \in DOMAIN op.items : Exists(fs, op.items[i])} :
        /\ fs' = Restrict(fs, DOMAIN fs \ UNION {DOMAIN e.tree : e \in Went(gone)})
        /\ trash' = trash \cup Went(gone)
        /\ op' = [op EXCEPT !.stage = "check", !.listed = Uris(Went(gone))]
  BY DEF GioTrash, Went, WentEntry
<1>2. op.kind = "trash" /\ journal' = journal /\ serial' = serial  BY DEF GioTrash
<1>3. DOMAIN op = Fields  BY <1>2, TrashOpIs
<1>4. DOMAIN op' = Fields /\ op'.kind = "trash" /\ op'.id = op.id
  <2> DEFINE u == Uris(Went(gone))
  <2>1. op' = [op EXCEPT !.stage = "check", !.listed = u]  BY <1>1
  <2> HIDE DEF u
  <2>2. QED  BY <1>2, <1>3, <2>1 DEF Fields
<1>5. op' # NoOp  BY <1>4, OpIs
<1>6. Aged(fs', serial)
  <2> DEFINE D == DOMAIN fs \ UNION {DOMAIN e.tree : e \in Went(gone)}
  <2>1. fs' = Restrict(fs, D) /\ D \subseteq DOMAIN fs  BY <1>1
  <2> HIDE DEF D
  <2>2. DOMAIN fs' \subseteq DOMAIN fs /\ \A q \in DOMAIN fs' : fs'[q] = fs[q]
    BY <2>1 DEF Restrict
  <2>3. QED  BY <2>2, FewerAged DEF JInv, Ages
<1>7. ASSUME NEW e \in Went(gone) PROVE Aged(e.tree, serial)
  <2>1. PICK i \in gone : e.tree = Subtree(fs, op.items[i])  BY WentIs
  <2> DEFINE t == e.tree
  <2>2. DOMAIN t \subseteq DOMAIN fs /\ \A q \in DOMAIN t : t[q] = fs[q]
    BY <2>1 DEF Subtree, Restrict, Below
  <2> HIDE DEF t
  <2>3. Aged(t, serial)  BY <2>2, FewerAged DEF JInv, Ages
  <2>4. QED  BY <2>3 DEF t
<1>8. Ages'  BY <1>1, <1>2, <1>6, <1>7 DEF Ages, JInv
<1>9. QED  BY <1>2, <1>4, <1>5, <1>8, TrashOwns

-----------------------------------------------------------------------------
(* What the end of an item adds to it.                                     *)

\* The steps of two sequences, one after the other.
LEMMA BothSteps ==
  ASSUME NEW s \in Seq(Steps), NEW t \in Seq(Steps)
  PROVE  /\ \A i \in DOMAIN (s \o t) :
              \/ i \in DOMAIN s /\ (s \o t)[i] = s[i]
              \/ \E j \in DOMAIN t : (s \o t)[i] = t[j]
         /\ \A i \in DOMAIN s : i \in DOMAIN (s \o t) /\ (s \o t)[i] = s[i]
         /\ \A j \in DOMAIN t : Len(s) + j \in DOMAIN (s \o t) /\ (s \o t)[Len(s) + j] = t[j]
<1> DEFINE u == s \o t
<1>1. /\ u \in Seq(Steps) /\ Len(u) = Len(s) + Len(t)
      /\ \A i \in 1..(Len(s) + Len(t)) : u[i] = IF i <= Len(s) THEN s[i] ELSE t[i - Len(s)]
  OBVIOUS
<1>2. /\ Len(s) \in Nat /\ Len(t) \in Nat /\ DOMAIN u = 1..(Len(s) + Len(t))
      /\ DOMAIN s = 1..Len(s) /\ DOMAIN t = 1..Len(t)
  BY <1>1
<1> HIDE DEF u
<1>3. ASSUME NEW i \in DOMAIN u
      PROVE  \/ i \in DOMAIN s /\ u[i] = s[i]
             \/ \E j \in DOMAIN t : u[i] = t[j]
  <2>1. CASE i <= Len(s)  BY <1>1, <1>2, <2>1
  <2>2. CASE ~(i <= Len(s))
    <3>1. i - Len(s) \in DOMAIN t /\ u[i] = t[i - Len(s)]  BY <1>1, <1>2, <2>2
    <3>2. QED  BY <3>1
  <2>3. QED  BY <2>1, <2>2
<1>4. \A i \in DOMAIN s : i \in DOMAIN u /\ u[i] = s[i]  BY <1>1, <1>2
<1>5. ASSUME NEW j \in DOMAIN t
      PROVE  Len(s) + j \in DOMAIN u /\ u[Len(s) + j] = t[j]
  <2>1. /\ j \in Nat /\ Len(s) + j \in 1..(Len(s) + Len(t)) /\ ~(Len(s) + j <= Len(s))
        /\ (Len(s) + j) - Len(s) = j
    BY <1>2
  <2>2. QED  BY <1>1, <1>2, <2>1
<1>6. QED  BY <1>3, <1>4, <1>5 DEF u

\* What they cover together.
LEMMA CoveredBoth ==
  ASSUME NEW s \in Seq(Steps), NEW t \in Seq(Steps), NEW kinds, NEW q
  PROVE  Covered(s \o t, kinds, q) <=> Covered(s, kinds, q) \/ Covered(t, kinds, q)
<1> DEFINE u == s \o t
<1>1. /\ \A i \in DOMAIN u : (i \in DOMAIN s /\ u[i] = s[i]) \/ \E j \in DOMAIN t : u[i] = t[j]
      /\ \A i \in DOMAIN s : i \in DOMAIN u /\ u[i] = s[i]
      /\ \A j \in DOMAIN t : Len(s) + j \in DOMAIN u /\ u[Len(s) + j] = t[j]
  BY BothSteps
<1> HIDE DEF u
<1>2. Covered(u, kinds, q) <=> Covered(s, kinds, q) \/ Covered(t, kinds, q)
  BY <1>1 DEF Covered
<1>3. QED  BY <1>2 DEF u

\* What one step covers.
LEMMA OneCovers ==
  ASSUME NEW kinds, NEW q
  PROVE  /\ ~Covered(<<>>, kinds, q)
         /\ \A p : Covered(<<Created(p)>>, kinds, q) <=> "created" \in kinds /\ IsPrefix(p, q)
         /\ \A p, r : Covered(<<Moved(r, p)>>, kinds, q) <=> "moved" \in kinds /\ IsPrefix(p, q)
<1>1. ~Covered(<<>>, kinds, q)  BY DEF Covered
<1>2. ASSUME NEW s
      PROVE  Covered(<<s>>, kinds, q) <=>
               s.step \in kinds /\ IsPrefix(IF s.step = "moved" THEN s.to ELSE s.path, q)
  <2> DEFINE t == <<s>>
  <2>1. DOMAIN t = {1} /\ t[1] = s  OBVIOUS
  <2> HIDE DEF t
  <2>2. Covered(t, kinds, q) <=>
          s.step \in kinds /\ IsPrefix(IF s.step = "moved" THEN s.to ELSE s.path, q)
    BY <2>1 DEF Covered
  <2>3. QED  BY <2>2 DEF t
<1>3. ASSUME NEW p
      PROVE  Covered(<<Created(p)>>, kinds, q) <=> "created" \in kinds /\ IsPrefix(p, q)
  <2> DEFINE s == Created(p)
  <2>1. s.step = "created" /\ s.path = p  BY DEF Created
  <2> HIDE DEF s
  <2>2. Covered(<<s>>, kinds, q) <=> "created" \in kinds /\ IsPrefix(p, q)  BY <1>2, <2>1
  <2>3. QED  BY <2>2 DEF s
<1>4. ASSUME NEW p, NEW r
      PROVE  Covered(<<Moved(r, p)>>, kinds, q) <=> "moved" \in kinds /\ IsPrefix(p, q)
  <2> DEFINE s == Moved(r, p)
  <2>1. s.step = "moved" /\ s.to = p  BY DEF Moved
  <2> HIDE DEF s
  <2>2. Covered(<<s>>, kinds, q) <=> "moved" \in kinds /\ IsPrefix(p, q)  BY <1>2, <2>1
  <2>3. QED  BY <2>2 DEF s
<1>5. QED  BY <1>1, <1>3, <1>4

\* What the end of an item leaves of the operation.
LEMMA ItemEndsFields ==
  ASSUME FInv, Copying, NEW steps, ItemEnds(steps)
  PROVE  /\ op' # NoOp /\ op'.kind = op.kind /\ op'.id = op.id /\ op'.items = op.items
         /\ op'.dest = op.dest /\ op'.steps = op.steps \o steps
         /\ ~InItem' /\ (Undisturbed' <=> Undisturbed)
<1>1. op # NoOp /\ DOMAIN op = Fields  BY CopyingIs
<1> DEFINE new == NextItem(steps)
<1>2. /\ DOMAIN new = Fields /\ new.kind = op.kind /\ new.id = op.id /\ new.items = op.items
      /\ new.dest = op.dest /\ new.quiet = op.quiet
      /\ new.stage = "next" /\ new.steps = op.steps \o steps
  BY <1>1 DEF NextItem, Fields
<1> HIDE DEF new
<1>3. op' = new \/ op' = [new EXCEPT !.cancelled = TRUE]  BY DEF ItemEnds, new
<1>4. PICK yes : op' = new \/ op' = [new EXCEPT !.cancelled = yes]  BY <1>3
<1>5. /\ DOMAIN op' = Fields /\ op'.kind = op.kind /\ op'.id = op.id /\ op'.items = op.items
      /\ op'.dest = op.dest /\ op'.quiet = op.quiet
      /\ op'.stage = "next" /\ op'.steps = op.steps \o steps
  BY <1>2, <1>4 DEF Fields
<1>6. op' # NoOp  BY <1>5, OpIs
<1>7. ~InItem'  BY <1>5 DEF InItem
<1>8. Undisturbed' <=> Undisturbed  BY <1>1, <1>5, <1>6 DEF Undisturbed
<1>9. QED  BY <1>5, <1>6, <1>7, <1>8

\* The end of an item, with what it leaves in the journal entry.
LEMMA EndsOwns ==
  ASSUME FInv, JInv, Copying, NEW steps \in Seq(Steps), ItemEnds(steps), ThreadOnly,
         Aged(fs', serial),
         op.kind = "move" =>
           \A i \in DOMAIN steps : steps[i].step = "created" =>
             \A j \in DOMAIN op.items : Volume(op.items[j]) # Head(op.dest),
         Undisturbed =>
           \A q \in DOMAIN fs' :
             Covered(op.steps, {"created"}, q) \/ Covered(steps, {"created"}, q) =>
               fs'[q].maker = op.id,
         Faults \subseteq {"copy"} /\ Undisturbed =>
           \A q \in DOMAIN fs' : fs'[q].maker = op.id =>
             \/ Covered(op.steps, {"created", "moved"}, q)
             \/ Covered(steps, {"created", "moved"}, q)
  PROVE  JInv'
<1>1. /\ op' # NoOp /\ op'.kind = op.kind /\ op'.id = op.id /\ op'.items = op.items
      /\ op'.dest = op.dest /\ op'.steps = op.steps \o steps
      /\ ~InItem' /\ (Undisturbed' <=> Undisturbed)
  BY ItemEndsFields
<1>2. op # NoOp /\ op.steps \in Seq(Steps)  BY CopyingIs DEF FInv, OpRight
<1>3. trash' = trash /\ serial' = serial /\ journal' = journal  BY DEF ThreadOnly
<1>4. Ages' /\ OpAge' /\ (Len(journal) <= Depth)'  BY <1>1, <1>2, <1>3 DEF JInv, Ages, OpAge
<1>5. MovesApart'
  <2> SUFFICES ASSUME op.kind = "move"
               PROVE  /\ op.dest \in Paths \cup Roots
                      /\ \A i, j \in DOMAIN op.items : Volume(op.items[i]) = Volume(op.items[j])
                      /\ \A i \in DOMAIN (op.steps \o steps) :
                           (op.steps \o steps)[i].step = "created" =>
                             \A j \in DOMAIN op.items : Volume(op.items[j]) # Head(op.dest)
    BY <1>1 DEF MovesApart
  <2> DEFINE u == op.steps \o steps
  <2>1. \A i \in DOMAIN u :
          \/ i \in DOMAIN op.steps /\ u[i] = op.steps[i]
          \/ \E j \in DOMAIN steps : u[i] = steps[j]
    BY <1>2, BothSteps
  <2> HIDE DEF u
  <2>2. \A i \in DOMAIN u : u[i].step = "created" =>
          \A j \in DOMAIN op.items : Volume(op.items[j]) # Head(op.dest)
    BY <1>2, <2>1 DEF JInv, Accounts, MovesApart
  <2>3. QED  BY <1>2, <2>2 DEF u, JInv, Accounts, MovesApart
<1>6. ItemWhole'  BY <1>1 DEF ItemWhole
<1>7. \A kinds, q : Covered(op'.steps, kinds, q) <=>
        Covered(op.steps, kinds, q) \/ Covered(steps, kinds, q)
  BY <1>1, <1>2, CoveredBoth
<1>8. CreatedIsOwn'  BY <1>1, <1>7 DEF CreatedIsOwn
<1>9. Faults \subseteq {"copy"} => OwnIsRecorded'  BY <1>1, <1>7 DEF OwnIsRecorded
<1>10. QED  BY <1>4, <1>5, <1>6, <1>8, <1>9 DEF JInv, Accounts

\* An item that ends with nothing new, and perhaps less.
LEMMA FewerEndsOwns ==
  ASSUME FInv, JInv, Copying, NEW steps \in Seq(Steps), ItemEnds(steps), ThreadOnly,
         DOMAIN fs' \subseteq DOMAIN fs, \A q \in DOMAIN fs' : fs'[q].maker = fs[q].maker,
         op.kind = "move" =>
           \A i \in DOMAIN steps : steps[i].step = "created" =>
             \A j \in DOMAIN op.items : Volume(op.items[j]) # Head(op.dest),
         Undisturbed =>
           \A q \in DOMAIN fs' : Covered(steps, {"created"}, q) => fs'[q].maker = op.id,
         Faults \subseteq {"copy"} /\ Undisturbed /\ InItem =>
           \A q \in DOMAIN fs' :
             IsPrefix(op.target, q) => Covered(steps, {"created", "moved"}, q)
  PROVE  JInv'
<1>1. Aged(fs', serial)  BY SameMakersAged DEF JInv, Ages
<1>2. Undisturbed =>
        \A q \in DOMAIN fs' :
          Covered(op.steps, {"created"}, q) \/ Covered(steps, {"created"}, q) =>
            fs'[q].maker = op.id
  BY DEF JInv, Accounts, CreatedIsOwn
<1>3. Faults \subseteq {"copy"} /\ Undisturbed =>
        \A q \in DOMAIN fs' : fs'[q].maker = op.id =>
          \/ Covered(op.steps, {"created", "moved"}, q)
          \/ Covered(steps, {"created", "moved"}, q)
  BY DEF JInv, Accounts, OwnIsRecorded
<1>4. QED  BY <1>1, <1>2, <1>3, EndsOwns

-----------------------------------------------------------------------------
(* The account and the items that end.                                     *)

\* A name in a directory is in the directory's volume.
LEMMA AppendVolume ==
  ASSUME NEW d \in Paths \cup Roots, NEW x
  PROVE  Volume(Append(d, x)) = Head(d)
<1>1. CASE d \in Paths
  <2>1. d \in Seq(Volumes \cup Names) /\ d # <<>>
    <3>1. d \in Seq(Volumes \cup Names)  BY <1>1, PathIsSeq
    <3>2. Len(d) = 2 \/ Len(d) = 3  BY <1>1, PathIs
    <3>3. QED  BY <3>1, <3>2
  <2>2. Head(Append(d, x)) = Head(d)  BY <2>1
  <2>3. QED  BY <2>2 DEF Volume
<1>2. CASE d \in Roots
  <2>1. PICK v \in Volumes : d = <<v>>  BY <1>2 DEF Roots
  <2>2. Head(Append(d, x)) = Head(d)  BY <2>1
  <2>3. QED  BY <2>2 DEF Volume
<1>3. QED  BY <1>1, <1>2

LEMMA NoSteps ==
  /\ <<>> \in Seq(Steps)
  /\ \A i \in DOMAIN <<>> : FALSE
  /\ \A kinds, q : ~Covered(<<>>, kinds, q)
<1>1. \A kinds, q : ~Covered(<<>>, kinds, q)  BY OneCovers
<1>2. QED  BY <1>1

\* An item passed over, or ended in the middle, with nothing for the journal.
LEMMA NothingEndsOwns ==
  ASSUME FInv, JInv, Copying, ItemEnds(<<>>), ThreadOnly,
         DOMAIN fs' \subseteq DOMAIN fs, \A q \in DOMAIN fs' : fs'[q].maker = fs[q].maker,
         Faults \subseteq {"copy"} /\ Undisturbed /\ InItem =>
           \A q \in DOMAIN fs' : ~IsPrefix(op.target, q)
  PROVE  JInv'
<1> DEFINE no == <<>>
<1>1. /\ no \in Seq(Steps) /\ DOMAIN no = {} /\ (\A kinds, q : ~Covered(no, kinds, q))
      /\ ItemEnds(no)
  BY NoSteps
<1> HIDE DEF no
<1>2. QED  BY <1>1, FewerEndsOwns

LEMMA SkipItemOwns ==
  ASSUME FInv, JInv, SkipItem
  PROVE  JInv'
<1>1. /\ Copying /\ op.stage = "next" /\ ItemEnds(<<>>) /\ fs' = fs /\ ThreadOnly
  BY DEF SkipItem, ItemEnds
<1>2. ~InItem  BY <1>1 DEF InItem
<1>3. QED  BY <1>1, <1>2, NothingEndsOwns

LEMMA RefuseItemOwns ==
  ASSUME FInv, JInv, RefuseItem
  PROVE  JInv'
<1>1. /\ Copying /\ op.stage = "next" /\ ItemEnds(<<>>) /\ fs' = fs /\ ThreadOnly
  BY DEF RefuseItem, ItemEnds
<1>2. ~InItem  BY <1>1 DEF InItem
<1>3. QED  BY <1>1, <1>2, NothingEndsOwns

\* The step of a move.
LEMMA MovedStep ==
  ASSUME NEW p \in Paths, NEW q \in Paths
  PROVE  /\ <<Moved(p, q)>> \in Seq(Steps) /\ DOMAIN <<Moved(p, q)>> = {1}
         /\ <<Moved(p, q)>>[1].step # "created"
         /\ \A i \in DOMAIN <<Moved(p, q)>> : <<Moved(p, q)>>[i].step # "created"
<1> DEFINE s == Moved(p, q)
<1>1. s \in Steps  BY StepsAre
<1>2. s.step # "created"  BY DEF Moved
<1> HIDE DEF s
<1> DEFINE t == <<s>>
<1>3. t \in Seq(Steps) /\ DOMAIN t = {1} /\ t[1] = s  BY <1>1
<1> HIDE DEF t
<1>4. t[1].step # "created" /\ \A i \in DOMAIN t : t[i].step # "created"  BY <1>2, <1>3
<1>5. QED  BY <1>3, <1>4 DEF t, s

\* An item renamed: such a move has made no copy.
LEMMA RenameItemOwns ==
  ASSUME FInv, JInv, RenameItem
  PROVE  JInv'
<1>1. PICK to \in Targets :
        /\ Renames(Source, to) /\ Movable(fs, Source, to)
        /\ fs' = Renamed(fs, Source, to) /\ op' = NextItem(<<Moved(Source, to)>>)
  BY DEF RenameItem
<1>2. /\ Copying /\ op.stage = "next" /\ op.at <= Len(op.items) /\ ThreadOnly
      /\ op.kind = "move" /\ Volume(Source) = Volume(to)
  BY <1>1 DEF RenameItem, Renames
<1>3. Source \in Paths /\ to \in Paths  BY <1>1, TreeNode DEF Movable, Free, FInv
<1> DEFINE steps == <<Moved(Source, to)>>
           stay == DOMAIN fs \ Below(fs, Source)
<1>4. RenameShape(fs, fs', Source, to, stay)  BY <1>1, RenamedIs DEF FInv
<1>5. steps \in Seq(Steps) /\ DOMAIN steps = {1} /\ steps[1].step # "created"
  BY <1>3, MovedStep
<1>6. \A kinds, q : Covered(steps, kinds, q) <=> "moved" \in kinds /\ IsPrefix(to, q)
  BY OneCovers
<1>7. ItemEnds(steps)  BY <1>1 DEF ItemEnds
<1> HIDE DEF steps
<1>8. op # NoOp /\ op.at \in DOMAIN op.items /\ op.dest \in Paths \cup Roots
  <2>1. op # NoOp /\ op.items \in Seq(Paths) /\ op.at \in Nat \ {0}  BY <1>2, CopyingIs
  <2>2. op.at \in DOMAIN op.items  BY <1>2, <2>1
  <2>3. QED  BY <1>2, <2>1, <2>2 DEF JInv, Accounts, MovesApart
<1>9. Volume(op.items[op.at]) = Head(op.dest)
  <2>1. to = Append(op.dest, Last(Source))  BY <1>2 DEF Targets
  <2>2. QED  BY <1>2, <1>8, <2>1, AppendVolume DEF Source
<1>10. \A q : ~Covered(op.steps, {"created"}, q)
  <2>1. \A i \in DOMAIN op.steps : op.steps[i].step # "created"
    BY <1>2, <1>8, <1>9 DEF JInv, Accounts, MovesApart
  <2>2. QED  BY <2>1 DEF Covered
<1>11. Aged(fs', serial)  BY <1>1, <1>4, ShapeAged DEF FInv, JInv, Ages
<1>12. ~InItem  BY <1>2 DEF InItem
<1>13. \A q \in DOMAIN fs' :
         (q \in DOMAIN fs /\ fs'[q].maker = fs[q].maker) \/ IsPrefix(to, q)
  <2> HIDE DEF stay
  <2>1. QED  BY <1>1, <1>4, ShapeMakers DEF FInv
<1>14. Faults \subseteq {"copy"} /\ Undisturbed =>
        \A q \in DOMAIN fs' : fs'[q].maker = op.id =>
          \/ Covered(op.steps, {"created", "moved"}, q)
          \/ Covered(steps, {"created", "moved"}, q)
  BY <1>6, <1>12, <1>13 DEF JInv, Accounts, OwnIsRecorded
<1>15. \A i \in DOMAIN steps : steps[i].step # "created"  BY <1>5
<1>16. \A q : ~Covered(steps, {"created"}, q)  BY <1>6
<1>17. QED  BY <1>2, <1>5, <1>7, <1>10, <1>11, <1>14, <1>15, <1>16, EndsOwns

\* A node whose mode was refused is nowhere recorded: chmod is among the faults.
LEMMA FailNodeOwns ==
  ASSUME FInv, JInv, FailNode
  PROVE  JInv'
<1>1. PICK to : Free(fs, to) /\ fs' = Put(fs, to, Fifo(op.id))
  BY DEF FailNode
<1>2. Copying /\ op.stage = "next" /\ ThreadOnly /\ ItemEnds(<<>>) /\ "chmod" \in Faults
  BY DEF FailNode, ItemEnds, Fault
<1> DEFINE n == Fifo(op.id)
<1>3. op # NoOp /\ op.id \in Nat  BY <1>2, CopyingIs
<1>4. n.maker = op.id  BY <1>3, NewNodes
<1>5. op.id <= serial  BY <1>3 DEF JInv, OpAge
<1>6. to \notin DOMAIN fs /\ fs' = Put(fs, to, n)  BY <1>1 DEF Free
<1> HIDE DEF n
<1>7. Aged(fs', serial)  BY <1>4, <1>5, <1>6, PutAged DEF JInv, Ages
<1>8. /\ DOMAIN fs' = DOMAIN fs \cup {to} /\ fs'[to] = n
      /\ \A q \in DOMAIN fs : fs'[q] = fs[q]
  BY <1>6 DEF Put, Joined
<1> DEFINE no == <<>>
<1>9. /\ no \in Seq(Steps) /\ DOMAIN no = {} /\ (\A kinds, q : ~Covered(no, kinds, q))
      /\ ItemEnds(no)
  BY <1>2, NoSteps
<1> HIDE DEF no
<1>10. Undisturbed =>
         \A q \in DOMAIN fs' :
           Covered(op.steps, {"created"}, q) => fs'[q].maker = op.id
  BY <1>4, <1>8 DEF JInv, Accounts, CreatedIsOwn
<1>11. ~(Faults \subseteq {"copy"})  BY <1>2
<1>12. QED  BY <1>2, <1>7, <1>9, <1>10, <1>11, EndsOwns
\* What an item that ends in the middle leaves of the files.
LEMMA CutTarget ==
  ASSUME FInv, InItem, NEW f, f = fs \/ f = Erased(fs, op.target), fs' = CutShort(f)
  PROVE  /\ DOMAIN fs' \subseteq DOMAIN fs /\ \A q \in DOMAIN fs' : fs'[q].maker = fs[q].maker
         /\ f = Erased(fs, op.target) => \A q \in DOMAIN fs' : ~IsPrefix(op.target, q)
<1>1. op.target \in Paths  BY DEF FInv, ItemRight
<1>2. /\ IsTree(f) /\ DOMAIN f \subseteq DOMAIN fs /\ (\A q \in DOMAIN f : f[q] = fs[q])
      /\ f = Erased(fs, op.target) => \A q \in DOMAIN f : ~IsPrefix(op.target, q)
  <2> DEFINE g == Erased(fs, op.target)
  <2>1. /\ IsTree(g) /\ DOMAIN g = {q \in DOMAIN fs : ~IsPrefix(op.target, q)}
        /\ \A q \in DOMAIN g : g[q] = fs[q]
    BY <1>1, ErasedIs DEF FInv
  <2>2. IsTree(fs) /\ (f = fs \/ f = g)  BY DEF FInv
  <2> HIDE DEF g
  <2>3. /\ IsTree(f) /\ DOMAIN f \subseteq DOMAIN fs /\ (\A q \in DOMAIN f : f[q] = fs[q])
        /\ f = g => \A q \in DOMAIN f : ~IsPrefix(op.target, q)
    BY <2>1, <2>2
  <2>4. QED  BY <2>3 DEF g
<1>3. DOMAIN fs' = DOMAIN f /\ \A q \in DOMAIN f : fs'[q] = Shut(f[q])  BY <1>2, CutShortIs
<1>4. \A q \in DOMAIN f : Shut(f[q]).maker = f[q].maker  BY <1>2, TreeNode, ShutKeeps
<1>5. QED  BY <1>2, <1>3, <1>4

\* The item a copy is in.
LEMMA ItemInIs ==
  ASSUME FInv, JInv, InItem
  PROVE  /\ op.target \in Paths
         /\ op.kind = "move" =>
              \A j \in DOMAIN op.items : Volume(op.items[j]) # Head(op.dest)
         /\ Undisturbed => /\ Source \in DOMAIN fs /\ op.target \in DOMAIN fs
                           /\ op.tree => IsDir(fs, op.target)
                           /\ ~op.tree => ~IsDir(fs, op.target)
                           /\ \A q \in DOMAIN fs : IsPrefix(op.target, q) => fs[q].maker = op.id
<1>1. op # NoOp /\ op.at \in DOMAIN op.items /\ op.target \in Paths  BY DEF InItem, FInv, ItemRight
<1>2. op.kind = "move" => \A j \in DOMAIN op.items : Volume(op.items[j]) # Head(op.dest)
  <2> SUFFICES ASSUME op.kind = "move", NEW j \in DOMAIN op.items
               PROVE  Volume(op.items[j]) # Head(op.dest)
    OBVIOUS
  <2>1. Volume(op.target) # Volume(op.items[op.at])  BY DEF FInv, ItemRight, Source
  <2>2. Volume(op.items[j]) = Volume(op.items[op.at]) /\ Volume(op.target) = Head(op.dest)
    BY <1>1 DEF JInv, Accounts, MovesApart
  <2>3. QED  BY <2>1, <2>2
<1>3. ASSUME Undisturbed
      PROVE  /\ Source \in DOMAIN fs /\ op.target \in DOMAIN fs
             /\ op.tree => IsDir(fs, op.target)
             /\ ~op.tree => ~IsDir(fs, op.target)
             /\ \A q \in DOMAIN fs : IsPrefix(op.target, q) => fs[q].maker = op.id
  <2>1. op.target \notin Roots  BY <1>1, PathIs
  <2>2. QED  BY <1>3, <2>1 DEF JInv, Accounts, ItemWhole, IsDir
<1>4. QED  BY <1>1, <1>2, <1>3

\* An item recorded as a copy.
LEMMA CreatedEndsOwns ==
  ASSUME FInv, JInv, Copying, InItem, ItemEnds(<<Created(op.target)>>), ThreadOnly,
         DOMAIN fs' \subseteq DOMAIN fs, \A q \in DOMAIN fs' : fs'[q].maker = fs[q].maker
  PROVE  JInv'
<1> DEFINE steps == <<Created(op.target)>>
<1>1. steps \in Seq(Steps)
  <2>1. Created(op.target) \in Steps  BY ItemInIs, StepsAre
  <2>2. QED  BY <2>1
<1>2. \A kinds, q : Covered(steps, kinds, q) <=> "created" \in kinds /\ IsPrefix(op.target, q)
  BY OneCovers
<1>3. ItemEnds(steps)  OBVIOUS
<1> HIDE DEF steps
<1>4. Undisturbed =>
        \A q \in DOMAIN fs' : Covered(steps, {"created"}, q) => fs'[q].maker = op.id
  BY <1>2, ItemInIs
<1>5. \A q : IsPrefix(op.target, q) => Covered(steps, {"created", "moved"}, q)  BY <1>2
<1>6. QED  BY <1>1, <1>3, <1>4, <1>5, ItemInIs, FewerEndsOwns

LEMMA FailCopyOwns ==
  ASSUME FInv, JInv, FailCopy
  PROVE  JInv'
<1>1. Copying /\ ThreadOnly /\ op.stage \in {"writing", "entries"}  BY DEF FailCopy
<1>2. InItem  BY <1>1 DEF InItem, Copying
<1>3. CASE Cancelled /\ op.tree
  <2> DEFINE f == TreeErased(fs, op.target)
  <2>1. fs' = CutShort(f) /\ ItemEnds(<<>>)  BY <1>3 DEF FailCopy, ItemEnds
  <2>2. f = fs \/ f = Erased(fs, op.target)  BY DEF TreeErased
  <2>3. Undisturbed => f = Erased(fs, op.target)  BY <1>2, <1>3, ItemInIs DEF TreeErased
  <2> HIDE DEF f
  <2>4. QED  BY <1>1, <1>2, <2>1, <2>2, <2>3, CutTarget, NothingEndsOwns
<1>4. CASE ~(Cancelled /\ op.tree)
  <2>1. fs' = CutShort(fs) /\ ItemEnds(<<Created(op.target)>>)
    BY <1>4 DEF FailCopy, ItemEnds
  <2>2. QED  BY <1>1, <1>2, <2>1, CutTarget, CreatedEndsOwns
<1>5. QED  BY <1>3, <1>4

LEMMA CancelCopyOwns ==
  ASSUME FInv, JInv, CancelCopy
  PROVE  JInv'
<1> DEFINE f == IF op.tree THEN TreeErased(fs, op.target) ELSE FileErased(fs, op.target)
<1>1. /\ Copying /\ ThreadOnly /\ op.stage \in {"writing", "entries"}
      /\ fs' = CutShort(f) /\ ItemEnds(<<>>)
  BY DEF CancelCopy, ItemEnds
<1>2. InItem  BY <1>1 DEF InItem, Copying
<1>3. f = fs \/ f = Erased(fs, op.target)  BY DEF TreeErased, FileErased
<1>4. Undisturbed => f = Erased(fs, op.target)
  <2>1. Undisturbed => (op.tree => IsDir(fs, op.target)) /\ (~op.tree => ~IsDir(fs, op.target))
    BY <1>2, ItemInIs
  <2>2. QED  BY <2>1, Zenon DEF TreeErased, FileErased
<1> HIDE DEF f
<1>5. QED  BY <1>1, <1>2, <1>3, <1>4, CutTarget, NothingEndsOwns

LEMMA EndCopyOwns ==
  ASSUME FInv, JInv, EndCopy
  PROVE  JInv'
<1>1. ItemCopied /\ ItemEnds(<<Created(op.target)>>) /\ fs' = fs /\ ThreadOnly
  BY DEF EndCopy, ItemEnds
<1>2. QED  BY <1>1, CopiedItem, CreatedEndsOwns

\* The source of an undisturbed move is there to be removed.
LEMMA EndMoveOwns ==
  ASSUME FInv, JInv, EndMove
  PROVE  JInv'
<1>1. ItemCopied /\ op.kind = "move" /\ ThreadOnly  BY DEF EndMove
<1>2. Copying /\ InItem /\ Source \in Paths /\ op.target \in Paths  BY <1>1, CopiedItem
<1>3. CASE Exists(fs, Source)
  <2> DEFINE steps == <<Moved(Source, op.target)>>
  <2>1. fs' = Erased(fs, Source) /\ ItemEnds(steps)  BY <1>3 DEF EndMove, ItemEnds
  <2>2. steps \in Seq(Steps) /\ \A i \in DOMAIN steps : steps[i].step # "created"
    BY <1>2, MovedStep
  <2>3. \A kinds, q : Covered(steps, kinds, q) <=> "moved" \in kinds /\ IsPrefix(op.target, q)
    BY OneCovers
  <2> HIDE DEF steps
  <2>4. DOMAIN fs' \subseteq DOMAIN fs /\ \A q \in DOMAIN fs' : fs'[q].maker = fs[q].maker
    BY <2>1 DEF Erased, Restrict
  <2>5. \A q : ~Covered(steps, {"created"}, q)  BY <2>3
  <2>6. \A q : IsPrefix(op.target, q) => Covered(steps, {"created", "moved"}, q)  BY <2>3
  <2>7. QED  BY <1>1, <1>2, <2>1, <2>2, <2>4, <2>5, <2>6, FewerEndsOwns
<1>4. CASE ~Exists(fs, Source)
  <2>1. fs' = fs /\ ItemEnds(<<>>)  BY <1>4 DEF EndMove, ItemEnds
  <2>2. ~Undisturbed  BY <1>2, <1>4, ItemInIs DEF Exists
  <2>3. QED  BY <1>1, <1>2, <2>1, <2>2, NothingEndsOwns
<1>5. QED  BY <1>3, <1>4

\* A removal that failed leaves its copy unrecorded: unlink is among the faults.
LEMMA FailMoveOwns ==
  ASSUME FInv, JInv, FailMove
  PROVE  JInv'
<1>1. ItemCopied /\ op.kind = "move" /\ ThreadOnly /\ ItemEnds(<<>>) /\ "unlink" \in Faults
  BY DEF FailMove, ItemEnds, Fault
<1>2. PICK keep : fs' = PartlyErased(fs, Source, keep)  BY DEF FailMove
<1>3. Copying  BY <1>1, CopiedItem
<1>4. DOMAIN fs' \subseteq DOMAIN fs /\ \A q \in DOMAIN fs' : fs'[q].maker = fs[q].maker
  BY <1>2 DEF PartlyErased, Restrict
<1>5. ~(Faults \subseteq {"copy"})  BY <1>1
<1>6. QED  BY <1>1, <1>3, <1>4, <1>5, NothingEndsOwns

-----------------------------------------------------------------------------
(* The account and one item copied.                                        *)

\* A step inside an item: what is new is below the target, and the operation's.
LEMMA WithinOwns ==
  ASSUME FInv, JInv, op # NoOp, op' # NoOp, op'.kind = op.kind, op'.id = op.id,
         op'.items = op.items, op'.dest = op.dest, op'.steps = op.steps, op'.quiet = op.quiet,
         ThreadOnly, Aged(fs', serial),
         op.kind = "move" => Volume(op'.target) = Head(op.dest),
         InItem',
         Undisturbed =>
           /\ Source' \in DOMAIN fs' /\ op'.target \in DOMAIN fs'
           /\ op'.tree <=> fs'[op'.target].kind = "dir"
           /\ \A q \in DOMAIN fs' : IsPrefix(op'.target, q) => fs'[q].maker = op.id,
         \A q \in DOMAIN fs' :
           \/ /\ q \in DOMAIN fs /\ fs'[q].maker = fs[q].maker
              /\ InItem /\ IsPrefix(op.target, q) => IsPrefix(op'.target, q)
           \/ fs'[q].maker = op.id /\ IsPrefix(op'.target, q)
  PROVE  JInv'
<1>1. trash' = trash /\ serial' = serial /\ journal' = journal  BY DEF ThreadOnly
<1>2. Ages' /\ OpAge' /\ (Len(journal) <= Depth)'  BY <1>1 DEF JInv, Ages, OpAge
<1>3. MovesApart'  BY DEF JInv, Accounts, MovesApart
<1>4. Undisturbed' <=> Undisturbed  BY DEF Undisturbed
<1>5. ItemWhole'  BY <1>4 DEF ItemWhole
<1>6. CreatedIsOwn'  BY <1>4 DEF JInv, Accounts, CreatedIsOwn
<1>7. Faults \subseteq {"copy"} => OwnIsRecorded'
  BY <1>4 DEF JInv, Accounts, OwnIsRecorded
<1>8. QED  BY <1>2, <1>3, <1>5, <1>6, <1>7 DEF JInv, Accounts

\* A path is below itself.
LEMMA SelfPrefix ==
  ASSUME NEW p \in Paths
  PROVE  IsPrefix(p, p)
  BY PrefixIs

\* The first name an item makes is the only one below its target.
LEMMA OpenItemOwns ==
  ASSUME FInv, JInv, OpenItem
  PROVE  JInv'
<1> DEFINE n == Copied(fs[Source], op.id)
<1>1. PICK to \in Targets :
        /\ Free(fs, to) /\ fs' = Put(fs, to, n)
        /\ op' = [op EXCEPT
             !.target = to,
             !.tree = fs[Source].kind = "dir",
             !.todo = IF fs[Source].kind = "dir" THEN Children(fs', Source) ELSE {},
             !.stage = IF fs[Source].kind = "file" THEN "writing" ELSE "entries"]
  BY DEF OpenItem
<1>2. /\ Copying /\ op.stage = "next" /\ op.at <= Len(op.items) /\ Exists(fs, Source)
      /\ ThreadOnly
  BY DEF OpenItem
<1>3. /\ op # NoOp /\ DOMAIN op = Fields /\ op.id \in Nat
      /\ Source \in Paths /\ Source \in DOMAIN fs
  BY <1>2, CopyingIs, PathIs DEF Exists
<1>4. n.kind = fs[Source].kind /\ n.maker = op.id
  <2>1. fs[Source] \in Nodes  BY <1>3, TreeNode DEF FInv
  <2>2. QED  BY <1>3, <2>1, CopiedKeeps
<1>5. to \in Paths /\ to \notin DOMAIN fs /\ fs' = Put(fs, to, n)  BY <1>1 DEF Free
<1> HIDE DEF n
<1>6. /\ DOMAIN fs' = DOMAIN fs \cup {to} /\ fs'[to] = n
      /\ \A q \in DOMAIN fs : fs'[q] = fs[q] /\ ~IsPrefix(to, q)
  <2>1. /\ DOMAIN fs' = DOMAIN fs \cup {to} /\ fs'[to] = n
        /\ \A q \in DOMAIN fs : fs'[q] = fs[q]
    BY <1>5 DEF Put, Joined
  <2>2. QED  BY <1>5, <2>1, NothingBelow DEF FInv
<1> DEFINE tree == fs[Source].kind = "dir"
           todo == IF fs[Source].kind = "dir" THEN Children(fs', Source) ELSE {}
           stage == IF fs[Source].kind = "file" THEN "writing" ELSE "entries"
<1>7. /\ op' = [op EXCEPT !.target = to, !.tree = tree, !.todo = todo, !.stage = stage]
      /\ stage \in {"writing", "entries"}
  BY <1>1
<1>8. tree <=> n.kind = "dir"  BY <1>4
<1> HIDE DEF tree, todo, stage
<1>9. /\ DOMAIN op' = Fields /\ op'.kind = op.kind /\ op'.id = op.id /\ op'.items = op.items
      /\ op'.dest = op.dest /\ op'.at = op.at /\ op'.steps = op.steps /\ op'.quiet = op.quiet
      /\ op'.target = to /\ op'.tree = tree /\ op'.stage = stage
  BY <1>3, <1>7 DEF Fields
<1>10. op' # NoOp /\ Source' = Source  BY <1>9, OpIs DEF Source
<1>11. InItem' /\ ~InItem  BY <1>2, <1>7, <1>9, <1>10 DEF InItem
<1>12. op.kind = "move" => Volume(op'.target) = Head(op.dest)
  <2> SUFFICES ASSUME op.kind = "move" PROVE Volume(to) = Head(op.dest)  BY <1>9
  <2>1. to = Append(op.dest, Last(Source))  BY DEF Targets
  <2>2. op.dest \in Paths \cup Roots  BY <1>3 DEF JInv, Accounts, MovesApart
  <2>3. QED  BY <2>1, <2>2, AppendVolume
<1>13. Aged(fs', serial)
  <2>1. op.id <= serial  BY <1>3 DEF JInv, OpAge
  <2>2. QED  BY <1>4, <1>5, <2>1, PutAged DEF JInv, Ages
<1>14. op'.tree <=> fs'[op'.target].kind = "dir"
  <2>1. op'.tree <=> n.kind = "dir"  BY <1>8, <1>9, Zenon
  <2>2. QED  BY <1>6, <1>9, <2>1
<1>15. /\ Source' \in DOMAIN fs' /\ op'.target \in DOMAIN fs'
       /\ \A q \in DOMAIN fs' : IsPrefix(op'.target, q) => fs'[q].maker = op.id
  BY <1>3, <1>4, <1>6, <1>9, <1>10
<1>16. \A q \in DOMAIN fs' :
         \/ q \in DOMAIN fs /\ fs'[q].maker = fs[q].maker
         \/ fs'[q].maker = op.id /\ IsPrefix(op'.target, q)
  BY <1>4, <1>5, <1>6, <1>9, SelfPrefix
<1>17. QED
  BY <1>2, <1>3, <1>9, <1>10, <1>11, <1>12, <1>13, <1>14, <1>15, <1>16, WithinOwns

\* An entry of a directory is made below the target.
LEMMA OpenChildOwns ==
  ASSUME FInv, JInv, NEW c, OpenChild(c)
  PROVE  JInv'
<1> DEFINE to == ChildTarget(c)
           n == Copied(fs[c], op.id)
           todo == op.todo \ {c}
           stage == IF fs[c].kind = "file" THEN "writing" ELSE "entries"
<1>1. /\ Copying /\ op.stage = "entries" /\ c \in op.todo /\ Exists(fs, c) /\ Free(fs, to)
      /\ fs' = Put(fs, to, n) /\ op' = [op EXCEPT !.todo = todo, !.stage = stage]
      /\ ThreadOnly /\ stage \in {"writing", "entries"}
  BY DEF OpenChild, Readable
<1>2. InItem  BY <1>1 DEF InItem, Copying
<1>3. /\ op # NoOp /\ DOMAIN op = Fields /\ op.id \in Nat /\ op.target \in Paths
      /\ c \in Paths /\ c \in DOMAIN fs
  <2>1. op.target \in Paths /\ c \in Paths  BY <1>1, <1>2 DEF FInv, ItemRight
  <2>2. QED  BY <1>1, <2>1, CopyingIs, PathIs DEF Exists
<1>4. n.maker = op.id
  <2>1. fs[c] \in Nodes  BY <1>3, TreeNode DEF FInv
  <2>2. QED  BY <1>3, <2>1, CopiedKeeps
<1>5. to \in Paths /\ to \notin DOMAIN fs /\ fs' = Put(fs, to, n)  BY <1>1 DEF Free
<1>6. IsPrefix(op.target, to)
  <2>1. Parent(to) = op.target  BY <1>3, <1>5, AppendIs DEF ChildTarget
  <2> HIDE DEF to
  <2>2. QED  BY <1>3, <1>5, <2>1, PrefixIs
<1> HIDE DEF to, n, todo, stage
<1>7. /\ DOMAIN fs' = DOMAIN fs \cup {to} /\ fs'[to] = n
      /\ \A q \in DOMAIN fs : fs'[q] = fs[q]
  BY <1>5 DEF Put, Joined
<1>8. /\ DOMAIN op' = Fields /\ op'.kind = op.kind /\ op'.id = op.id /\ op'.items = op.items
      /\ op'.dest = op.dest /\ op'.at = op.at /\ op'.steps = op.steps /\ op'.quiet = op.quiet
      /\ op'.target = op.target /\ op'.tree = op.tree /\ op'.stage = stage
  BY <1>1, <1>3 DEF Fields
<1>9. op' # NoOp /\ Source' = Source  BY <1>8, OpIs DEF Source
<1>10. InItem'  BY <1>1, <1>8, <1>9 DEF InItem
<1>11. op.kind = "move" => Volume(op'.target) = Head(op.dest)
  BY <1>2, <1>3, <1>8 DEF JInv, Accounts, MovesApart
<1>12. Aged(fs', serial)
  <2>1. op.id <= serial  BY <1>3 DEF JInv, OpAge
  <2>2. QED  BY <1>4, <1>5, <2>1, PutAged DEF JInv, Ages
<1>13. ASSUME Undisturbed
       PROVE  /\ Source' \in DOMAIN fs' /\ op'.target \in DOMAIN fs'
              /\ op'.tree <=> fs'[op'.target].kind = "dir"
              /\ \A q \in DOMAIN fs' : IsPrefix(op'.target, q) => fs'[q].maker = op.id
  <2>1. /\ Source \in DOMAIN fs /\ op.target \in DOMAIN fs
        /\ op.tree <=> fs[op.target].kind = "dir"
        /\ \A q \in DOMAIN fs : IsPrefix(op.target, q) => fs[q].maker = op.id
    BY <1>2, <1>13 DEF JInv, Accounts, ItemWhole
  <2>2. op'.tree <=> fs[op.target].kind = "dir"  BY <1>8, <2>1, Zenon
  <2>3. QED  BY <1>4, <1>7, <1>8, <1>9, <2>1, <2>2
<1>14. \A q \in DOMAIN fs' :
         \/ /\ q \in DOMAIN fs /\ fs'[q].maker = fs[q].maker
            /\ InItem /\ IsPrefix(op.target, q) => IsPrefix(op'.target, q)
         \/ fs'[q].maker = op.id /\ IsPrefix(op'.target, q)
  BY <1>4, <1>6, <1>7, <1>8
<1>15. QED
  BY <1>1, <1>3, <1>8, <1>9, <1>10, <1>11, <1>12, <1>13, <1>14, WithinOwns

\* A finished file stays where it is.
LEMMA FinishFileOwns ==
  ASSUME FInv, JInv, FinishFile
  PROVE  JInv'
<1>1. /\ Copying /\ op.stage = "writing" /\ fs' = Finished(fs)
      /\ op' = [op EXCEPT !.stage = "entries"] /\ ThreadOnly
  BY DEF FinishFile
<1>2. InItem  BY <1>1 DEF InItem, Copying
<1>3. op # NoOp /\ DOMAIN op = Fields  BY <1>1, CopyingIs
<1>4. /\ DOMAIN fs' = DOMAIN fs
      /\ \A q \in DOMAIN fs : fs'[q].kind = fs[q].kind /\ fs'[q].maker = fs[q].maker
  BY <1>1, FinishedIs DEF FInv
<1>5. /\ DOMAIN op' = Fields /\ op'.kind = op.kind /\ op'.id = op.id /\ op'.items = op.items
      /\ op'.dest = op.dest /\ op'.at = op.at /\ op'.steps = op.steps /\ op'.quiet = op.quiet
      /\ op'.target = op.target /\ op'.tree = op.tree /\ op'.stage = "entries"
  BY <1>1, <1>3 DEF Fields
<1>6. op' # NoOp /\ Source' = Source  BY <1>5, OpIs DEF Source
<1>7. InItem'  BY <1>5, <1>6 DEF InItem
<1>8. op.kind = "move" => Volume(op'.target) = Head(op.dest)
  BY <1>2, <1>3, <1>5 DEF JInv, Accounts, MovesApart
<1>9. Aged(fs', serial)  BY <1>4, SameMakersAged DEF JInv, Ages
<1>10. ASSUME Undisturbed
       PROVE  /\ Source' \in DOMAIN fs' /\ op'.target \in DOMAIN fs'
              /\ op'.tree <=> fs'[op'.target].kind = "dir"
              /\ \A q \in DOMAIN fs' : IsPrefix(op'.target, q) => fs'[q].maker = op.id
  <2>1. /\ Source \in DOMAIN fs /\ op.target \in DOMAIN fs
        /\ op.tree <=> fs[op.target].kind = "dir"
        /\ \A q \in DOMAIN fs : IsPrefix(op.target, q) => fs[q].maker = op.id
    BY <1>2, <1>10 DEF JInv, Accounts, ItemWhole
  <2>2. op'.tree <=> fs[op.target].kind = "dir"  BY <1>5, <2>1, Zenon
  <2>3. QED  BY <1>4, <1>5, <1>6, <2>1, <2>2
<1>11. QED
  BY <1>1, <1>3, <1>4, <1>5, <1>6, <1>7, <1>8, <1>9, <1>10, WithinOwns

\* Every request.
LEMMA AskedOwns ==
  ASSUME FInv, JInv, Requests
  PROVE  JInv'
<1>1. ASSUME NEW dir, NEW name, MkDirNamed(dir, name)
      PROVE  JInv'
  BY <1>1, MakeDirOwns DEF MkDirNamed
<1>2. ASSUME NEW dir, MkDirDefault(dir)
      PROVE  JInv'
  BY <1>2, MakeDirOwns DEF MkDirDefault
<1>3. QED
  BY <1>1, <1>2, TransferOwns, StartTrashOwns, StartDuplicateOwns, CancelRequestOwns,
     RenameOwns, RenameFailsOwns, NewFileOwns, UndoOwns, UndoFailsOwns, RestOwns
  DEF Requests

\* Every step of the thread.
LEMMA ThreadOwns ==
  ASSUME FInv, JInv, Running
  PROVE  JInv'
  BY SkipItemOwns, RenameItemOwns, RefuseItemOwns, OpenItemOwns, FailNodeOwns,
     OpenChildOwns, FinishFileOwns, FailCopyOwns, CancelCopyOwns, EndCopyOwns,
     EndMoveOwns, FailMoveOwns, GioTrashOwns, CheckTrashedOwns
  DEF Running, Thread

\* The account holds at the start.
LEMMA FirstOwns ==
  ASSUME Init
  PROVE  JInv
<1>1. op = NoOp /\ trash = {} /\ journal = <<>> /\ serial = 0 /\ fs = InitialFiles
  BY DEF Init
<1>2. Aged(fs, serial)  BY <1>1, OpsAssumption DEF Aged
<1>3. Len(journal) <= Depth  BY <1>1, OpsAssumption
<1>4. QED
  BY <1>1, <1>2, <1>3 DEF JInv, Ages, OpAge, Accounts, MovesApart, ItemWhole, CreatedIsOwn,
     OwnIsRecorded, Undisturbed, InItem

\* Every step keeps it.
LEMMA OwnsStep ==
  ASSUME FInv, JInv, [Next]_vars
  PROVE  JInv'
  BY AskedOwns, ThreadOwns, ReportOwns, RestOwns DEF Next

\* The paths a step covers, of those that exist.
LEMMA RecordedIs ==
  ASSUME NEW steps, NEW kinds, NEW q
  PROVE  q \in Recorded(steps, kinds) <=> q \in DOMAIN fs /\ Covered(steps, kinds, q)
  BY DEF Recorded, Covered

\* An operation that has ended is in no item.
LEMMA EndedIs ==
  ASSUME FInv, Ended
  PROVE  op # NoOp /\ ~InItem
<1>1. op # NoOp /\ op.at > Len(op.items)  BY DEF Ended
<1>2. op.items \in Seq(Paths) /\ op.at \in Nat \ {0}  BY <1>1 DEF FInv, OpRight
<1>3. op.at \notin DOMAIN op.items  BY <1>1, <1>2
<1>4. QED  BY <1>1, <1>3 DEF FInv, ItemRight

\* Whatever calls fail, the ring holds at most Depth entries, and an undo of
\* what an operation nobody disturbed has journaled deletes nothing but what
\* the operation made.
UndoTakesItsOwn ==
  /\ Len(journal) <= Depth
  /\ Ended /\ op.quiet /\ op.kind # "trash" =>
       Recorded(op.steps, {"created"}) \subseteq MadeBy(op.id)

\* What the account says of a journal entry.
LEMMA OwnTaken ==
  ASSUME FInv, JInv
  PROVE  UndoTakesItsOwn
<1>1. ASSUME Ended, op.quiet, op.kind # "trash", NEW q \in Recorded(op.steps, {"created"})
      PROVE  q \in MadeBy(op.id)
  <2>1. q \in DOMAIN fs /\ Covered(op.steps, {"created"}, q)  BY RecordedIs
  <2>2. Undisturbed  BY <1>1, EndedIs DEF Undisturbed
  <2>3. fs[q].maker = op.id  BY <2>1, <2>2 DEF JInv, Accounts, CreatedIsOwn
  <2>4. QED  BY <2>1, <2>3 DEF MadeBy
<1>2. QED  BY <1>1 DEF UndoTakesItsOwn, JInv

\* And where no unlink and no chmod fails.
LEMMA OwnRecorded ==
  ASSUME FInv, JInv, Faults \subseteq {"copy"}
  PROVE  JournalExact
<1>1. ASSUME Ended, op.quiet, op.kind # "trash", NEW q \in MadeBy(op.id)
      PROVE  q \in Recorded(op.steps, {"created", "moved"})
  <2>1. q \in DOMAIN fs /\ fs[q].maker = op.id  BY DEF MadeBy
  <2>2. Undisturbed /\ ~InItem  BY <1>1, EndedIs DEF Undisturbed
  <2>3. Covered(op.steps, {"created", "moved"}, q)
    BY <2>1, <2>2 DEF JInv, Accounts, OwnIsRecorded
  <2>4. QED  BY <2>1, <2>3, RecordedIs
<1>2. QED  BY <1>1, OwnTaken DEF JournalExact, UndoTakesItsOwn

\* Whatever system calls fail, the undo ring never passes DEPTH, and an undo of
\* an operation no request disturbed deletes only what the operation made
\* (undo.rs Journal::push and undo, opsreq.rs one_item).
THEOREM OnlyItsOwnIsTaken == Spec => []UndoTakesItsOwn
<1>1. Init => FInv /\ JInv  BY FirstContents, FirstOwns
<1>2. FInv /\ JInv /\ [Next]_vars => (FInv /\ JInv)'  BY ContentStepKeeps, OwnsStep
<1>3. FInv /\ JInv => UndoTakesItsOwn  BY OwnTaken
<1>4. QED  BY <1>1, <1>2, <1>3, PTL DEF Spec

\* Where no unlink and no chmod fails, an operation no request disturbed
\* journals exactly what it left behind, its cancelled and failed items
\* included. A refused unlink or chmod leaves a copy that copyfile.rs reports to
\* nobody, so those two are excluded.
THEOREM JournalIsExact ==
  ASSUME Faults \subseteq {"copy"}
  PROVE  Spec => []JournalExact
<1>1. Init => FInv /\ JInv  BY FirstContents, FirstOwns
<1>2. FInv /\ JInv /\ [Next]_vars => (FInv /\ JInv)'  BY ContentStepKeeps, OwnsStep
<1>3. FInv /\ JInv => JournalExact  BY OwnRecorded
<1>4. QED  BY <1>1, <1>2, <1>3, PTL DEF Spec

-----------------------------------------------------------------------------
(* What undo takes back: each step's own reversal.                         *)

\* A renamed branch has the nodes it had.
LEMMA RenamedNodes ==
  ASSUME NEW f, IsTree(f), NEW from, NEW to, Movable(f, from, to), NEW r \in Below(f, from)
  PROVE  Renamed(f, from, to)[Rebased(r, from, to)] = f[r]
<1> DEFINE g == Renamed(f, from, to)
           E == Erased(f, from)
           M == {Rebased(x, from, to) : x \in Below(f, from)}
           h == [q \in M |-> f[Rebased(q, to, from)]]
           q == Rebased(r, from, to)
<1>1. q \notin DOMAIN f /\ q \in M /\ Rebased(q, to, from) = r  BY MovedPath
<1>2. DOMAIN E \subseteq DOMAIN f  BY DEF Erased, Restrict
<1>3. g = [x \in DOMAIN E \cup DOMAIN h |-> IF x \in DOMAIN E THEN E[x] ELSE h[x]]
  BY DEF Renamed, Joined
<1>4. DOMAIN h = M /\ h[q] = f[Rebased(q, to, from)]  BY <1>1
<1> HIDE DEF h, M, E, g, q
<1>5. q \notin DOMAIN E  BY <1>1, <1>2
<1>6. g[q] = h[q]  BY <1>1, <1>3, <1>4, <1>5
<1>7. QED  BY <1>1, <1>4, <1>6 DEF g, q

\* A name that was renamed can be renamed back.
LEMMA BackMovable ==
  ASSUME NEW f, IsTree(f), NEW from, NEW to, Movable(f, from, to),
         NEW g, RenameShape(f, g, from, to, DOMAIN f \ Below(f, from))
  PROVE  /\ Movable(g, to, from)
         /\ Below(g, to) = {Rebased(r, from, to) : r \in Below(f, from)}
<1> DEFINE stay == DOMAIN f \ Below(f, from)
           M == {Rebased(r, from, to) : r \in Below(f, from)}
<1>1. /\ from \in DOMAIN f /\ Volume(from) = Volume(to) /\ ~IsPrefix(from, to)
      /\ to \in Paths /\ to \notin DOMAIN f
  BY DEF Movable, Free
<1>2. from \in Paths /\ IsPrefix(from, from) /\ from \in Below(f, from)
  <2>1. from \in Paths  BY <1>1, TreeNode
  <2>2. IsPrefix(from, from)  BY <2>1, SelfPrefix
  <2>3. QED  BY <1>1, <2>1, <2>2 DEF Below
<1>3. DOMAIN g = stay \cup M /\ \A q \in stay : g[q] = f[q]  BY DEF RenameShape
<1>4. \A q \in DOMAIN f : ~IsPrefix(to, q)  BY <1>1, NothingBelow
<1>5. \A q \in M : IsPrefix(to, q) /\ ~IsPrefix(from, q) /\ Rebased(q, to, from) \in DOMAIN f
  BY MovedPath
<1>6. to \in M
  <2>1. Rebased(from, from, to) = to  BY <1>1, <1>2, RebasedIs
  <2>2. QED  BY <1>2, <2>1
<1>7. Parent(from) \in Roots \/ (Parent(from) \in stay /\ f[Parent(from)].kind = "dir")
  <2>1. Parent(from) \in Roots \/ (Parent(from) \in DOMAIN f /\ f[Parent(from)].kind = "dir")
    BY <1>1, TreeNode
  <2>2. ASSUME Parent(from) \in DOMAIN f PROVE Parent(from) \notin Below(f, from)
    <3>1. Parent(from) \in Paths  BY <2>2, TreeNode
    <3>2. IsPrefix(from, Parent(from)) <=> Parent(from) = from  BY <1>2, <3>1, TwoLevels
    <3>3. Parent(from) # from
      <4>1. Len(from) = 3 /\ Len(Parent(from)) = 2  BY <1>2, <3>1, PathIs
      <4>2. QED  BY <4>1
    <3>4. QED  BY <3>2, <3>3 DEF Below
  <2>3. QED  BY <2>1, <2>2
<1>8. \A q \in stay : q \in DOMAIN f  OBVIOUS
<1>9. from \notin stay  BY <1>2
<1>10. Below(g, to) = M
  <2> HIDE DEF stay, M
  <2>1. QED  BY <1>3, <1>4, <1>5, <1>8 DEF Below
<1> HIDE DEF stay, M
<1>11. from \notin DOMAIN g  BY <1>2, <1>3, <1>5, <1>9
<1>12. IsDir(g, Parent(from))  BY <1>3, <1>7 DEF IsDir
<1>13. Free(g, from)  BY <1>2, <1>11, <1>12 DEF Free
<1>14. \A q \in Below(g, to) : Rebased(q, to, from) \in Paths
  BY <1>5, <1>10, TreeNode
<1>15. Movable(g, to, from)
  BY <1>1, <1>3, <1>4, <1>6, <1>13, <1>14 DEF Movable
<1>16. QED  BY <1>10, <1>15 DEF M

\* And is then where it was.
LEMMA RenamedBack ==
  ASSUME NEW f, IsTree(f), NEW from, NEW to, Movable(f, from, to),
         NEW g, g = Renamed(f, from, to)
  PROVE  Movable(g, to, from) /\ Renamed(g, to, from) = f
<1> DEFINE stay == DOMAIN f \ Below(f, from)
           B == Below(f, from)
           M == {Rebased(r, from, to) : r \in B}
           N == {Rebased(q, to, from) : q \in Below(g, to)}
           E == Erased(g, to)
           b == [q \in N |-> g[Rebased(q, from, to)]]
           h == Renamed(g, to, from)
<1>1. RenameShape(f, g, from, to, stay)  BY RenamedIs
<1>2. Movable(g, to, from) /\ Below(g, to) = M  BY <1>1, BackMovable
<1>3. DOMAIN g = stay \cup M /\ \A q \in stay : g[q] = f[q]  BY <1>1 DEF RenameShape
<1>4. \A r \in B : /\ Rebased(r, from, to) \in M /\ Rebased(r, from, to) \notin DOMAIN f
                   /\ Rebased(Rebased(r, from, to), to, from) = r
                   /\ g[Rebased(r, from, to)] = f[r]
  BY MovedPath, RenamedNodes
<1>5. N = B
  <2>1. \A r \in B : r \in N  BY <1>2, <1>4
  <2>2. \A q \in M : \E r \in B : q = Rebased(r, from, to)  OBVIOUS
  <2>3. \A x \in N : x \in B  BY <1>2, <1>4, <2>2
  <2>4. QED  BY <2>1, <2>3
<1>6. stay \subseteq DOMAIN f /\ B \subseteq DOMAIN f /\ stay \cup B = DOMAIN f /\ stay \cap B = {}
  BY DEF Below
<1>7. DOMAIN E = stay /\ \A q \in stay : E[q] = g[q]
  <2>1. DOMAIN E = DOMAIN g \ M /\ \A q \in DOMAIN E : E[q] = g[q]
    BY <1>2 DEF Erased, Restrict
  <2>2. M \cap stay = {}  BY <1>4, <1>6
  <2> HIDE DEF stay, M, E
  <2>3. QED  BY <1>3, <2>1, <2>2
<1>8. DOMAIN b = B /\ \A q \in B : b[q] = f[q]
  <2>1. DOMAIN b = N /\ \A q \in N : b[q] = g[Rebased(q, from, to)]  OBVIOUS
  <2> HIDE DEF b, N, B
  <2>2. QED  BY <1>4, <1>5, <2>1
<1>9. h = [q \in DOMAIN E \cup DOMAIN b |-> IF q \in DOMAIN E THEN E[q] ELSE b[q]]
  BY DEF Renamed, Joined
<1>10. f = [q \in DOMAIN f |-> f[q]]  BY DEF IsTree
<1> HIDE DEF stay, B, M, N, E, b, h
<1>11. h = [q \in DOMAIN f |-> f[q]]  BY <1>3, <1>6, <1>7, <1>8, <1>9
<1>12. QED  BY <1>2, <1>10, <1>11 DEF h

\* What is erased below a name hides any change below it.
LEMMA SameOutside ==
  ASSUME NEW f, NEW g, NEW p,
         \A q : q \in DOMAIN f /\ ~IsPrefix(p, q) <=> q \in DOMAIN g /\ ~IsPrefix(p, q),
         \A q \in DOMAIN f : ~IsPrefix(p, q) => g[q] = f[q]
  PROVE  Erased(g, p) = Erased(f, p)
<1> DEFINE D == {q \in DOMAIN f : ~IsPrefix(p, q)}
<1>1. DOMAIN f \ Below(f, p) = D /\ DOMAIN g \ Below(g, p) = D  BY DEF Below
<1>2. \A q \in D : g[q] = f[q]  OBVIOUS
<1>3. Erased(f, p) = [q \in D |-> f[q]] /\ Erased(g, p) = [q \in D |-> g[q]]
  BY <1>1 DEF Erased, Restrict
<1> HIDE DEF D
<1>4. QED  BY <1>2, <1>3

\* A tree without what is below a name it has not got is the tree.
LEMMA NothingErased ==
  ASSUME NEW f, IsTree(f), NEW p, \A q \in DOMAIN f : ~IsPrefix(p, q)
  PROVE  Erased(f, p) = f
<1>1. DOMAIN f \ Below(f, p) = DOMAIN f  BY DEF Below
<1>2. f = [q \in DOMAIN f |-> f[q]]  BY DEF IsTree
<1>3. QED  BY <1>1, <1>2 DEF Erased, Restrict

\* A name put and erased again.
LEMMA PutBack ==
  ASSUME NEW f, IsTree(f), NEW p, Free(f, p), NEW n, NEW g, g = Put(f, p, n)
  PROVE  /\ p \in DOMAIN g /\ p \in Paths /\ g[p] = n
         /\ Children(g, p) = {} /\ Erased(g, p) = f
<1>1. p \in Paths /\ p \notin DOMAIN f  BY DEF Free
<1>2. /\ DOMAIN g = DOMAIN f \cup {p} /\ g[p] = n
      /\ \A q \in DOMAIN f : g[q] = f[q]
  BY <1>1 DEF Put, Joined
<1>3. \A q \in DOMAIN f : ~IsPrefix(p, q)  BY <1>1, NothingBelow
<1>4. IsPrefix(p, p)  BY <1>1, SelfPrefix
<1>5. Erased(g, p) = Erased(f, p)  BY <1>2, <1>3, <1>4, SameOutside
<1>6. Erased(f, p) = f  BY <1>3, NothingErased
<1>7. Children(g, p) = {}
  <2>1. \A q \in DOMAIN f : Parent(q) # p
    BY <1>1, <1>3, PrefixIs, TreeNode
  <2>2. Parent(p) # p
    <3>1. ASSUME Parent(p) = p PROVE FALSE
      <4>1. Len(p) = 3 /\ Len(Parent(p)) = 2  BY <1>1, <3>1, PathIs
      <4>2. QED  BY <3>1, <4>1
    <3>2. QED  BY <3>1
  <2>3. QED  BY <1>2, <2>1, <2>2 DEF Children
<1>8. QED  BY <1>1, <1>2, <1>5, <1>6, <1>7

\* A name put below another is erased with it.
LEMMA PutBelow ==
  ASSUME NEW f, NEW p, NEW to, to \notin DOMAIN f, IsPrefix(p, to), NEW n,
         NEW g, g = Put(f, to, n)
  PROVE  Erased(g, p) = Erased(f, p)
<1>1. DOMAIN g = DOMAIN f \cup {to} /\ \A q \in DOMAIN f : g[q] = f[q]
  BY DEF Put, Joined
<1>2. QED  BY <1>1, SameOutside

\* Closing what is open below a name changes nothing outside it.
LEMMA ClosedBelow ==
  ASSUME NEW f, IsTree(f), NEW p, \A q \in DOMAIN f : f[q].open => IsPrefix(p, q),
         NEW g, g = Finished(f) \/ g = CutShort(f)
  PROVE  Erased(g, p) = Erased(f, p)
<1>1. ASSUME NEW q \in DOMAIN f, ~IsPrefix(p, q)
      PROVE  [f[q] EXCEPT !.open = FALSE] = f[q] /\ Shut(f[q]) = f[q]
  <2>1. f[q] \in Nodes /\ ~f[q].open  BY <1>1, TreeNode
  <2>2. PICK n, k, d, o, m : /\ n = f[q] /\ k = n.kind /\ d = n.data /\ o = n.open /\ m = n.maker
    OBVIOUS
  <2>3. n = [kind |-> k, data |-> d, open |-> o, maker |-> m]  BY <2>1, <2>2, NodeIs
  <2>4. o = FALSE
    <3>1. n.open \in BOOLEAN  BY <2>1, <2>2, NodeIs
    <3>2. ~n.open  BY <2>1, <2>2
    <3>3. QED  BY <2>2, <3>1, <3>2
  <2>5. [n EXCEPT !.open = o] = n
    <3>1. [n EXCEPT !.open = o] = [kind |-> k, data |-> d, open |-> o, maker |-> m]
      BY <2>3, RewrittenIs
    <3>2. QED  BY <2>3, <3>1
  <2>6. Shut(f[q]) = f[q]  BY <2>1, ShutKeeps
  <2>7. QED  BY <2>2, <2>4, <2>5, <2>6
<1>2. CASE g = Finished(f)
  <2>1. DOMAIN g = DOMAIN f /\ \A q \in DOMAIN f : g[q] = [f[q] EXCEPT !.open = FALSE]
    BY <1>2 DEF Finished
  <2>2. \A q \in DOMAIN f : ~IsPrefix(p, q) => g[q] = f[q]
    <3> SUFFICES ASSUME NEW q \in DOMAIN f, ~IsPrefix(p, q) PROVE g[q] = f[q]  OBVIOUS
    <3>1. [f[q] EXCEPT !.open = FALSE] = f[q]  BY <1>1
    <3>2. g[q] = [f[q] EXCEPT !.open = FALSE]  BY <2>1
    <3>3. QED  BY <3>1, <3>2
  <2>3. QED  BY <2>1, <2>2, SameOutside
<1>3. CASE g = CutShort(f)
  <2>1. DOMAIN g = DOMAIN f /\ \A q \in DOMAIN f : g[q] = Shut(f[q])  BY <1>3, CutShortIs
  <2>2. QED  BY <1>1, <2>1, SameOutside
<1>4. QED  BY <1>2, <1>3

\* Nothing is closed where nothing is open.
LEMMA NothingClosed ==
  ASSUME NEW f, IsTree(f), \A q \in DOMAIN f : ~f[q].open
  PROVE  CutShort(f) = f
<1>1. \A q \in DOMAIN f : Shut(f[q]) = f[q]  BY TreeNode, ShutKeeps
<1>2. \A q \in DOMAIN f : CutShort(f)[q] = f[q]  BY <1>1, CutShortIs
<1>3. CutShort(f) = [q \in DOMAIN f |-> CutShort(f)[q]]  BY DEF CutShort
<1>4. f = [q \in DOMAIN f |-> f[q]]  BY DEF IsTree
<1>5. QED  BY <1>2, <1>3, <1>4

WorldOf(w) == World(w[1], w[2], TRUE)

\* A step, reversed in the world after it, leaves the world before it.
TakesTo(s, after, before) == Reversed(s, WorldOf(after)) = WorldOf(before)

LEMMA WorldOfIs ==
  ASSUME NEW f, NEW t
  PROVE  /\ WorldOf(<<f, t>>) = World(f, t, TRUE)
         /\ WorldOf(<<f, t>>).fs = f /\ WorldOf(<<f, t>>).trash = t
<1>1. <<f, t>>[1] = f /\ <<f, t>>[2] = t  OBVIOUS
<1>2. WorldOf(<<f, t>>) = World(f, t, TRUE)  BY <1>1 DEF WorldOf
<1>3. World(f, t, TRUE).fs = f /\ World(f, t, TRUE).trash = t  BY DEF World
<1>4. QED  BY <1>2, <1>3

LEMMA WorldOfOk ==
  ASSUME NEW w
  PROVE  WorldOf(w).ok
<1>1. PICK yes : yes = TRUE  OBVIOUS
<1>2. World(w[1], w[2], yes).ok = yes  BY DEF World
<1>3. World(w[1], w[2], yes).ok  BY <1>1, <1>2
<1>4. QED  BY <1>1, <1>3, Zenon DEF WorldOf

\* A rename, where every mount can rename.
LEMMA MovedTakes ==
  ASSUME NEW f, IsTree(f), NEW t, NEW from, NEW to, Movable(f, from, to),
         \A v \in Volumes : CannotRename[v] = {}
  PROVE  TakesTo(Moved(from, to), <<RenamePath(f, from, to), t>>, <<f, t>>)
<1>1. from \in Paths /\ to \in Paths  BY TreeNode DEF Movable, Free
<1>2. Volume(from) \in Volumes /\ Volume(to) \in Volumes  BY <1>1, PathIs
<1>3. PICK g : g = Renamed(f, from, to)  OBVIOUS
<1>4. Movable(g, to, from) /\ Renamed(g, to, from) = f  BY <1>3, RenamedBack
<1>5. RenamePath(f, from, to) = g /\ RenamePath(g, to, from) = f
  BY <1>2, <1>3, <1>4 DEF RenamePath, RefusesRename
<1> DEFINE s == Moved(from, to)
           w == WorldOf(<<g, t>>)
<1>6. s.step = "moved" /\ s.from = from /\ s.to = to  BY DEF Moved
<1>7. w.fs = g /\ w.trash = t  BY WorldOfIs
<1> HIDE DEF s, w
<1>8. Reversed(s, w) = World(f, t, TRUE)  BY <1>4, <1>5, <1>6, <1>7 DEF Reversed
<1>9. QED  BY <1>5, <1>8, WorldOfIs DEF TakesTo, s, w

\* A copy or a new file.
LEMMA CreatedTakes ==
  ASSUME NEW f, NEW t, NEW p, p \in DOMAIN f, NEW g, g = Erased(f, p)
  PROVE  TakesTo(Created(p), <<f, t>>, <<g, t>>)
<1> DEFINE s == Created(p)
           w == WorldOf(<<f, t>>)
<1>1. s.step = "created" /\ s.path = p  BY DEF Created
<1>2. w.fs = f /\ w.trash = t  BY WorldOfIs
<1> HIDE DEF s, w
<1>3. Reversed(s, w) = World(g, t, TRUE)  BY <1>1, <1>2 DEF Reversed, Exists
<1>4. QED  BY <1>3, WorldOfIs DEF TakesTo, s, w

\* A new directory.
LEMMA MadeDirTakes ==
  ASSUME NEW f, NEW t, NEW p, IsDir(f, p), Children(f, p) = {}, NEW g, g = Erased(f, p)
  PROVE  TakesTo(MadeDir(p), <<f, t>>, <<g, t>>)
<1> DEFINE s == MadeDir(p)
           w == WorldOf(<<f, t>>)
<1>1. s.step = "madedir" /\ s.path = p  BY DEF MadeDir
<1>2. w.fs = f /\ w.trash = t  BY WorldOfIs
<1> HIDE DEF s, w
<1>3. Reversed(s, w) = World(g, t, TRUE)  BY <1>1, <1>2 DEF Reversed
<1>4. QED  BY <1>3, WorldOfIs DEF TakesTo, s, w

\* The batch of one trash request: some rows of one directory.
Batch(f, items) ==
  /\ items \in Seq(Paths)
  /\ \A i \in DOMAIN items : items[i] \in DOMAIN f
  /\ \A i, j \in DOMAIN items :
       Parent(items[i]) = Parent(items[j]) /\ (items[i] = items[j] => i = j)

\* The files without some of the batch, and the trash with them.
Without(f, items, gone) ==
  Restrict(f, {q \in DOMAIN f : \A i \in gone : ~IsPrefix(items[i], q)})

Trashing(f, items, id, i) ==
  [uri |-> MaxItems * id + i, original |-> items[i], tree |-> Subtree(f, items[i])]

With(f, t, items, id, gone) == t \cup {Trashing(f, items, id, i) : i \in gone}

\* No row of a directory is below another.
LEMMA BatchApart ==
  ASSUME NEW f, IsTree(f), NEW items, Batch(f, items),
         NEW i \in DOMAIN items, NEW j \in DOMAIN items
  PROVE  /\ IsPrefix(items[i], items[j]) <=> i = j
         /\ Parent(items[j]) \in Paths => ~IsPrefix(items[i], Parent(items[j]))
<1>1. items[i] \in Paths /\ items[j] \in Paths  BY TreeNode DEF Batch
<1>2. Parent(items[i]) = Parent(items[j])  BY DEF Batch
<1>3. \A p \in Paths : Parent(p) # p
  <2> SUFFICES ASSUME NEW p \in Paths, Parent(p) = p PROVE FALSE  OBVIOUS
  <2>1. Len(p) = 3 /\ Len(Parent(p)) = 2  BY PathIs
  <2>2. QED  BY <2>1
<1>4. IsPrefix(items[i], items[j]) <=> items[j] = items[i] \/ Parent(items[j]) = items[i]
  BY <1>1, PrefixIs
<1>5. Parent(items[j]) # items[i]  BY <1>1, <1>2, <1>3
<1>6. items[i] = items[j] <=> i = j  BY DEF Batch
<1>7. IsPrefix(items[i], items[j]) <=> i = j  BY <1>4, <1>5, <1>6
<1>8. ASSUME Parent(items[j]) \in Paths PROVE ~IsPrefix(items[i], Parent(items[j]))
  <2>1. IsPrefix(items[i], Parent(items[j])) <=> Parent(items[j]) = items[i]
    BY <1>1, <1>8, TwoLevels
  <2>2. QED  BY <1>5, <2>1
<1>9. QED  BY <1>7, <1>8

\* What went can be put back: it is not there, and its directory is.
LEMMA WithoutFree ==
  ASSUME NEW f, IsTree(f), NEW items, Batch(f, items), NEW gone \in SUBSET DOMAIN items,
         NEW i \in gone
  PROVE  Free(Without(f, items, gone), items[i])
<1> DEFINE D == {q \in DOMAIN f : \A j \in gone : ~IsPrefix(items[j], q)}
           g == Without(f, items, gone)
           p == items[i]
<1>1. DOMAIN g = D /\ \A q \in D : g[q] = f[q]  BY DEF Without, Restrict
<1>2. i \in DOMAIN items /\ p \in DOMAIN f /\ p \in Paths  BY TreeNode DEF Batch
<1>3. p \notin D
  <2>1. IsPrefix(items[i], items[i])  BY <1>2, SelfPrefix
  <2>2. QED  BY <2>1
<1>4. Parent(p) \in Roots \/ (Parent(p) \in DOMAIN f /\ f[Parent(p)].kind = "dir")
  BY <1>2, TreeNode
<1>5. ASSUME Parent(p) \in DOMAIN f PROVE Parent(p) \in D
  <2>1. Parent(p) \in Paths  BY <1>5, TreeNode
  <2>2. \A j \in gone : ~IsPrefix(items[j], Parent(p))  BY <1>2, <2>1, BatchApart
  <2>3. QED  BY <1>5, <2>2
<1> HIDE DEF D, g, p
<1>6. Free(g, p)  BY <1>1, <1>2, <1>3, <1>4, <1>5 DEF Free, IsDir
<1>7. QED  BY <1>6 DEF g, p

\* And put back it leaves the files before it went.
LEMMA WithoutJoined ==
  ASSUME NEW f, IsTree(f), NEW items, Batch(f, items), NEW gone \in SUBSET DOMAIN items,
         NEW i \in DOMAIN items, i \notin gone
  PROVE  Joined(Without(f, items, gone \cup {i}), Subtree(f, items[i])) = Without(f, items, gone)
<1> DEFINE D == {q \in DOMAIN f : \A j \in gone : ~IsPrefix(items[j], q)}
           E == {q \in DOMAIN f : \A j \in gone \cup {i} : ~IsPrefix(items[j], q)}
           B == Below(f, items[i])
           g == Without(f, items, gone)
           h == Without(f, items, gone \cup {i})
           t == Subtree(f, items[i])
<1>1. g = [q \in D |-> f[q]] /\ h = [q \in E |-> f[q]] /\ t = [q \in B |-> f[q]]
  BY DEF Without, Restrict, Subtree
<1>2. B \subseteq D
  <2> SUFFICES ASSUME NEW q \in B, NEW j \in gone, IsPrefix(items[j], q) PROVE FALSE
    BY DEF Below
  <2>1. q \in DOMAIN f /\ IsPrefix(items[i], q)  BY DEF Below
  <2>2. items[i] \in Paths /\ items[j] \in Paths /\ q \in Paths /\ j \in DOMAIN items
    BY <2>1, TreeNode DEF Batch
  <2>3. /\ q = items[i] \/ Parent(q) = items[i]
        /\ q = items[j] \/ Parent(q) = items[j]
    BY <2>1, <2>2, PrefixIs
  <2>4. ~IsPrefix(items[i], items[j]) /\ ~IsPrefix(items[j], items[i])  BY <2>2, BatchApart
  <2>5. items[i] # items[j] /\ Parent(items[i]) # items[j] /\ Parent(items[j]) # items[i]
    BY <2>2, <2>4, PrefixIs
  <2>6. QED  BY <2>3, <2>5
<1>3. D = E \cup B /\ E \cap B = {}  BY <1>2 DEF Below
<1>4. Joined(h, t) = [q \in DOMAIN h \cup DOMAIN t |-> IF q \in DOMAIN h THEN h[q] ELSE t[q]]
  BY DEF Joined
<1> HIDE DEF D, E, B, g, h, t
<1>5. DOMAIN h = E /\ DOMAIN t = B /\ (\A q \in E : h[q] = f[q]) /\ (\A q \in B : t[q] = f[q])
  BY <1>1
<1>6. Joined(h, t) = [q \in D |-> f[q]]  BY <1>3, <1>4, <1>5
<1>7. QED  BY <1>1, <1>6 DEF g, h, t

\* The entries of a call are numbered after every entry there was.
LEMMA UriIs ==
  ASSUME NEW id \in Nat, NEW i \in Nat, NEW j \in Nat
  PROVE  /\ MaxItems * id \in Nat /\ MaxItems * id + i \in Nat
         /\ MaxItems * id + i = MaxItems * id + j => i = j
         /\ i > 0 => MaxItems * id + i > MaxItems * id /\ MaxItems * id + i # NoUri
<1>1. MaxItems \in Nat  BY OpsAssumption DEF OpsAssumption
<1>2. PICK m \in Nat : m = MaxItems * id  BY <1>1
<1>3. QED  BY <1>2 DEF NoUri

\* An item the trash lists.
LEMMA TrashedTakes ==
  ASSUME NEW f, IsTree(f), NEW t, NEW items, Batch(f, items), NEW gone \in SUBSET DOMAIN items,
         NEW i \in DOMAIN items, i \notin gone, NEW id \in Nat,
         \A e \in t : e.uri \in Nat /\ e.uri <= MaxItems * id
  PROVE  TakesTo(Trashed(MaxItems * id + i),
                 <<Without(f, items, gone \cup {i}), With(f, t, items, id, gone \cup {i})>>,
                 <<Without(f, items, gone), With(f, t, items, id, gone)>>)
<1> DEFINE s == Trashed(MaxItems * id + i)
           g == Without(f, items, gone \cup {i})
           u == With(f, t, items, id, gone \cup {i})
           w == WorldOf(<<g, u>>)
           x == Trashing(f, items, id, i)
           held == {e \in u : e.uri = MaxItems * id + i /\ Free(g, e.original)}
<1>1. i \in Nat /\ i > 0 /\ \A j \in gone : j \in Nat /\ j > 0
  <2>1. DOMAIN items = 1..Len(items) /\ Len(items) \in Nat  BY DEF Batch
  <2>2. QED  BY <2>1
<1>2. x.uri = MaxItems * id + i /\ x.original = items[i] /\ x.tree = Subtree(f, items[i])
  BY DEF Trashing
<1>3. Free(g, items[i])  BY WithoutFree
<1>4. u = With(f, t, items, id, gone) \cup {x}  BY DEF With
<1>5. \A e \in With(f, t, items, id, gone) : e.uri # MaxItems * id + i
  <2> SUFFICES ASSUME NEW e \in With(f, t, items, id, gone) PROVE e.uri # MaxItems * id + i
    OBVIOUS
  <2>1. CASE e \in t
    <3>1. e.uri \in Nat /\ e.uri <= MaxItems * id  BY <2>1
    <3>2. MaxItems * id \in Nat /\ MaxItems * id + i \in Nat /\ MaxItems * id + i > MaxItems * id
      BY <1>1, UriIs
    <3>3. PICK a, b \in Nat : a = MaxItems * id /\ b = MaxItems * id + i  BY <3>2
    <3>4. e.uri <= a /\ b > a  BY <3>1, <3>2, <3>3
    <3>5. QED  BY <3>1, <3>3, <3>4
  <2>2. CASE e \notin t
    <3>1. PICK j \in gone : e = Trashing(f, items, id, j)  BY <2>2 DEF With
    <3>2. e.uri = MaxItems * id + j  BY <3>1 DEF Trashing
    <3>3. j # i /\ j \in Nat  BY <1>1
    <3>4. QED  BY <1>1, <3>2, <3>3, UriIs
  <2>3. QED  BY <2>1, <2>2
<1>6. held = {x}
  <2> HIDE DEF x, g, u
  <2>1. \A e \in u : e.uri = MaxItems * id + i => e = x  BY <1>4, <1>5
  <2>2. x \in u  BY <1>4
  <2>3. QED  BY <1>2, <1>3, <2>1, <2>2
<1>7. u \ {x} = With(f, t, items, id, gone)
  <2>1. x \notin With(f, t, items, id, gone)  BY <1>2, <1>5
  <2> HIDE DEF x, u
  <2>2. QED  BY <1>4, <2>1
<1>8. Joined(g, x.tree) = Without(f, items, gone)  BY <1>2, WithoutJoined
<1>9. s.step = "trashed" /\ s.uri = MaxItems * id + i  BY DEF Trashed
<1>10. w.fs = g /\ w.trash = u  BY WorldOfIs
<1> HIDE DEF s, g, u, w, x
<1>11. {e \in w.trash : e.uri = s.uri /\ Free(w.fs, e.original)} = {x}
  BY <1>6, <1>9, <1>10
<1>12. Reversed(s, w) = World(Joined(w.fs, x.tree), w.trash \ {x}, TRUE)
  <2> DEFINE H == {e \in w.trash : e.uri = s.uri /\ Free(w.fs, e.original)}
             y == CHOOSE z \in H : TRUE
  <2>1. H = {x}  BY <1>11
  <2>2. y = x  BY <2>1
  <2>3. Reversed(s, w) = IF H = {} THEN [w EXCEPT !.ok = FALSE]
                         ELSE World(Joined(w.fs, y.tree), w.trash \ {y}, TRUE)
    BY <1>9 DEF Reversed
  <2> HIDE DEF H, y
  <2>4. QED  BY <2>1, <2>2, <2>3
<1>13. Reversed(s, w) = World(Without(f, items, gone), With(f, t, items, id, gone), TRUE)
  BY <1>7, <1>8, <1>10, <1>12
<1>14. QED  BY <1>13, WorldOfIs DEF TakesTo, s, g, u, w

-----------------------------------------------------------------------------
(* An entry whose steps, reversed from the newest, lead back.              *)

\* The worlds between the steps of an entry.
Chain(ws, steps, before, after) ==
  /\ ws[0] = before /\ ws[Len(steps)] = after
  /\ \A i \in 1..Len(steps) : TakesTo(steps[i], ws[i], ws[i - 1])

Irreversible(steps) ==
  \E i \in DOMAIN steps : CrossesVolumes(steps[i]) \/ steps[i] = Trashed(NoUri)

CanGoBack(steps, before, after) ==
  /\ before = <<before[1], before[2]>>
  /\ Irreversible(steps) \/ \E ws : Chain(ws, steps, before, after)

\* No step leads nowhere.
LEMMA NothingGoesBack ==
  ASSUME NEW f, NEW t
  PROVE  CanGoBack(<<>>, <<f, t>>, <<f, t>>)
<1> DEFINE no == <<>>
           w == <<f, t>>
           ws == [k \in {0} |-> w]
<1>1. no \in Seq(Steps) /\ Len(no) = 0  BY EmptySteps
<1>2. w = <<w[1], w[2]>>  OBVIOUS
<1>3. ws[0] = w  OBVIOUS
<1> HIDE DEF no, w, ws
<1>4. 1..Len(no) = {}  BY <1>1
<1>5. Chain(ws, no, w, w)  BY <1>1, <1>3, <1>4 DEF Chain
<1>6. CanGoBack(no, w, w)  BY <1>2, <1>5 DEF CanGoBack
<1>7. QED  BY <1>6 DEF no, w

\* What one step more is made of.
LEMMA AppendedSteps ==
  ASSUME NEW steps \in Seq(Steps), NEW s \in Steps, NEW u, u = Append(steps, s)
  PROVE  /\ u \in Seq(Steps) /\ Len(u) = Len(steps) + 1 /\ u[Len(u)] = s
         /\ Len(steps) \in Nat
         /\ \A i \in 1..Len(steps) : i \in 1..Len(u) /\ u[i] = steps[i]
         /\ DOMAIN u = 1..Len(u) /\ DOMAIN steps = 1..Len(steps)
<1>1. u \in Seq(Steps) /\ Len(u) = Len(steps) + 1 /\ Len(steps) \in Nat  OBVIOUS
<1>2. u[Len(steps) + 1] = s  OBVIOUS
<1>3. \A i \in 1..Len(steps) : u[i] = steps[i]  OBVIOUS
<1>4. DOMAIN u = 1..Len(u) /\ DOMAIN steps = 1..Len(steps)  BY <1>1
<1>5. QED  BY <1>1, <1>2, <1>3, <1>4

\* An entry that cannot be reversed stays one.
LEMMA NoWayBack ==
  ASSUME NEW steps \in Seq(Steps), NEW s \in Steps,
         Irreversible(steps) \/ CrossesVolumes(s) \/ s = Trashed(NoUri)
  PROVE  Irreversible(Append(steps, s))
<1> DEFINE u == Append(steps, s)
<1>1. /\ Len(u) = Len(steps) + 1 /\ u[Len(u)] = s /\ Len(steps) \in Nat
      /\ \A i \in 1..Len(steps) : i \in 1..Len(u) /\ u[i] = steps[i]
      /\ DOMAIN u = 1..Len(u) /\ DOMAIN steps = 1..Len(steps)
  BY AppendedSteps
<1> HIDE DEF u
<1>2. Len(u) \in DOMAIN u  BY <1>1
<1>3. CASE Irreversible(steps)
  <2>1. PICK i \in DOMAIN steps : CrossesVolumes(steps[i]) \/ steps[i] = Trashed(NoUri)
    BY <1>3 DEF Irreversible
  <2>2. i \in DOMAIN u /\ u[i] = steps[i]  BY <1>1
  <2>3. Irreversible(u)  BY <2>1, <2>2 DEF Irreversible
  <2>4. QED  BY <2>3 DEF u
<1>4. CASE CrossesVolumes(s) \/ s = Trashed(NoUri)
  <2>1. Irreversible(u)  BY <1>1, <1>2, <1>4 DEF Irreversible
  <2>2. QED  BY <2>1 DEF u
<1>5. QED  BY <1>3, <1>4

\* One step more, reversed into where the others lead back from.
LEMMA OneMoreGoesBack ==
  ASSUME NEW steps \in Seq(Steps), NEW s \in Steps, NEW before, NEW middle, NEW after,
         CanGoBack(steps, before, middle), TakesTo(s, after, middle)
  PROVE  CanGoBack(Append(steps, s), before, after)
<1> DEFINE u == Append(steps, s)
<1>1. before = <<before[1], before[2]>>  BY DEF CanGoBack
<1>2. CASE Irreversible(steps)
  <2>1. Irreversible(u)  BY <1>2, NoWayBack
  <2> HIDE DEF u
  <2>2. CanGoBack(u, before, after)  BY <1>1, <2>1 DEF CanGoBack
  <2>3. QED  BY <2>2 DEF u
<1>3. CASE ~Irreversible(steps)
  <2>1. PICK ws : Chain(ws, steps, before, middle)  BY <1>3 DEF CanGoBack
  <2>2. /\ Len(u) = Len(steps) + 1 /\ u[Len(u)] = s /\ Len(steps) \in Nat
        /\ \A i \in 1..Len(steps) : u[i] = steps[i]
    BY AppendedSteps
  <2> DEFINE vs == [k \in 0..Len(u) |-> IF k = Len(u) THEN after ELSE ws[k]]
  <2> HIDE DEF u
  <2>3. /\ vs[Len(u)] = after
        /\ \A k \in 0..Len(steps) : vs[k] = ws[k]
    BY <2>2
  <2> HIDE DEF vs
  <2>4. ws[0] = before /\ ws[Len(steps)] = middle
    BY <2>1 DEF Chain
  <2>5. vs[0] = before  BY <2>2, <2>3, <2>4
  <2>6. ASSUME NEW i \in 1..Len(u) PROVE TakesTo(u[i], vs[i], vs[i - 1])
    <3>1. CASE i = Len(u)
      <4>1. i - 1 = Len(steps) /\ i - 1 \in 0..Len(steps)  BY <2>2, <3>1
      <4>2. vs[i] = after /\ vs[i - 1] = middle /\ u[i] = s  BY <2>2, <2>3, <2>4, <3>1, <4>1
      <4>3. QED  BY <4>2
    <3>2. CASE i # Len(u)
      <4>1. i \in 1..Len(steps) /\ i \in 0..Len(steps) /\ i - 1 \in 0..Len(steps)
        BY <2>2, <3>2
      <4>2. vs[i] = ws[i] /\ vs[i - 1] = ws[i - 1] /\ u[i] = steps[i]  BY <2>2, <2>3, <4>1
      <4>3. TakesTo(steps[i], ws[i], ws[i - 1])  BY <2>1, <4>1 DEF Chain
      <4>4. QED  BY <4>2, <4>3
    <3>3. QED  BY <3>1, <3>2
  <2>7. Chain(vs, u, before, after)  BY <2>3, <2>5, <2>6 DEF Chain
  <2>8. CanGoBack(u, before, after)  BY <1>1, <2>7 DEF CanGoBack
  <2>9. QED  BY <2>8 DEF u
<1>4. QED  BY <1>2, <1>3

\* undo reverses the steps of such an entry one by one, and none is refused.
LEMMA UndoneRetraces ==
  ASSUME NEW steps \in Seq(Steps), NEW ws, NEW before, Chain(ws, steps, before, <<fs, trash>>)
  PROVE  Undone(steps)[Len(steps)] = WorldOf(before)
<1> DEFINE N == Len(steps)
           T == {k \in 0..N : Undone(steps)[k] # WorldOf(ws[N - k])}
<1>1. N \in Nat  OBVIOUS
<1>2. ws[0] = before /\ ws[N] = <<fs, trash>>  BY DEF Chain
<1>3. \A i \in 1..N : TakesTo(steps[i], ws[i], ws[i - 1])  BY DEF Chain
<1>4. T = {}
  <2> SUFFICES ASSUME T # {} PROVE FALSE  OBVIOUS
  <2>1. PICK m \in T : \A k \in T : m <= k
    <3>1. T \in SUBSET Nat  BY <1>1
    <3> HIDE DEF T
    <3>2. QED  BY <3>1, Least
  <2>2. m \in 0..N /\ Undone(steps)[m] # WorldOf(ws[N - m])  OBVIOUS
  <2>3. CASE m = 0
    <3>1. Undone(steps)[0] = Start  BY <1>1, UndoneIs
    <3>2. Start = WorldOf(ws[N])  BY <1>2, WorldOfIs DEF Start
    <3>3. N - m = N  BY <1>1, <2>3
    <3>4. QED  BY <2>2, <2>3, <3>1, <3>2, <3>3
  <2>4. CASE m # 0
    <3>1. PICK j : j = m - 1  OBVIOUS
    <3>2. m \in 1..N /\ j \in 0..N /\ m - 1 = j /\ ~(m <= j)  BY <1>1, <2>2, <2>4, <3>1
    <3>3. j \notin T
      <4> HIDE DEF T
      <4>1. QED  BY <2>1, <3>2
    <3>4. Undone(steps)[j] = WorldOf(ws[N - j])  BY <3>2, <3>3
    <3>5. PICK i : i = N + 1 - m  OBVIOUS
    <3>6. i \in 1..N /\ N - j = i /\ N - m = i - 1  BY <1>1, <3>1, <3>2, <3>5
    <3>7. Undone(steps)[m] = Back(Undone(steps)[j], steps[i])
      <4>1. Undone(steps)[m] = Back(Undone(steps)[m - 1], steps[N + 1 - m])  BY <1>1, <3>2, UndoneIs
      <4>2. m - 1 = j /\ N + 1 - m = i  BY <3>2, <3>5
      <4>3. QED  BY <4>1, <4>2, Zenon
    <3>8. WorldOf(ws[i]).ok  BY WorldOfOk
    <3>9. Back(WorldOf(ws[i]), steps[i]) = Reversed(steps[i], WorldOf(ws[i]))
      BY <3>8 DEF Back
    <3>10. Reversed(steps[i], WorldOf(ws[i])) = WorldOf(ws[i - 1])
      BY <1>3, <3>6 DEF TakesTo
    <3>11. QED  BY <2>2, <3>4, <3>6, <3>7, <3>9, <3>10
  <2>5. QED  BY <2>3, <2>4
<1>5. N \in 0..N /\ N - N = 0  BY <1>1
<1>6. Undone(steps)[N] = WorldOf(ws[N - N])  BY <1>4, <1>5
<1>7. QED  BY <1>2, <1>5, <1>6

\* The entries of a ring one was pushed on.
LEMMA PushMembers ==
  ASSUME JournalRight, Len(journal) <= Depth, NEW entry, journal' = Push(entry)
  PROVE  /\ \A i \in DOMAIN journal' :
              journal'[i] = entry \/ \E j \in DOMAIN journal : journal'[i] = journal[j]
         /\ Len(journal) \in Nat /\ Len(journal') \in Nat /\ Len(journal) <= Len(journal')
<1> DEFINE S == Range(journal) \cup {entry}
<1>1. journal \in Seq(S) /\ entry \in S  BY DEF JournalRight
<1> HIDE DEF S
<1>2. Len(journal) \in Nat /\ Depth \in Nat \ {0}  BY <1>1, OpsAssumption DEF OpsAssumption
<1>3. CASE entry.steps = <<>>
  <2>1. journal' = journal  BY <1>3 DEF Push
  <2>2. QED  BY <1>2, <2>1
<1>4. CASE entry.steps # <<>> /\ Len(journal) < Depth
  <2>1. journal' = Append(journal, entry)  BY <1>4 DEF Push
  <2>2. Len(journal') = Len(journal) + 1 /\ DOMAIN journal' = 1..Len(journal) + 1
    BY <1>1, <2>1
  <2>3. \A i \in 1..Len(journal) : i \in DOMAIN journal /\ journal'[i] = journal[i]
    BY <1>1, <2>1
  <2>4. journal'[Len(journal) + 1] = entry  BY <1>1, <2>1
  <2>5. QED  BY <1>2, <2>2, <2>3, <2>4
<1>5. CASE entry.steps # <<>> /\ ~(Len(journal) < Depth)
  <2> DEFINE t == Tail(journal)
  <2>1. journal' = Append(t, entry)  BY <1>5 DEF Push
  <2>2. Len(journal) # 0  BY <1>2, <1>5
  <2>3. t \in Seq(S) /\ Len(t) = Len(journal) - 1 /\ Len(t) \in Nat
        /\ \A i \in 1..Len(t) : t[i] = journal[i + 1]
    BY <1>1, <2>2
  <2>4. \A i \in 1..Len(t) : i + 1 \in DOMAIN journal  BY <1>1, <2>3
  <2> HIDE DEF t
  <2>5. Len(journal') = Len(t) + 1 /\ DOMAIN journal' = 1..Len(t) + 1 /\ journal'[Len(t) + 1] = entry
    BY <1>1, <2>1, <2>3
  <2>6. \A i \in 1..Len(t) : journal'[i] = t[i]  BY <1>1, <2>1, <2>3
  <2>7. ASSUME NEW i \in DOMAIN journal'
        PROVE  journal'[i] = entry \/ \E j \in DOMAIN journal : journal'[i] = journal[j]
    <3>1. CASE i = Len(t) + 1  BY <2>5, <3>1
    <3>2. CASE i # Len(t) + 1
      <4>1. i \in 1..Len(t)  BY <2>3, <2>5, <3>2
      <4>2. journal'[i] = journal[i + 1] /\ i + 1 \in DOMAIN journal  BY <2>3, <2>4, <2>6, <4>1
      <4>3. QED  BY <4>2
    <3>3. QED  BY <3>1, <3>2
  <2>8. QED  BY <1>2, <2>3, <2>5, <2>7
<1>6. QED  BY <1>3, <1>4, <1>5

\* And of one that lost its newest.
LEMMA PopMembers ==
  ASSUME JournalRight, journal # <<>>, journal' = Front(journal)
  PROVE  \A i \in DOMAIN journal' : i \in DOMAIN journal /\ journal'[i] = journal[i]
<1> DEFINE S == Range(journal)
           n == Len(journal) - 1
<1>1. journal \in Seq(S)  BY DEF JournalRight
<1> HIDE DEF S
<1>2. Len(journal) \in Nat /\ Len(journal) # 0  BY <1>1
<1>3. Front(journal) = SubSeq(journal, 1, n)  BY DEF Front
<1>4. n \in 0..Len(journal) /\ \A i \in 1..n : i \in DOMAIN journal  BY <1>1, <1>2
<1> HIDE DEF n
<1>5. DOMAIN SubSeq(journal, 1, n) = 1..n /\ \A i \in 1..n : SubSeq(journal, 1, n)[i] = journal[i]
  BY <1>1, <1>2, <1>4
<1>6. QED  BY <1>3, <1>4, <1>5

-----------------------------------------------------------------------------
(* What undo relies on: every entry made without disturbance leads back,   *)
(* and so does the one being made.                                         *)

EntryGoesBack(e) == e.quiet => CanGoBack(e.steps, e.before, e.after)

EntriesGoBack == \A i \in DOMAIN journal : EntryGoesBack(journal[i])

\* A copy without the item it is in: that is not yet in its steps.
FilesSoFar == IF InItem THEN Erased(fs, op.target) ELSE fs

CopyGoesBack ==
  Undisturbed =>
    /\ CanGoBack(op.steps, op.start, <<FilesSoFar, trash>>)
    /\ \A q \in DOMAIN fs : fs[q].open => InItem /\ IsPrefix(op.target, q)

\* A batch for the trash: the items before n that went, and what that left.
Trashes == op # NoOp /\ op.kind = "trash" /\ op.quiet
Gone(n) == {i \in DOMAIN op.items : i < n /\ op.items[i] \notin DOMAIN fs}
LeftBy(gone) == <<Without(op.start[1], op.items, gone),
                  With(op.start[1], op.start[2], op.items, op.id, gone)>>

TrashGoesBack ==
  Trashes =>
    /\ op.start = <<op.start[1], op.start[2]>>
    /\ IsTree(op.start[1]) /\ Batch(op.start[1], op.items)
    /\ \A e \in op.start[2] : e.uri \in Nat /\ e.uri <= MaxItems * op.id
    /\ op.stage = "next" => op.start = <<fs, trash>> /\ op.at = 1 /\ op.steps = <<>>
    /\ op.stage = "check" =>
         /\ op.at <= Len(op.items) + 1
         /\ \A u \in op.listed : u \in Nat /\ u > MaxItems * op.id
         /\ <<fs, trash>> = LeftBy(Gone(Len(op.items) + 1))
         /\ CanGoBack(op.steps, op.start, LeftBy(Gone(op.at)))

\* The trash numbers its entries by the requests so far.
UrisAged == \A e \in trash : e.uri <= MaxItems * (serial + 1)
TrashFits == op # NoOp /\ op.kind = "trash" => Len(op.items) <= MaxItems

UInv == EntriesGoBack /\ CopyGoesBack /\ TrashGoesBack /\ UrisAged /\ TrashFits

LEMMA UriGrows ==
  ASSUME NEW m \in Nat, NEW n \in Nat, m <= n
  PROVE  /\ MaxItems * m \in Nat /\ MaxItems * n \in Nat /\ MaxItems * m <= MaxItems * n
         /\ MaxItems * (m + 1) = MaxItems * m + MaxItems
<1>1. PICK M \in Nat : M = MaxItems  BY OpsAssumption DEF OpsAssumption
<1>2. PICK d \in Nat : n = m + d  BY n - m \in Nat
<1>3. M * (m + d) = M * m + M * d /\ M * (m + 1) = M * m + M  OBVIOUS
<1>4. M * m \in Nat /\ M * d \in Nat  OBVIOUS
<1>5. QED  BY <1>1, <1>2, <1>3, <1>4

\* A later serial leaves the trash numbered below it.
LEMMA UrisLater ==
  ASSUME FInv, UrisAged, NEW n \in Nat, serial <= n
  PROVE  \A e \in trash : e.uri \in Nat /\ e.uri <= MaxItems * (n + 1)
<1> SUFFICES ASSUME NEW e \in trash PROVE e.uri \in Nat /\ e.uri <= MaxItems * (n + 1)  OBVIOUS
<1>1. serial \in Nat /\ e.uri \in Nat  BY DEF FInv, TrashRight, TrashIs
<1>2. e.uri <= MaxItems * (serial + 1)  BY DEF UrisAged
<1>3. /\ MaxItems * (serial + 1) \in Nat /\ MaxItems * (n + 1) \in Nat
      /\ MaxItems * (serial + 1) <= MaxItems * (n + 1)
  BY <1>1, UriGrows
<1>4. PICK a, b \in Nat : a = MaxItems * (serial + 1) /\ b = MaxItems * (n + 1)  BY <1>3
<1>5. e.uri <= a /\ a <= b  BY <1>2, <1>3, <1>4
<1>6. e.uri <= b  BY <1>1, <1>5
<1>7. QED  BY <1>1, <1>4, <1>6

LEMMA NothingUndone ==
  ASSUME ~Undisturbed', ~Trashes'
  PROVE  CopyGoesBack' /\ TrashGoesBack'
  BY DEF CopyGoesBack, TrashGoesBack

\* An operation another request disturbed leads nowhere.
LEMMA DisturbedUndo ==
  ASSUME OpRight, TrashFits, NEW contents, op' = Disturbed(contents)
  PROVE  CopyGoesBack' /\ TrashGoesBack' /\ TrashFits'
<1>1. CASE op = NoOp
  <2>1. op' = NoOp  BY <1>1 DEF Disturbed
  <2>2. QED  BY <2>1, NothingUndone DEF Undisturbed, Trashes, TrashFits
<1>2. CASE op # NoOp
  <2>1. PICK m : op' = [op EXCEPT !.quiet = FALSE, !.late = m]
    BY <1>2 DEF Disturbed
  <2>2. DOMAIN op = Fields  BY <1>2 DEF OpRight
  <2>3. op'.quiet = FALSE /\ op'.kind = op.kind /\ op'.items = op.items
    BY <2>1, <2>2 DEF Fields
  <2>4. ~op'.quiet  BY <2>3, Zenon
  <2>5. ~Undisturbed' /\ ~Trashes'  BY <2>4 DEF Undisturbed, Trashes
  <2>6. TrashFits'  BY <1>2, <2>3 DEF TrashFits
  <2>7. QED  BY <2>5, <2>6, NothingUndone
<1>3. QED  BY <1>1, <1>2

LEMMA EntriesPushed ==
  ASSUME FInv, JInv, EntriesGoBack, NEW entry, EntryGoesBack(entry), journal' = Push(entry)
  PROVE  EntriesGoBack'
<1>1. \A i \in DOMAIN journal' :
        journal'[i] = entry \/ \E j \in DOMAIN journal : journal'[i] = journal[j]
  BY PushMembers DEF FInv, JInv
<1>2. \A j \in DOMAIN journal : EntryGoesBack(journal[j])  BY DEF EntriesGoBack
<1>3. \A i \in DOMAIN journal' : EntryGoesBack(journal'[i])  BY <1>1, <1>2
<1>4. QED  BY <1>3 DEF EntriesGoBack, EntryGoesBack, CanGoBack, Chain, Irreversible, TakesTo

\* What an entry is made of.
LEMMA EntryBack ==
  ASSUME NEW id, NEW steps, NEW before, NEW after, NEW quiet,
         quiet => CanGoBack(steps, before, after)
  PROVE  EntryGoesBack(Entry(id, steps, before, after, quiet))
<1> DEFINE e == Entry(id, steps, before, after, quiet)
<1>1. e.steps = steps /\ e.before = before /\ e.after = after  BY DEF Entry
<1>2. e.quiet = quiet  BY DEF Entry
<1> HIDE DEF e
<1>3. e.quiet => quiet  BY <1>2, Zenon
<1>4. EntryGoesBack(e)  BY <1>1, <1>3 DEF EntryGoesBack
<1>5. QED  BY <1>4 DEF e

LEMMA UrisLaterAged ==
  ASSUME FInv, UrisAged, trash' = trash, serial' \in Nat, serial <= serial'
  PROVE  UrisAged'
<1>1. PICK n \in Nat : n = serial'  OBVIOUS
<1>2. \A e \in trash : e.uri <= MaxItems * (n + 1)  BY <1>1, UrisLater
<1>3. QED  BY <1>1, <1>2 DEF UrisAged

-----------------------------------------------------------------------------
(* The requests of the loop can be taken back.                             *)

LEMMA LoopRequestUndo ==
  ASSUME FInv, JInv, UInv, NEW files, NEW steps, NEW contents, LoopRequest(files, steps, contents),
         CanGoBack(steps, <<fs, trash>>, <<files, trash>>)
  PROVE  UInv'
<1> DEFINE before == <<fs, trash>>
           after == <<files, trash>>
<1>1. /\ trash' = trash /\ serial' = serial + 1 /\ op' = Disturbed(contents)
      /\ journal' = Push(Entry(serial', steps, before, after, TRUE))
  BY DEF LoopRequest
<1>2. CanGoBack(steps, before, after)  OBVIOUS
<1> HIDE DEF before, after
<1>3. PICK yes : yes = TRUE  OBVIOUS
<1>4. PICK entry : entry = Entry(serial', steps, before, after, yes)  OBVIOUS
<1>5. EntryGoesBack(entry)  BY <1>2, <1>4, EntryBack
<1>6. journal' = Push(entry)  BY <1>1, <1>3, <1>4
<1>7. EntriesGoBack'  BY <1>5, <1>6, EntriesPushed DEF UInv
<1>8. CopyGoesBack' /\ TrashGoesBack' /\ TrashFits'  BY <1>1, DisturbedUndo DEF FInv, UInv
<1>9. serial \in Nat  BY DEF FInv
<1>10. UrisAged'  BY <1>1, <1>9, UrisLaterAged DEF UInv
<1>11. QED  BY <1>7, <1>8, <1>10 DEF UInv

\* One step that takes back leads back.
LEMMA OneGoesBack ==
  ASSUME NEW f, NEW t, NEW g, NEW s \in Steps, TakesTo(s, <<g, t>>, <<f, t>>)
  PROVE  CanGoBack(<<s>>, <<f, t>>, <<g, t>>)
<1> DEFINE no == <<>>
           before == <<f, t>>
           after == <<g, t>>
<1>1. no \in Seq(Steps)  BY EmptySteps
<1>2. CanGoBack(no, before, before)  BY NothingGoesBack
<1>3. Append(no, s) = <<s>>  OBVIOUS
<1>4. TakesTo(s, after, before)  OBVIOUS
<1> HIDE DEF no, before, after
<1>5. CanGoBack(Append(no, s), before, after)  BY <1>1, <1>2, <1>4, OneMoreGoesBack
<1>6. CanGoBack(<<s>>, before, after)  BY <1>3, <1>5, Zenon
<1>7. QED  BY <1>6 DEF before, after

LEMMA RenameUndo ==
  ASSUME FInv, JInv, UInv, \A v \in Volumes : CannotRename[v] = {}, NEW p, NEW name, Rename(p, name)
  PROVE  UInv'
<1> DEFINE to == Append(Parent(p), name)
           files == RenamePath(fs, p, to)
           steps == <<Moved(p, to)>>
<1>1. Movable(fs, p, to) /\ LoopRequest(files, steps, Whole(Subtree(fs, p)))
  BY DEF Rename
<1> HIDE DEF to
<1>2. p \in Paths /\ to \in Paths  BY <1>1, TreeNode DEF FInv, Movable, Free
<1>3. Moved(p, to) \in Steps  BY <1>2, StepsAre
<1>4. TakesTo(Moved(p, to), <<files, trash>>, <<fs, trash>>)  BY <1>1, MovedTakes DEF FInv
<1> HIDE DEF files
<1>5. CanGoBack(steps, <<fs, trash>>, <<files, trash>>)  BY <1>3, <1>4, OneGoesBack
<1> HIDE DEF steps
<1>6. QED  BY <1>1, <1>5, LoopRequestUndo

LEMMA MakeDirUndo ==
  ASSUME FInv, JInv, UInv, NEW p, MakeDir(p)
  PROVE  UInv'
<1> DEFINE d == Dir(serial + 1)
           files == Put(fs, p, d)
           steps == <<MadeDir(p)>>
<1>1. Free(fs, p) /\ LoopRequest(files, steps, {})  BY DEF MakeDir
<1>2. d.kind = "dir"  BY DEF Dir, Node
<1> HIDE DEF d
<1>3. PICK g : g = files  OBVIOUS
<1>4. p \in DOMAIN g /\ p \in Paths /\ g[p] = d /\ Children(g, p) = {} /\ Erased(g, p) = fs
  BY <1>1, <1>3, PutBack DEF FInv
<1>5. IsDir(g, p)  BY <1>2, <1>4 DEF IsDir
<1>6. MadeDir(p) \in Steps  BY <1>4, StepsAre
<1>7. TakesTo(MadeDir(p), <<g, trash>>, <<fs, trash>>)  BY <1>4, <1>5, MadeDirTakes
<1>8. CanGoBack(steps, <<fs, trash>>, <<g, trash>>)  BY <1>6, <1>7, OneGoesBack
<1>9. LoopRequest(g, steps, {})  BY <1>1, <1>3
<1> HIDE DEF steps
<1>10. QED  BY <1>8, <1>9, LoopRequestUndo

LEMMA NewFileUndo ==
  ASSUME FInv, JInv, UInv, NEW dir, NEW name, NewFile(dir, name)
  PROVE  UInv'
<1> DEFINE p == Append(dir, name)
           data == Data(p, serial + 1, FALSE)
           n == File(data, FALSE, serial + 1)
           steps == <<Created(p)>>
<1>1. Free(fs, p) /\ LoopRequest(Put(fs, p, n), steps, {data})  BY DEF NewFile
<1> HIDE DEF p, n, data
<1>2. PICK g : g = Put(fs, p, n)  OBVIOUS
<1>3. p \in DOMAIN g /\ p \in Paths /\ Erased(g, p) = fs
  BY <1>1, <1>2, PutBack DEF FInv
<1>4. Created(p) \in Steps  BY <1>3, StepsAre
<1>5. TakesTo(Created(p), <<g, trash>>, <<fs, trash>>)  BY <1>3, CreatedTakes
<1>6. CanGoBack(steps, <<fs, trash>>, <<g, trash>>)  BY <1>4, <1>5, OneGoesBack
<1>7. LoopRequest(g, steps, {data})  BY <1>1, <1>2
<1> HIDE DEF steps
<1>8. QED  BY <1>6, <1>7, LoopRequestUndo

\* No rename fails partway where every mount can rename.
LEMMA RenameFailsNot ==
  ASSUME Faults \subseteq {"copy"}, NEW p, NEW name
  PROVE  ~RenameFails(p, name)
  BY DEF RenameFails, Fault

-----------------------------------------------------------------------------
(* Undo, and the operation's beginning and end.                            *)

\* A step reversed adds nothing to the trash.
LEMMA ReversedTrash ==
  ASSUME NEW w, WorldRight(w), NEW s \in Steps
  PROVE  Reversed(s, w).trash \subseteq w.trash
<1>1. \A f, t : World(f, t, TRUE).trash = t  BY DEF World
<1>2. [w EXCEPT !.ok = FALSE].trash = w.trash
  <2>1. DOMAIN w = {"fs", "trash", "ok"}  BY DEF WorldRight
  <2>2. PICK o : o = FALSE  OBVIOUS
  <2>3. [w EXCEPT !.ok = o].trash = w.trash  BY <2>1
  <2>4. QED  BY <2>2, <2>3
<1>3. CASE s.step = "moved"
  <2>1. CASE Movable(w.fs, s.to, s.from)
    <3>1. Reversed(s, w) = World(RenamePath(w.fs, s.to, s.from), w.trash, TRUE)
      BY <1>3, <2>1 DEF Reversed
    <3>2. QED  BY <1>1, <3>1
  <2>2. CASE ~Movable(w.fs, s.to, s.from)
    <3>1. Reversed(s, w) = [w EXCEPT !.ok = FALSE]  BY <1>3, <2>2 DEF Reversed
    <3>2. QED  BY <1>2, <3>1
  <2>3. QED  BY <2>1, <2>2
<1>4. CASE s.step = "created"
  <2>1. CASE Exists(w.fs, s.path)
    <3>1. Reversed(s, w) = World(Erased(w.fs, s.path), w.trash, TRUE)
      BY <1>4, <2>1 DEF Reversed
    <3>2. QED  BY <1>1, <3>1
  <2>2. CASE ~Exists(w.fs, s.path)
    <3>1. Reversed(s, w) = [w EXCEPT !.ok = FALSE]  BY <1>4, <2>2 DEF Reversed
    <3>2. QED  BY <1>2, <3>1
  <2>3. QED  BY <2>1, <2>2
<1>5. CASE s.step = "madedir"
  <2>1. CASE IsDir(w.fs, s.path) /\ Children(w.fs, s.path) = {}
    <3>1. Reversed(s, w) = World(Erased(w.fs, s.path), w.trash, TRUE)
      BY <1>5, <2>1 DEF Reversed
    <3>2. QED  BY <1>1, <3>1
  <2>2. CASE ~(IsDir(w.fs, s.path) /\ Children(w.fs, s.path) = {})
    <3>1. Reversed(s, w) = [w EXCEPT !.ok = FALSE]  BY <1>5, <2>2 DEF Reversed
    <3>2. QED  BY <1>2, <3>1
  <2>3. QED  BY <2>1, <2>2
<1>6. CASE s.step = "trashed"
  <2> DEFINE held == {e \in w.trash : e.uri = s.uri /\ Free(w.fs, e.original)}
  <2>1. CASE held = {}
    <3>1. Reversed(s, w) = [w EXCEPT !.ok = FALSE]  BY <1>6, <2>1 DEF Reversed
    <3>2. QED  BY <1>2, <3>1
  <2>2. CASE held # {}
    <3> DEFINE e == CHOOSE x \in held : TRUE
    <3>1. Reversed(s, w) = World(Joined(w.fs, e.tree), w.trash \ {e}, TRUE)
      BY <1>6, <2>2 DEF Reversed
    <3> HIDE DEF e
    <3>2. Reversed(s, w).trash = w.trash \ {e}  BY <1>1, <3>1
    <3>3. QED  BY <3>2
  <2>3. QED  BY <2>1, <2>2
<1>7. QED  BY <1>3, <1>4, <1>5, <1>6 DEF Steps

LEMMA UndoneTrash ==
  ASSUME FInv, NEW steps \in Seq(Steps), NEW n \in 0..Len(steps)
  PROVE  Undone(steps)[n].trash \subseteq trash
<1> DEFINE T == {k \in 0..Len(steps) : ~(Undone(steps)[k].trash \subseteq trash)}
<1> SUFFICES ASSUME T # {} PROVE FALSE  OBVIOUS
<1>1. Len(steps) \in Nat  OBVIOUS
<1>2. PICK m \in T : \A k \in T : m <= k
  <2>1. T \in SUBSET Nat  BY <1>1
  <2> HIDE DEF T
  <2>2. QED  BY <2>1, Least
<1>3. m \in 0..Len(steps) /\ ~(Undone(steps)[m].trash \subseteq trash)  OBVIOUS
<1>4. CASE m = 0
  <2>1. Start.trash = trash  BY DEF Start, World
  <2>2. Undone(steps)[0] = Start  BY <1>1, UndoneIs
  <2>3. QED  BY <1>3, <1>4, <2>1, <2>2
<1>5. CASE m # 0
  <2>1. m \in 1..Len(steps) /\ m - 1 \in 0..Len(steps) /\ m - 1 \notin T
    BY <1>1, <1>2, <1>3, <1>5
  <2>2. Undone(steps)[m - 1].trash \subseteq trash /\ WorldRight(Undone(steps)[m - 1])
    BY <2>1, UndoneKeeps
  <2>3. Len(steps) + 1 - m \in DOMAIN steps  BY <1>1, <2>1
  <2>4. steps[Len(steps) + 1 - m] \in Steps  BY <2>3
  <2>5. PICK u, s : u = Undone(steps)[m - 1] /\ s = steps[Len(steps) + 1 - m]  OBVIOUS
  <2>6. Undone(steps)[m] = Back(u, s)  BY <1>1, <2>1, <2>5, UndoneIs
  <2>7. WorldRight(u) /\ s \in Steps /\ u.trash \subseteq trash  BY <2>2, <2>4, <2>5
  <2>8. Reversed(s, u).trash \subseteq trash  BY <2>7, ReversedTrash
  <2>9. Back(u, s).trash \subseteq trash  BY <2>7, <2>8 DEF Back
  <2>10. QED  BY <1>3, <2>6, <2>9
<1>6. QED  BY <1>4, <1>5

LEMMA UndoUndo ==
  ASSUME FInv, JInv, UInv, Undo
  PROVE  UInv'
<1> DEFINE steps == Last(journal).steps
           w == Undone(steps)[Len(steps)]
<1>1. journal # <<>> /\ PopTo(w)  BY DEF Undo
<1>2. steps \in Seq(Steps)  BY <1>1, LastEntry
<1> HIDE DEF steps
<1>3. Len(steps) \in 0..Len(steps)  BY <1>2
<1>4. w.trash \subseteq trash  BY <1>2, <1>3, UndoneTrash
<1> HIDE DEF w
<1>5. /\ trash' = w.trash /\ serial' = serial /\ journal' = Front(journal)
      /\ op' = Disturbed(Whole(fs) \cup Whole(w.fs))
  BY <1>1 DEF PopTo
<1>6. CopyGoesBack' /\ TrashGoesBack' /\ TrashFits'  BY <1>5, DisturbedUndo DEF FInv, UInv
<1>7. UrisAged'  BY <1>4, <1>5 DEF UInv, UrisAged
<1>8. \A i \in DOMAIN journal' : i \in DOMAIN journal /\ journal'[i] = journal[i]
  BY <1>1, <1>5, PopMembers DEF FInv
<1>9. \A i \in DOMAIN journal' : EntryGoesBack(journal'[i])
  BY <1>8 DEF UInv, EntriesGoBack
<1>10. EntriesGoBack'
  BY <1>9 DEF EntriesGoBack, EntryGoesBack, CanGoBack, Chain, Irreversible, TakesTo
<1>11. QED  BY <1>6, <1>7, <1>10 DEF UInv

LEMMA UndoFailsNot ==
  ASSUME Faults \subseteq {"copy"}
  PROVE  ~UndoFails
  BY DEF UndoFails, Fault

\* A step that leaves the files and what undo relies on alone.
SameUndo ==
  /\ SameAccount
  /\ op # NoOp => op'.start = op.start /\ op'.listed = op.listed

LEMMA SameUndoKeeps ==
  ASSUME UInv, SameUndo
  PROVE  UInv'
<1>1. fs' = fs /\ trash' = trash /\ journal' = journal /\ serial' = serial
  BY DEF SameUndo, SameAccount
<1>2. EntriesGoBack'
  BY <1>1 DEF UInv, EntriesGoBack, EntryGoesBack, CanGoBack, Chain, Irreversible, TakesTo
<1>3. UrisAged'  BY <1>1 DEF UInv, UrisAged
<1>4. CASE op = NoOp
  <2>1. op' = NoOp  BY <1>4 DEF SameUndo, SameAccount
  <2>2. ~Undisturbed' /\ ~Trashes' /\ TrashFits'
    BY <2>1 DEF Undisturbed, Trashes, TrashFits
  <2>3. QED  BY <1>2, <1>3, <2>2, NothingUndone DEF UInv
<1>5. CASE op # NoOp
  <2>1. /\ op' # NoOp /\ op'.kind = op.kind /\ op'.id = op.id
        /\ op'.items = op.items /\ op'.at = op.at
        /\ op'.stage = op.stage /\ op'.target = op.target
        /\ op'.steps = op.steps /\ op'.quiet = op.quiet
        /\ op'.start = op.start /\ op'.listed = op.listed
    BY <1>5 DEF SameUndo, SameAccount
  <2>2. (InItem' <=> InItem)  BY <1>5, <2>1 DEF InItem
  <2>3. Undisturbed' => Undisturbed  BY <1>5, <2>1 DEF Undisturbed
  <2>4. Trashes' => Trashes  BY <1>5, <2>1 DEF Trashes
  <2>5. FilesSoFar' = FilesSoFar  BY <1>1, <2>1, <2>2 DEF FilesSoFar
  <2>6. CopyGoesBack'  BY <1>1, <2>1, <2>2, <2>3, <2>5 DEF UInv, CopyGoesBack
  <2>7. TrashFits'  BY <1>5, <2>1 DEF UInv, TrashFits
  <2>8. TrashGoesBack'
    BY <1>1, <2>1, <2>4 DEF UInv, TrashGoesBack, Gone, LeftBy
  <2>9. QED  BY <1>2, <1>3, <2>6, <2>7, <2>8 DEF UInv
<1>6. QED  BY <1>4, <1>5

LEMMA CancelRequestUndo ==
  ASSUME FInv, UInv, NEW id, CancelTransfer(id)
  PROVE  UInv'
<1>1. /\ op # NoOp /\ op' = [op EXCEPT !.named = TRUE]
      /\ fs' = fs /\ trash' = trash /\ journal' = journal /\ serial' = serial
  BY DEF CancelTransfer
<1>2. DOMAIN op = Fields  BY <1>1 DEF FInv, OpRight
<1>3. PICK yes : op' = [op EXCEPT !.named = yes]  BY <1>1
<1>4. /\ DOMAIN op' = Fields /\ op'.kind = op.kind /\ op'.id = op.id
      /\ op'.items = op.items /\ op'.dest = op.dest /\ op'.at = op.at
      /\ op'.stage = op.stage /\ op'.target = op.target /\ op'.tree = op.tree
      /\ op'.steps = op.steps /\ op'.quiet = op.quiet
      /\ op'.start = op.start /\ op'.listed = op.listed
  BY <1>2, <1>3 DEF Fields
<1>5. op' # NoOp  BY <1>4, OpIs
<1>6. SameUndo  BY <1>1, <1>4, <1>5 DEF SameUndo, SameAccount
<1>7. QED  BY <1>6, SameUndoKeeps

LEMMA RestUndo ==
  ASSUME UInv, Quit \/ DrainDone \/ DrainDeadline \/ UNCHANGED vars
  PROVE  UInv'
<1>1. SameUndo  BY DEF Quit, DrainDone, DrainDeadline, vars, SameUndo, SameAccount
<1>2. QED  BY <1>1, SameUndoKeeps

\* All of the batch that went, when all of it has been looked up.
LEMMA ReportUndo ==
  ASSUME FInv, JInv, UInv, Report
  PROVE  UInv'
<1>1. /\ op' = NoOp /\ fs' = fs /\ trash' = trash /\ serial' = serial /\ Ended
      /\ journal' = Push(Entry(op.id, op.steps, op.start, <<fs, trash>>, op.quiet))
  BY DEF Report
<1>2. op # NoOp /\ ~InItem  BY <1>1, EndedIs
<1>3. op.quiet => CanGoBack(op.steps, op.start, <<fs, trash>>)
  <2> SUFFICES ASSUME op.quiet PROVE CanGoBack(op.steps, op.start, <<fs, trash>>)  OBVIOUS
  <2>1. CASE op.kind = "trash"
    <3>1. Trashes /\ op.stage = "check" /\ op.at > Len(op.items)
      BY <1>1, <1>2, <2>1 DEF Trashes, Ended
    <3>2. /\ op.at <= Len(op.items) + 1
          /\ <<fs, trash>> = LeftBy(Gone(Len(op.items) + 1))
          /\ CanGoBack(op.steps, op.start, LeftBy(Gone(op.at)))
      BY <3>1 DEF UInv, TrashGoesBack
    <3>3. op.items \in Seq(Paths) /\ op.at \in Nat  BY <1>2 DEF FInv, OpRight
    <3>4. op.at = Len(op.items) + 1  BY <3>1, <3>2, <3>3
    <3>5. QED  BY <3>2, <3>4
  <2>2. CASE op.kind # "trash"
    <3>1. Undisturbed  BY <1>2, <2>2 DEF Undisturbed
    <3>2. FilesSoFar = fs  BY <1>2 DEF FilesSoFar
    <3>3. QED  BY <3>1, <3>2 DEF UInv, CopyGoesBack
  <2>3. QED  BY <2>1, <2>2
<1>4. EntriesGoBack'
  <2> DEFINE now == <<fs, trash>>
  <2>1. op.quiet => CanGoBack(op.steps, op.start, now)  BY <1>3
  <2>2. PICK entry : entry = Entry(op.id, op.steps, op.start, now, op.quiet)  OBVIOUS
  <2>3. journal' = Push(entry)  BY <1>1, <2>2
  <2> HIDE DEF now
  <2>4. EntryGoesBack(entry)  BY <2>1, <2>2, EntryBack
  <2>5. QED  BY <2>3, <2>4, EntriesPushed DEF UInv
<1>5. ~Undisturbed' /\ ~Trashes' /\ TrashFits'
  BY <1>1 DEF Undisturbed, Trashes, TrashFits
<1>6. UrisAged'  BY <1>1 DEF UInv, UrisAged
<1>7. QED  BY <1>4, <1>5, <1>6, NothingUndone DEF UInv

\* An operation that takes the slot has nothing to take back.
LEMMA TakenUndo ==
  ASSUME FInv, JInv, UInv, NEW kind \in {"copy", "move", "duplicate", "trash"},
         NEW items \in Seq(Paths), NEW dest, Claim(Operation(kind, items, dest)),
         kind = "trash" => Batch(fs, items) /\ Len(items) <= MaxItems
  PROVE  UInv'
<1> DEFINE new == Operation(kind, items, dest)
           start == <<fs, trash>>
<1>1. /\ op = NoOp /\ op' = new /\ fs' = fs /\ trash' = trash /\ journal' = journal
      /\ serial' = serial + 1
  BY DEF Claim
<1>2. serial \in Nat /\ serial' \in Nat /\ serial <= serial'  BY <1>1 DEF FInv
<1>3. /\ new.kind = kind /\ new.stage = "next" /\ new.id = serial + 1
      /\ new.items = items /\ new.steps = <<>> /\ new.at = 1 /\ new.start = start
  <2> DEFINE by == serial + 1
             no == <<>>
             none == {}
  <2>1. new = [kind |-> kind, id |-> by, items |-> items, dest |-> dest,
               at |-> 1, stage |-> "next", target |-> no, tree |-> FALSE,
               todo |-> none, listed |-> none,
               steps |-> no, cancelled |-> FALSE,
               start |-> start, quiet |-> TRUE, late |-> none, named |-> FALSE]
    BY DEF Operation
  <2> HIDE DEF new, by, start, no, none
  <2>2. /\ new.kind = kind /\ new.stage = "next" /\ new.id = by
        /\ new.items = items /\ new.steps = no /\ new.at = 1 /\ new.start = start
    BY <2>1
  <2>3. QED  BY <2>2 DEF by, no
<1>4. start = <<start[1], start[2]>> /\ start[1] = fs /\ start[2] = trash  OBVIOUS
<1>5. CanGoBack(<<>>, start, start)  BY NothingGoesBack
<1>6. start = <<fs', trash'>>  BY <1>1
<1> HIDE DEF new, start
<1>7. ~InItem'  BY <1>1, <1>3 DEF InItem
<1>8. FilesSoFar' = fs'  BY <1>7 DEF FilesSoFar
<1>9. \A q \in DOMAIN fs' : ~fs'[q].open  BY <1>1, NoneOpen DEF FInv
<1>10. CanGoBack(op'.steps, op'.start, <<FilesSoFar', trash'>>)
  BY <1>1, <1>3, <1>5, <1>6, <1>8
<1>11. CopyGoesBack'  BY <1>9, <1>10 DEF CopyGoesBack
<1>12. TrashGoesBack'
  <2>1. CASE kind = "trash"
    <3>1. \A e \in trash : e.uri \in Nat /\ e.uri <= MaxItems * (serial + 1)
      BY <1>2, UrisLater DEF UInv
    <3>2. IsTree(fs)  BY DEF FInv
    <3>3. QED  BY <1>1, <1>3, <1>4, <1>6, <2>1, <3>1, <3>2 DEF TrashGoesBack
  <2>2. CASE kind # "trash"
    <3>1. ~Trashes'  BY <1>1, <1>3, <2>2 DEF Trashes
    <3>2. QED  BY <3>1 DEF TrashGoesBack
  <2>3. QED  BY <2>1, <2>2
<1>13. TrashFits'  BY <1>1, <1>3 DEF TrashFits
<1>14. UrisAged'  BY <1>1, <1>2, UrisLaterAged DEF UInv
<1>15. EntriesGoBack'
  BY <1>1 DEF UInv, EntriesGoBack, EntryGoesBack, CanGoBack, Chain, Irreversible, TakesTo
<1>16. QED  BY <1>11, <1>12, <1>13, <1>14, <1>15 DEF UInv

\* A selection is a batch.
LEMMA SelectedBatch ==
  ASSUME FInv, NEW s \in Selections
  PROVE  s \in Seq(Paths) /\ Batch(fs, s) /\ Len(s) <= MaxItems
<1>1. s \in Seq(Paths)  BY SelectionIs
<1>2. PICK n \in 1..MaxItems : s \in [1..n -> DOMAIN fs]  BY DEF Selections
<1>3. n \in Nat /\ n <= MaxItems  BY <1>2, OpsAssumption DEF OpsAssumption
<1>4. DOMAIN s = 1..n /\ DOMAIN s = 1..Len(s) /\ Len(s) \in Nat  BY <1>1, <1>2
<1>5. Len(s) = n  BY <1>3, <1>4
<1>6. \A i \in DOMAIN s : s[i] \in DOMAIN fs  BY <1>2
<1>7. \A i, j \in DOMAIN s : Parent(s[i]) = Parent(s[j]) /\ (s[i] = s[j] => i = j)
  BY DEF Selections
<1>8. QED  BY <1>1, <1>3, <1>5, <1>6, <1>7 DEF Batch

-----------------------------------------------------------------------------
(* The thread's items can be taken back.                                   *)

LEMMA ItemEndsStart ==
  ASSUME FInv, Copying, NEW steps, ItemEnds(steps)
  PROVE  op'.start = op.start
<1>1. op # NoOp /\ DOMAIN op = Fields  BY CopyingIs
<1> DEFINE new == NextItem(steps)
<1>2. DOMAIN new = Fields /\ new.start = op.start  BY <1>1 DEF NextItem, Fields
<1> HIDE DEF new
<1>3. op' = new \/ op' = [new EXCEPT !.cancelled = TRUE]  BY DEF ItemEnds, new
<1>4. PICK yes : op' = new \/ op' = [new EXCEPT !.cancelled = yes]  BY <1>3
<1>5. QED  BY <1>2, <1>4 DEF Fields

\* A step of a copy leaves the entries and the trash alone.
LEMMA CopyStepUndo ==
  ASSUME FInv, UInv, Copying, op' # NoOp, op'.kind = op.kind, ThreadOnly, CopyGoesBack'
  PROVE  UInv'
<1>1. trash' = trash /\ serial' = serial /\ journal' = journal  BY DEF ThreadOnly
<1>2. op.kind # "trash"  BY CopyingIs
<1>3. TrashFits' /\ ~Trashes'  BY <1>2 DEF TrashFits, Trashes
<1>4. TrashGoesBack'  BY <1>3 DEF TrashGoesBack
<1>5. UrisAged'  BY <1>1 DEF UInv, UrisAged
<1>6. EntriesGoBack'
  BY <1>1 DEF UInv, EntriesGoBack, EntryGoesBack, CanGoBack, Chain, Irreversible, TakesTo
<1>7. QED  BY <1>3, <1>4, <1>5, <1>6 DEF UInv

LEMMA EndsUndo ==
  ASSUME FInv, UInv, Copying, NEW steps, ItemEnds(steps), ThreadOnly,
         \A q \in DOMAIN fs' : ~fs'[q].open,
         Undisturbed => CanGoBack(op.steps \o steps, op.start, <<fs', trash>>)
  PROVE  UInv'
<1>1. trash' = trash  BY DEF ThreadOnly
<1>2. /\ op' # NoOp /\ op'.kind = op.kind /\ op'.steps = op.steps \o steps
      /\ ~InItem' /\ (Undisturbed' <=> Undisturbed) /\ op'.start = op.start
  BY ItemEndsFields, ItemEndsStart
<1>3. FilesSoFar' = fs'  BY <1>2 DEF FilesSoFar
<1>4. Undisturbed' => CanGoBack(op'.steps, op'.start, <<FilesSoFar', trash'>>)
  BY <1>1, <1>2, <1>3
<1>5. CopyGoesBack'  BY <1>4 DEF CopyGoesBack
<1>6. QED  BY <1>2, <1>5, CopyStepUndo

\* An item that ends with the files as they were before it, and no step.
LEMMA NothingEndsUndo ==
  ASSUME FInv, UInv, Copying, ItemEnds(<<>>), ThreadOnly,
         \A q \in DOMAIN fs' : ~fs'[q].open, Undisturbed => fs' = FilesSoFar
  PROVE  UInv'
<1>1. op.steps \in Seq(Steps)  BY CopyingIs DEF FInv, OpRight
<1> DEFINE no == <<>>
<1>2. op.steps \o no = op.steps /\ ItemEnds(no)  BY <1>1, NothingAppended
<1> HIDE DEF no
<1>3. Undisturbed => CanGoBack(op.steps, op.start, <<fs', trash>>)
  BY DEF UInv, CopyGoesBack
<1>4. Undisturbed => CanGoBack(op.steps \o no, op.start, <<fs', trash>>)  BY <1>2, <1>3
<1>5. QED  BY <1>2, <1>4, EndsUndo

\* One that ends with a step that leads back there, or with one that cannot.
LEMMA OneEndsUndo ==
  ASSUME FInv, UInv, Copying, NEW s \in Steps, ItemEnds(<<s>>), ThreadOnly,
         \A q \in DOMAIN fs' : ~fs'[q].open,
         Undisturbed =>
           CrossesVolumes(s) \/ TakesTo(s, <<fs', trash>>, <<FilesSoFar, trash>>)
  PROVE  UInv'
<1>1. op.steps \in Seq(Steps)  BY CopyingIs DEF FInv, OpRight
<1> DEFINE one == <<s>>
           now == <<fs', trash>>
           middle == <<FilesSoFar, trash>>
<1>2. op.steps \o one = Append(op.steps, s) /\ ItemEnds(one)  BY <1>1, OneAppended
<1> HIDE DEF one
<1>3. ASSUME Undisturbed PROVE CanGoBack(op.steps \o one, op.start, now)
  <2>1. CanGoBack(op.steps, op.start, middle)  BY <1>3 DEF UInv, CopyGoesBack
  <2>2. CrossesVolumes(s) \/ TakesTo(s, now, middle)  BY <1>3
  <2> HIDE DEF now, middle
  <2>3. CASE CrossesVolumes(s)
    <3>1. PICK u : u = Append(op.steps, s)  OBVIOUS
    <3>2. Irreversible(u)  BY <1>1, <2>3, <3>1, NoWayBack
    <3>3. op.start = <<op.start[1], op.start[2]>>  BY <2>1 DEF CanGoBack
    <3>4. CanGoBack(u, op.start, now)  BY <3>2, <3>3 DEF CanGoBack
    <3>5. QED  BY <1>2, <3>1, <3>4
  <2>4. CASE TakesTo(s, now, middle)
    <3>1. CanGoBack(Append(op.steps, s), op.start, now)
      BY <1>1, <2>1, <2>4, OneMoreGoesBack
    <3>2. QED  BY <1>2, <3>1
  <2>5. QED  BY <2>2, <2>3, <2>4
<1>4. QED  BY <1>2, <1>3, EndsUndo

LEMMA SkipItemUndo ==
  ASSUME FInv, UInv, SkipItem
  PROVE  UInv'
<1>1. /\ Copying /\ op.stage = "next" /\ ItemEnds(<<>>) /\ fs' = fs /\ ThreadOnly
  BY DEF SkipItem, ItemEnds
<1>2. FilesSoFar = fs  BY <1>1 DEF FilesSoFar, InItem
<1>3. \A q \in DOMAIN fs' : ~fs'[q].open  BY <1>1, CopyingIs
<1>4. QED  BY <1>1, <1>2, <1>3, NothingEndsUndo

LEMMA RefuseItemUndo ==
  ASSUME FInv, UInv, RefuseItem
  PROVE  UInv'
<1>1. /\ Copying /\ op.stage = "next" /\ ItemEnds(<<>>) /\ fs' = fs /\ ThreadOnly
  BY DEF RefuseItem, ItemEnds
<1>2. FilesSoFar = fs  BY <1>1 DEF FilesSoFar, InItem
<1>3. \A q \in DOMAIN fs' : ~fs'[q].open  BY <1>1, CopyingIs
<1>4. QED  BY <1>1, <1>2, <1>3, NothingEndsUndo

LEMMA RenameItemUndo ==
  ASSUME FInv, UInv, \A v \in Volumes : CannotRename[v] = {}, RenameItem
  PROVE  UInv'
<1>1. PICK to : /\ Movable(fs, Source, to) /\ ~RefusesRename(fs, Source)
                /\ fs' = Renamed(fs, Source, to) /\ op' = NextItem(<<Moved(Source, to)>>)
  BY DEF RenameItem
<1>2. Copying /\ op.stage = "next" /\ ThreadOnly  BY DEF RenameItem
<1>3. Source \in Paths /\ to \in Paths  BY <1>1, TreeNode DEF Movable, Free, FInv
<1>4. RenameShape(fs, fs', Source, to, DOMAIN fs \ Below(fs, Source))
  BY <1>1, RenamedIs DEF FInv
<1>5. OpensFrom(fs, fs')  BY <1>1, <1>4, ShapeKeeps DEF FInv
<1>6. \A q \in DOMAIN fs' : ~fs'[q].open  BY <1>2, <1>5, CopyingIs DEF OpensFrom
<1> DEFINE s == Moved(Source, to)
<1>7. s \in Steps  BY <1>3, StepsAre
<1>8. ItemEnds(<<s>>)  BY <1>1 DEF ItemEnds
<1>9. fs' = RenamePath(fs, Source, to)  BY <1>1 DEF RenamePath
<1>10. FilesSoFar = fs  BY <1>2 DEF FilesSoFar, InItem
<1>11. TakesTo(s, <<RenamePath(fs, Source, to), trash>>, <<fs, trash>>)
  BY <1>1, MovedTakes DEF FInv
<1>12. TakesTo(s, <<fs', trash>>, <<FilesSoFar, trash>>)  BY <1>9, <1>10, <1>11
<1> HIDE DEF s
<1>13. QED  BY <1>2, <1>6, <1>7, <1>8, <1>12, OneEndsUndo

LEMMA FailNodeNot ==
  ASSUME Faults \subseteq {"copy"}
  PROVE  ~FailNode /\ ~FailMove
  BY DEF FailNode, FailMove, Fault

\* The item of a copy nobody disturbed: all that is open is below its target.
LEMMA ItemUndo ==
  ASSUME UInv, InItem, Undisturbed
  PROVE  /\ FilesSoFar = Erased(fs, op.target)
         /\ \A q \in DOMAIN fs : fs[q].open => IsPrefix(op.target, q)
  BY DEF UInv, CopyGoesBack, FilesSoFar

\* One erased with its partial leaves what was there before it.
LEMMA GoneEndsUndo ==
  ASSUME FInv, JInv, UInv, Copying, InItem, ItemEnds(<<>>), ThreadOnly,
         NEW f, f = fs \/ f = Erased(fs, op.target), fs' = CutShort(f),
         Undisturbed => f = Erased(fs, op.target)
  PROVE  UInv'
<1>1. IsTree(f) /\ op.target \in Paths  BY TargetGone, ItemInIs
<1>2. \A q \in DOMAIN fs' : ~fs'[q].open
  <2>1. DOMAIN fs' = DOMAIN f /\ \A q \in DOMAIN f : fs'[q] = Shut(f[q])  BY <1>1, CutShortIs
  <2>2. \A q \in DOMAIN f : ~Shut(f[q]).open  BY <1>1, TreeNode, ShutKeeps
  <2>3. QED  BY <2>1, <2>2
<1>3. ASSUME Undisturbed PROVE fs' = FilesSoFar
  <2>1. f = Erased(fs, op.target) /\ FilesSoFar = f  BY <1>3, ItemUndo
  <2>2. /\ DOMAIN f = {q \in DOMAIN fs : ~IsPrefix(op.target, q)}
        /\ \A q \in DOMAIN f : f[q] = fs[q]
    BY <1>1, <2>1, ErasedIs DEF FInv
  <2>3. \A q \in DOMAIN f : ~f[q].open  BY <1>3, <2>2, ItemUndo
  <2>4. CutShort(f) = f  BY <1>1, <2>3, NothingClosed
  <2>5. QED  BY <2>1, <2>4
<1>4. QED  BY <1>2, <1>3, NothingEndsUndo

\* One recorded as a copy is erased to what was there before it.
LEMMA CreatedEndsUndo ==
  ASSUME FInv, JInv, UInv, Copying, InItem, ItemEnds(<<Created(op.target)>>), ThreadOnly,
         \A q \in DOMAIN fs' : ~fs'[q].open,
         Undisturbed =>
           op.target \in DOMAIN fs' /\ Erased(fs', op.target) = Erased(fs, op.target)
  PROVE  UInv'
<1>1. op.target \in Paths  BY ItemInIs
<1> DEFINE s == Created(op.target)
<1>2. s \in Steps /\ ItemEnds(<<s>>)  BY <1>1, StepsAre
<1>3. ASSUME Undisturbed PROVE TakesTo(s, <<fs', trash>>, <<FilesSoFar, trash>>)
  <2>1. FilesSoFar = Erased(fs', op.target) /\ op.target \in DOMAIN fs'  BY <1>3, ItemUndo
  <2>2. QED  BY <2>1, CreatedTakes
<1> HIDE DEF s
<1>4. QED  BY <1>2, <1>3, OneEndsUndo

LEMMA FailCopyUndo ==
  ASSUME FInv, JInv, UInv, FailCopy
  PROVE  UInv'
<1>1. Copying /\ ThreadOnly /\ op.stage \in {"writing", "entries"}  BY DEF FailCopy
<1>2. InItem  BY <1>1 DEF InItem, Copying
<1>3. CASE Cancelled /\ op.tree
  <2> DEFINE f == TreeErased(fs, op.target)
  <2>1. fs' = CutShort(f) /\ ItemEnds(<<>>)  BY <1>3 DEF FailCopy, ItemEnds
  <2>2. f = fs \/ f = Erased(fs, op.target)  BY DEF TreeErased
  <2>3. Undisturbed => f = Erased(fs, op.target)  BY <1>2, <1>3, ItemInIs DEF TreeErased
  <2> HIDE DEF f
  <2>4. QED  BY <1>1, <1>2, <2>1, <2>2, <2>3, GoneEndsUndo
<1>4. CASE ~(Cancelled /\ op.tree)
  <2>1. fs' = CutShort(fs) /\ ItemEnds(<<Created(op.target)>>)
    BY <1>4 DEF FailCopy, ItemEnds
  <2>2. IsTree(fs)  BY DEF FInv
  <2>3. DOMAIN fs' = DOMAIN fs /\ \A q \in DOMAIN fs : fs'[q] = Shut(fs[q])
    BY <2>1, <2>2, CutShortIs
  <2>4. \A q \in DOMAIN fs' : ~fs'[q].open  BY <2>2, <2>3, TreeNode, ShutKeeps
  <2>5. ASSUME Undisturbed
        PROVE  op.target \in DOMAIN fs' /\ Erased(fs', op.target) = Erased(fs, op.target)
    <3>1. op.target \in DOMAIN fs'  BY <1>2, <2>3, <2>5, ItemInIs
    <3>2. \A q \in DOMAIN fs : fs[q].open => IsPrefix(op.target, q)  BY <1>2, <2>5, ItemUndo
    <3>3. QED  BY <2>1, <2>2, <3>1, <3>2, ClosedBelow
  <2>6. QED  BY <1>1, <1>2, <2>1, <2>4, <2>5, CreatedEndsUndo
<1>5. QED  BY <1>3, <1>4

LEMMA CancelCopyUndo ==
  ASSUME FInv, JInv, UInv, CancelCopy
  PROVE  UInv'
<1> DEFINE f == IF op.tree THEN TreeErased(fs, op.target) ELSE FileErased(fs, op.target)
<1>1. /\ Copying /\ ThreadOnly /\ op.stage \in {"writing", "entries"}
      /\ fs' = CutShort(f) /\ ItemEnds(<<>>)
  BY DEF CancelCopy, ItemEnds
<1>2. InItem  BY <1>1 DEF InItem, Copying
<1>3. f = fs \/ f = Erased(fs, op.target)  BY DEF TreeErased, FileErased
<1>4. Undisturbed => f = Erased(fs, op.target)
  <2>1. Undisturbed => (op.tree => IsDir(fs, op.target)) /\ (~op.tree => ~IsDir(fs, op.target))
    BY <1>2, ItemInIs
  <2>2. QED  BY <2>1, Zenon DEF TreeErased, FileErased
<1> HIDE DEF f
<1>5. QED  BY <1>1, <1>2, <1>3, <1>4, GoneEndsUndo

LEMMA EndCopyUndo ==
  ASSUME FInv, JInv, UInv, EndCopy
  PROVE  UInv'
<1>1. ItemCopied /\ ItemEnds(<<Created(op.target)>>) /\ fs' = fs /\ ThreadOnly
  BY DEF EndCopy, ItemEnds
<1>2. Copying /\ InItem /\ \A q \in DOMAIN fs : ~fs[q].open  BY <1>1, CopiedItem
<1>3. Undisturbed => op.target \in DOMAIN fs  BY <1>2, ItemInIs
<1>4. QED  BY <1>1, <1>2, <1>3, CreatedEndsUndo

\* A move between volumes cannot be taken back.
LEMMA EndMoveUndo ==
  ASSUME FInv, JInv, UInv, EndMove
  PROVE  UInv'
<1>1. ItemCopied /\ op.kind = "move" /\ ThreadOnly  BY DEF EndMove
<1>2. /\ Copying /\ InItem /\ Source \in Paths /\ op.target \in Paths
      /\ \A q \in DOMAIN fs : ~fs[q].open
  BY <1>1, CopiedItem
<1>3. CASE Exists(fs, Source)
  <2> DEFINE s == Moved(Source, op.target)
  <2>1. fs' = Erased(fs, Source) /\ ItemEnds(<<s>>)  BY <1>3 DEF EndMove, ItemEnds
  <2>2. s \in Steps  BY <1>2, StepsAre
  <2>3. \A q \in DOMAIN fs' : ~fs'[q].open  BY <1>2, <2>1 DEF Erased, Restrict
  <2>4. Volume(Source) # Volume(op.target)  BY <1>1, <1>2 DEF FInv, ItemRight
  <2>5. CrossesVolumes(s)  BY <2>4 DEF CrossesVolumes, Moved
  <2> HIDE DEF s
  <2>6. QED  BY <1>1, <1>2, <2>1, <2>2, <2>3, <2>5, OneEndsUndo
<1>4. CASE ~Exists(fs, Source)
  <2>1. fs' = fs /\ ItemEnds(<<>>)  BY <1>4 DEF EndMove, ItemEnds
  <2>2. ~Undisturbed  BY <1>2, <1>4, ItemInIs DEF Exists
  <2>3. QED  BY <1>1, <1>2, <2>1, <2>2, NothingEndsUndo
<1>5. QED  BY <1>3, <1>4

\* A step inside an item changes nothing outside its target.
LEMMA WithinUndo ==
  ASSUME FInv, UInv, Copying, op' # NoOp, op'.kind = op.kind, op'.quiet = op.quiet,
         op'.steps = op.steps, op'.start = op.start, ThreadOnly, InItem',
         Undisturbed =>
           /\ Erased(fs', op'.target) = FilesSoFar
           /\ \A q \in DOMAIN fs' : fs'[q].open => IsPrefix(op'.target, q)
  PROVE  UInv'
<1>1. trash' = trash  BY DEF ThreadOnly
<1>2. op # NoOp  BY CopyingIs
<1>3. Undisturbed' <=> Undisturbed  BY <1>2 DEF Undisturbed
<1>4. FilesSoFar' = Erased(fs', op'.target)  BY DEF FilesSoFar
<1>5. ASSUME Undisturbed
      PROVE  /\ CanGoBack(op'.steps, op'.start, <<FilesSoFar', trash'>>)
             /\ \A q \in DOMAIN fs' : fs'[q].open => IsPrefix(op'.target, q)
  <2>1. FilesSoFar' = FilesSoFar  BY <1>4, <1>5
  <2>2. CanGoBack(op.steps, op.start, <<FilesSoFar, trash>>)  BY <1>5 DEF UInv, CopyGoesBack
  <2>3. QED  BY <1>1, <1>5, <2>1, <2>2
<1>6. CopyGoesBack'  BY <1>3, <1>5 DEF CopyGoesBack
<1>7. QED  BY <1>6, CopyStepUndo

LEMMA OpenItemUndo ==
  ASSUME FInv, UInv, OpenItem
  PROVE  UInv'
<1> DEFINE n == Copied(fs[Source], op.id)
<1>1. PICK to \in Targets :
        /\ Free(fs, to) /\ fs' = Put(fs, to, n)
        /\ op' = [op EXCEPT
             !.target = to,
             !.tree = fs[Source].kind = "dir",
             !.todo = IF fs[Source].kind = "dir" THEN Children(fs', Source) ELSE {},
             !.stage = IF fs[Source].kind = "file" THEN "writing" ELSE "entries"]
  BY DEF OpenItem
<1>2. Copying /\ op.stage = "next" /\ ThreadOnly  BY DEF OpenItem
<1>3. op # NoOp /\ DOMAIN op = Fields /\ \A q \in DOMAIN fs : ~fs[q].open
  BY <1>2, CopyingIs
<1> HIDE DEF n
<1> DEFINE tree == fs[Source].kind = "dir"
           todo == IF fs[Source].kind = "dir" THEN Children(fs', Source) ELSE {}
           stage == IF fs[Source].kind = "file" THEN "writing" ELSE "entries"
<1>4. /\ op' = [op EXCEPT !.target = to, !.tree = tree, !.todo = todo, !.stage = stage]
      /\ stage \in {"writing", "entries"}
  BY <1>1
<1> HIDE DEF tree, todo, stage
<1>5. /\ DOMAIN op' = Fields /\ op'.kind = op.kind /\ op'.steps = op.steps
      /\ op'.quiet = op.quiet /\ op'.start = op.start /\ op'.target = to /\ op'.stage = stage
  BY <1>3, <1>4 DEF Fields
<1>6. op' # NoOp  BY <1>5, OpIs
<1>7. InItem' /\ ~InItem  BY <1>2, <1>4, <1>5, <1>6 DEF InItem
<1>8. FilesSoFar = fs  BY <1>7 DEF FilesSoFar
<1>9. Erased(fs', to) = fs  BY <1>1, PutBack DEF FInv
<1>10. to \in Paths /\ to \notin DOMAIN fs  BY <1>1 DEF Free
<1>11. DOMAIN fs' = DOMAIN fs \cup {to} /\ \A q \in DOMAIN fs : fs'[q] = fs[q]
  BY <1>1, <1>10 DEF Put, Joined
<1>12. \A q \in DOMAIN fs' : fs'[q].open => IsPrefix(to, q)
  BY <1>3, <1>10, <1>11, SelfPrefix
<1>13. QED  BY <1>2, <1>5, <1>6, <1>7, <1>8, <1>9, <1>12, WithinUndo

LEMMA OpenChildUndo ==
  ASSUME FInv, UInv, NEW c, OpenChild(c)
  PROVE  UInv'
<1> DEFINE to == ChildTarget(c)
           n == Copied(fs[c], op.id)
           todo == op.todo \ {c}
           stage == IF fs[c].kind = "file" THEN "writing" ELSE "entries"
<1>1. /\ Copying /\ op.stage = "entries" /\ Free(fs, to)
      /\ fs' = Put(fs, to, n) /\ op' = [op EXCEPT !.todo = todo, !.stage = stage]
      /\ ThreadOnly /\ stage \in {"writing", "entries"}
  BY DEF OpenChild, Readable
<1>2. InItem  BY <1>1 DEF InItem, Copying
<1>3. op # NoOp /\ DOMAIN op = Fields /\ op.target \in Paths /\ \A q \in DOMAIN fs : ~fs[q].open
  BY <1>1, <1>2, CopyingIs DEF FInv, ItemRight
<1>4. to \in Paths /\ to \notin DOMAIN fs /\ fs' = Put(fs, to, n)  BY <1>1 DEF Free
<1>5. IsPrefix(op.target, to)
  <2>1. Parent(to) = op.target  BY <1>3, <1>4, AppendIs DEF ChildTarget
  <2> HIDE DEF to
  <2>2. QED  BY <1>3, <1>4, <2>1, PrefixIs
<1> HIDE DEF to, n, todo, stage
<1>6. DOMAIN fs' = DOMAIN fs \cup {to} /\ \A q \in DOMAIN fs : fs'[q] = fs[q]
  BY <1>4 DEF Put, Joined
<1>7. /\ DOMAIN op' = Fields /\ op'.kind = op.kind /\ op'.steps = op.steps
      /\ op'.quiet = op.quiet /\ op'.start = op.start /\ op'.target = op.target
      /\ op'.stage = stage
  BY <1>1, <1>3 DEF Fields
<1>8. op' # NoOp  BY <1>7, OpIs
<1>9. InItem'  BY <1>1, <1>7, <1>8 DEF InItem
<1>10. Erased(fs', op.target) = Erased(fs, op.target)  BY <1>4, <1>5, PutBelow
<1>11. Undisturbed => Erased(fs', op'.target) = FilesSoFar
  BY <1>2, <1>7, <1>10, ItemUndo
<1>12. \A q \in DOMAIN fs' : fs'[q].open => IsPrefix(op'.target, q)
  BY <1>3, <1>5, <1>6, <1>7
<1>13. QED  BY <1>1, <1>7, <1>8, <1>9, <1>11, <1>12, WithinUndo

LEMMA FinishFileUndo ==
  ASSUME FInv, UInv, FinishFile
  PROVE  UInv'
<1>1. /\ Copying /\ op.stage = "writing" /\ fs' = Finished(fs)
      /\ op' = [op EXCEPT !.stage = "entries"] /\ ThreadOnly
  BY DEF FinishFile
<1>2. InItem  BY <1>1 DEF InItem, Copying
<1>3. op # NoOp /\ DOMAIN op = Fields  BY <1>1, CopyingIs
<1>4. DOMAIN fs' = DOMAIN fs /\ \A q \in DOMAIN fs : ~fs'[q].open
  BY <1>1, FinishedIs DEF FInv
<1>5. /\ DOMAIN op' = Fields /\ op'.kind = op.kind /\ op'.steps = op.steps
      /\ op'.quiet = op.quiet /\ op'.start = op.start /\ op'.target = op.target
      /\ op'.stage = "entries"
  BY <1>1, <1>3 DEF Fields
<1>6. op' # NoOp  BY <1>5, OpIs
<1>7. InItem'  BY <1>5, <1>6 DEF InItem
<1>8. ASSUME Undisturbed PROVE Erased(fs', op'.target) = FilesSoFar
  <2>1. \A q \in DOMAIN fs : fs[q].open => IsPrefix(op.target, q)  BY <1>2, <1>8, ItemUndo
  <2>2. Erased(fs', op.target) = Erased(fs, op.target)  BY <1>1, <2>1, ClosedBelow DEF FInv
  <2>3. QED  BY <1>2, <1>5, <1>8, <2>2, ItemUndo
<1>9. \A q \in DOMAIN fs' : fs'[q].open => IsPrefix(op'.target, q)  BY <1>4
<1>10. QED  BY <1>1, <1>5, <1>6, <1>7, <1>8, <1>9, WithinUndo

-----------------------------------------------------------------------------
(* What goes to the trash can be taken back.                               *)

LEMMA WithoutNone ==
  ASSUME NEW f, IsTree(f), NEW t, NEW items, NEW id
  PROVE  Without(f, items, {}) = f /\ With(f, t, items, id, {}) = t
<1>1. {q \in DOMAIN f : \A i \in {} : ~IsPrefix(items[i], q)} = DOMAIN f  OBVIOUS
<1>2. f = [q \in DOMAIN f |-> f[q]]  BY DEF IsTree
<1>3. Without(f, items, {}) = f  BY <1>1, <1>2 DEF Without, Restrict
<1>4. {Trashing(f, items, id, i) : i \in {}} = {}  OBVIOUS
<1>5. QED  BY <1>3, <1>4 DEF With

\* What one gio call takes of a batch.
LEMMA WentTogether ==
  ASSUME NEW gone, fs' = Restrict(fs, DOMAIN fs \ UNION {DOMAIN e.tree : e \in Went(gone)}),
         trash' = trash \cup Went(gone)
  PROVE  fs' = Without(fs, op.items, gone) /\ trash' = With(fs, trash, op.items, op.id, gone)
<1> DEFINE W == Went(gone)
           G == UNION {DOMAIN e.tree : e \in W}
           D == {q \in DOMAIN fs : \A i \in gone : ~IsPrefix(op.items[i], q)}
<1>1. /\ \A e \in W : \E i \in gone : e.tree = Subtree(fs, op.items[i])
      /\ \A i \in gone : \E e \in W : e.tree = Subtree(fs, op.items[i])
  BY WentIs
<1>2. W = {Trashing(fs, op.items, op.id, i) : i \in gone}
  BY DEF Went, WentEntry, Trashing
<1>3. trash' = With(fs, trash, op.items, op.id, gone)  BY <1>2 DEF With
<1> HIDE DEF W
<1>4. \A p, q : q \in DOMAIN Subtree(fs, p) <=> q \in DOMAIN fs /\ IsPrefix(p, q)
  BY DEF Subtree, Restrict, Below
<1>5. \A q \in DOMAIN fs : q \in G <=> \E i \in gone : IsPrefix(op.items[i], q)
  <2>1. ASSUME NEW q \in DOMAIN fs, q \in G PROVE \E i \in gone : IsPrefix(op.items[i], q)
    <3>1. PICK e \in W : q \in DOMAIN e.tree  BY <2>1
    <3>2. PICK i \in gone : e.tree = Subtree(fs, op.items[i])  BY <1>1
    <3>3. QED  BY <1>4, <3>1, <3>2
  <2>2. ASSUME NEW q \in DOMAIN fs, NEW i \in gone, IsPrefix(op.items[i], q) PROVE q \in G
    <3>1. PICK e \in W : e.tree = Subtree(fs, op.items[i])  BY <1>1
    <3>2. q \in DOMAIN e.tree  BY <1>4, <2>2, <3>1
    <3>3. QED  BY <3>2
  <2>3. QED  BY <2>1, <2>2
<1>6. fs' = Restrict(fs, DOMAIN fs \ G)  BY DEF W
<1> HIDE DEF G
<1>7. DOMAIN fs \ G = D  BY <1>5
<1>8. fs' = Without(fs, op.items, gone)  BY <1>6, <1>7 DEF Without
<1>9. QED  BY <1>3, <1>8

\* The items of a batch that are still there are those that did not go.
LEMMA StillThere ==
  ASSUME NEW f, IsTree(f), NEW items, Batch(f, items), NEW gone \in SUBSET DOMAIN items,
         NEW i \in DOMAIN items
  PROVE  items[i] \in DOMAIN Without(f, items, gone) <=> i \notin gone
<1>1. DOMAIN Without(f, items, gone) = {q \in DOMAIN f : \A j \in gone : ~IsPrefix(items[j], q)}
  BY DEF Without, Restrict
<1>2. items[i] \in DOMAIN f  BY DEF Batch
<1>3. \A j \in gone : j \in DOMAIN items  OBVIOUS
<1>4. \A j \in gone : IsPrefix(items[j], items[i]) <=> j = i  BY <1>3, BatchApart
<1>5. QED  BY <1>1, <1>2, <1>4

LEMMA GioTrashUndo ==
  ASSUME FInv, JInv, UInv, op # NoOp, GioTrash
  PROVE  UInv'
<1>1. PICK gone \in SUBSET {i \in DOMAIN op.items : Exists(fs, op.items[i])} :
        /\ fs' = Restrict(fs, DOMAIN fs \ UNION {DOMAIN e.tree : e \in Went(gone)})
        /\ trash' = trash \cup Went(gone)
        /\ op' = [op EXCEPT !.stage = "check", !.listed = Uris(Went(gone))]
  BY DEF GioTrash, Went, WentEntry
<1>2. op.kind = "trash" /\ op.stage = "next" /\ journal' = journal /\ serial' = serial
  BY DEF GioTrash
<1>3. /\ DOMAIN op = Fields /\ op.id \in Nat /\ op.items \in Seq(Paths)
  BY <1>2, TrashOpIs
<1>4. gone \in SUBSET DOMAIN op.items  BY <1>1
<1>5. \A i \in DOMAIN op.items : i \in Nat /\ i > 0 /\ i <= Len(op.items)  BY <1>3
<1>6. fs' = Without(fs, op.items, gone) /\ trash' = With(fs, trash, op.items, op.id, gone)
  BY <1>1, WentTogether
<1> DEFINE W == Went(gone)
           u == Uris(W)
<1>7. \A e \in W : \E i \in gone : e.uri = MaxItems * op.id + i  BY WentIs
<1>8. trash' = trash \cup W /\ op' = [op EXCEPT !.stage = "check", !.listed = u]  BY <1>1
<1>9. \A x \in u : \E i \in gone : x = MaxItems * op.id + i  BY <1>7 DEF Uris
<1> HIDE DEF W, u
<1>10. /\ DOMAIN op' = Fields /\ op'.kind = "trash" /\ op'.stage = "check" /\ op'.id = op.id
       /\ op'.items = op.items /\ op'.at = op.at /\ op'.steps = op.steps
       /\ op'.start = op.start /\ op'.quiet = op.quiet /\ op'.listed = u
  BY <1>2, <1>3, <1>8 DEF Fields
<1>11. op' # NoOp  BY <1>10, OpIs
<1>12. Trashes' => Trashes  BY <1>2, <1>10 DEF Trashes
<1>13. CopyGoesBack'
  <2>1. ~Undisturbed'  BY <1>10 DEF Undisturbed
  <2>2. QED  BY <2>1 DEF CopyGoesBack
<1>14. TrashFits'  BY <1>2, <1>10 DEF UInv, TrashFits
<1>15. EntriesGoBack'
  BY <1>2 DEF UInv, EntriesGoBack, EntryGoesBack, CanGoBack, Chain, Irreversible, TakesTo
<1>16. UrisAged'
  <2>1. op.id <= serial /\ serial \in Nat  BY DEF JInv, OpAge, FInv
  <2>2. Len(op.items) <= MaxItems /\ MaxItems \in Nat /\ Len(op.items) \in Nat
    BY <1>2, <1>3, OpsAssumption DEF UInv, TrashFits, OpsAssumption
  <2>3. PICK a \in Nat : a = MaxItems * op.id  BY <1>3, <2>1, UriGrows
  <2>4. PICK b \in Nat : b = MaxItems * (serial + 1)  BY <2>1, UriGrows
  <2>5. MaxItems * (op.id + 1) = a + MaxItems  BY <1>3, <2>1, <2>3, UriGrows
  <2>6. MaxItems * (op.id + 1) <= b
    <3>1. PICK m, n : m = op.id + 1 /\ n = serial + 1  OBVIOUS
    <3>2. m \in Nat /\ n \in Nat /\ m <= n  BY <1>3, <2>1, <3>1
    <3>3. MaxItems * m <= MaxItems * n  BY <3>2, UriGrows
    <3>4. QED  BY <2>4, <3>1, <3>3
  <2>7. a + MaxItems <= b  BY <2>5, <2>6
  <2>8. ASSUME NEW e \in W PROVE e.uri <= b
    <3>1. PICK i \in gone : e.uri = MaxItems * op.id + i  BY <1>7
    <3>2. i \in Nat /\ i <= Len(op.items) /\ e.uri = a + i  BY <1>4, <1>5, <2>3, <3>1
    <3>3. QED  BY <2>2, <2>7, <3>2
  <2>9. \A e \in trash : e.uri <= b  BY <2>4 DEF UInv, UrisAged
  <2>10. \A e \in trash' : e.uri <= b  BY <1>8, <2>8, <2>9
  <2>11. QED  BY <1>2, <2>4, <2>10 DEF UrisAged
<1>17. TrashGoesBack'
  <2> SUFFICES ASSUME Trashes PROVE TrashGoesBack'
    BY <1>12 DEF TrashGoesBack
  <2>1. /\ op.start = <<op.start[1], op.start[2]>>
        /\ IsTree(op.start[1]) /\ Batch(op.start[1], op.items)
        /\ \A e \in op.start[2] : e.uri \in Nat /\ e.uri <= MaxItems * op.id
        /\ op.start = <<fs, trash>> /\ op.at = 1 /\ op.steps = <<>>
    BY <1>2 DEF UInv, TrashGoesBack
  <2>2. op.start[1] = fs /\ op.start[2] = trash  BY <2>1
  <2>3. IsTree(fs) /\ Batch(fs, op.items)  BY <2>1, <2>2
  <2>4. op'.at <= Len(op'.items) + 1
    <3>1. Len(op.items) \in Nat  BY <1>3
    <3>2. QED  BY <1>10, <2>1, <3>1
  <2>5. \A x \in op'.listed : x \in Nat /\ x > MaxItems * op'.id
    <3>1. ASSUME NEW x \in u PROVE x \in Nat /\ x > MaxItems * op.id
      <4>1. PICK i \in gone : x = MaxItems * op.id + i  BY <1>9
      <4>2. i \in Nat /\ i > 0  BY <1>4, <1>5
      <4>3. MaxItems * op.id + i \in Nat /\ MaxItems * op.id + i > MaxItems * op.id
        BY <1>3, <4>2, UriIs
      <4>4. QED  BY <4>1, <4>3
    <3>2. QED  BY <1>10, <3>1
  <2>6. Gone(Len(op.items) + 1)' = gone
    <3>1. \A i \in DOMAIN op.items : op.items[i] \in DOMAIN fs' <=> i \notin gone
      BY <1>4, <1>6, <2>3, StillThere
    <3>2. \A i \in DOMAIN op.items : i < Len(op.items) + 1
      <4>1. Len(op.items) \in Nat  BY <1>3
      <4>2. QED  BY <1>5, <4>1
    <3>3. Gone(Len(op.items) + 1)' =
            {i \in DOMAIN op.items : i < Len(op.items) + 1 /\ op.items[i] \notin DOMAIN fs'}
      BY <1>10 DEF Gone
    <3>4. QED  BY <1>4, <3>1, <3>2, <3>3
  <2>7. <<fs', trash'>> = LeftBy(Gone(Len(op.items) + 1))'
    BY <1>6, <1>10, <2>2, <2>6 DEF LeftBy
  <2>8. Gone(op.at)' = {}
    <3>1. \A i \in DOMAIN op.items : ~(i < 1)  BY <1>5
    <3>2. QED  BY <1>10, <2>1, <3>1 DEF Gone
  <2>9. LeftBy(Gone(op.at))' = <<fs, trash>>
    <3>1. Without(fs, op.items, {}) = fs /\ With(fs, trash, op.items, op.id, {}) = trash
      BY <2>3, WithoutNone
    <3>2. QED  BY <1>10, <2>2, <2>8, <3>1 DEF LeftBy
  <2>10. CanGoBack(op'.steps, op'.start, LeftBy(Gone(op.at))')
    <3>1. CanGoBack(<<>>, <<fs, trash>>, <<fs, trash>>)  BY NothingGoesBack
    <3>2. QED  BY <1>10, <2>1, <2>9, <3>1
  <2>11. op'.stage # "next"  BY <1>10
  <2>12. QED
    BY <1>10, <2>1, <2>4, <2>5, <2>7, <2>10, <2>11 DEF TrashGoesBack
<1>18. QED  BY <1>13, <1>14, <1>15, <1>16, <1>17 DEF UInv

\* A path that is gone leads back under its new uri.
LEMMA CheckTrashedUndo ==
  ASSUME FInv, UInv, op # NoOp, CheckTrashed
  PROVE  UInv'
<1> DEFINE found == {e.uri : e \in {x \in trash : x.uri \in op.listed /\ x.original = Source}}
           uri == IF found = {} THEN NoUri ELSE CHOOSE u \in found : TRUE
           steps == IF Exists(fs, Source) THEN op.steps ELSE Append(op.steps, Trashed(uri))
<1>1. /\ op.kind = "trash" /\ op.stage = "check" /\ ThreadOnly /\ fs' = fs
      /\ op.at <= Len(op.items) /\ op' = [op EXCEPT !.at = @ + 1, !.steps = steps]
  BY DEF CheckTrashed
<1>2. /\ DOMAIN op = Fields /\ op.id \in Nat /\ op.items \in Seq(Paths)
      /\ op.at \in Nat \ {0} /\ op.steps \in Seq(Steps)
  BY <1>1, TrashOpIs
<1>3. trash' = trash /\ journal' = journal /\ serial' = serial  BY <1>1 DEF ThreadOnly
<1>4. found # {} => uri \in found
  <2> HIDE DEF found
  <2>1. QED  OBVIOUS
<1>5. found = {} => uri = NoUri  OBVIOUS
<1>6. uri \in Nat
  <2>1. \A x \in found : x \in Nat  BY DEF FInv, TrashRight, TrashIs
  <2>2. NoUri \in Nat  BY DEF NoUri
  <2> HIDE DEF found, uri
  <2>3. QED  BY <1>4, <1>5, <2>1, <2>2
<1>7. \A x \in found : \E e \in trash : e.uri = x /\ x \in op.listed /\ e.original = Source
  OBVIOUS
<1> HIDE DEF found, uri
<1>8. /\ Exists(fs, Source) => steps = op.steps
      /\ ~Exists(fs, Source) => steps = Append(op.steps, Trashed(uri))
  OBVIOUS
<1> HIDE DEF steps
<1>9. /\ DOMAIN op' = Fields /\ op'.kind = "trash" /\ op'.stage = "check" /\ op'.id = op.id
      /\ op'.items = op.items /\ op'.at = op.at + 1 /\ op'.steps = steps
      /\ op'.start = op.start /\ op'.quiet = op.quiet /\ op'.listed = op.listed
  BY <1>1, <1>2 DEF Fields
<1>10. op' # NoOp  BY <1>9, OpIs
<1>11. Trashes' => Trashes  BY <1>1, <1>9 DEF Trashes
<1>12. CopyGoesBack'
  <2>1. ~Undisturbed'  BY <1>9 DEF Undisturbed
  <2>2. QED  BY <2>1 DEF CopyGoesBack
<1>13. TrashFits'  BY <1>1, <1>9 DEF UInv, TrashFits
<1>14. UrisAged'  BY <1>3 DEF UInv, UrisAged
<1>15. EntriesGoBack'
  BY <1>3 DEF UInv, EntriesGoBack, EntryGoesBack, CanGoBack, Chain, Irreversible, TakesTo
<1>16. ASSUME Trashes PROVE TrashGoesBack'
  <2> DEFINE f == op.start[1]
             t == op.start[2]
             n == op.at
             all == Gone(Len(op.items) + 1)
  <2>1. /\ op.start = <<f, t>> /\ IsTree(f) /\ Batch(f, op.items)
        /\ \A e \in t : e.uri \in Nat /\ e.uri <= MaxItems * op.id
        /\ \A x \in op.listed : x \in Nat /\ x > MaxItems * op.id
        /\ <<fs, trash>> = LeftBy(all)
        /\ CanGoBack(op.steps, op.start, LeftBy(Gone(n)))
    BY <1>1, <1>16 DEF UInv, TrashGoesBack
  <2>2. n \in DOMAIN op.items /\ n \in Nat /\ Len(op.items) \in Nat /\ DOMAIN op.items \subseteq Nat
    BY <1>1, <1>2
  <2>3. op.items[n] = Source /\ Source \in Paths  BY <1>2, <2>2 DEF Source
  <2>4. Exists(fs, Source) <=> op.items[n] \in DOMAIN fs  BY <2>3, PathIs DEF Exists
  <2>5. \A x \in op.listed : x \in Nat /\ x > MaxItems * op.id  BY <2>1, Zenon
  <2>6. CanGoBack(steps, op.start, LeftBy(Gone(n + 1)))
    <3>1. CASE Exists(fs, Source)
      <4>1. \A i \in DOMAIN op.items :
              i < n + 1 /\ op.items[i] \notin DOMAIN fs <=> i < n /\ op.items[i] \notin DOMAIN fs
        <5> SUFFICES ASSUME NEW i \in DOMAIN op.items
                     PROVE  i < n + 1 /\ op.items[i] \notin DOMAIN fs
                              <=> i < n /\ op.items[i] \notin DOMAIN fs
          OBVIOUS
        <5>1. i \in Nat  BY <2>2
        <5>2. op.items[n] \in DOMAIN fs  BY <2>4, <3>1
        <5> HIDE DEF n
        <5>3. QED  BY <2>2, <5>1, <5>2
      <4>2. Gone(n + 1) = Gone(n)  BY <4>1 DEF Gone
      <4>3. QED  BY <1>8, <2>1, <3>1, <4>2
    <3>2. CASE ~Exists(fs, Source)
      <4>1. op.items[n] \notin DOMAIN fs /\ steps = Append(op.steps, Trashed(uri))
        BY <1>8, <2>4, <3>2
      <4>2. Trashed(uri) \in Steps  BY <1>6, StepsAre
      <4>3. Gone(n + 1) = Gone(n) \cup {n}
        <5>1. \A i \in DOMAIN op.items : i < n + 1 <=> i < n \/ i = n
          <6> HIDE DEF n
          <6>1. QED  BY <2>2
        <5>2. QED  BY <2>2, <4>1, <5>1 DEF Gone
      <4>4. CASE found = {}
        <5>1. Trashed(uri) = Trashed(NoUri)  BY <1>5, <4>4
        <5>2. PICK s : s = Trashed(uri)  OBVIOUS
        <5>3. PICK more : more = Append(op.steps, s)  OBVIOUS
        <5>4. Irreversible(more)  BY <1>2, <4>2, <5>1, <5>2, <5>3, NoWayBack
        <5>5. op.start = <<op.start[1], op.start[2]>>  BY <2>1
        <5>6. CanGoBack(more, op.start, LeftBy(Gone(n + 1)))  BY <5>4, <5>5 DEF CanGoBack
        <5>7. QED  BY <4>1, <5>2, <5>3, <5>6
      <4>5. CASE found # {}
        <5>1. PICK e \in trash : e.uri = uri /\ uri \in op.listed /\ e.original = Source
          BY <1>4, <1>7, <4>5
        <5>2. uri \in Nat /\ uri > MaxItems * op.id  BY <2>5, <5>1, Zenon
        <5>3. e \notin t
          <6>1. PICK b \in Nat : b = MaxItems * op.id  BY <1>2, UriIs
          <6>2. ASSUME e \in t PROVE FALSE
            <7>1. e.uri <= b  BY <2>1, <6>1, <6>2
            <7>2. QED  BY <5>1, <5>2, <6>1, <7>1
          <6>3. QED  BY <6>2
        <5>4. trash = With(f, t, op.items, op.id, all)
          <6> DEFINE a == Without(f, op.items, all)
                     b == With(f, t, op.items, op.id, all)
          <6>1. <<fs, trash>> = <<a, b>>  BY <2>1 DEF LeftBy
          <6> HIDE DEF a, b
          <6>2. trash = b  BY <6>1
          <6>3. QED  BY <6>2 DEF b
        <5>5. PICK i \in all : e = Trashing(f, op.items, op.id, i)
          BY <5>3, <5>4 DEF With
        <5>6. e.uri = MaxItems * op.id + i /\ e.original = op.items[i]  BY <5>5 DEF Trashing
        <5>7. i \in DOMAIN op.items  BY <5>5 DEF Gone
        <5>8. i = n  BY <2>1, <2>2, <2>3, <5>1, <5>6, <5>7 DEF Batch
        <5>9. uri = MaxItems * op.id + n  BY <5>1, <5>6, <5>8
        <5>10. Gone(n) \in SUBSET DOMAIN op.items /\ n \notin Gone(n)
          <6>1. ~(n < n)  BY <2>2
          <6>2. QED  BY <6>1 DEF Gone
        <5>11. PICK gone : gone = Gone(n)  OBVIOUS
        <5>12. TakesTo(Trashed(MaxItems * op.id + n),
                 <<Without(f, op.items, gone \cup {n}), With(f, t, op.items, op.id, gone \cup {n})>>,
                 <<Without(f, op.items, gone), With(f, t, op.items, op.id, gone)>>)
          BY <1>2, <2>1, <2>2, <5>10, <5>11, TrashedTakes
        <5>13. LeftBy(gone) = <<Without(f, op.items, gone), With(f, t, op.items, op.id, gone)>>
          BY DEF LeftBy
        <5>14. LeftBy(gone \cup {n}) =
                 <<Without(f, op.items, gone \cup {n}), With(f, t, op.items, op.id, gone \cup {n})>>
          BY DEF LeftBy
        <5>15. PICK s : s = Trashed(uri)  OBVIOUS
        <5>16. TakesTo(s, LeftBy(gone \cup {n}), LeftBy(gone))
          BY <5>9, <5>12, <5>13, <5>14, <5>15
        <5>17. s \in Steps  BY <4>2, <5>15
        <5>18. CanGoBack(op.steps, op.start, LeftBy(gone))  BY <2>1, <5>11
        <5>19. CanGoBack(Append(op.steps, s), op.start, LeftBy(gone \cup {n}))
          BY <1>2, <5>16, <5>17, <5>18, OneMoreGoesBack
        <5>20. QED  BY <4>1, <4>3, <5>11, <5>15, <5>19
      <4>6. QED  BY <4>4, <4>5
    <3>3. QED  BY <3>1, <3>2
  <2>7. op'.at <= Len(op'.items) + 1  BY <1>1, <1>9, <2>2
  <2>8. CanGoBack(op'.steps, op'.start, LeftBy(Gone(op.at))')
    <3>1. LeftBy(Gone(op.at))' = LeftBy(Gone(n + 1))
      BY <1>1, <1>9 DEF LeftBy, Gone
    <3>2. QED  BY <1>9, <2>6, <3>1
  <2>9. <<fs', trash'>> = LeftBy(Gone(Len(op.items) + 1))'
    <3>1. LeftBy(Gone(Len(op.items) + 1))' = LeftBy(all)
      BY <1>1, <1>9 DEF LeftBy, Gone
    <3>2. QED  BY <1>1, <1>3, <2>1, <3>1
  <2>10. op'.stage # "next"  BY <1>9
  <2>11. /\ op'.start = <<op'.start[1], op'.start[2]>>
         /\ IsTree(op'.start[1]) /\ Batch(op'.start[1], op'.items)
         /\ \A e \in op'.start[2] : e.uri \in Nat /\ e.uri <= MaxItems * op'.id
         /\ \A x \in op'.listed : x \in Nat /\ x > MaxItems * op'.id
    BY <1>9, <2>1
  <2>12. QED  BY <2>7, <2>8, <2>9, <2>10, <2>11 DEF TrashGoesBack
<1>17. TrashGoesBack'  BY <1>11, <1>16 DEF TrashGoesBack
<1>18. QED  BY <1>12, <1>13, <1>14, <1>15, <1>17 DEF UInv

-----------------------------------------------------------------------------
(* Every step, and undo.                                                   *)

LEMMA AskedUndo ==
  ASSUME FInv, JInv, UInv, Faults \subseteq {"copy"}, \A v \in Volumes : CannotRename[v] = {},
         Requests
  PROVE  UInv'
<1>1. ASSUME NEW items \in Selections, NEW dest, NEW kind \in {"copy", "move"},
             StartTransfer(kind, items, dest)
      PROVE  UInv'
  BY <1>1, SelectionIs, TakenUndo DEF StartTransfer
<1>2. ASSUME NEW items \in Selections, StartTrash(items)
      PROVE  UInv'
  BY <1>2, SelectedBatch, TakenUndo DEF StartTrash
<1>3. ASSUME NEW p \in DOMAIN fs, StartDuplicate(p)
      PROVE  UInv'
  <2>1. <<p>> \in Seq(Paths)
    <3>1. p \in Paths  BY TreeNode DEF FInv
    <3>2. QED  BY <3>1
  <2>2. QED  BY <1>3, <2>1, TakenUndo DEF StartDuplicate
<1>4. ASSUME NEW dir, NEW name, MkDirNamed(dir, name)
      PROVE  UInv'
  BY <1>4, MakeDirUndo DEF MkDirNamed
<1>5. ASSUME NEW dir, MkDirDefault(dir)
      PROVE  UInv'
  BY <1>5, MakeDirUndo DEF MkDirDefault
<1>6. QED
  BY <1>1, <1>2, <1>3, <1>4, <1>5, CancelRequestUndo, RenameUndo, RenameFailsNot,
     NewFileUndo, UndoUndo, UndoFailsNot, RestUndo
  DEF Requests

LEMMA ThreadUndo ==
  ASSUME FInv, JInv, UInv, Faults \subseteq {"copy"}, \A v \in Volumes : CannotRename[v] = {},
         Running
  PROVE  UInv'
  BY SkipItemUndo, RenameItemUndo, RefuseItemUndo, OpenItemUndo, FailNodeNot,
     OpenChildUndo, FinishFileUndo, FailCopyUndo, CancelCopyUndo, EndCopyUndo,
     EndMoveUndo, GioTrashUndo, CheckTrashedUndo
  DEF Running, Thread

LEMMA FirstUndo ==
  ASSUME Init
  PROVE  UInv
<1>1. op = NoOp /\ trash = {} /\ journal = <<>>  BY DEF Init
<1>2. EntriesGoBack  BY <1>1 DEF EntriesGoBack
<1>3. QED
  BY <1>1, <1>2 DEF UInv, CopyGoesBack, Undisturbed, TrashGoesBack, Trashes, UrisAged, TrashFits

LEMMA UndoStep ==
  ASSUME FInv, JInv, UInv, Faults \subseteq {"copy"}, \A v \in Volumes : CannotRename[v] = {},
         [Next]_vars
  PROVE  UInv'
  BY AskedUndo, ThreadUndo, ReportUndo, RestUndo DEF Next

\* The ring never gets shorter but by an undo.
LEMMA OnlyUndoPops ==
  ASSUME FInv, JInv, Faults \subseteq {"copy"}, [Next]_vars, Undoing
  PROVE  Undo
<1>1. Len(journal) \in Nat
  <2> DEFINE S == Range(journal)
  <2>1. journal \in Seq(S)  BY DEF FInv, JournalRight
  <2> HIDE DEF S
  <2>2. QED  BY <2>1
<1>2. ASSUME journal' = journal PROVE FALSE  BY <1>1, <1>2 DEF Undoing
<1>3. ASSUME NEW entry, journal' = Push(entry) PROVE FALSE
  <2>1. Len(journal') \in Nat /\ Len(journal) <= Len(journal')
    BY <1>3, PushMembers DEF FInv, JInv
  <2>2. QED  BY <1>1, <2>1 DEF Undoing
<1>4. \A new : ~Claim(new)  BY <1>2 DEF Claim
<1>5. \A files, steps, contents : ~LoopRequest(files, steps, contents)
  BY <1>3 DEF LoopRequest
<1>6. ~Report  BY <1>3 DEF Report
<1>7. ~ThreadOnly  BY <1>2 DEF ThreadOnly
<1>8. ~Running
  BY <1>2, <1>7
  DEF Running, Thread, SkipItem, RenameItem, RefuseItem, OpenItem, FailNode, OpenChild,
      FinishFile, FailCopy, CancelCopy, EndCopy, EndMove, FailMove, GioTrash, CheckTrashed
<1>9. \A id : ~CancelTransfer(id)  BY <1>2 DEF CancelTransfer
<1>10. ~Quit /\ ~DrainDone /\ ~DrainDeadline /\ vars' # vars
  BY <1>2 DEF Quit, DrainDone, DrainDeadline, vars
<1>11. \A p, name : ~Rename(p, name) /\ ~NewFile(p, name)  BY <1>5 DEF Rename, NewFile
<1>12. \A p : ~MakeDir(p)  BY <1>5 DEF MakeDir
<1>13. Requests => Undo
  BY <1>4, <1>9, <1>10, <1>11, <1>12, RenameFailsNot, UndoFailsNot
  DEF Requests, StartTransfer, StartTrash, StartDuplicate, MkDirNamed, MkDirDefault
<1>14. QED  BY <1>6, <1>8, <1>10, <1>13 DEF Next

\* An undo of an entry that leads back puts back what was there before it.
LEMMA FreshGoesBack ==
  ASSUME FInv, UInv, Undo, Fresh
  PROVE  \/ <<fs', trash'>> = Last(journal).before
         \/ \E i \in DOMAIN Last(journal).steps :
              LET s == Last(journal).steps[i]
              IN  CrossesVolumes(s) \/ s = Trashed(NoUri)
<1> DEFINE S == Range(journal)
           e == Last(journal)
           steps == e.steps
           before == e.before
           w == Undone(steps)[Len(steps)]
<1>1. journal \in Seq(S)  BY DEF FInv, JournalRight
<1>2. journal # <<>> /\ PopTo(w)  BY DEF Undo
<1> HIDE DEF S
<1>3. Len(journal) \in DOMAIN journal /\ e = journal[Len(journal)]  BY <1>1, <1>2 DEF Last
<1>4. EntryGoesBack(e)  BY <1>3 DEF UInv, EntriesGoBack
<1>5. steps \in Seq(Steps)  BY <1>2, LastEntry
<1>6. e.quiet /\ e.after = <<fs, trash>>  BY DEF Fresh
<1> HIDE DEF e
<1>7. CanGoBack(steps, before, <<fs, trash>>)  BY <1>4, <1>6 DEF EntryGoesBack
<1> HIDE DEF steps, before
<1>8. CASE Irreversible(steps)
  <2>1. \E i \in DOMAIN steps : LET s == steps[i] IN CrossesVolumes(s) \/ s = Trashed(NoUri)
    BY <1>8 DEF Irreversible
  <2>2. QED  BY <2>1 DEF steps, e
<1>9. CASE ~Irreversible(steps)
  <2>1. before = <<before[1], before[2]>>  BY <1>7 DEF CanGoBack
  <2>2. PICK ws : Chain(ws, steps, before, <<fs, trash>>)  BY <1>7, <1>9 DEF CanGoBack
  <2>3. w = WorldOf(before)  BY <1>5, <2>2, UndoneRetraces
  <2>4. fs' = w.fs /\ trash' = w.trash  BY <1>2 DEF PopTo
  <2> HIDE DEF w
  <2>5. w.fs = before[1] /\ w.trash = before[2]  BY <2>3 DEF WorldOf, World
  <2>6. <<fs', trash'>> = before  BY <2>1, <2>4, <2>5
  <2>7. QED  BY <2>6 DEF before, e
<1>10. QED  BY <1>8, <1>9

\* Undoing an operation or a request right after it, however many items it had,
\* and whether they succeeded, failed partway or were cancelled, puts back the
\* files and the trash exactly as they were, unless it moved something between
\* file systems or the trash listed no entry for an item (undo.rs). For any
\* files, names, volumes, batches and depth of the ring, where no removal and no
\* mode is refused and every mount can rename; one that cannot copies, and cuts
\* short a file that a transfer is writing.
THEOREM UndoIsExact ==
  ASSUME Faults \subseteq {"copy"}, \A v \in Volumes : CannotRename[v] = {}
  PROVE  Spec => UndoRestores
<1> DEFINE Inv == FInv /\ JInv /\ UInv
           Restores == Undoing /\ Fresh =>
             \/ <<fs', trash'>> = Last(journal).before
             \/ \E i \in DOMAIN Last(journal).steps :
                  LET s == Last(journal).steps[i]
                  IN  CrossesVolumes(s) \/ s = Trashed(NoUri)
<1>1. Init => Inv  BY FirstContents, FirstOwns, FirstUndo
<1>2. Inv /\ [Next]_vars => Inv'  BY ContentStepKeeps, OwnsStep, UndoStep
<1>3. Inv /\ [Next]_vars => Restores
  <2> SUFFICES ASSUME Inv, [Next]_vars, Undoing, Fresh PROVE Restores  OBVIOUS
  <2>1. Undo  BY OnlyUndoPops
  <2>2. QED  BY <2>1, FreshGoesBack
<1> HIDE DEF Inv, Restores
<1>4. Spec => [][Restores]_vars  BY <1>1, <1>2, <1>3, PTL DEF Spec
<1>5. QED  BY <1>4 DEF Restores, UndoRestores
=============================================================================
