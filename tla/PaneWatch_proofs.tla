--------------------------- MODULE PaneWatch_proofs ---------------------------
(***************************************************************************)
(* Proofs about PaneWatch, for any set of folders and paths, any queue and *)
(* batch limit and any bound.                                              *)
(***************************************************************************)
EXTENDS PaneWatch, TLAPS, SequenceTheorems

-----------------------------------------------------------------------------
(* The inductive invariant.                                                *)

Wd == Folders \X Nat
Kernel == [marks : SUBSET Wd, queue : Seq(Wd \cup {Overflow}), last : Nat]
Lists == [path : Paths \cup {None}, version : Nat]
Requests == [c : {"list", "search"}, path : Paths] \cup {[c |-> "window"], [c |-> "other"]}

\* A changed line is in the pipe only if it is about its path.
ChangedLines == {l \in [t : {"changed"}, path : Paths, wd : Wd] : FolderOf[l.path] = l.wd[1]}
Lines == {[t |-> "listed"]} \cup [t : {"rows"}, of : Lists]
         \cup [t : {"error"}, scan : BOOLEAN] \cup ChangedLines

Panes == [path : Paths, shown : Lists, flight : BOOLEAN, seen : BOOLEAN,
          mode : {"off", "results"}, hold : BOOLEAN, stale : BOOLEAN, settle : BOOLEAN,
          state : {"loading", "ready", "error"}]

Types ==
  /\ disk \in [Folders -> Nat]
  /\ kernel \in Kernel
  /\ stdin \in Seq(Requests) /\ stdout \in Seq(Lines)
  /\ watch \in [wd : Wd \cup {None}, incoming : Wd \cup {None}]
  /\ scanning \in {<<>>} \cup {<<p>> : p \in Paths}
  /\ listing \in Lists
  /\ pane \in Panes

\* The kernel watches what watch.rs holds, and what it holds is watched while
\* the folder is there.
Armed ==
  /\ kernel.marks \subseteq {watch.wd, watch.incoming}
  /\ \A wd \in {watch.wd, watch.incoming} :
       wd # None /\ disk[wd[1]] # Gone => wd \in kernel.marks

\* The watch is of the folder listed, the one coming of the folder scanned.
About ==
  /\ watch.wd # None => listing.path \in Paths /\ FolderOf[listing.path] = watch.wd[1]
  /\ watch.incoming # None =>
       scanning # <<>> /\ FolderOf[Head(scanning)] = watch.incoming[1]

IInv == Types /\ Armed /\ About

-----------------------------------------------------------------------------
(* What the kernel's operators return.                                     *)

LEMMA QueuedIs ==
  ASSUME NEW k \in Kernel, NEW wd \in Wd
  PROVE  Queued(k, wd) \in Kernel /\ Queued(k, wd).marks = k.marks
<1>1. /\ Append(k.queue, wd) \in Seq(Wd \cup {Overflow})
      /\ Append(k.queue, Overflow) \in Seq(Wd \cup {Overflow})
  BY AppendProperties DEF Kernel
<1>2. QED  BY <1>1 DEF Queued, Kernel

LEMMA DroppedIs ==
  ASSUME NEW k \in Kernel, NEW wd \in Wd \cup {None}
  PROVE  Dropped(k, wd) \in Kernel /\ Dropped(k, wd).marks = k.marks \ {wd}
<1>1. CASE wd \in k.marks
  <2> DEFINE less == [k EXCEPT !.marks = @ \ {wd}]
  <2>1. wd \in Wd /\ less \in Kernel /\ less.marks = k.marks \ {wd}
    BY <1>1 DEF Kernel
  <2>2. QED  BY <1>1, <2>1, QueuedIs DEF Dropped
<1>2. CASE wd \notin k.marks  BY <1>2 DEF Dropped
<1>3. QED  BY <1>1, <1>2

LEMMA ToldIs ==
  ASSUME NEW k \in Kernel, NEW d \in Folders
  PROVE  Told(k, d) \in Kernel /\ Told(k, d).marks = k.marks
<1>1. CASE MarkOf(k, d) = {}  BY <1>1 DEF Told
<1>2. CASE MarkOf(k, d) # {}
  <2>1. (CHOOSE wd \in MarkOf(k, d) : TRUE) \in MarkOf(k, d)  BY <1>2
  <2>2. (CHOOSE wd \in MarkOf(k, d) : TRUE) \in Wd  BY <2>1 DEF MarkOf, Kernel
  <2>3. QED  BY <1>2, <2>2, QueuedIs DEF Told
<1>3. QED  BY <1>1, <1>2

\* After inotify_add_watch the folder has a mark, and at most that one is new.
LEMMA AddedIs ==
  ASSUME NEW k \in Kernel, NEW d \in Folders, NEW new, new = Added(k, d),
         NEW wd, wd = CHOOSE w \in MarkOf(new, d) : TRUE
  PROVE  /\ new \in Kernel /\ k.marks \subseteq new.marks
         /\ wd \in Wd /\ wd[1] = d /\ wd \in new.marks
         /\ new.marks \subseteq k.marks \cup {wd}
<1>1. CASE MarkOf(k, d) # {}
  <2>1. new = k  BY <1>1 DEF Added
  <2>2. wd \in MarkOf(k, d)  BY <1>1, <2>1
  <2>3. QED  BY <2>1, <2>2 DEF MarkOf, Kernel
<1>2. CASE MarkOf(k, d) = {}
  <2> DEFINE made == <<d, k.last + 1>>
  <2>1. made \in Wd /\ made[1] = d  BY DEF Wd, Kernel
  <2>2. new \in Kernel /\ new.marks = k.marks \cup {made}
    <3>1. new = [k EXCEPT !.marks = @ \cup {made}, !.last = @ + 1]
      BY <1>2 DEF Added
    <3>2. k.marks \cup {made} \in SUBSET Wd /\ k.last + 1 \in Nat
      BY <2>1 DEF Kernel
    <3> HIDE DEF made
    <3>3. QED  BY <3>1, <3>2 DEF Kernel
  <2>3. MarkOf(new, d) = {made}  BY <1>2, <2>1, <2>2 DEF MarkOf
  <2>4. wd = made  BY <2>3
  <2>5. QED  BY <2>1, <2>2, <2>4
<1>3. QED  BY <1>1, <1>2

LEMMA NoneIsNoMark == None \notin Wd
  BY DEF None, Wd

\* Where the pipes stand after a line more or a line less.
LEMMA Piped ==
  ASSUME NEW S, NEW s \in Seq(S)
  PROVE  /\ \A x \in S : Append(s, x) \in Seq(S) /\ s \o <<x>> \in Seq(S)
         /\ \A x, y \in S : s \o <<x, y>> \in Seq(S)
         /\ s \o <<>> \in Seq(S)
         /\ s # <<>> => Head(s) \in S /\ Tail(s) \in Seq(S)
  BY AppendProperties, ConcatProperties, HeadTailProperties

-----------------------------------------------------------------------------
(* The client's steps touch the pane and what it sends.                    *)

LEMMA OpenedIs ==
  ASSUME NEW p \in Panes, NEW path \in Paths, NEW hold \in BOOLEAN
  PROVE  Opened(p, path, hold) \in Panes
<1>1. NoListing \in Lists  BY DEF NoListing, Listing, Lists, Gone
<1>2. QED  BY <1>1, ZenonT(60) DEF Opened, Panes

LEMMA BecomesIs ==
  ASSUME NEW new \in Panes, Becomes(new)
  PROVE  pane' \in Panes
<1>1. (new.settle \/ (new.stale /\ WatchBusy(new) # WatchBusy(pane))) \in BOOLEAN
  BY DEF Panes
<1>2. QED  BY <1>1 DEF Becomes, Panes

\* Nothing the invariant says depends on what a client's step changes, but the
\* types of it.
LEMMA ClientKeeps ==
  ASSUME IInv, UNCHANGED <<disk, kernel, watch, scanning, listing>>,
         pane' \in Panes, stdin' \in Seq(Requests), stdout' \in Seq(Lines)
  PROVE  IInv'
  BY DEF IInv, Types, Armed, About

LEMMA OpenKeeps ==
  ASSUME IInv, NEW path \in Paths, Open(path)
  PROVE  IInv'
<1>1. PICK hold \in {FALSE, pane.hold} : Becomes(Opened(pane, path, hold))
  BY DEF Open
<1>2. hold \in BOOLEAN /\ pane \in Panes  BY DEF IInv, Types, Panes
<1>3. pane' \in Panes  BY <1>1, <1>2, OpenedIs, BecomesIs
<1>4. ListLine(path) \in Requests  BY DEF ListLine, Requests
<1>5. stdin' \in Seq(Requests)
  BY <1>4, AppendProperties DEF Open, Send, IInv, Types
<1>6. QED
  BY <1>3, <1>5, ClientKeeps DEF Open, ClientOnly, IInv, Types
LEMMA UserKeeps ==
  ASSUME IInv, User
  PROVE  IInv'
<1>1. CASE \E p \in Paths : Open(p)  BY <1>1, OpenKeeps
<1> USE DEF ClientOnly
<1>2. CASE Hold
  <2>1. [pane EXCEPT !.hold = ~@] \in Panes  BY DEF IInv, Types, Panes
  <2>2. pane' \in Panes  BY <1>2, <2>1, BecomesIs DEF Hold
  <2>3. QED  BY <1>2, <2>2, ClientKeeps DEF Hold, IInv, Types
<1>3. CASE Scroll
  <2>1. [c |-> "window"] \in Requests  BY DEF Requests
  <2>2. stdin' \in Seq(Requests)  BY <1>3, <2>1, AppendProperties DEF Scroll, Send, IInv, Types
  <2>3. QED  BY <1>3, <2>2, ClientKeeps DEF Scroll, IInv, Types
<1>4. CASE Other
  <2>1. [c |-> "other"] \in Requests  BY DEF Requests
  <2>2. stdin' \in Seq(Requests)  BY <1>4, <2>1, AppendProperties DEF Other, Send, IInv, Types
  <2>3. QED  BY <1>4, <2>2, ClientKeeps DEF Other, IInv, Types
<1>5. CASE RunSearch
  <2>1. [c |-> "search", path |-> pane.path] \in Requests  BY DEF Requests, IInv, Types, Panes
  <2>2. stdin' \in Seq(Requests)  BY <1>5, <2>1, AppendProperties DEF RunSearch, Send, IInv, Types
  <2>3. NoListing \in Lists  BY DEF NoListing, Listing, Lists, Gone
  <2>4. [pane EXCEPT !.mode = "results", !.shown = NoListing, !.state = "loading",
                     !.hold = FALSE] \in Panes
    BY <2>3 DEF IInv, Types, Panes
  <2>5. pane' \in Panes  BY <1>5, <2>4, BecomesIs DEF RunSearch
  <2>6. QED  BY <1>5, <2>2, <2>5, ClientKeeps DEF RunSearch, IInv, Types
<1>6. CASE CloseSearch
  <2> DEFINE left == [pane EXCEPT !.mode = "off"]
  <2>1. left \in Panes /\ pane.path \in Paths  BY DEF IInv, Types, Panes
  <2>2. CASE pane.flight
    <3>1. pane' \in Panes  BY <1>6, <2>1, <2>2, BecomesIs DEF CloseSearch
    <3>2. QED  BY <1>6, <2>2, <3>1, ClientKeeps DEF CloseSearch, IInv, Types
  <2>3. CASE ~pane.flight
    <3>1. Opened(left, pane.path, FALSE) \in Panes  BY <2>1, OpenedIs
    <3>2. pane' \in Panes  BY <1>6, <2>3, <3>1, BecomesIs DEF CloseSearch
    <3>3. ListLine(pane.path) \in Requests  BY <2>1 DEF ListLine, Requests
    <3>4. stdin' \in Seq(Requests)
      BY <1>6, <2>3, <3>3, AppendProperties, SMTT(30) DEF CloseSearch, Send, IInv, Types
    <3>5. QED  BY <1>6, <3>2, <3>4, ClientKeeps DEF CloseSearch, IInv, Types
  <2>4. QED  BY <2>2, <2>3
<1>7. QED  BY <1>1, <1>2, <1>3, <1>4, <1>5, <1>6 DEF User

LEMMA HeardIs ==
  ASSUME IInv, NEW t, Hear(t)
  PROVE  /\ Head(stdout) \in Lines /\ Head(stdout).t = t
         /\ stdout' \in Seq(Lines)
  BY HeadTailProperties DEF Hear, IInv, Types

LEMMA ClientStepKeeps ==
  ASSUME IInv, Client
  PROVE  IInv'
<1> USE DEF ClientHears
<1>0. pane \in Panes /\ stdin \in Seq(Requests)  BY DEF IInv, Types
<1>1. CASE OnListed
  <2>1. stdout' \in Seq(Lines)  BY <1>1, HeardIs DEF OnListed
  <2>2. PICK state \in {"ready", "loading"} :
          Becomes([pane EXCEPT !.seen = @ \/ pane.flight, !.state = state])
    BY <1>1 DEF OnListed
  <2>3. [pane EXCEPT !.seen = @ \/ pane.flight, !.state = state] \in Panes
    BY <1>0 DEF Panes
  <2>4. pane' \in Panes  BY <2>2, <2>3, BecomesIs
  <2>5. QED  BY <1>0, <1>1, <2>1, <2>4, ClientKeeps DEF OnListed
<1>2. CASE OnRows
  <2>1. /\ Head(stdout) \in Lines /\ Head(stdout).t = "rows" /\ stdout' \in Seq(Lines)
    BY <1>2, HeardIs DEF OnRows
  <2>2. Head(stdout).of \in Lists  BY <2>1 DEF Lines, ChangedLines
  <2> DEFINE new == [pane EXCEPT !.shown = Head(stdout).of, !.flight = FALSE,
                                 !.seen = @ /\ ~pane.flight]
  <2>3. new \in Panes  BY <1>0, <2>2 DEF Panes
  <2>4. UNCHANGED pane \/ Becomes(new)  BY <1>2 DEF OnRows
  <2>5. pane' \in Panes  BY <1>0, <2>3, <2>4, BecomesIs
  <2>6. QED  BY <1>0, <1>2, <2>1, <2>5, ClientKeeps DEF OnRows
<1>3. CASE OnChanged
  <2>1. stdout' \in Seq(Lines)  BY <1>3, HeardIs DEF OnChanged
  <2>2. pane' \in Panes  BY <1>0, <1>3 DEF OnChanged, Panes
  <2>3. QED  BY <1>0, <1>3, <2>1, <2>2, ClientKeeps DEF OnChanged
<1>4. CASE OnFailed
  <2>1. stdout' \in Seq(Lines)  BY <1>4, HeardIs DEF OnFailed
  <2>2. PICK state \in {pane.state, "error"} :
          Becomes([pane EXCEPT !.flight = FALSE, !.seen = FALSE, !.state = state])
    BY <1>4 DEF OnFailed
  <2>3. [pane EXCEPT !.flight = FALSE, !.seen = FALSE, !.state = state] \in Panes
    BY <1>0 DEF Panes
  <2>4. pane' \in Panes  BY <2>2, <2>3, BecomesIs
  <2>5. QED  BY <1>0, <1>4, <2>1, <2>4, ClientKeeps DEF OnFailed
<1>5. QED  BY <1>1, <1>2, <1>3, <1>4 DEF Client

LEMMA RereadKeeps ==
  ASSUME IInv, Reread
  PROVE  IInv'
<1> USE DEF ClientOnly
<1>0. pane \in Panes /\ pane.path \in Paths /\ stdin \in Seq(Requests) /\ stdout \in Seq(Lines)
  BY DEF IInv, Types, Panes
<1>1. CASE WatchBusy(pane)
  <2>1. pane' \in Panes  BY <1>0, <1>1 DEF Reread, Panes
  <2>2. QED  BY <1>0, <1>1, <2>1, ClientKeeps DEF Reread
<1>2. CASE ~WatchBusy(pane)
  <2> DEFINE rested == [pane EXCEPT !.settle = FALSE, !.stale = FALSE]
  <2>1. rested \in Panes  BY <1>0 DEF Panes
  <2>2. Opened(rested, pane.path, FALSE) \in Panes  BY <1>0, <2>1, OpenedIs
  <2>3. pane' \in Panes  BY <1>2, <2>2, BecomesIs DEF Reread
  <2>4. ListLine(pane.path) \in Requests  BY <1>0 DEF ListLine, Requests
  <2>5. stdin' \in Seq(Requests)
    BY <1>0, <1>2, <2>4, AppendProperties DEF Reread, Send
  <2>6. QED  BY <1>0, <2>3, <2>5, ClientKeeps DEF Reread
<1>3. QED  BY <1>1, <1>2
-----------------------------------------------------------------------------
(* Other programs, and the thread that reads the queue.                    *)

\* Only versions and marks change, and no deleted folder comes back.
LEMMA OutsideKeeps ==
  ASSUME IInv, Outside
  PROVE  IInv'
<1>0. /\ kernel \in Kernel /\ disk \in [Folders -> Nat]
      /\ kernel.marks \subseteq Wd
  BY DEF IInv, Types, Kernel
<1>1. PICK d \in Folders : Change(d) \/ Delete(d)  BY DEF Outside
<1>2. CASE Change(d)
  <2>1. kernel' \in Kernel /\ kernel'.marks = kernel.marks
    BY <1>0, <1>2, ToldIs DEF Change
  <2>2. disk' \in [Folders -> Nat] /\ \A e \in Folders : disk'[e] # Gone => disk[e] # Gone
    BY <1>0, <1>2 DEF Change, Gone
  <2>3. UNCHANGED <<stdin, stdout, watch, scanning, listing, pane>>
    BY <1>2 DEF Change, OtherPrograms
  <2>4. Types'  BY <2>1, <2>2, <2>3 DEF IInv, Types
  <2>5. Armed'
    <3>1. \A wd \in {watch.wd, watch.incoming} : wd # None => wd[1] \in Folders
      BY DEF IInv, Types, Wd
    <3>2. QED  BY <2>1, <2>2, <2>3, <3>1 DEF IInv, Armed
  <2>6. About'  BY <2>3 DEF IInv, About
  <2>7. QED  BY <2>4, <2>5, <2>6 DEF IInv
<1>3. CASE Delete(d)
  <2>1. PICK lost \in MarkOf(kernel, d) \cup {None} :
          /\ kernel' \in Kernel
          /\ kernel'.marks = kernel.marks \ {lost}
    <3>1. CASE MarkOf(kernel, d) = {}
      <4>1. None \notin kernel.marks  BY <1>0, NoneIsNoMark
      <4>2. QED  BY <1>0, <1>3, <3>1, <4>1 DEF Delete
    <3>2. CASE MarkOf(kernel, d) # {}
      <4>1. (CHOOSE wd \in MarkOf(kernel, d) : TRUE) \in MarkOf(kernel, d)  BY <3>2
      <4>2. (CHOOSE wd \in MarkOf(kernel, d) : TRUE) \in Wd  BY <1>0, <4>1 DEF MarkOf
      <4>3. QED  BY <1>0, <1>3, <3>2, <4>1, <4>2, DroppedIs DEF Delete
    <3>3. QED  BY <3>1, <3>2
  <2>2. disk' = [disk EXCEPT ![d] = Gone]  BY <1>3 DEF Delete
  <2>3. UNCHANGED <<stdin, stdout, watch, scanning, listing, pane>>
    BY <1>3 DEF Delete, OtherPrograms
  <2>4. Types'  BY <1>0, <2>1, <2>2, <2>3 DEF IInv, Types, Gone
  <2>5. Armed'
    <3>1. \A wd \in {watch.wd, watch.incoming} : wd # None => wd[1] \in Folders
      BY DEF IInv, Types, Wd
    <3>2. lost # None => lost[1] = d  BY <2>1 DEF MarkOf
    <3>3. ASSUME NEW wd \in {watch.wd, watch.incoming}, wd # None, disk'[wd[1]] # Gone
          PROVE  wd \in kernel'.marks
      <4>1. wd[1] # d /\ disk[wd[1]] # Gone  BY <1>0, <2>2, <3>1, <3>3
      <4>2. QED  BY <2>1, <3>2, <3>3, <4>1 DEF IInv, Armed
    <3>4. QED  BY <2>1, <2>3, <3>3 DEF IInv, Armed
  <2>6. About'  BY <2>3 DEF IInv, About
  <2>7. QED  BY <2>4, <2>5, <2>6 DEF IInv
<1>4. QED  BY <1>1, <1>2, <1>3

LEMMA PumpKeeps ==
  ASSUME IInv, Pump
  PROVE  IInv'
<1> DEFINE n == IF Len(kernel.queue) < BatchLimit THEN Len(kernel.queue) ELSE BatchLimit
           rest == SubSeq(kernel.queue, n + 1, Len(kernel.queue))
<1>1. kernel \in Kernel /\ kernel.queue \in Seq(Wd \cup {Overflow})
  BY DEF IInv, Types, Kernel
<1>2. Len(kernel.queue) \in Nat /\ n \in Nat  BY <1>1, LenProperties, WatchAssumption
<1>3. \A i \in (n + 1)..Len(kernel.queue) : kernel.queue[i] \in Wd \cup {Overflow}
  <2>1. \A i \in 1..Len(kernel.queue) : kernel.queue[i] \in Wd \cup {Overflow}
    BY <1>1, ElementOfSeq
  <2> HIDE DEF n
  <2>2. QED  BY <1>2, <2>1
<1>4. rest \in Seq(Wd \cup {Overflow})
  <2>1. n + 1 \in Int /\ Len(kernel.queue) \in Int  BY <1>2
  <2> HIDE DEF n
  <2>2. QED  BY <1>3, <2>1, SubSeqProperties
<1>5. kernel' = [kernel EXCEPT !.queue = rest]  BY DEF Pump
<1> HIDE DEF rest
<1>6. kernel' \in Kernel /\ kernel'.marks = kernel.marks
  BY <1>1, <1>4, <1>5 DEF Kernel
<1>7. UNCHANGED <<disk, stdin, stdout, watch, scanning, listing, pane>>  BY DEF Pump
<1>8. QED  BY <1>6, <1>7 DEF IInv, Types, Armed, About
-----------------------------------------------------------------------------
(* The loop.                                                               *)

LEMMA TakenIs ==
  ASSUME IInv, NEW c, Take(c)
  PROVE  /\ Head(stdin) \in Requests /\ Head(stdin).c = c
         /\ stdin' \in Seq(Requests)
         /\ watch.incoming = None
<1>1. /\ Head(stdin) \in Requests /\ Head(stdin).c = c /\ stdin' \in Seq(Requests)
  BY HeadTailProperties DEF Take, IInv, Types
<1>2. QED  BY <1>1 DEF Take, Idle, IInv, About

LEMMA SaidIs ==
  ASSUME IInv, NEW lines \in Seq(Lines), Say(lines)
  PROVE  stdout' \in Seq(Lines)
  BY ConcatProperties DEF Say, IInv, Types

LEMMA ListBeginKeeps ==
  ASSUME IInv, ListBegin
  PROVE  IInv'
<1> DEFINE path == Head(stdin).path
           d == FolderOf[path]
<1>1. /\ Head(stdin) \in Requests /\ Head(stdin).c = "list" /\ stdin' \in Seq(Requests)
      /\ watch.incoming = None
  BY TakenIs DEF ListBegin
<1>2. path \in Paths /\ d \in Folders  BY <1>1, WatchAssumption DEF Requests
<1>3. /\ scanning' = <<path>>
      /\ UNCHANGED <<disk, stdout, listing, pane>>
  BY DEF ListBegin
<1>4. Head(scanning') = path /\ scanning' # <<>>  BY <1>3
<1>5. /\ disk \in [Folders -> Nat] /\ kernel \in Kernel /\ stdout \in Seq(Lines)
      /\ listing \in Lists /\ pane \in Panes
      /\ watch \in [wd : Wd \cup {None}, incoming : Wd \cup {None}]
  BY DEF IInv, Types
<1>6. kernel.marks \subseteq Wd /\ None \notin kernel.marks  BY <1>5, NoneIsNoMark DEF Kernel
<1>7. kernel.marks \subseteq {watch.wd}  BY <1>1, <1>6 DEF IInv, Armed
<1>8. CASE ~Lost(path) /\ kernel' = Added(kernel, d)
           /\ watch' = [watch EXCEPT !.incoming = CHOOSE wd \in MarkOf(kernel', d) : TRUE]
  <2>1. PICK wd : wd = CHOOSE w \in MarkOf(kernel', d) : TRUE  OBVIOUS
  <2>2. /\ kernel' \in Kernel /\ kernel.marks \subseteq kernel'.marks
        /\ wd \in Wd /\ wd[1] = d /\ wd \in kernel'.marks
        /\ kernel'.marks \subseteq kernel.marks \cup {wd}
    BY <1>2, <1>5, <1>8, <2>1, AddedIs
  <2>3. watch' = [watch EXCEPT !.incoming = wd]  BY <1>8, <2>1
  <2>4. watch'.wd = watch.wd /\ watch'.incoming = wd  BY <1>5, <2>3
  <2> HIDE DEF path, d
  <2>5. Types'
    <3>1. watch' \in [wd : Wd \cup {None}, incoming : Wd \cup {None}]  BY <1>5, <2>2, <2>3
    <3>2. QED  BY <1>1, <1>2, <1>3, <1>5, <2>2, <3>1 DEF Types
  <2>6. Armed'  BY <1>3, <1>7, <2>2, <2>4 DEF IInv, Armed
  <2>7. About'  BY <1>3, <1>4, <2>2, <2>4 DEF IInv, About, d
  <2>8. QED  BY <2>5, <2>6, <2>7 DEF IInv
<1>9. CASE UNCHANGED kernel /\ watch' = [watch EXCEPT !.incoming = None]
  <2>1. watch' = watch  BY <1>1, <1>5, <1>9
  <2> HIDE DEF path, d
  <2>2. Types'  BY <1>1, <1>2, <1>3, <1>5, <1>9, <2>1 DEF Types
  <2>3. Armed'  BY <1>3, <1>9, <2>1 DEF IInv, Armed
  <2>4. About'  BY <1>1, <1>3, <2>1 DEF IInv, About
  <2>5. QED  BY <2>2, <2>3, <2>4 DEF IInv
<1>10. QED  BY <1>8, <1>9 DEF ListBegin

LEMMA ListDoneKeeps ==
  ASSUME IInv, ListDone
  PROVE  IInv'
<1> DEFINE path == Head(scanning)
           read == Listing(path, disk[FolderOf[path]])
<1>1. /\ kernel \in Kernel /\ disk \in [Folders -> Nat] /\ stdin \in Seq(Requests)
      /\ watch \in [wd : Wd \cup {None}, incoming : Wd \cup {None}] /\ pane \in Panes
  BY DEF IInv, Types
<1>2. path \in Paths  BY DEF ListDone, Idle, IInv, Types
<1>3. read \in Lists /\ read.path = path
  BY <1>1, <1>2, WatchAssumption DEF Listing, Lists
<1>4. /\ listing' = read /\ scanning' = <<>>
      /\ UNCHANGED <<disk, stdin, pane>>
      /\ Say(<<[t |-> "listed"], [t |-> "rows", of |-> read]>>)
      /\ Commit
  BY DEF ListDone
<1> HIDE DEF read
<1>5. stdout' \in Seq(Lines)
  <2>1. [t |-> "listed"] \in Lines /\ [t |-> "rows", of |-> read] \in Lines
    BY <1>3 DEF Lines
  <2>2. <<[t |-> "listed"], [t |-> "rows", of |-> read]>> \in Seq(Lines)  BY <2>1
  <2>3. QED  BY <1>4, <2>2, SaidIs
<1>6. watch'.wd = watch.incoming /\ watch'.incoming = None
  BY <1>4 DEF Commit
<1>7. kernel' \in Kernel
      /\ kernel'.marks = IF watch.incoming = watch.wd THEN kernel.marks
                                                      ELSE kernel.marks \ {watch.wd}
  BY <1>1, <1>4, DroppedIs DEF Commit
<1>8. Types'
  BY <1>1, <1>3, <1>4, <1>5, <1>7 DEF Types, Commit
<1>9. Armed'  BY <1>4, <1>6, <1>7 DEF IInv, Armed
<1>10. About'  BY <1>2, <1>3, <1>4, <1>6 DEF IInv, About
<1>11. QED  BY <1>8, <1>9, <1>10 DEF IInv

LEMMA ListFailsKeeps ==
  ASSUME IInv, ListFails
  PROVE  IInv'
<1>1. /\ kernel \in Kernel /\ disk \in [Folders -> Nat] /\ stdin \in Seq(Requests)
      /\ watch \in [wd : Wd \cup {None}, incoming : Wd \cup {None}]
      /\ pane \in Panes /\ listing \in Lists
  BY DEF IInv, Types
<1>2. /\ scanning' = <<>> /\ UNCHANGED <<disk, stdin, listing, pane>>
      /\ Say(<<[t |-> "error", scan |-> TRUE]>>) /\ Abandon
  BY DEF ListFails
<1>3. stdout' \in Seq(Lines)
  <2>1. <<[t |-> "error", scan |-> TRUE]>> \in Seq(Lines)  BY DEF Lines
  <2>2. QED  BY <1>2, <2>1, SaidIs
<1>4. watch' = [watch EXCEPT !.incoming = None]  BY <1>2 DEF Abandon
<1>5. watch'.wd = watch.wd /\ watch'.incoming = None
      /\ watch' \in [wd : Wd \cup {None}, incoming : Wd \cup {None}]
  BY <1>1, <1>4
<1>6. kernel' \in Kernel
      /\ kernel'.marks = IF watch.incoming = watch.wd THEN kernel.marks
                                                      ELSE kernel.marks \ {watch.incoming}
  BY <1>1, <1>2, DroppedIs DEF Abandon
<1>7. Types'  BY <1>1, <1>2, <1>3, <1>5, <1>6 DEF Types
<1>8. Armed'  BY <1>2, <1>5, <1>6 DEF IInv, Armed
<1>9. About'  BY <1>2, <1>5 DEF IInv, About
<1>10. QED  BY <1>7, <1>8, <1>9 DEF IInv

LEMMA SearchKeeps ==
  ASSUME IInv, Search
  PROVE  IInv'
<1>1. /\ kernel \in Kernel /\ disk \in [Folders -> Nat] /\ pane \in Panes
      /\ watch \in [wd : Wd \cup {None}, incoming : Wd \cup {None}]
      /\ scanning \in {<<>>} \cup {<<p>> : p \in Paths}
  BY DEF IInv, Types
<1>2. /\ Head(stdin) \in Requests /\ Head(stdin).c = "search" /\ stdin' \in Seq(Requests)
      /\ watch.incoming = None
  BY TakenIs DEF Search
<1>3. listing' \in Lists
  BY <1>2 DEF Search, Listing, Lists, Requests, Matches
<1>4. stdout' \in Seq(Lines)
  <2>1. <<[t |-> "listed"]>> \in Seq(Lines)  BY DEF Lines
  <2>2. QED  BY <2>1, SaidIs DEF Search
<1>5. kernel' \in Kernel /\ kernel'.marks = kernel.marks \ {watch.wd}
  BY <1>1, DroppedIs DEF Search
<1>6. watch' = [wd |-> None, incoming |-> None] /\ UNCHANGED <<disk, scanning, pane>>
  BY DEF Search
<1>7. Types'  BY <1>1, <1>2, <1>3, <1>4, <1>5, <1>6 DEF Types
<1>8. Armed'
  <2>1. kernel.marks \subseteq {watch.wd, None} /\ None \notin kernel.marks
    BY <1>1, <1>2, NoneIsNoMark DEF IInv, Armed, Kernel
  <2>2. kernel'.marks = {}  BY <1>5, <2>1
  <2>3. QED  BY <1>6, <2>2 DEF Armed
<1>9. About'  BY <1>6 DEF About
<1>10. QED  BY <1>7, <1>8, <1>9 DEF IInv

\* What only adds a line that is no changed line.
LEMMA AnswerKeeps ==
  ASSUME IInv, Window \/ Refuse
  PROVE  IInv'
<1>1. /\ kernel \in Kernel /\ disk \in [Folders -> Nat] /\ pane \in Panes /\ listing \in Lists
      /\ watch \in [wd : Wd \cup {None}, incoming : Wd \cup {None}]
      /\ scanning \in {<<>>} \cup {<<p>> : p \in Paths}
  BY DEF IInv, Types
<1>2. stdin' \in Seq(Requests)  BY TakenIs DEF Window, Refuse
<1>3. <<[t |-> "rows", of |-> listing]>> \in Seq(Lines)
      /\ <<[t |-> "error", scan |-> FALSE]>> \in Seq(Lines)
  BY <1>1 DEF Lines
<1>4. stdout' \in Seq(Lines)  BY <1>3, SaidIs DEF Window, Refuse
<1>5. UNCHANGED <<disk, kernel, watch, scanning, listing, pane>>  BY DEF Window, Refuse
<1>6. QED  BY <1>1, <1>2, <1>4, <1>5, ClientKeeps

\* A changed line is said of the descriptor that is current, and so of the
\* folder listed.
LEMMA NoticeKeeps ==
  ASSUME IInv, Notice
  PROVE  IInv'
<1>1. /\ pane \in Panes /\ stdin \in Seq(Requests)
      /\ UNCHANGED <<disk, kernel, stdin, watch, scanning, listing, pane>>
  BY DEF Notice, IInv, Types
<1>2. stdout' \in Seq(Lines)
  <2>1. CASE IsCurrent(Head(notices))
    <3> DEFINE line == [t |-> "changed", path |-> listing.path, wd |-> Head(notices)]
    <3>1. watch.wd # None /\ Head(notices) = watch.wd  BY <2>1 DEF IsCurrent
    <3>2. watch.wd \in Wd /\ listing.path \in Paths /\ FolderOf[listing.path] = watch.wd[1]
      BY <3>1 DEF IInv, Types, About
    <3>3. line \in ChangedLines  BY <3>1, <3>2 DEF ChangedLines
    <3>4. <<line>> \in Seq(Lines)  BY <3>3 DEF Lines
    <3>5. Say(<<line>>)  BY <2>1 DEF Notice
    <3>6. QED  BY <3>4, <3>5, SaidIs
  <2>2. CASE ~IsCurrent(Head(notices))
    <3>1. Say(<<>>) /\ <<>> \in Seq(Lines)  BY <2>2 DEF Notice
    <3>2. QED  BY <3>1, SaidIs
  <2>3. QED  BY <2>1, <2>2
<1>3. QED  BY <1>1, <1>2, ClientKeeps

-----------------------------------------------------------------------------
(* The theorems.                                                           *)

LEMMA InitHolds == Init => IInv
<1> SUFFICES ASSUME Init PROVE IInv  OBVIOUS
<1>1. NoListing \in Lists  BY DEF NoListing, Listing, Lists, Gone
<1>2. kernel \in Kernel /\ kernel.marks = {}  BY DEF Init, Kernel
<1>3. stdin \in Seq(Requests)  BY WatchAssumption DEF Init, ListLine, Requests
<1>4. pane \in Panes  BY <1>1, WatchAssumption DEF Init, Panes
<1>5. Types  BY <1>1, <1>2, <1>3, <1>4 DEF Init, Types
<1>6. Armed /\ About  BY <1>2 DEF Init, Armed, About
<1>7. QED  BY <1>5, <1>6 DEF IInv

LEMMA StepKeeps == IInv /\ [Next]_vars => IInv'
<1> SUFFICES ASSUME IInv, [Next]_vars PROVE IInv'  OBVIOUS
<1>1. CASE User  BY <1>1, UserKeeps
<1>2. CASE Outside  BY <1>2, OutsideKeeps
<1>3. CASE Pump  BY <1>3, PumpKeeps
<1>4. CASE Loop
  BY <1>4, ListBeginKeeps, ListDoneKeeps, ListFailsKeeps, SearchKeeps, AnswerKeeps DEF Loop
<1>5. CASE Notice  BY <1>5, NoticeKeeps
<1>6. CASE Client  BY <1>6, ClientStepKeeps
<1>7. CASE Reread  BY <1>7, RereadKeeps
<1>8. CASE UNCHANGED vars  BY <1>8 DEF vars, IInv, Types, Armed, About
<1>9. QED  BY <1>1, <1>2, <1>3, <1>4, <1>5, <1>6, <1>7, <1>8 DEF Next

\* Every reachable state satisfies the inductive invariant: the watches the
\* kernel has are those watch.rs holds, each of the folder it is held for.
THEOREM Invariance == Spec => []IInv
  BY InitHolds, StepKeeps, PTL DEF Spec

\* However navigations, failed lists, searches, deletions and refusals follow
\* each other, no watch leaks and none is lost (watch.rs begin, commit,
\* abandon, stop).
THEOREM NoWatchLeaks == Spec => []OneWatch
<1>1. IInv => OneWatch  BY DEF IInv, Types, Armed, OneWatch
<1>2. QED  BY <1>1, Invariance, PTL

\* However late the notices come, a changed line carries the path of the folder
\* that changed (run.rs Event::Changed, watch.rs is_current).
THEOREM NoticesNameTheirFolder == Spec => []ChangedIsAboutItsPath
<1>1. IInv => ChangedIsAboutItsPath
  <2> SUFFICES ASSUME IInv, NEW i \in DOMAIN stdout, stdout[i].t = "changed"
               PROVE  FolderOf[stdout[i].path] = stdout[i].wd[1]
    BY DEF ChangedIsAboutItsPath
  <2>1. stdout[i] \in Lines  BY DEF IInv, Types
  <2>2. stdout[i] \in ChangedLines  BY <2>1 DEF Lines
  <2>3. QED  BY <2>2 DEF ChangedLines
<1>2. QED  BY <1>1, Invariance, PTL
=============================================================================
