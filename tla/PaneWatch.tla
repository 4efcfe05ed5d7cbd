------------------------------ MODULE PaneWatch ------------------------------
(***************************************************************************)
(* A pane that follows the folder it shows: the inotify watch the backend  *)
(* moves from listing to listing (watch.rs, run.rs), the thread that reads *)
(* it, the two pipes, and the client that owes the folder a re-read        *)
(* (PaneWire.qml, Nav.js). Other programs change the folders meanwhile.    *)
(*                                                                         *)
(* A listing is the path it was read from and the version of the folder it *)
(* holds. Timers carry no time: the 100 ms pause and the 400 ms settle may *)
(* end at any moment.                                                      *)
(***************************************************************************)
EXTENDS Naturals, SequencesExt, FiniteSets

CONSTANTS
  Folders,     (* directories, by inode                                    *)
  Paths,       (* the paths a pane can open                                *)
  FolderOf,    (* the directory a path names; two may name one             *)
  Start,       (* the path the window opens on                             *)
  QueueLimit,  (* max_queued_events                                        *)
  BatchLimit,  (* events one read of BUF bytes holds                       *)
  MaxChanges,  (* bound: changes other programs make                       *)
  MaxAsks,     (* bound: requests the user makes                           *)
  MaxFaults    (* bound: scans that fail and watches the kernel refuses    *)

ASSUME WatchAssumption ==
  /\ FolderOf \in [Paths -> Folders]
  /\ Start \in Paths
  /\ QueueLimit \in Nat \ {0} /\ BatchLimit \in Nat \ {0}
  /\ MaxChanges \in Nat /\ MaxAsks \in Nat /\ MaxFaults \in Nat

VARIABLES
  disk,     (* each folder's version; 0 once it is deleted                 *)
  kernel,   (* marks: the descriptors that watch; queue; last: the newest  *)
  notices,  (* Changed events on their way to the loop                     *)
  stdin,    (* requests on their way to the loop                           *)
  stdout,   (* lines on their way to the client                            *)
  watch,    (* wd and incoming of watch.rs                                 *)
  scanning, (* the list between begin and its scan: <<>> or <<path>>       *)
  listing,  (* what the backend lists: path, version                       *)
  pane,     (* the client                                                  *)
  used      (* what of each bound is spent                                 *)

vars == <<disk, kernel, notices, stdin, stdout, watch, scanning, listing, pane, used>>

\* A descriptor names the folder it was added for and is never used again.
None == <<>>
Overflow == <<"overflow">>
Gone == 0
Matches == 0

Listing(path, version) == [path |-> path, version |-> version]
NoListing == Listing(None, Gone)

\* What openWithoutHistory sends and forgets; hold is an editor, a filter or
\* a selection, which it closes, or the menu, which it does not.
Opened(p, path, hold) ==
  [p EXCEPT !.flight = TRUE, !.seen = FALSE, !.path = path, !.shown = NoListing,
            !.hold = hold, !.state = "loading",
            !.stale = @ /\ path = p.path, !.settle = @ /\ path = p.path]

ListLine(path) == [c |-> "list", path |-> path]

Init ==
  /\ disk = [d \in Folders |-> 1]
  /\ kernel = [marks |-> {}, queue |-> <<>>, last |-> 0]
  /\ notices = <<>>
  /\ stdin = <<ListLine(Start)>>
  /\ stdout = <<>>
  /\ watch = [wd |-> None, incoming |-> None]
  /\ scanning = <<>>
  /\ listing = NoListing
  /\ pane = [path |-> Start, shown |-> NoListing, flight |-> TRUE, seen |-> FALSE,
             mode |-> "off", hold |-> FALSE, stale |-> FALSE, settle |-> FALSE,
             state |-> "loading"]
  /\ used = [changes |-> 0, asks |-> 0, faults |-> 0]

-----------------------------------------------------------------------------
(* inotify.                                                                *)

\* A full queue takes one overflow mark and nothing more.
Queued(k, wd) ==
  IF Len(k.queue) < QueueLimit THEN [k EXCEPT !.queue = Append(@, wd)]
  ELSE IF Contains(k.queue, Overflow) THEN k
  ELSE [k EXCEPT !.queue = Append(@, Overflow)]

MarkOf(k, d) == {wd \in k.marks : wd[1] = d}

\* A folder already watched answers the descriptor it has.
Added(k, d) ==
  IF MarkOf(k, d) # {} THEN k
  ELSE [k EXCEPT !.marks = @ \cup {<<d, k.last + 1>>}, !.last = @ + 1]

\* Dropping a watch, or losing its folder, queues IN_IGNORED for it.
Dropped(k, wd) ==
  IF wd \in k.marks THEN Queued([k EXCEPT !.marks = @ \ {wd}], wd) ELSE k

Told(k, d) == IF MarkOf(k, d) = {} THEN k ELSE Queued(k, CHOOSE wd \in MarkOf(k, d) : TRUE)

OtherPrograms == UNCHANGED <<notices, stdin, stdout, watch, scanning, listing, pane>>

\* Another program changes what a listing of d says.
Change(d) ==
  /\ used.changes < MaxChanges
  /\ disk[d] # Gone
  /\ disk' = [disk EXCEPT ![d] = @ + 1]
  /\ kernel' = Told(kernel, d)
  /\ used' = [used EXCEPT !.changes = @ + 1]
  /\ OtherPrograms

\* The folder itself is deleted, and its watch with it.
Delete(d) ==
  /\ used.changes < MaxChanges
  /\ disk[d] # Gone
  /\ disk' = [disk EXCEPT ![d] = Gone]
  /\ kernel' = IF MarkOf(kernel, d) = {} THEN kernel
               ELSE Dropped(kernel, CHOOSE wd \in MarkOf(kernel, d) : TRUE)
  /\ used' = [used EXCEPT !.changes = @ + 1]
  /\ OtherPrograms

\* One read of the queue: a batch, each descriptor once.
Pump ==
  /\ kernel.queue # <<>>
  /\ LET n == IF Len(kernel.queue) < BatchLimit THEN Len(kernel.queue) ELSE BatchLimit
         batch == SubSeq(kernel.queue, 1, n)
     IN  /\ kernel' = [kernel EXCEPT !.queue = SubSeq(@, n + 1, Len(@))]
         /\ notices' = notices \o SetToSeq(ToSet(batch))
  /\ UNCHANGED <<disk, stdin, stdout, watch, scanning, listing, pane, used>>

-----------------------------------------------------------------------------
(* The loop.                                                               *)

Idle == scanning = <<>>
Say(lines) == stdout' = stdout \o lines
Take(c) == Idle /\ stdin # <<>> /\ Head(stdin).c = c /\ stdin' = Tail(stdin)

Lost(path) == disk[FolderOf[path]] = Gone

\* begin: the watch is armed before the folder is read, beside the current
\* one. incoming is empty between two lists.
ListBegin ==
  /\ Take("list")
  /\ LET path == Head(stdin).path
         d == FolderOf[path]
     IN  /\ scanning' = <<path>>
         /\ \/ /\ ~Lost(path)
               /\ kernel' = Added(kernel, d)
               /\ watch' = [watch EXCEPT !.incoming = CHOOSE wd \in MarkOf(kernel', d) : TRUE]
               /\ UNCHANGED used
            \/ /\ \/ Lost(path) /\ UNCHANGED used
                  \/ /\ MarkOf(kernel, d) = {}
                     /\ used.faults < MaxFaults
                     /\ used' = [used EXCEPT !.faults = @ + 1]
               /\ watch' = [watch EXCEPT !.incoming = None]
               /\ UNCHANGED kernel
  /\ UNCHANGED <<disk, notices, stdout, listing, pane>>

\* commit: the folder being left is dropped, unless it is the same one.
Commit ==
  /\ kernel' = IF watch.incoming = watch.wd THEN kernel ELSE Dropped(kernel, watch.wd)
  /\ watch' = [wd |-> watch.incoming, incoming |-> None]

\* Slip: the watch armed for a scan that failed stays.
AbandonLeaks ==
  /\ UNCHANGED kernel
  /\ watch' = [watch EXCEPT !.incoming = None]

Abandon ==
  /\ kernel' = IF watch.incoming = watch.wd THEN kernel ELSE Dropped(kernel, watch.incoming)
  /\ watch' = [watch EXCEPT !.incoming = None]

\* The scan, and the answer that rides on it.
ListDone ==
  /\ ~Idle
  /\ LET path == Head(scanning)
         read == Listing(path, disk[FolderOf[path]])
     IN  /\ ~Lost(path)
         /\ listing' = read
         /\ Commit
         /\ Say(<<[t |-> "listed"], [t |-> "rows", of |-> read]>>)
  /\ scanning' = <<>>
  /\ UNCHANGED <<disk, notices, stdin, pane, used>>

ListFails ==
  /\ ~Idle
  /\ \/ Lost(Head(scanning)) /\ UNCHANGED used
     \/ used.faults < MaxFaults /\ used' = [used EXCEPT !.faults = @ + 1]
  /\ Abandon
  /\ Say(<<[t |-> "error", scan |-> TRUE]>>)
  /\ scanning' = <<>>
  /\ UNCHANGED <<disk, notices, stdin, listing, pane>>

\* A walk's matches are not a directory: nothing is watched.
Search ==
  /\ Take("search")
  /\ listing' = Listing(Head(stdin).path, Matches)
  /\ kernel' = Dropped(kernel, watch.wd)
  /\ watch' = [wd |-> None, incoming |-> None]
  /\ Say(<<[t |-> "listed"]>>)
  /\ UNCHANGED <<disk, notices, scanning, pane, used>>

Window ==
  /\ Take("window")
  /\ Say(<<[t |-> "rows", of |-> listing]>>)
  /\ UNCHANGED <<disk, kernel, notices, watch, scanning, listing, pane, used>>

\* Any other request, answered by a refusal: a rename, say.
Refuse ==
  /\ Take("other")
  /\ Say(<<[t |-> "error", scan |-> FALSE]>>)
  /\ UNCHANGED <<disk, kernel, notices, watch, scanning, listing, pane, used>>

\* Slip: any descriptor counts as the open folder's.
IsCurrentAny(wd) == watch.wd # None

IsCurrent(wd) == watch.wd # None /\ wd = watch.wd

\* Event::Changed: said only of the folder being listed now.
Notice ==
  /\ Idle
  /\ notices # <<>>
  /\ notices' = Tail(notices)
  /\ Say(IF IsCurrent(Head(notices))
           THEN <<[t |-> "changed", path |-> listing.path, wd |-> Head(notices)]>>
           ELSE <<>>)
  /\ UNCHANGED <<disk, kernel, stdin, watch, scanning, listing, pane, used>>

-----------------------------------------------------------------------------
(* The client. watchBusy is the states that own the rows; any change of it *)
(* starts the settle timer when a re-read is owed.                         *)

WatchBusy(p) == p.flight \/ p.hold \/ p.mode # "off"

Becomes(new) ==
  pane' = [new EXCEPT !.settle = @ \/ (new.stale /\ WatchBusy(new) # WatchBusy(pane))]

Send(request) == stdin' = Append(stdin, request)

Ask == used.asks < MaxAsks /\ used' = [used EXCEPT !.asks = @ + 1]

ClientOnly == UNCHANGED <<disk, kernel, notices, stdout, watch, scanning, listing>>

\* A navigation, a refresh after an operation or the hidden toggle: refused
\* while a listing is in flight.
Open(path) ==
  /\ ~pane.flight
  /\ Ask
  /\ \E hold \in {FALSE, pane.hold} : Becomes(Opened(pane, path, hold))
  /\ Send(ListLine(path))
  /\ ClientOnly

\* An editor, the menu, a filter or a selection is opened or closed.
Hold ==
  /\ Ask
  /\ Becomes([pane EXCEPT !.hold = ~@])
  /\ UNCHANGED stdin /\ ClientOnly

Scroll ==
  /\ Ask
  /\ Send([c |-> "window"])
  /\ UNCHANGED pane /\ ClientOnly

Other ==
  /\ Ask
  /\ Send([c |-> "other"])
  /\ UNCHANGED pane /\ ClientOnly

\* A search below the folder shown; nothing stops one while a list is in
\* flight.
RunSearch ==
  /\ Ask
  /\ Becomes([pane EXCEPT !.mode = "results", !.shown = NoListing,
                          !.state = "loading", !.hold = FALSE])
  /\ Send([c |-> "search", path |-> pane.path])
  /\ ClientOnly

\* Leaving it re-lists, unless a listing is in flight.
CloseSearch ==
  /\ pane.mode = "results"
  /\ Ask
  /\ IF pane.flight
       THEN Becomes([pane EXCEPT !.mode = "off"]) /\ UNCHANGED stdin
       ELSE /\ Becomes(Opened([pane EXCEPT !.mode = "off"], pane.path, FALSE))
            /\ Send(ListLine(pane.path))
  /\ ClientOnly

Hear(t) == stdout # <<>> /\ Head(stdout).t = t /\ stdout' = Tail(stdout)

ClientHears == UNCHANGED <<disk, kernel, notices, stdin, watch, scanning, listing, used>>

\* Under a search the state follows its count.
OnListed ==
  /\ Hear("listed")
  /\ \E state \in IF pane.mode = "off" THEN {"ready"} ELSE {"ready", "loading"} :
       Becomes([pane EXCEPT !.seen = @ \/ pane.flight, !.state = state])
  /\ ClientHears

OnRows ==
  /\ Hear("rows")
  /\ IF pane.flight /\ ~pane.seen
       THEN UNCHANGED pane
       ELSE Becomes([pane EXCEPT !.shown = Head(stdout).of,
                                 !.flight = FALSE, !.seen = @ /\ ~pane.flight])
  /\ ClientHears

\* Slip: a change heard while the rows are held is not owed.
OnChangedUnlessBusy ==
  /\ Hear("changed")
  /\ IF Head(stdout).path # pane.path \/ WatchBusy(pane)
       THEN UNCHANGED pane
       ELSE pane' = [pane EXCEPT !.stale = TRUE, !.settle = TRUE]
  /\ ClientHears

OnChanged ==
  /\ Hear("changed")
  /\ IF Head(stdout).path # pane.path
       THEN UNCHANGED pane
       ELSE pane' = [pane EXCEPT !.stale = TRUE, !.settle = TRUE]
  /\ ClientHears

\* Any error releases the guard; a scan's, or one while loading, shows.
OnFailed ==
  /\ Hear("error")
  /\ Becomes([pane EXCEPT !.flight = FALSE, !.seen = FALSE,
                !.state = IF Head(stdout).scan \/ @ = "loading" THEN "error" ELSE @])
  /\ ClientHears

\* The settle timer: the owed re-read, kept while something holds the rows.
Reread ==
  /\ pane.settle
  /\ IF WatchBusy(pane)
       THEN pane' = [pane EXCEPT !.settle = FALSE] /\ UNCHANGED stdin
       ELSE /\ Becomes(Opened([pane EXCEPT !.settle = FALSE, !.stale = FALSE],
                              pane.path, FALSE))
            /\ Send(ListLine(pane.path))
  /\ UNCHANGED used /\ ClientOnly

-----------------------------------------------------------------------------
Loop == ListBegin \/ ListDone \/ ListFails \/ Search \/ Window \/ Refuse

Client == OnListed \/ OnRows \/ OnChanged \/ OnFailed

User ==
  \/ \E p \in Paths : Open(p)
  \/ Hold \/ Scroll \/ Other \/ RunSearch \/ CloseSearch

Outside == \E d \in Folders : Change(d) \/ Delete(d)

Next == User \/ Outside \/ Pump \/ Loop \/ Notice \/ Client \/ Reread

Spec == Init /\ [][Next]_vars

\* The threads, the loop and the client's event loop keep running. The user
\* and the other programs owe nothing.
Fairness ==
  /\ WF_vars(Pump) /\ WF_vars(Loop) /\ WF_vars(Notice)
  /\ WF_vars(Client) /\ WF_vars(Reread)

FairSpec == Spec /\ Fairness

-----------------------------------------------------------------------------
\* One folder is watched, and one more while a scan runs: no navigation, no
\* failed list and no search leaks a watch (watch.rs begin, commit, abandon,
\* stop), and a folder that keeps its descriptor across a re-list is never
\* unwatched by it.
OneWatch ==
  /\ kernel.marks \subseteq {watch.wd, watch.incoming}
  /\ watch.wd # None /\ disk[watch.wd[1]] # Gone => watch.wd \in kernel.marks

\* A changed line is about the folder whose path it carries, whatever was
\* queued for the folders left before it (run.rs Event::Changed).
ChangedIsAboutItsPath ==
  \A i \in DOMAIN stdout :
    stdout[i].t = "changed" => FolderOf[stdout[i].path] = stdout[i].wd[1]

\* What the pane shows is the folder as it is.
UpToDate == pane.shown = Listing(pane.path, disk[FolderOf[pane.path]])

\* The pane shows a folder, and no search or error has taken its place.
Showing == pane.mode = "off" /\ pane.state # "error" /\ listing.version # Matches

\* The backend follows the folder: the kernel did not refuse its watch.
Followed == watch.wd # None

\* Once the other programs and the user stop, a pane that is not held comes
\* to show its folder as it is, and stays so: no order of changes, lists,
\* failures and late notices loses the last change (watch.rs, PaneWire.qml
\* stale and watchSettle). And the pane then rests: a re-read never causes the
\* next one. A folder the kernel refuses to watch is not followed.
CatchesUp ==
  <>[](/\ Showing /\ Followed /\ ~pane.hold => UpToDate
       /\ stdin = <<>> /\ stdout = <<>> /\ ~pane.settle)
=============================================================================
