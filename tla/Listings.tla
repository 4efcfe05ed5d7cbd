------------------------------ MODULE Listings ------------------------------
(***************************************************************************)
(* The listing the backend holds and the two walks that fill it in: a      *)
(* search of a subtree, ticked some folders at a time, and the sizes of    *)
(* the folders a pane shows, one at a time (run.rs, search.rs,             *)
(* dirsize.rs), with the pane that names its rows by index over the two    *)
(* pipes (PaneWire.qml, Search.js, Sort.js, DirSizes.js). Other programs   *)
(* add and delete entries meanwhile.                                       *)
(*                                                                         *)
(* An entry is its path under the root of one tree, a sequence of ASCII    *)
(* codes; the root is <<>>. A pane window holds the whole listing.         *)
(***************************************************************************)
EXTENDS Names, SequencesExt, TLC

CONSTANTS
  Entries,     (* the entries there may be, the root left out              *)
  Folders,     (* those that are directories, and the root                 *)
  Locked,      (* folders that cannot be read                              *)
  Fleeting,    (* entries other programs add and delete                    *)
  Orders,      (* the orders readdir may answer in                         *)
  Size, Mtime, (* what lstat says of an entry                              *)
  Opens,       (* folders the pane opens                                   *)
  Queries,     (* what the user searches for                               *)
  HiddenFlags, (* values of the pane's show-hidden switch                  *)
  Sorts,       (* the keys and directions the user sorts by                *)
  DirsPerTick, (* DIRS_PER_TICK                                            *)
  MaxAsks,     (* bound: what the user does                                *)
  MaxChanges   (* bound: what other programs do                            *)

ASSUME ListingsAssumption ==
  /\ Fleeting \subseteq Entries \ Folders
  /\ Locked \subseteq Folders /\ Folders \subseteq Entries \cup {<<>>}
  /\ Opens \subseteq Folders
  /\ DirsPerTick \in Nat \ {0}

VARIABLES
  disk,    (* the entries there are                                        *)
  base,    (* st.base and                                                  *)
  rows,    (* st.listing: name, dir                                        *)
  sizes,   (* st.dirsizes                                                  *)
  queue,   (* st.dirsize_queue                                             *)
  search,  (* st.search, <<>> or <<one>>                                   *)
  stdin,   (* requests on their way to the loop                            *)
  stdout,  (* lines on their way to the client                             *)
  pane,    (* the client                                                   *)
  used,    (* what of each bound is spent                                  *)
  walk     (* what was there during the last search, for the properties    *)

loopVars == <<base, rows, sizes, queue, search>>
vars == <<disk, loopVars, stdin, stdout, pane, used, walk>>

-----------------------------------------------------------------------------
(* The tree.                                                               *)

Cut(path) == Max({0} \cup {i \in DOMAIN path : path[i] = Slash})
Parent(path) == SubSeq(path, 1, Cut(path) - 1)
Home == [e \in Entries |-> Parent(e)]
Leaf(path) == SubSeq(path, Cut(path) + 1, Len(path))
Hidden == {e \in Entries : Leaf(e)[1] = 46}
Join(dir, name) ==
  IF dir = <<>> THEN name ELSE IF name = <<>> THEN dir ELSE dir \o <<Slash>> \o name

Readable(dir) == dir \in (disk \cup {<<>>}) \cap (Folders \ Locked)

\* What reading a folder answers, hidden entries dropped.
ReadDir(dir, order, hidden) ==
  SelectSeq(order, LAMBDA e : e \in disk /\ Home[e] = dir /\ (hidden \/ e \notin Hidden))

\* Size and time of an entry; zeroes once it is gone.
Stat(e, of) == IF e \in disk THEN of[e] ELSE 0

Row(name, entry) == [name |-> name, dir |-> entry \in Folders]

-----------------------------------------------------------------------------
(* Orders.                                                                 *)

Group(a, b, less) == IF a.dir = b.dir THEN less ELSE a.dir

\* A size order lists folders by name.
KeyBefore(a, b, by) ==
  LET Key(r) == IF by = "size" /\ ~r.dir THEN Stat(Join(base, r.name), Size)
                ELSE IF by = "mtime" THEN Stat(Join(base, r.name), Mtime)
                ELSE 0
  IN Key(a) < Key(b) \/ (Key(a) = Key(b) /\ NameBefore(a.name, b.name))

\* desc is the exact reverse inside each group.
Sorted(rs, by, desc) ==
  SortSeq(rs, LAMBDA a, b : Group(a, b, IF desc THEN KeyBefore(b, a, by)
                                                ELSE KeyBefore(a, b, by)))

ByName(rs) == SortSeq(rs, LAMBDA a, b : Group(a, b, NameBefore(a.name, b.name)))

\* What a scan lists.
Scan(dir, order, hidden) ==
  LET entries == ReadDir(dir, order, hidden)
  IN ByName([i \in DOMAIN entries |-> Row(Leaf(entries[i]), entries[i])])

-----------------------------------------------------------------------------
(* Searches.                                                               *)

Searching == search # <<>>

NewSearch(path, query, hidden) ==
  [root |-> path, query |-> query, hidden |-> hidden,
   pending |-> <<(<<>>)>>, scores |-> <<>>]

\* Rows a walk did not fill by itself are never reordered.
Reorders(w, rs) == Len(w.scores) = Len(rs) /\ Len(rs) >= 2

Ranked(w, rs) ==
  LET order == SortSeq([i \in DOMAIN rs |-> i], LAMBDA i, j :
                 RankBefore(rs[i].name, w.scores[i], rs[j].name, w.scores[j]))
  IN [i \in DOMAIN rs |-> rs[order[i]]]

\* finish_search on the search s, <<>> or <<one>>: the rows it leaves, whether
\* their order changed, and what it says.
Finish(s, rs, cancelled) ==
  IF s = <<>> THEN [rows |-> rs, reordered |-> FALSE, lines |-> <<>>]
  ELSE LET reordered == Reorders(s[1], rs)
       IN [rows |-> IF reordered THEN Ranked(s[1], rs) ELSE rs, reordered |-> reordered,
           lines |-> <<[t |-> "searched", n |-> Len(rs), cancelled |-> cancelled]>>]

\* One folder of the walk: its matches become rows, its folders are owed.
ReadOne(at, order) ==
  LET w == at.walk
      rel == Last(w.pending)
      dir == Join(w.root, rel)
      found == IF Readable(dir) THEN ReadDir(dir, order, w.hidden) ELSE <<>>
      names == [i \in DOMAIN found |-> Join(rel, Leaf(found[i]))]
      hits == SelectSeq(names, LAMBDA n : Matches(n, w.query))
      owed == SelectSeq(names, LAMBDA n : Join(w.root, n) \in Folders)
  IN [rows |-> at.rows \o [i \in DOMAIN hits |-> Row(hits[i], Join(w.root, hits[i]))],
      walk |-> [w EXCEPT !.pending = Front(@) \o owed,
                  !.scores = @ \o [i \in DOMAIN hits |-> Score(hits[i], w.query)]]]

\* One slice: some folders, the last owed first.
Slice(order) ==
  FoldLeft(LAMBDA at, n : IF at.walk.pending = <<>> THEN at ELSE ReadOne(at, order),
           [rows |-> rows, walk |-> search[1]], [n \in 1..DirsPerTick |-> n])

-----------------------------------------------------------------------------
(* Sizes.                                                                  *)

\* The entries under a folder in the order a walk meets them. A folder that
\* cannot be read has none.
Met(dir, order) ==
  LET under[d \in Folders] ==
        IF ~Readable(d) THEN <<>>
        ELSE LET es == ReadDir(d, order, TRUE)
             IN FlattenSeq([i \in DOMAIN es |->
                  <<es[i]>> \o (IF es[i] \in Folders THEN under[es[i]] ELSE <<>>)])
  IN under[dir]

SumSizes(es) == FoldLeft(LAMBDA sum, e : sum + Stat(e, Size), 0, es)

\* Slip: a folder that cannot be read is not a floor.
MeasuredBlind(dir, order) ==
  LET met == Met(dir, order)
  IN {[of |-> dir, bytes |-> Stat(dir, Size) + SumSizes(SubSeq(met, 1, n)),
       partial |-> n < Len(met) \/ dir \notin disk] : n \in 0..Len(met)}

\* What a walk may answer. Its deadline may fall after any entry, and then,
\* or past a folder it cannot read, what it saw is a floor.
Measured(dir, order) ==
  LET met == Met(dir, order)
      Blind(n) == \E d \in {dir} \cup ToSet(SubSeq(met, 1, n)) : d \in Folders /\ ~Readable(d)
      Late(n) == IF n < Len(met) THEN {TRUE}
                 ELSE IF Last(<<dir>> \o met) \in Folders THEN BOOLEAN ELSE {FALSE}
  IN UNION {{[of |-> dir, bytes |-> Stat(dir, Size) + SumSizes(SubSeq(met, 1, n)),
              partial |-> late \/ Blind(n) \/ dir \notin disk] : late \in Late(n)} :
            n \in 0..Len(met)}

-----------------------------------------------------------------------------
(* The pane.                                                               *)

NoSizes == [r \in {} |-> {}]
Asked == [of |-> <<>>]

ListReq(path, hidden) == [c |-> "list", path |-> path, hidden |-> hidden]
WindowReq == [c |-> "window"]

\* openWithoutHistory: a fresh listing forgets what was known by row.
Opened(p, path) ==
  [p EXCEPT !.flight = TRUE, !.seen = FALSE, !.path = path, !.rows = <<>>,
            !.sizes = NoSizes, !.by = "name", !.desc = FALSE]

Init ==
  /\ disk \in {Entries, Entries \ Fleeting}
  /\ base = <<>> /\ rows = <<>> /\ sizes = NoSizes /\ queue = <<>> /\ search = <<>>
  /\ stdout = <<>>
  /\ used = [asks |-> 0, changes |-> 0]
  /\ walk = [whole |-> FALSE, query |-> <<>>, hidden |-> FALSE, steady |-> {}, seen |-> {}]
  /\ \E hidden \in HiddenFlags :
       /\ pane = Opened([path |-> <<>>, from |-> <<>>, hidden |-> hidden, mode |-> "off",
                         running |-> FALSE, rows |-> <<>>, sizes |-> NoSizes,
                         flight |-> FALSE, seen |-> FALSE, by |-> "name", desc |-> FALSE], <<>>)
       /\ stdin = <<ListReq(<<>>, hidden)>>

-----------------------------------------------------------------------------
(* The loop.                                                               *)

Requested(c) == stdin # <<>> /\ Head(stdin).c = c

Say(lines) == stdout' = stdout \o lines

Answered == stdin' = Tail(stdin) /\ UNCHANGED <<disk, pane, used>>

ListedLine(rs) == [t |-> "listed", n |-> Len(rs)]
RowsLine(rs) == [t |-> "rows", rows |-> rs]
ErrorLine(where) == [t |-> "error", where |-> where]
SizeLine(row, size) == [t |-> "dirsized", row |-> row, size |-> size]

\* A new order of rows forgets what was known by row.
ForgetRows(changed) ==
  IF changed THEN sizes' = NoSizes /\ queue' = <<>> ELSE UNCHANGED <<sizes, queue>>

Ended(whole) ==
  /\ search' = <<>>
  /\ walk' = [walk EXCEPT !.whole = whole /\ Searching]

List ==
  /\ Requested("list") /\ Answered /\ Ended(FALSE)
  /\ LET ask == Head(stdin)
         left == Finish(search, rows, TRUE)
     IN IF Readable(ask.path)
          THEN \E order \in Orders :
                 LET scanned == Scan(ask.path, order, ask.hidden)
                 IN /\ base' = ask.path /\ rows' = scanned
                    /\ ForgetRows(TRUE)
                    /\ Say(left.lines \o <<ListedLine(scanned), RowsLine(scanned)>>)
          ELSE /\ UNCHANGED base /\ rows' = left.rows
               /\ ForgetRows(left.reordered)
               /\ Say(left.lines \o <<ErrorLine("scan")>>)

Window ==
  /\ Requested("window") /\ Answered
  /\ Say(<<RowsLine(rows)>>)
  /\ UNCHANGED <<loopVars, walk>>

StartSearch ==
  /\ Requested("search") /\ Answered
  /\ LET ask == Head(stdin)
     IN /\ base' = ask.path
        /\ search' = <<NewSearch(ask.path, ask.query, ask.hidden)>>
        /\ walk' = [whole |-> FALSE, query |-> ask.query, hidden |-> ask.hidden,
                    steady |-> disk, seen |-> disk]
  /\ rows' = <<>> /\ ForgetRows(TRUE)
  /\ Say(Finish(search, rows, TRUE).lines \o <<ListedLine(<<>>)>>)

SearchCancel ==
  /\ Requested("searchcancel") /\ Answered /\ Ended(FALSE)
  /\ rows' = Finish(search, rows, TRUE).rows
  /\ ForgetRows(Finish(search, rows, TRUE).reordered)
  /\ Say(Finish(search, rows, TRUE).lines)
  /\ UNCHANGED base

Keys == {"name", "size", "mtime"}

\* A search still running ends in its own order first.
Sort ==
  /\ Requested("sort") /\ Answered /\ Ended(FALSE)
  /\ LET ask == Head(stdin)
         left == Finish(search, rows, TRUE)
         known == ask.by \in Keys
         sorted == IF known THEN Sorted(left.rows, ask.by, ask.desc) ELSE left.rows
     IN /\ rows' = sorted
        /\ ForgetRows(left.reordered \/ known)
        /\ Say(left.lines \o <<IF known THEN ListedLine(sorted) ELSE ErrorLine("sort")>>)
  /\ UNCHANGED base

\* A row answered before is answered again at once; only a folder is asked.
QueueSizes ==
  /\ Requested("dirsize") /\ Answered
  /\ LET wanted == SelectSeq(Head(stdin).rows, LAMBDA r : r \in DOMAIN rows /\ rows[r].dir)
         known == SelectSeq(wanted, LAMBDA r : r \in DOMAIN sizes)
     IN /\ Say([i \in DOMAIN known |-> SizeLine(known[i], sizes[known[i]])])
        /\ queue' = queue \o SelectSeq(wanted, LAMBDA r : r \notin DOMAIN sizes \cup ToSet(queue))
  /\ UNCHANGED <<base, rows, sizes, search, walk>>

CancelSizes ==
  /\ Requested("dirsizecancel") /\ Answered
  /\ queue' = <<>>
  /\ UNCHANGED <<base, rows, sizes, search, walk, stdout>>

\* No request has arrived, and sizes go first.
WalkSize ==
  /\ queue # <<>>
  /\ LET row == Head(queue)
     IN IF row \notin DOMAIN rows THEN UNCHANGED <<sizes, stdout>>
        ELSE \E order \in Orders : \E size \in Measured(Join(base, rows[row].name), order) :
               /\ sizes' = (row :> size) @@ sizes
               /\ Say(<<SizeLine(row, size)>>)
  /\ queue' = Tail(queue)
  /\ UNCHANGED <<disk, base, rows, search, stdin, pane, used, walk>>

\* The walk's turn. Its count is announced when enough time has passed.
StepSearch ==
  /\ queue = <<>> /\ Searching
  /\ \E order \in Orders :
       LET after == Slice(order)
           left == Finish(<<after.walk>>, after.rows, FALSE)
       IN IF after.walk.pending = <<>>
            THEN /\ rows' = left.rows /\ Ended(TRUE)
                 /\ ForgetRows(left.reordered) /\ Say(left.lines)
            ELSE /\ rows' = after.rows /\ search' = <<after.walk>>
                 /\ \E told \in {<<>>, <<[t |-> "searching", n |-> Len(after.rows)]>>} : Say(told)
                 /\ UNCHANGED <<sizes, queue, walk>>
  /\ UNCHANGED <<disk, base, stdin, pane, used>>

Loop ==
  \/ List \/ Window \/ StartSearch \/ SearchCancel \/ Sort \/ QueueSizes \/ CancelSizes
  \/ WalkSize \/ StepSearch

-----------------------------------------------------------------------------
(* What the client makes of each line.                                     *)

Heard(t) == stdout # <<>> /\ Head(stdout).t = t

Send(requests) == stdin' = stdin \o requests

Hears(p, requests) ==
  /\ pane' = p /\ Send(requests)
  /\ stdout' = Tail(stdout)
  /\ UNCHANGED <<disk, loopVars, used, walk>>

OnListed == Heard("listed") /\ Hears([pane EXCEPT !.seen = @ \/ pane.flight], <<>>)

\* Rows that answer before the listing asked for are not its rows.
OnRows ==
  /\ Heard("rows")
  /\ Hears(IF pane.flight /\ ~pane.seen THEN pane
           ELSE [pane EXCEPT !.rows = Head(stdout).rows, !.flight = FALSE,
                             !.seen = @ /\ ~pane.flight], <<>>)

\* The count grew: the window is asked for when it drifts.
OnSearching ==
  /\ Heard("searching")
  /\ \E drift \in IF pane.mode = "results" THEN BOOLEAN ELSE {FALSE} :
       Hears(pane, IF drift THEN <<WindowReq>> ELSE <<>>)

\* Slip: the rows are re-read, what was known by row is kept.
OnSearchedKeeps ==
  /\ Heard("searched")
  /\ IF pane.mode = "results"
       THEN Hears([pane EXCEPT !.running = FALSE], <<WindowReq>>)
       ELSE Hears(pane, <<>>)

\* The rows were ranked: what was known by row goes, the window is re-read.
OnSearched ==
  /\ Heard("searched")
  /\ IF pane.mode = "results"
       THEN Hears([pane EXCEPT !.running = FALSE, !.sizes = NoSizes], <<WindowReq>>)
       ELSE Hears(pane, <<>>)

OnDirSized ==
  /\ Heard("dirsized")
  /\ LET line == Head(stdout)
     IN Hears(IF pane.flight THEN pane
              ELSE [pane EXCEPT !.sizes = (line.row :> line.size) @@ @], <<>>)

\* A refused sort changes nothing; any other error ends the wait.
OnFailed ==
  /\ Heard("error")
  /\ Hears(IF Head(stdout).where = "sort" THEN pane
           ELSE [pane EXCEPT !.flight = FALSE, !.seen = FALSE], <<>>)

Client == OnListed \/ OnRows \/ OnSearching \/ OnSearched \/ OnDirSized \/ OnFailed

-----------------------------------------------------------------------------
(* The user.                                                               *)

Does(p, requests) ==
  /\ used.asks < MaxAsks /\ used' = [used EXCEPT !.asks = @ + 1]
  /\ pane' = p /\ Send(requests)
  /\ UNCHANGED <<disk, loopVars, stdout, walk>>

\* Refused while a listing is in flight.
Open ==
  /\ ~pane.flight
  /\ \E path \in Opens : Does(Opened(pane, path), <<ListReq(path, pane.hidden)>>)

\* Nothing sorts a search. A key that names no order is refused by the backend
\* and moves no mark.
Resort ==
  /\ pane.mode = "off"
  /\ \E s \in Sorts \ {[by |-> pane.by, desc |-> pane.desc]} :
       LET ask == [c |-> "sort", by |-> s.by, desc |-> s.desc]
       IN IF s.by \in Keys
            THEN Does([pane EXCEPT !.by = s.by, !.desc = s.desc, !.sizes = NoSizes],
                      <<ask, WindowReq>>)
            ELSE Does(pane, <<ask>>)

\* The scope becomes the pane's path, and a second search keeps where the
\* first began.
RunSearch ==
  \E scope \in Opens, query \in Queries :
    Does([pane EXCEPT !.from = IF @ = <<>> THEN <<pane.path>> ELSE @, !.path = scope,
                      !.mode = "results", !.running = TRUE, !.rows = <<>>],
         <<[c |-> "search", path |-> scope, query |-> query, hidden |-> pane.hidden]>>)

\* Leaving lists the folder the search began in; a list in flight refuses.
Leave(p) ==
  LET out == [p EXCEPT !.mode = "off", !.running = FALSE, !.from = <<>>]
  IN IF p.flight THEN Does(out, <<>>)
     ELSE Does(Opened(out, p.from[1]), <<ListReq(p.from[1], p.hidden)>>)

\* Esc stops a walk that runs; the next one leaves.
Escape ==
  /\ pane.mode = "results"
  /\ IF pane.running THEN Does(pane, <<[c |-> "searchcancel"]>>) ELSE Leave(pane)

\* What a settled view asks for: the folders on screen never asked for.
SettledAsk ==
  LET plan == SelectSeq([i \in DOMAIN pane.rows |-> i],
                LAMBDA i : pane.rows[i].dir /\ i \notin DOMAIN pane.sizes)
  IN /\ ~pane.flight /\ plan # <<>>
     /\ pane' = [pane EXCEPT !.sizes = @ @@ [r \in ToSet(plan) |-> Asked]]
     /\ Send(<<[c |-> "dirsize", rows |-> plan]>>)
     /\ UNCHANGED <<disk, loopVars, stdout, used, walk>>

Pending == {r \in DOMAIN pane.sizes : pane.sizes[r] = Asked}

\* A scroll takes back what still waits.
Scroll ==
  /\ Pending # {}
  /\ Does([pane EXCEPT !.sizes = [r \in DOMAIN @ \ Pending |-> @[r]]],
          <<[c |-> "dirsizecancel"]>>)

User == Open \/ Resort \/ RunSearch \/ Escape \/ SettledAsk \/ Scroll

-----------------------------------------------------------------------------
\* Other programs.
Change ==
  /\ used.changes < MaxChanges /\ used' = [used EXCEPT !.changes = @ + 1]
  /\ \E e \in Fleeting :
       disk' = IF e \in disk THEN disk \ {e} ELSE disk \cup {e}
  /\ walk' = IF Searching THEN [walk EXCEPT !.steady = @ \cap disk', !.seen = @ \cup disk']
                          ELSE walk
  /\ UNCHANGED <<loopVars, stdin, stdout, pane>>

Next == Loop \/ Client \/ User \/ Change

Spec == Init /\ [][Next]_vars

\* Every request has a handler and every line a reader: the loop that takes
\* the next one is the step that does its work.
Serve == stdin # <<>> /\ stdin' = Tail(stdin)
Read == stdout # <<>> /\ stdout' = Tail(stdout)
Measure == queue # <<>> /\ queue' = Tail(queue)

\* Weak fairness of StepSearch, which is enabled whenever a search runs and no
\* size is queued, and always moves it.
SearchRuns == []<>(queue # <<>> \/ ~Searching) \/ []<><<queue = <<>>>>_search

\* The loop and the client's event loop keep running; the user and the other
\* programs owe nothing.
Fairness ==
  /\ WF_stdin(Serve) /\ WF_stdout(Read)
  /\ WF_queue(Measure) /\ SearchRuns

FairSpec == Spec /\ Fairness

-----------------------------------------------------------------------------
\* Every entry under the searched folder that could be reached, was there all
\* along and matches is listed, exactly once; nothing is listed that was never
\* there or does not match; and the better match comes first, then the shorter
\* path, then the name (search.rs step, read_one and rank over fuzzy.rs score,
\* however the walk is cut into slices and the tree changes under it).
Under(e, dir) == dir = <<>> \/ (Len(e) > Len(dir) /\ SubSeq(e, 1, Len(dir) + 1) = dir \o <<Slash>>)
Above == [e \in Entries |-> {n \in Entries : n = e \/ Under(e, n)}]
Reachable(e) ==
  \A n \in Above[e] : Under(n, base) =>
    Home[n] \notin Locked /\ (walk.hidden \/ n \notin Hidden)
SearchFindsAll ==
  walk.whole =>
    LET found == {Join(base, rows[i].name) : i \in DOMAIN rows}
        score == [i \in DOMAIN rows |-> Score(rows[i].name, walk.query)]
        Relative(e) == SubSeq(e, IF base = <<>> THEN 1 ELSE Len(base) + 2, Len(e))
    IN /\ Cardinality(found) = Len(rows)
       /\ \A e \in found : e \in walk.seen /\ Subsequence(walk.query, Relative(e))
       /\ \A e \in walk.steady :
            Under(e, base) /\ Reachable(e) /\ Subsequence(walk.query, Relative(e)) => e \in found
       /\ \A i \in 1..(Len(rows) - 1) :
            LET a == rows[i].name
                b == rows[i + 1].name
                by == <<score[i + 1] - score[i], Len(a) - Len(b)>>
            IN Before(by, <<0, 0>>) \/ (by = <<0, 0>> /\ FinderBefore(a, b))

\* What is known of a row was measured of the folder that row now is, and a
\* measure that is not marked partial is the folder's whole size: no sort,
\* rank, list or search leaves an answer behind for an index it has given to
\* another file (run.rs forget_rows, dirsizereq.rs, dirsize.rs).
AnswersAreTheirRows ==
  \A r \in DOMAIN sizes :
    /\ sizes[r].of = Join(base, rows[r].name)
    /\ ~sizes[r].partial /\ used.changes = 0 =>
         sizes[r].bytes = SumSizes(SetToSeq({e \in disk : e = sizes[r].of \/ Under(e, sizes[r].of)}))

\* A list or a sort answers every name once, folders first, in the order the
\* Finder shows: a directory has one listing, whatever order readdir or an
\* earlier search left it in, and desc is its exact reverse in each group
\* (sort.rs, metasort.rs).
InOrder(rs, by, desc) ==
  LET Key(r) == IF by = "size" /\ ~r.dir THEN Stat(Join(base', r.name), Size)
                ELSE IF by = "mtime" THEN Stat(Join(base', r.name), Mtime)
                ELSE 0
      Earlier(a, b) == Key(a) < Key(b) \/ (Key(a) = Key(b) /\ FinderBefore(a.name, b.name))
  IN \A i, j \in DOMAIN rs : i < j =>
       \/ rs[i].dir /\ ~rs[j].dir
       \/ rs[i].dir = rs[j].dir
          /\ IF desc THEN Earlier(rs[j], rs[i]) ELSE Earlier(rs[i], rs[j])
Served(c) == Requested(c) /\ stdin' = Tail(stdin)
OneOrder ==
  [][ /\ Served("list") /\ base' = Head(stdin).path /\ Readable(base') => InOrder(rows', "name", FALSE)
      /\ Served("sort") /\ Head(stdin).by \in Keys =>
           /\ InOrder(rows', Head(stdin).by, Head(stdin).desc)
           /\ ToSet(rows') = ToSet(rows) /\ Len(rows') = Len(rows) ]_vars

\* Both: what a listing or a search answers is all there is of it, once and in
\* its order (searchreq.rs, sort.rs, metasort.rs).
AnswersInOrder == []SearchFindsAll /\ OneOrder

\* Once the user stops, no folder the pane draws waits for its size and no
\* search is shown running: no order of searches, sorts, scrolls and late lines
\* leaves a drawn row that waits for ever (run.rs tick_walkers, PaneWire.qml
\* onSearched, DirSizes.js). A request the backend drops, for a row its listing
\* no longer has, stays asked, but of a row that is no longer drawn.
WaitsEnd ==
  <>[](/\ \A r \in Pending \cap DOMAIN pane.rows : ~pane.rows[r].dir
       /\ ~(pane.mode = "results" /\ pane.running))
=============================================================================
